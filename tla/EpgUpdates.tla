-------------------------------- MODULE EpgUpdates --------------------------------
(***************************************************************************)
(* What a client is told of changes of the EPG (cVNSIClient::visit(StatusEpgChange)). *)
(* When VDR's schedules have changed the status thread queues a notice for every       *)
(* client; the client's thread looks for the first channel the client has asked for     *)
(* whose schedule goes further than what the client fetched last, tells it of that one   *)
(* channel and stops.  After four times without an answer the channel is passed over.   *)
(*                                                                         *)
(* EXTENDS the channel filter: the loop takes the same locks, and the channels a client   *)
(* has asked for are those it got from processCHANNELS_GetChannels.  The clients have    *)
(* enabled the status interface.                                                *)
(***************************************************************************)
EXTENDS ChannelFilter

CONSTANTS
  Schedules,    \* channels in the order of VDR's schedules
  MaxLast       \* bound: how far schedules go

ASSUME EpgAssumption == Schedules \in Seq(Channel) /\ MaxLast \in Nat

VARIABLES
  last,         \* start of the last event of each schedule; 0 when there is none
  notice,       \* clients with a StatusEpgChange in their queue
  known,        \* channels with an entry in m_epgUpdate
  epg           \* the entries: attempts, lastEvent, and whether lastTrigger is recent

epgVars == <<last, notice, known, epg>>
allEpgVars == <<channelVars, epgVars>>

NoUpdate == [attempts |-> 0, lastEvent |-> 0, recent |-> FALSE]

EpgTypeOK ==
  /\ FilterTypeOK
  /\ last \in [Channel -> 0..MaxLast] /\ notice \in SUBSET Client
  /\ known \in [Client -> SUBSET Channel]
  /\ epg \in [Client -> [Channel ->
       [attempts : 0..4, lastEvent : 0..MaxLast, recent : BOOLEAN]]]

EpgInit ==
  /\ FilterInit
  /\ last = [ch \in Channel |-> 0] /\ notice = {}
  /\ known = [c \in Client |-> {}]
  /\ epg = [c \in Client |-> [ch \in Channel |-> NoUpdate]]

-----------------------------------------------------------------------------

\* processCHANNELS_GetChannels makes an entry, unless there is one, for each channel it lists.
ListChannel(c) ==
  /\ NextChannel(c)
  /\ known' = [known EXCEPT ![c] = @ \union
       {ch \in {Head(walk[c])} : walking[c] = "allChannels" \/ (walking[c] = "channels" /\ Passes(ch))}]
  /\ UNCHANGED <<last, notice, epg>>

\* The notice is taken from the queue, and the channels are locked.
EpgLock(c) ==
  /\ walking[c] = "idle" /\ c \in notice
  /\ notice' = notice \ {c}
  /\ BeginWalk(c, "epg", Kept(Schedules, {ch \in Range(channels) : last[ch] # 0}))
  /\ UNCHANGED <<channels, filterMutex, filterVars, groups, edits, edited, upToDate, last, known, epg>>

\* The client is to be told of the channel now.
Due(c, ch) ==
  /\ Passes(ch) /\ ch \in known[c]
  /\ epg[c][ch].attempts <= 3 /\ epg[c][ch].lastEvent < last[ch] /\ ~epg[c][ch].recent

\* Faulty variant: the attempt is not counted.
TriggeredUncounted(u) == [u EXCEPT !.recent = TRUE]

Triggered(u) == [u EXCEPT !.attempts = @ + 1, !.recent = TRUE]

\* The loop's next channel: it is told, and the loop ends, or passed over.
EpgTrigger(c) ==
  /\ walking[c] = "epg" /\ walk[c] # << >> /\ Free(c) /\ Due(c, Head(walk[c]))
  /\ epg' = [epg EXCEPT ![c][Head(walk[c])] = Triggered(@)]
  /\ walk' = [walk EXCEPT ![c] = << >>]
  /\ UNCHANGED <<channels, channelReaders, filterMutex, filterVars, walking, groups, edits, edited, upToDate>>
  /\ UNCHANGED <<last, notice, known>>

EpgPass(c) ==
  /\ walking[c] = "epg" /\ walk[c] # << >> /\ Free(c) /\ ~Due(c, Head(walk[c]))
  /\ walk' = [walk EXCEPT ![c] = Tail(@)]
  /\ UNCHANGED <<channels, channelReaders, filterMutex, filterVars, walking, groups, edits, edited, upToDate, epgVars>>

EpgUnlock(c) ==
  /\ walking[c] = "epg" /\ walk[c] = << >>
  /\ channelReaders' = channelReaders \ {c} /\ walking' = [walking EXCEPT ![c] = "idle"]
  /\ UNCHANGED <<channels, filterMutex, filterVars, walk, groups, edits, edited, upToDate, epgVars>>

\* processEPG_GetForChannel.  The client may ask for any channel, one it was not listed too.
EpgGet(c) ==
  /\ walking[c] = "idle"
  /\ \E ch \in Range(Schedules) \intersect Range(channels) :
       /\ last[ch] # 0
       /\ known' = [known EXCEPT ![c] = @ \union {ch}]
       /\ epg' = [epg EXCEPT ![c][ch] =
            [@ EXCEPT !.lastEvent = last[ch], !.attempts = 0]]
  /\ UNCHANGED <<channelVars, last, notice>>

\* Five seconds after it was told of the channel.
Tick(c, ch) ==
  /\ epg[c][ch].recent
  /\ epg' = [epg EXCEPT ![c][ch].recent = FALSE]
  /\ UNCHANGED <<channelVars, last, notice, known>>

\* cVNSIStatus::Action, when the state of the schedules has changed.
Notice(c) ==
  /\ c \notin notice /\ notice' = notice \union {c}
  /\ UNCHANGED <<channelVars, last, known, epg>>

\* VDR receives events that come after those it has.
EpgGrows ==
  /\ \A c \in Client : walking[c] # "epg"
  /\ \E ch \in Range(Schedules), n \in 1..MaxLast :
       last[ch] < n /\ last' = [last EXCEPT ![ch] = n]
  /\ UNCHANGED <<channelVars, notice, known, epg>>

\* The requests for channels, groups and lists, and what happens to VDR's list.
FilterOnly ==
  /\ \/ \E c \in Client :
          \/ GetChannels(c) \/ GetGroupMembers(c) \/ EndWalk(c) \/ GroupsCount(c)
          \/ SetWhitelist(c) \/ SetBlacklist(c) \/ SetShort(c) \/ Sort(c)
     \/ EditList
  /\ UNCHANGED epgVars

EpgRestart ==
  /\ FilterRestart
  /\ notice' = {} /\ known' = [c \in Client |-> {}]
  /\ epg' = [c \in Client |-> [ch \in Channel |-> NoUpdate]] /\ UNCHANGED last

EpgStep(c) ==
  \/ ListChannel(c) \/ EpgLock(c) \/ EpgTrigger(c) \/ EpgPass(c) \/ EpgUnlock(c) \/ EpgGet(c)
  \/ Notice(c) \/ \E ch \in Channel : Tick(c, ch)

EpgNext == (\E c \in Client : EpgStep(c)) \/ EpgGrows \/ FilterOnly \/ EpgRestart

EpgSafety == EpgInit /\ [][EpgNext]_allEpgVars

\* The client's thread runs, and works off its queue in order (so a notice's turn comes,
\* whatever else is asked); VDR's schedules keep changing, in whatever; time passes.
EpgFairness ==
  \A c \in Client :
    /\ SF_allEpgVars(EpgLock(c))
    /\ WF_allEpgVars(ListChannel(c)) /\ WF_allEpgVars(EndWalk(c) /\ UNCHANGED epgVars)
    /\ WF_allEpgVars(Sort(c) /\ UNCHANGED epgVars)
    /\ WF_allEpgVars(EpgTrigger(c)) /\ WF_allEpgVars(EpgPass(c)) /\ WF_allEpgVars(EpgUnlock(c))
    /\ WF_allEpgVars(Notice(c)) /\ \A ch \in Channel : WF_allEpgVars(Tick(c, ch))

EpgSpec == EpgSafety /\ EpgFairness

-----------------------------------------------------------------------------

\* The client was listed the channel, its schedule is longer than what the client fetched,
\* and it was not told so four times.
Waiting(c, ch) ==
  /\ ch \in known[c] \intersect Range(channels) \intersect Range(Schedules) /\ Passes(ch)
  /\ epg[c][ch].lastEvent < last[ch] /\ epg[c][ch].attempts <= 3

\* A client is told of every channel whose schedule has grown until it fetches the schedule,
\* or four times, though only one channel is told of at a time: those that stand earlier and
\* that the client never fetches do not keep the others from their turn.  Only the two ways
\* in which the filter's mutex is lost to a client for good (FilterBlocked) end this.
EpgTold ==
  \A c \in Client, ch \in Channel :
    Waiting(c, ch) ~> \/ ~Waiting(c, ch)
                      \/ left /\ filterMutex # c
                      \/ FilterCycle

=============================================================================
