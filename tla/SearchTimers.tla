------------------------------ MODULE SearchTimers ------------------------------
(***************************************************************************)
(* Search timers (vnsitimer.c) and the timer requests (vnsiclient.c): a       *)
(* search timer makes VDR timers, its children, of the events it matches.     *)
(*                                                                         *)
(* Three locks: clientLock is the static cVNSIClient::m_timerLock, which every *)
(* timer request holds, searchLock CVNSITimers::m_timerLock and vdrLock VDR's  *)
(* lock of its list of timers.  The search thread also reads VDR's schedules    *)
(* and recordings, and locks these lists one inside another.                   *)
(* What schedules, recordings and active timers hold changes at any time and    *)
(* is not kept: any events may be found, and one that has been moved is another. *)
(* A start time is the event and the margin the start is moved by, so that      *)
(* those of two events differ.                                                *)
(* by, dropped, stale and misread are history: which search timer a VDR timer   *)
(* comes from, the children that were deleted by hand, the children made from   *)
(* a copy of a search timer that had changed since, and the search timers       *)
(* whose line was not read as it was written.                                 *)
(***************************************************************************)
EXTENDS Naturals, SequencesExt, FiniteSets, ClientThreads

CONSTANTS
  Events, ChannelOf,          \* what may be shown at some time, and each event's channel
  Channels,                   \* the channels VDR may know
  Texts, Found,               \* searches, and the events each of them finds
  Odd,                        \* those with a ';' or the end of a line in them
  Fields,                     \* what clients set of a search timer: channel, text, active,
                              \* and whether its name has neither of these
  Margins,                    \* margins a search timer may have
  OwnMargins,                 \* VDR's own margin is 0 and that of the search timer is used
  MaxSearch, MaxTimers        \* bounds: search timers made, VDR timers made

ASSUME TimersAssumption ==
  /\ ChannelOf \in [Events -> Channels] /\ Found \in [Texts -> SUBSET Events]
  /\ Odd \subseteq Texts /\ Fields \subseteq [ch : Channels, text : Texts, on : BOOLEAN, plain : BOOLEAN]
  /\ OwnMargins \in BOOLEAN /\ MaxSearch \in Nat /\ MaxTimers \in Nat

VARIABLES
  search,       \* m_timers
  nextId,
  names,        \* number of search timers made
  file,         \* timers.vnsi
  vdr,          \* VDR's timers
  made,         \* number of VDR timers made
  doScan,
  snap,         \* the search thread's copy of the search timers
  todo,         \* search timers of the copy and events still to be looked at
  child,        \* the timer it is about to add, or has just added
  scan,         \* the search thread
  other,        \* VDR or a client has the list that the search thread asks for next
  clientLock, searchLock, vdrLock,
  readers,      \* clients that hold vdrLock for reading
  pc, arg,      \* per client: the request being executed
  named,        \* per client: search timers its list announced
  dropped, stale, misread

scanThread == <<doScan, snap, todo, child, scan>>
locks == <<clientLock, searchLock, vdrLock, readers>>
clientState == <<pc, arg, named>>
history == <<dropped, stale, misread>>
vars == <<search, nextId, names, file, vdr, made, other, scanThread, locks, clientState, history>>

Starts == Events \X (Margins \cup {0})

\* A search timer of the file: the name stands for the line, without id and margins.
Line == [name : 1..MaxSearch, ch : Channels, text : Texts, on : BOOLEAN, plain : BOOLEAN,
         created : SUBSET Starts]
SearchTimer == [id : 1..MaxSearch, name : 1..MaxSearch, ch : Channels, text : Texts, on : BOOLEAN,
                plain : BOOLEAN, margin : Margins, created : SUBSET Starts]
Timer == [id : 1..MaxTimers, ev : Events, start : Starts, rec : BOOLEAN, by : 0..MaxSearch]
NoTimer == [id |-> 0]

TimersTypeOK ==
  /\ search \in Seq(SearchTimer) /\ file \in Seq(Line) /\ nextId \in 0..MaxSearch /\ names \in 0..MaxSearch
  /\ other \in BOOLEAN
  /\ vdr \subseteq Timer /\ made \in 0..MaxTimers
  /\ doScan \in BOOLEAN /\ snap \in Seq(SearchTimer)
  /\ todo \subseteq (1..MaxSearch) \X Events /\ child \in Timer \cup {NoTimer}
  /\ scan \in {"idle", "write", "sched", "scan", "look", "note"}
  /\ clientLock \in Client \cup {Nobody} /\ searchLock \in Client \cup {Nobody}
  /\ vdrLock \in {"none", "scan"} /\ readers \subseteq Client
  /\ pc \in [Client -> {"idle", "begun", "listed", "children"}]
  /\ named \in [Client -> 0..MaxSearch]
  /\ dropped \subseteq (1..MaxSearch) \X Starts
  /\ stale \subseteq 1..MaxTimers /\ misread \subseteq 1..MaxSearch

TimersInit ==
  /\ search = << >> /\ nextId = 0 /\ names = 0 /\ file = << >> /\ vdr = {} /\ made = 0
  /\ other = FALSE /\ doScan = FALSE /\ snap = << >> /\ todo = {} /\ child = NoTimer /\ scan = "idle"
  /\ clientLock = Nobody /\ searchLock = Nobody /\ vdrLock = "none" /\ readers = {}
  /\ pc = [c \in Client |-> "idle"] /\ arg = [c \in Client |-> <<"none">>]
  /\ named = [c \in Client |-> 0]
  /\ dropped = {} /\ stale = {} /\ misread = {}

Ids(s) == {s[i].id : i \in DOMAIN s}
At(s, id) == CHOOSE i \in DOMAIN s : s[i].id = id
Writable == vdrLock = "none" /\ readers = {}

-----------------------------------------------------------------------------
(* Requests.  arg says what is asked for; the fields of a search timer, the number *)
(* of a timer and so on are chosen where the request looks at them first, and kept  *)
(* in arg by the one that has to wait again, <<op, id, fields>>.                   *)

Requests == {"list", "get", "add", "delete", "update", "addVdr", "deleteVdr", "updateVdr"}

Begin(c) ==
  /\ pc[c] = "idle" /\ clientLock = Nobody /\ clientLock' = c
  /\ pc' = [pc EXCEPT ![c] = "begun"]
  /\ \E op \in Requests : arg' = [arg EXCEPT ![c] = <<op>>]
  /\ UNCHANGED <<search, nextId, names, file, vdr, made, other, scanThread, searchLock, vdrLock,
                 readers, named, history>>

Asks(c, op) == pc[c] = "begun" /\ arg[c][1] = op

Done(c) ==
  /\ pc' = [pc EXCEPT ![c] = "idle"] /\ arg' = [arg EXCEPT ![c] = <<"none">>]
  /\ clientLock' = Nobody

\* GETCOUNT, and GET, which names the search timer a child comes from.
Get(c) ==
  /\ Asks(c, "get") /\ vdrLock = "none" /\ searchLock = Nobody
  /\ Done(c)
  /\ UNCHANGED <<search, nextId, names, file, vdr, made, other, scanThread, searchLock,
                 vdrLock, readers, named, history>>

\* GETLIST: VDR's timers and the number of search timers first ...
GetList(c) ==
  /\ Asks(c, "list") /\ vdrLock = "none" /\ searchLock = Nobody
  /\ readers' = readers \cup {c}
  /\ named' = [named EXCEPT ![c] = Len(search)]
  /\ pc' = [pc EXCEPT ![c] = "listed"]
  /\ UNCHANGED <<search, nextId, names, file, vdr, made, other, scanThread, clientLock, searchLock,
                 vdrLock, arg, history>>

\* ... the search timers themselves afterwards.
GetListSearch(c) ==
  /\ pc[c] = "listed" /\ searchLock = Nobody
  /\ readers' = readers \ {c}
  /\ named' = [named EXCEPT ![c] = 0]
  /\ Done(c)
  /\ UNCHANGED <<search, nextId, names, file, vdr, made, other, scanThread, searchLock, vdrLock,
                 history>>

Written(s) ==
  [i \in DOMAIN s |-> [name |-> s[i].name, ch |-> s[i].ch, text |-> s[i].text, on |-> s[i].on,
                       plain |-> s[i].plain, created |-> s[i].created]]

Save(s) == file' = Written(s)

Add(c) ==
  /\ Asks(c, "add") /\ searchLock = Nobody /\ names < MaxSearch
  /\ nextId' = nextId + 1 /\ names' = names + 1
  /\ \E f \in Fields, m \in Margins :
       search' = Append(search, [id |-> nextId + 1, name |-> names + 1, ch |-> f.ch,
                   text |-> f.text, on |-> f.on, plain |-> f.plain, margin |-> m, created |-> {}])
  /\ Save(search')
  /\ Done(c)
  /\ UNCHANGED <<vdr, made, other, scanThread, searchLock, vdrLock, readers, named, history>>

\* The client is told that there is no such timer (it may ask for any number), that there
\* is one already, or that it records.
Refused(c) ==
  /\ \/ Asks(c, "add") /\ names = MaxSearch     \* the bound
     \/ searchLock = Nobody /\ (Asks(c, "delete") \/ Asks(c, "update"))
     \/ Writable /\ (Asks(c, "deleteVdr") \/ Asks(c, "updateVdr"))
     \/ /\ Writable /\ Asks(c, "addVdr")
        /\ made = MaxTimers \/ \E t \in vdr, e \in Events : t.start = <<e, 0>>
  /\ Done(c)
  /\ UNCHANGED <<search, nextId, names, file, vdr, made, other, scanThread, searchLock,
                 vdrLock, readers, named, history>>

\* DeleteTimer and an UpdateTimer that changes the channel or the text keep searchLock
\* and ask for VDR's.
Reaches(c) ==
  /\ searchLock = Nobody
  /\ \E i \in DOMAIN search, f \in Fields :
       /\ Asks(c, "delete") \/ (Asks(c, "update") /\ (search[i].ch # f.ch \/ search[i].text # f.text))
       /\ arg' = [arg EXCEPT ![c] = IF Asks(c, "delete") THEN <<"delete", search[i].id>>
                                                       ELSE <<"update", search[i].id, f>>]
  /\ searchLock' = c
  /\ pc' = [pc EXCEPT ![c] = "children"]
  /\ UNCHANGED <<search, nextId, names, file, vdr, made, other, scanThread, clientLock, vdrLock,
                 readers, named, history>>

Updated(s, f, m) ==
  [s EXCEPT !.ch = f.ch, !.text = f.text, !.on = f.on, !.plain = f.plain, !.margin = m]

\* UpdateTimer: the request has no margins, the new ones are what was on the stack.
Update(c) ==
  /\ Asks(c, "update") /\ searchLock = Nobody
  /\ \E i \in DOMAIN search, f \in Fields, m \in Margins :
       /\ search[i].ch = f.ch /\ search[i].text = f.text
       /\ search' = [search EXCEPT ![i] = Updated(@, f, m)]
  /\ Save(search')
  /\ Done(c)
  /\ UNCHANGED <<nextId, names, vdr, made, other, scanThread, searchLock, vdrLock, readers, named,
                 history>>

\* GetParent: children are known by their channel and start.
IsParent(s, t) == ChannelOf[t.ev] = s.ch /\ t.start \in s.created

\* Faulty variant: the children are left.
DeleteChildrenNone(s) == vdr' = vdr

\* Those that record stay.
DeleteChildren(s) == vdr' = {t \in vdr : ~(IsParent(s, t) /\ ~t.rec)}

DeleteOrUpdate(c) ==
  /\ pc[c] = "children" /\ Writable
  /\ LET i == At(search, arg[c][2]) IN
       /\ DeleteChildren(search[i])
       /\ IF arg[c][1] = "delete"
            THEN search' = RemoveAt(search, i)
            ELSE \E m \in Margins :
                   search' = [search EXCEPT ![i] = Updated([@ EXCEPT !.created = {}], arg[c][3], m)]
       /\ dropped' = {d \in dropped : d[1] # search[i].name}
  /\ Save(search')
  /\ searchLock' = Nobody
  /\ Done(c)
  /\ UNCHANGED <<nextId, names, made, other, scanThread, vdrLock, readers, named, stale, misread>>

-----------------------------------------------------------------------------
(* Timers of VDR, by request and by VDR itself.                                 *)

NewTimer(e, start, name) ==
  [id |-> made + 1, ev |-> e, start |-> start, rec |-> FALSE, by |-> name]

AddVdr(c) ==
  /\ Asks(c, "addVdr") /\ Writable /\ made < MaxTimers
  /\ \E e \in Events :
       /\ \A t \in vdr : t.start # <<e, 0>>
       /\ vdr' = vdr \cup {NewTimer(e, <<e, 0>>, 0)}
  /\ made' = made + 1
  /\ Done(c)
  /\ UNCHANGED <<search, nextId, names, file, other, scanThread, searchLock, vdrLock, readers, named, history>>

\* Where the search timer that made it knows the timer as its child.
KnownChild(t) == \E i \in DOMAIN search : search[i].name = t.by /\ IsParent(search[i], t)

\* A timer that records is skipped and deleted if the client insists.
RemoveTimer(t) ==
  /\ vdr' = vdr \ {t}
  /\ dropped' = IF KnownChild(t) THEN dropped \cup {<<t.by, t.start>>} ELSE dropped

DeleteVdr(c) ==
  /\ Asks(c, "deleteVdr") /\ Writable
  /\ \E t \in vdr : RemoveTimer(t)
  /\ Done(c)
  /\ UNCHANGED <<search, nextId, names, file, made, other, scanThread, searchLock, vdrLock, readers, named,
                 stale, misread>>

\* An update may make a child a timer for something else.
UpdateVdr(c) ==
  /\ Asks(c, "updateVdr") /\ Writable
  /\ \E t \in vdr, e \in Events :
       vdr' = (vdr \ {t}) \cup {[t EXCEPT !.ev = e, !.start = <<e, 0>>, !.by = 0]}
  /\ Done(c)
  /\ UNCHANGED <<search, nextId, names, file, made, other, scanThread, searchLock, vdrLock, readers, named, history>>

\* VDR deletes a timer in its menu, and begins and ends recordings.
Vdr ==
  /\ Writable
  /\ \/ \E t \in vdr : RemoveTimer(t)
     \/ \E t \in vdr :
          /\ ~t.rec
          /\ vdr' = (vdr \ {t}) \cup {[t EXCEPT !.rec = TRUE]}
          /\ UNCHANGED dropped
     \/ \E t \in vdr : t.rec /\ vdr' = vdr \ {t} /\ UNCHANGED dropped
  /\ UNCHANGED <<search, nextId, names, file, made, other, scanThread, locks, clientState, stale, misread>>

-----------------------------------------------------------------------------
(* The search thread (CVNSITimers::Action).                                      *)

\* Scan(), by the status thread every five seconds.
Scan ==
  /\ ~doScan /\ doScan' = TRUE
  /\ UNCHANGED <<search, nextId, names, file, vdr, made, other, snap, todo, child, scan, locks, clientState, history>>

TakeCopy ==
  /\ scan = "idle" /\ doScan /\ searchLock = Nobody
  /\ doScan' = FALSE /\ snap' = search /\ scan' = "write"
  /\ UNCHANGED <<search, nextId, names, file, vdr, made, other, todo, child, locks, clientState, history>>

ScanLock ==
  /\ scan = "write" /\ Writable
  /\ vdrLock' = "scan" /\ scan' = "sched"
  /\ UNCHANGED <<search, nextId, names, file, vdr, made, other, doScan, snap, todo, child, clientLock,
                 searchLock, readers, clientState, history>>

Matches(s, e) == s.on /\ ChannelOf[e] = s.ch /\ e \in Found[s.text]

\* The schedules, which hold some of the events, are locked until the end of the scan.
ScanBegin ==
  /\ scan = "sched" /\ ~other
  /\ scan' = "scan"
  /\ todo' \in SUBSET {p \in (DOMAIN snap) \X Events : Matches(snap[p[1]], p[2])}
  /\ UNCHANGED <<search, nextId, names, file, vdr, made, other, doScan, snap, child, locks, clientState, history>>

Start(s, e) == <<e, IF OwnMargins THEN s.margin ELSE 0>>

\* Faulty variant: children that exist no more are not known.
IsChildVdr(t) == \E u \in vdr : u.start = t.start

\* (The code has the ids of the copy, which are those of the names till the plugin is stopped.)
IsChild(t) == \E i \in DOMAIN search : search[i].name = t.by /\ t.start \in search[i].created

\* The recordings are locked while a match is looked at.  It is passed over if a recording
\* or an active timer is found that is of the same show, or begins at about the same time.
PassOver(p) ==
  /\ scan = "scan" /\ p \in todo /\ ~other
  /\ todo' = todo \ {p}
  /\ UNCHANGED <<search, nextId, names, file, vdr, made, other, doScan, snap, child, scan, locks, clientState, history>>

Match(p) ==
  /\ scan = "scan" /\ p \in todo /\ ~other
  /\ made < MaxTimers
  /\ child' = NewTimer(p[2], Start(snap[p[1]], p[2]), snap[p[1]].name)
  /\ todo' = todo \ {p} /\ scan' = "look"
  /\ UNCHANGED <<search, nextId, names, file, vdr, made, other, doScan, snap, locks, clientState, history>>

\* It was made a child before.
ChildKnown ==
  /\ scan = "look" /\ searchLock = Nobody /\ IsChild(child)
  /\ scan' = "scan" /\ child' = NoTimer
  /\ UNCHANGED <<search, nextId, names, file, vdr, made, other, doScan, snap, todo, locks, clientState, history>>

AddChild ==
  /\ scan = "look" /\ searchLock = Nobody /\ ~IsChild(child)
  /\ vdr' = vdr \cup {child} /\ made' = made + 1
  /\ scan' = "note"
  /\ stale' = IF \E i \in DOMAIN search : search[i].name = child.by /\ Matches(search[i], child.ev)
                THEN stale ELSE stale \cup {child.id}
  /\ UNCHANGED <<search, nextId, names, file, other, doScan, snap, todo, child, locks, clientState,
                 dropped, misread>>

\* The child is noted with the search timer as it is now, if there is one.
NoteChild ==
  /\ scan = "note" /\ searchLock = Nobody
  /\ search' = [i \in DOMAIN search |->
       IF search[i].name = child.by THEN [search[i] EXCEPT !.created = @ \cup {child.start}]
                                    ELSE search[i]]
  /\ IF search' # search THEN Save(search') ELSE UNCHANGED file
  /\ scan' = "scan" /\ child' = NoTimer
  /\ UNCHANGED <<nextId, names, vdr, made, other, doScan, snap, todo, locks, clientState, history>>

ScanEnd ==
  /\ scan = "scan" /\ todo = {}
  /\ vdrLock' = "none" /\ scan' = "idle" /\ snap' = << >>
  /\ UNCHANGED <<search, nextId, names, file, vdr, made, other, doScan, todo, child, clientLock,
                 searchLock, readers, clientState, history>>

-----------------------------------------------------------------------------
(* VDR's schedules and recordings, which others hold for a while.  Whoever has one keeps *)
(* no other lock of these and goes on; it matters while the search thread asks for it.  *)

ListTaken ==
  /\ ~other /\ (scan = "sched" \/ (scan = "scan" /\ todo # {}))
  /\ other' = TRUE
  /\ UNCHANGED <<search, nextId, names, file, vdr, made, scanThread, locks, clientState, history>>

ListLeft ==
  /\ other /\ other' = FALSE
  /\ UNCHANGED <<search, nextId, names, file, vdr, made, scanThread, locks, clientState, history>>

-----------------------------------------------------------------------------
(* The plugin is stopped, with no client left, and started again: the search      *)
(* timers are read from the file, with new ids and margins that were on the stack.  *)

\* What Load makes of a line.  A ';' or the end of a line in the name or in the search is
\* not told from those of the file: a name or a search is cut off, and starts are lost.
IsRead(s, i, line) ==
  /\ s.id = i /\ s.name = line.name /\ s.ch = line.ch /\ s.on = line.on
  /\ line.plain => s.plain
  /\ line.text \notin Odd => s.text = line.text /\ s.created = line.created
  /\ s.created \subseteq line.created

\* Lines whose channel is not known now are skipped, and such names may cost the whole line.
Restart ==
  /\ \A c \in Client : pc[c] = "idle"
  /\ scan = "idle"
  /\ \E n \in 0..Len(file), known \in SUBSET Channels :
       \E from \in [1..n -> DOMAIN file], s \in [1..n -> SearchTimer] :
         LET skipped == {i \in DOMAIN file : \A j \in 1..n : from[j] # i}
         IN /\ \A j, k \in 1..n : j < k => from[j] < from[k]
            /\ \A j \in 1..n : file[from[j]].ch \in known /\ IsRead(s[j], j, file[from[j]])
            /\ \A i \in skipped : file[i].ch \notin known \/ ~file[i].plain
            /\ search' = s /\ nextId' = n
            /\ misread' = misread \cup
                 {file[i].name : i \in {i \in DOMAIN file :
                   i \in skipped \/ ~file[i].plain \/ file[i].text \in Odd}}
  /\ doScan' = FALSE
  /\ UNCHANGED <<names, file, vdr, made, other, snap, todo, child, scan, locks, clientState, dropped, stale>>

ClientStep(c) ==
  \/ Get(c) \/ GetList(c) \/ GetListSearch(c) \/ Add(c) \/ Refused(c) \/ Reaches(c) \/ Update(c)
  \/ DeleteOrUpdate(c) \/ AddVdr(c) \/ DeleteVdr(c) \/ UpdateVdr(c)

ScanStep ==
  \/ TakeCopy \/ ScanLock \/ ScanBegin \/ ChildKnown \/ AddChild \/ NoteChild \/ ScanEnd
  \/ \E p \in todo : PassOver(p) \/ Match(p)

TimersNext ==
  \/ \E c \in Client : Begin(c) \/ ClientStep(c)
  \/ Vdr \/ ListTaken \/ ListLeft \/ Scan \/ ScanStep \/ Restart

TimersSpec == TimersInit /\ [][TimersNext]_vars

-----------------------------------------------------------------------------
(* Correctness. *)

\* The number of timers a list announces is the number of timers that follow, though
\* the two are read at different times.
ListConsistent == \A c \in Client : pc[c] = "listed" => named[c] = Len(search)

\* Whenever nobody is changing the search timers the file holds them, so that a restart
\* forgets neither a search timer nor which children it made: all but those whose lines an
\* earlier restart could not read as they were written.
FileCurrent ==
  searchLock = Nobody =>
    {l \in Range(file) : l.name \notin misread} = {l \in Range(Written(search)) : l.name \notin misread}

\* A child that was deleted by hand is not made again by its search timer, across
\* restarts and for as long as the search is not changed and its line can be read.  A
\* child is known by its start: the event is another child when it has been moved, or
\* when the margin has changed.
NotRecreated ==
  [][\A t \in vdr' \ vdr : t.id = made + 1 /\ t.by \notin misread =>
       <<t.by, t.start>> \notin dropped]_vars

\* A child whose search timer is gone or looks for something else is there only because
\* it recorded then, was made from a copy that was out of date, or its search timer was not
\* read back.
NoOrphans ==
  \A t \in vdr : t.by # 0 /\ t # child =>
    \/ t.rec \/ t.id \in stale \/ t.by \in misread
    \/ \E i \in DOMAIN search : search[i].name = t.by /\ IsParent(search[i], t)

\* A request that changes search timers keeps their lock and waits for VDR's, the search
\* thread keeps VDR's, with the schedules and the recordings, and waits for theirs.
TimersCycle ==
  \E c \in Client :
    /\ searchLock = c /\ pc[c] = "children"
    /\ vdrLock = "scan" /\ scan \in {"look", "note"}

\* The locks that a request which has been begun waits for are free.
TimerGoesOn(c) ==
  \/ (Asks(c, "get") \/ Asks(c, "list")) /\ vdrLock = "none" /\ searchLock = Nobody
  \/ (\E op \in {"add", "delete", "update"} : Asks(c, op)) /\ searchLock = Nobody
  \/ (\E op \in {"addVdr", "deleteVdr", "updateVdr"} : Asks(c, op)) /\ Writable
  \/ pc[c] = "listed" /\ searchLock = Nobody
  \/ pc[c] = "children" /\ Writable

\* The search thread has something to do, and the lock for it is free, or will be, as
\* whoever changes the schedules or the recordings goes on.
SearchGoesOn ==
  \/ scan = "idle" /\ doScan /\ searchLock = Nobody
  \/ scan = "write" /\ Writable
  \/ scan \in {"sched", "scan"}
  \/ scan \in {"look", "note"} /\ searchLock = Nobody

\* Five locks, taken one inside another by requests, VDR and the search thread: where no
\* request and no scan that has been begun can go on, it is for that one cycle, in which
\* both orders of the locks meet, and nothing else.
TimersBlocked ==
  (\E c \in Client : pc[c] # "idle") /\ (\A c \in Client : ~TimerGoesOn(c)) /\ ~SearchGoesOn
    => TimersCycle

\* Search timers, their children, the file and what a client is sent agree, and the locks
\* can block requests in one way only.
TimersInv == TimersTypeOK /\ FileCurrent /\ NoOrphans /\ ListConsistent /\ TimersBlocked

=============================================================================
