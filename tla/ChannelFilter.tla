------------------------------- MODULE ChannelFilter -------------------------------
(***************************************************************************)
(* The white list of providers and the black list of channels                  *)
(* (channelfilter.c), and what the requests for channels and groups make of      *)
(* them (vnsiclient.c, opcodes 61 to 72).  The filter is shared by all clients.   *)
(* When a list is set, VDR's channels are sorted: the ones that pass the filter    *)
(* come first.                                                                *)
(*                                                                         *)
(* A client's thread holds VDR's channels locked for reading while it walks over  *)
(* them and takes the filter's mutex for each one; the thread that sets a list     *)
(* keeps the mutex and waits to lock the channels for writing.  A request that ends  *)
(* in the middle of a list throws with the mutex locked by hand, and it stays so.    *)
(***************************************************************************)
EXTENDS Lists, SequencesExt, FiniteSetsExt, ClientThreads

CONSTANTS
  Channel,          \* channels and separators of groups
  Info,             \* what is known of each
  StartList,        \* VDR's list at first
  Entry,            \* what stands in white lists, <<provider, CA id>>
  Parsed,           \* what the line "provider|CA id" of an entry is read back as
  WhiteChoices,     \* white lists a client may set, for radio or TV
  BlackChoices,     \* black lists: sets of channels
  MaxEdits          \* bound: changes of VDR's list by others

ASSUME FilterAssumption ==
  /\ \A ch \in Channel :
       Info[ch].sep \in BOOLEAN /\ Info[ch].radio \in BOOLEAN /\ (Info[ch].sep => ~Info[ch].radio)
  /\ StartList \in Seq(Channel) /\ IsInjective(StartList) /\ MaxEdits \in Nat
  /\ Parsed \in [Entry -> SUBSET Entry]
  /\ \A r \in BOOLEAN : WhiteChoices[r] \subseteq SUBSET Entry /\ BlackChoices[r] \subseteq SUBSET Channel

VARIABLES
  channels,         \* VDR's channels
  channelReaders,      \* clients that hold them for reading
  filterMutex,        \* who holds the filter's m_Mutex
  white, black, \* m_providersVideo, m_providersRadio; m_channelsVideo, m_channelsRadio
  files,        \* the two, as they are stored
  left,         \* m_Mutex was left locked by a request that threw
  walking,           \* where each client's thread is
  walk,         \* channels its loop has still to put to the filter
  groups,       \* m_channelgroups
  edits,        \* changes of the list by others, so far
  edited,       \* history: there was one since the channels were last sorted
  upToDate      \* history: clients that asked for their groups when the list was as it is

filterVars == <<white, black, files, left>>
clientVars == <<walking, walk, groups>>
channelVars == <<channels, channelReaders, filterMutex, filterVars, clientVars, edits, edited, upToDate>>

NoGroups == [names |-> [r \in BOOLEAN |-> {}], automatic |-> FALSE]
Walks == {"channels", "allChannels", "members"}

FilterTypeOK ==
  /\ Range(channels) \subseteq Channel /\ IsInjective(channels)
  /\ channelReaders \in SUBSET Client /\ filterMutex \in Client \union {Nobody}
  /\ \A r \in BOOLEAN : white[r] \subseteq Entry /\ black[r] \subseteq Channel
  /\ left \in BOOLEAN /\ (left => filterMutex # Nobody)
  /\ walking \in [Client -> Walks \union {"idle", "sort", "epg"}]
  /\ \A c \in Client :
       /\ Range(walk[c]) \subseteq Channel
       /\ (c \in channelReaders) = (walking[c] \notin {"idle", "sort"})
       /\ walking[c] = "sort" => filterMutex = c
       /\ filterMutex = c => walking[c] = "sort" \/ left
  /\ edits \in 0..MaxEdits /\ edited \in BOOLEAN /\ upToDate \in SUBSET Client

FilterInit ==
  /\ channels = StartList /\ channelReaders = {} /\ filterMutex = Nobody
  /\ white = [r \in BOOLEAN |-> {}] /\ black = [r \in BOOLEAN |-> {}]
  /\ files = <<white, black>> /\ left = FALSE
  /\ walking = [c \in Client |-> "idle"] /\ walk = [c \in Client |-> << >>]
  /\ groups = [c \in Client |-> NoGroups]
  /\ edits = 0 /\ edited = FALSE /\ upToDate = {}

-----------------------------------------------------------------------------
(* The filter.                                                                  *)

\* f is the two lists, as they are or as they are stored.  An empty name equals none.
IsWhitelist(f, ch) ==
  LET W == f[1][Info[ch].radio]
      caids == IF Info[ch].caids = {} THEN {0} ELSE Info[ch].caids
  IN W = {} \/ (Info[ch].prov # "" /\ \E n \in caids : <<Info[ch].prov, n>> \in W)

PassFilter(f, ch) == Info[ch].sep \/ (IsWhitelist(f, ch) /\ ch \notin f[2][Info[ch].radio])

Filter == <<white, black>>
Passes(ch) == PassFilter(Filter, ch)

\* Faulty variant: the two channels change places.
MovedSwapped(l, from, to) == [l EXCEPT ![to] = l[from], ![from] = l[to]]

\* cListBase::Move from a place behind.
Moved(l, from, to) == InsertAt(RemoveAt(l, from), to, l[from])

\* The loop of SortChannels: the next channel that passes is moved before one that does not.
SortStep(f, l, i) ==
  LET later == {j \in (i + 1)..Len(l) : PassFilter(f, l[j])}
  IN IF PassFilter(f, l[i]) \/ later = {} THEN l ELSE Moved(l, Min(later), i)

SortChannels(f, l) ==
  LET sorted[i \in 0..Len(l)] == IF i = 0 THEN l ELSE SortStep(f, sorted[i - 1], i)
  IN sorted[Len(l)]

-----------------------------------------------------------------------------
(* Groups: the separators' names, or the providers.                              *)

\* The name that CreateChannelGroups and GetGroupMembers have at a place in the list.
NameAt(l, i, automatic) ==
  LET named == {j \in 1..i : Info[l[j]].sep # automatic}
  IN IF named = {} THEN ""
     ELSE IF automatic THEN Info[l[Max(named)]].prov ELSE Info[l[Max(named)]].name

\* Faulty variant: a group is made of each separator only, not of what follows it.
CreateChannelGroupsOnce(l, automatic) ==
  [r \in BOOLEAN |->
    {NameAt(l, i, automatic) :
       i \in {i \in 1..Len(l) : Info[l[i]].radio = r /\ (automatic \/ Info[l[i]].sep)}} \ {""}]

\* A separator counts as a TV channel.
CreateChannelGroups(l, automatic) ==
  [r \in BOOLEAN |->
    {NameAt(l, i, automatic) : i \in {i \in 1..Len(l) : Info[l[i]].radio = r}} \ {""}]

\* The channels of a group, before the filter.
Members(l, name, radio, automatic) ==
  Kept(l, {ch \in Channel :
    /\ ~Info[ch].sep /\ ~Info[ch].obsolete /\ Info[ch].radio = radio
    /\ name # "" /\ ch \in Range(l) /\ NameAt(l, CHOOSE i \in 1..Len(l) : l[i] = ch, automatic) = name})

GroupList(c, radio) == groups[c].names[radio]

-----------------------------------------------------------------------------
(* Requests.                                                                    *)

\* The thread that has the mutex locks it again without waiting.
Free(c) == filterMutex \in {Nobody, c}

BeginWalk(c, what, chs) ==
  /\ channelReaders' = channelReaders \union {c}
  /\ walking' = [walking EXCEPT ![c] = what] /\ walk' = [walk EXCEPT ![c] = chs]

\* Channels without a service id and obsolete ones are left out; the client says whether
\* the filter applies.
GetChannels(c) ==
  /\ walking[c] = "idle"
  /\ \E radio \in BOOLEAN, what \in {"channels", "allChannels"} :
       BeginWalk(c, what, Kept(channels, {ch \in Channel :
         Info[ch].radio = radio /\ ~Info[ch].invalid /\ ~Info[ch].obsolete}))
  /\ UNCHANGED <<channels, filterMutex, filterVars, groups, edits, edited, upToDate>>

GetGroupMembers(c) ==
  /\ walking[c] = "idle"
  /\ \E radio \in BOOLEAN : \E name \in GroupList(c, radio) :
       BeginWalk(c, "members", Members(channels, name, radio, groups[c].automatic))
  /\ UNCHANGED <<channels, filterMutex, filterVars, groups, edits, edited, upToDate>>

NextChannel(c) ==
  /\ walking[c] \in Walks /\ walk[c] # << >>
  /\ walking[c] # "allChannels" => Free(c)
  /\ walk' = [walk EXCEPT ![c] = Tail(@)]
  /\ UNCHANGED <<channels, channelReaders, filterMutex, filterVars, walking, groups, edits, edited, upToDate>>

EndWalk(c) ==
  /\ walking[c] \in Walks /\ walk[c] = << >>
  /\ channelReaders' = channelReaders \ {c} /\ walking' = [walking EXCEPT ![c] = "idle"]
  /\ UNCHANGED <<channels, filterMutex, filterVars, walk, groups, edits, edited, upToDate>>

GroupsCount(c) ==
  /\ walking[c] = "idle"
  /\ \E automatic \in BOOLEAN :
       groups' = [groups EXCEPT ![c] =
         [names |-> CreateChannelGroups(channels, automatic), automatic |-> automatic]]
  /\ upToDate' = upToDate \union {c}
  /\ UNCHANGED <<channels, channelReaders, filterMutex, filterVars, walking, walk, edits, edited>>

SetWhitelist(c) ==
  /\ walking[c] = "idle" /\ Free(c)
  /\ \E r \in BOOLEAN : \E w \in WhiteChoices[r] :
       /\ white' = [white EXCEPT ![r] = w]
       /\ files' = <<[files[1] EXCEPT ![r] = w], files[2]>>
  /\ filterMutex' = c /\ walking' = [walking EXCEPT ![c] = "sort"]
  /\ UNCHANGED <<channels, channelReaders, black, left, walk, groups, edits, edited, upToDate>>

SetBlacklist(c) ==
  /\ walking[c] = "idle" /\ Free(c)
  /\ \E r \in BOOLEAN : \E b \in BlackChoices[r] :
       /\ black' = [black EXCEPT ![r] = b]
       /\ files' = <<files[1], [files[2] EXCEPT ![r] = b]>>
  /\ filterMutex' = c /\ walking' = [walking EXCEPT ![c] = "sort"]
  /\ UNCHANGED <<channels, channelReaders, white, left, walk, groups, edits, edited, upToDate>>

\* The request ends within an entry: extract_String or extract_U32 throws, and visit goes on
\* to the next request with the entries that came in the list, nothing stored, nothing sorted
\* and the mutex locked.
SetShort(c) ==
  /\ walking[c] = "idle" /\ Free(c)
  /\ \E r \in BOOLEAN :
       \/ \E w \in WhiteChoices[r] : \E came \in SUBSET w :
            white' = [white EXCEPT ![r] = came] /\ UNCHANGED black
       \/ \E b \in BlackChoices[r] : \E came \in SUBSET b :
            black' = [black EXCEPT ![r] = came] /\ UNCHANGED white
  /\ filterMutex' = c /\ left' = TRUE
  /\ UNCHANGED <<channels, channelReaders, files, clientVars, edits, edited, upToDate>>

\* The channels are locked for writing with the mutex still held.
Sort(c) ==
  /\ walking[c] = "sort" /\ channelReaders = {}
  /\ channels' = SortChannels(Filter, channels) /\ edited' = FALSE /\ upToDate' = {}
  /\ filterMutex' = (IF left THEN c ELSE Nobody) /\ walking' = [walking EXCEPT ![c] = "idle"]
  /\ UNCHANGED <<channelReaders, filterVars, walk, groups, edits>>

-----------------------------------------------------------------------------

\* VDR, or its user, deletes a channel or adds one.
EditList ==
  /\ channelReaders = {} /\ edits < MaxEdits
  /\ \/ \E i \in DOMAIN channels : channels' = RemoveAt(channels, i)
     \/ \E ch \in Channel \ Range(channels), i \in 1..(Len(channels) + 1) : channels' = InsertAt(channels, i, ch)
  /\ edits' = edits + 1 /\ edited' = TRUE /\ upToDate' = {}
  /\ UNCHANGED <<channelReaders, filterMutex, filterVars, clientVars>>

\* Load: a name with a '|' or the end of a line in it does not come back as it was.
Loaded(f) == <<[r \in BOOLEAN |-> UNION {Parsed[e] : e \in f[1][r]}], f[2]>>

\* The server starts anew: the lists are loaded and the channels sorted.
FilterRestart ==
  /\ \A c \in Client : walking[c] = "idle"
  /\ white' = Loaded(files)[1] /\ black' = Loaded(files)[2] /\ filterMutex' = Nobody /\ left' = FALSE
  /\ channels' = SortChannels(Loaded(files), channels) /\ edited' = FALSE /\ upToDate' = {}
  /\ groups' = [c \in Client |-> NoGroups]
  /\ UNCHANGED <<channelReaders, files, walking, walk, edits>>

FilterStep(c) ==
  \/ GetChannels(c) \/ GetGroupMembers(c) \/ NextChannel(c) \/ EndWalk(c) \/ GroupsCount(c)
  \/ SetWhitelist(c) \/ SetBlacklist(c) \/ SetShort(c) \/ Sort(c)

FilterNext == (\E c \in Client : FilterStep(c)) \/ EditList \/ FilterRestart

FilterSpec == FilterInit /\ [][FilterNext]_channelVars

-----------------------------------------------------------------------------
(* Correctness.                                                                 *)

\* Whenever no list is being set and nobody else has changed VDR's channels since, the
\* channels that pass the filter stand before all that do not.
SortedFirst ==
  filterMutex = Nobody /\ ~edited =>
    \A i, j \in DOMAIN channels : i < j /\ Passes(channels[j]) => Passes(channels[i])

\* Sorting is a stable partition.  As separators pass, a channel that passes stays in the
\* group it was in.
SortIsStable ==
  [][channels' # channels /\ edits' = edits =>
       channels' = Kept(channels, {ch \in Channel : Passes(ch)'})
                  \o Kept(channels, {ch \in Channel : ~Passes(ch)'})]_<<channels, edits>>

\* As long as VDR's list is as it was when a client asked for the groups, every channel that
\* has a group is a member of exactly one of them (CreateChannelGroups and GetGroupMembers
\* find out the names each on its own).
GroupsComplete ==
  \A c \in upToDate :
    \A i \in DOMAIN channels :
      LET ch == channels[i] IN
        ~Info[ch].sep /\ ~Info[ch].obsolete /\ NameAt(channels, i, groups[c].automatic) # "" =>
          Cardinality({name \in GroupList(c, Info[ch].radio) :
            ch \in Range(Members(channels, name, Info[ch].radio, groups[c].automatic))}) = 1

\* The lists in force are those a client set and those a restart finds, but for how the lines
\* of a white list are read (StoreWhitelist, StoreBlacklist, Load); a request that threw
\* changes the lists for as long as the server runs.
FilterStored ==
  ~left =>
    /\ black = files[2]
    /\ \A r \in BOOLEAN : white[r] \in {files[1][r], Loaded(files)[1][r]}

\* Who sets a list keeps the filter's mutex while it waits for those that read the channels
\* (SortChannels), and one of these waits for the mutex in PassFilter.
FilterCycle ==
  \E c, d \in Client :
    /\ filterMutex = c /\ walking[c] = "sort"
    /\ d \in channelReaders /\ walking[d] # "allChannels" /\ walk[d] # << >>

\* What a request that has been begun waits for has come.
FilterGoesOn(c) ==
  \/ walking[c] \in Walks /\ (Free(c) \/ walking[c] = "allChannels" \/ walk[c] = << >>)
  \/ walking[c] = "sort" /\ channelReaders = {}

\* Where no request that has been begun can go on, it is for that one cycle, in which both
\* orders of the two locks meet, or for a mutex that a request left locked, and nothing else.
FilterBlocked ==
  (\E c \in Client : walking[c] # "idle") /\ (\A c \in Client : ~FilterGoesOn(c)) => FilterCycle \/ left

\* VDR's list is sorted by the lists in force, these are stored, the groups are those of the
\* list, and the locks can block requests in these two ways only.
FilterInv == FilterTypeOK /\ SortedFirst /\ FilterStored /\ GroupsComplete /\ FilterBlocked

=============================================================================
