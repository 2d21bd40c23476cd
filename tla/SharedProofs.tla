------------------------------ MODULE SharedProofs ------------------------------
(***************************************************************************)
(* Proofs about what the threads of all clients share: the OSD of module Osd, the *)
(* recordings of module Recordings and the search timers of module SearchTimers, for *)
(* any number of clients, windows, changes, recordings, requests, events, search timers *)
(* and VDR timers; and that the composition in module MCShared has the behaviours of its *)
(* parts only.                                                             *)
(*                                                                         *)
(* What a client shows is right only between flushes, and while it connects *)
(* at any time.  The inductive invariant says whose socket the provider may *)
(* have (SocketInv), where VDR's thread is (FlushInv), that a client never   *)
(* shows a window VDR does not have (ClosedInv), and of which windows the    *)
(* client already shows what has been sent last (SentInv).                   *)
(*                                                                         *)
(* VDR's lists of recordings follow the disk only between the steps of a      *)
(* deletion, which holds no lock between the two: the inductive invariant      *)
(* accounts for each difference by a deletion that is half done (ListedInv)    *)
(* and says which request holds which lock (RecordingsLockInv).               *)
(*                                                                         *)
(* NoOrphans is inductive with what makes a search timer known again: ids and *)
(* names that belong to one search timer each, in the search thread's copy,   *)
(* too (SearchInv), a search timer for the child that is still to be noted     *)
(* (ChildInv), and one for the request that waits for VDR's lock (RequestInv). *)
(* Who holds which lock follows from where everybody is (TimersLockInv).      *)
(* NotRecreated needs that the children deleted by hand are in the lists of    *)
(* those made, or recorded (DeletedInv), which holds if there is one margin.   *)
(***************************************************************************)
EXTENDS MCShared, DataLemmas

-----------------------------------------------------------------------------
(* The OSD. *)

\* The socket is that of a client that has a provider; a session that has ended has none.
\* As long as no flush has begun since a client connected, a full one is requested.
SocketInv ==
  /\ socket # Nobody => socket \in osds
  /\ osds \cap gone = {}
  /\ socket # Nobody /\ ~since => requestFull

\* Only an active OSD is flushed.
FlushInv ==
  /\ fpc # "idle" => active
  /\ fpc = "clear" => ~shown
  /\ fpc = "block" => window <= count

\* The client has none of the windows VDR does not have, and none at all between the
\* flushes of an OSD that is not shown.
ClosedInv ==
  socket # Nobody => \A w \in Windows :
    w > count \/ (fpc \in {"idle", "clear"} /\ ~shown) => view[socket][w] = Closed

\* Windows of which the client shows what was sent last: all between flushes, and during a
\* flush those it has passed, or all again if it sends changes only.
SentInv ==
  since /\ socket # Nobody => \A w \in Windows : w <= count =>
    /\ fpc = "idle" /\ shown => view[socket][w] = dirty[w]
    /\ fpc \in {"open", "block"} /\ (w < window \/ (shown /\ ~full)) => view[socket][w] = dirty[w]

OsdIInv == OsdTypeOK /\ SocketInv /\ FlushInv /\ ClosedInv /\ SentInv

-----------------------------------------------------------------------------
(* What clients show. *)

Contents == Closed..MaxDraws

\* Whatever is drawn, and a window that is closed or half drawn, is a content.
LEMMA ContentsHas == 0..MaxDraws \subseteq Contents /\ Closed \in Contents /\ Mixed \in Contents
  BY OsdAssumption DEF Contents, Closed, Mixed

\* Where a flush starts.
LEMMA FirstWindow == 1 \in 1..(MaxWindows + 1)
  BY OsdAssumption

\* A client that connects shows nothing.
LEMMA NoViewType == NoView \in [Windows -> Contents]
  BY ContentsHas DEF NoView

\* What is read of a client's view is a content.
LEMMA ShowsType ==
  ASSUME OsdIInv, NEW w \in Windows PROVE Shows(w) \in Contents
  BY ContentsHas DEF OsdIInv, OsdTypeOK, Contents, Shows

\* Sending one window keeps the view's type.
LEMMA SendType ==
  ASSUME OsdIInv, NEW w \in Windows, NEW content \in Contents, Send(w, content)
  PROVE view' \in [Client -> [Windows -> Contents]]
  BY DEF OsdIInv, OsdTypeOK, Contents, Send

\* Sending all windows does, too.
LEMMA SendAllType ==
  ASSUME OsdIInv, NEW f \in [Windows -> Contents], SendAll(f)
  PROVE view' \in [Client -> [Windows -> Contents]]
  BY DEF OsdIInv, OsdTypeOK, Contents, SendAll

\* Closing the windows there are leaves the client none.
LEMMA CloseAll ==
  ASSUME OsdIInv, fpc = "idle",
         IF shown THEN SendAll([w \in Windows |-> IF w <= count THEN Closed ELSE Shows(w)])
                  ELSE UNCHANGED view
  PROVE /\ view' \in [Client -> [Windows -> Contents]]
        /\ socket # Nobody => \A w \in Windows : view'[socket][w] = Closed
<1>1. CASE ~shown
  BY <1>1 DEF OsdIInv, OsdTypeOK, ClosedInv, Contents
<1>2. CASE shown
  <2> DEFINE f == [w \in Windows |-> IF w <= count THEN Closed ELSE Shows(w)]
  <2>1. f \in [Windows -> Contents]
    BY ShowsType, ContentsHas
  <2>2. SendAll(f)
    BY <1>2
  <2>3. ASSUME socket # Nobody, NEW w \in Windows PROVE view'[socket][w] = Closed
    <3>1. view'[socket] = f
      BY <2>2, <2>3 DEF OsdIInv, OsdTypeOK, SendAll
    <3>2. w <= count \/ view[socket][w] = Closed
      BY <2>3 DEF OsdIInv, OsdTypeOK, ClosedInv, Windows
    <3> QED
      BY <3>1, <3>2, <2>3 DEF Shows
  <2> QED
    BY <2>1, <2>2, <2>3, SendAllType
<1> QED
  BY <1>1, <1>2

\* At first there is no client and no OSD.
LEMMA OsdInitInv == OsdInit => OsdIInv
<1> SUFFICES ASSUME OsdInit PROVE OsdIInv
  OBVIOUS
<1>1. OsdTypeOK
  <2>1. 0 \in 0..MaxDraws /\ 0 \in 0..MaxWindows /\ 0 \in 0..MaxAreas
    BY OsdAssumption
  <2> QED
    BY NoViewType, FirstWindow, <2>1 DEF OsdInit, OsdTypeOK, Contents
<1>2. SocketInv /\ FlushInv /\ ClosedInv /\ SentInv
  BY DEF OsdInit, SocketInv, FlushInv, ClosedInv, SentInv
<1> QED
  BY <1>1, <1>2 DEF OsdIInv

-----------------------------------------------------------------------------
(* The provider. *)

\* A client that connects has no windows yet and asks for all of them.
LEMMA ConnectKeeps == ASSUME OsdIInv, NEW c \in Client, Connect(c) PROVE OsdIInv'
<1>1. OsdTypeOK'
  BY NoViewType DEF OsdIInv, OsdTypeOK, Contents, Connect, osdVars, flushVars
<1>2. SocketInv'
  BY DEF OsdIInv, SocketInv, Connect
<1>3. FlushInv'
  BY DEF OsdIInv, FlushInv, Connect, osdVars, flushVars
<1>4. ClosedInv'
  BY DEF OsdIInv, ClosedInv, Connect, OsdTypeOK, NoView
<1>5. SentInv'
  BY DEF SentInv, Connect
<1> QED
  BY <1>1, <1>2, <1>3, <1>4, <1>5 DEF OsdIInv

\* Whoever drops a provider leaves no socket behind.
LEMMA DisconnectKeeps == ASSUME OsdIInv, NEW c \in Client, Disconnect(c) PROVE OsdIInv'
<1>1. OsdTypeOK'
  BY NoViewType DEF OsdIInv, OsdTypeOK, Contents, Disconnect, DropProvider, osdVars, flushVars
<1>2. SocketInv'
  BY DEF OsdIInv, SocketInv, Disconnect, DropProvider
<1>3. FlushInv'
  BY DEF OsdIInv, FlushInv, Disconnect, osdVars, flushVars
<1>4. ClosedInv'
  BY DEF ClosedInv, Disconnect, DropProvider
<1>5. SentInv'
  BY DEF SentInv, Disconnect, DropProvider
<1> QED
  BY <1>1, <1>2, <1>3, <1>4, <1>5 DEF OsdIInv

\* A session that ends has dropped its provider.
LEMMA EndSessionKeeps == ASSUME OsdIInv, NEW c \in Client, EndSession(c) PROVE OsdIInv'
<1>1. OsdTypeOK'
  BY NoViewType DEF OsdIInv, OsdTypeOK, Contents, EndSession, DropProvider, osdVars, flushVars
<1>2. SocketInv'
  BY DEF OsdIInv, SocketInv, EndSession, DropProvider
<1>3. FlushInv'
  BY DEF OsdIInv, FlushInv, EndSession, osdVars, flushVars
<1>4. ClosedInv'
  BY DEF OsdIInv, ClosedInv, EndSession, DropProvider, osdVars, flushVars, NoView
<1>5. SentInv'
  BY DEF OsdIInv, SentInv, EndSession, DropProvider, osdVars, flushVars, SocketInv
<1> QED
  BY <1>1, <1>2, <1>3, <1>4, <1>5 DEF OsdIInv

-----------------------------------------------------------------------------
(* VDR's thread. *)

\* The windows are closed before there are new ones.
LEMMA SetAreasKeeps == ASSUME OsdIInv, SetAreas PROVE OsdIInv'
<1> USE DEF providerVars, flushVars
<1>0. /\ view' \in [Client -> [Windows -> Contents]]
      /\ socket # Nobody => \A w \in Windows : view'[socket][w] = Closed
  BY CloseAll DEF SetAreas
<1>1. OsdTypeOK'
  <2>1. count' \in 0..MaxWindows /\ areas' \in 0..MaxAreas
    BY OsdAssumption DEF OsdIInv, OsdTypeOK, SetAreas
  <2>2. 0 \in 0..MaxDraws
    BY OsdAssumption
  <2> QED
    BY <1>0, <2>1, <2>2 DEF OsdIInv, OsdTypeOK, Contents, SetAreas
<1>2. SocketInv'
  BY DEF OsdIInv, SocketInv, SetAreas
<1>3. FlushInv'
  BY DEF FlushInv, SetAreas
<1>4. ClosedInv'
  BY <1>0 DEF ClosedInv, SetAreas
<1>5. SentInv'
  BY DEF SentInv, SetAreas
<1> QED
  BY <1>1, <1>2, <1>3, <1>4, <1>5 DEF OsdIInv

\* An OSD that becomes active is not shown, so the client has no windows to clear.
LEMMA ActivateKeeps == ASSUME OsdIInv, Activate PROVE OsdIInv'
<1> DEFINE f == [w \in Windows |-> IF Shows(w) = Closed THEN Closed ELSE 0]
<1> USE DEF providerVars, osdVars, flushVars
<1>0. f \in [Windows -> Contents] /\ SendAll(f)
  BY ContentsHas, OsdAssumption DEF Activate
<1>a. ~shown
  BY DEF Activate, OsdIInv, OsdTypeOK
<1>b. socket # Nobody => \A w \in Windows : view'[socket][w] = Closed
  BY <1>0, <1>a DEF Activate, OsdIInv, ClosedInv, SendAll, Shows
<1>1. OsdTypeOK'
  <2>1. view' \in [Client -> [Windows -> Contents]]
    BY <1>0, SendAllType
  <2> QED
    BY <2>1, <1>a DEF OsdIInv, OsdTypeOK, Contents, Activate
<1>2. SocketInv'
  BY DEF OsdIInv, SocketInv, Activate
<1>3. FlushInv'
  BY DEF OsdIInv, FlushInv, Activate, OsdTypeOK
<1>4. ClosedInv'
  BY <1>b DEF ClosedInv, Activate
<1>5. SentInv'
  BY <1>a DEF SentInv, Activate
<1> QED
  BY <1>1, <1>2, <1>3, <1>4, <1>5 DEF OsdIInv

\* All windows there are get closed.
LEMMA DeactivateKeeps == ASSUME OsdIInv, Deactivate PROVE OsdIInv'
<1> USE DEF providerVars, flushVars
<1>0. /\ view' \in [Client -> [Windows -> Contents]]
      /\ socket # Nobody => \A w \in Windows : view'[socket][w] = Closed
  BY CloseAll DEF Deactivate, CloseWindows
<1>1. OsdTypeOK'
  BY <1>0 DEF OsdIInv, OsdTypeOK, Contents, Deactivate, CloseWindows
<1>2. SocketInv'
  BY DEF OsdIInv, SocketInv, Deactivate
<1>3. FlushInv'
  BY DEF FlushInv, Deactivate
<1>4. ClosedInv'
  BY <1>0 DEF ClosedInv, Deactivate
<1>5. SentInv'
  BY DEF SentInv, Deactivate, CloseWindows
<1> QED
  BY <1>1, <1>2, <1>3, <1>4, <1>5 DEF OsdIInv

\* Drawing changes neither what was sent nor what the client shows.
LEMMA DrawKeeps == ASSUME OsdIInv, NEW w \in Windows, Draw(w) PROVE OsdIInv'
<1>1. OsdTypeOK'
  BY OsdAssumption DEF OsdIInv, OsdTypeOK, Draw, providerVars, flushVars
<1>2. SocketInv'
  BY DEF OsdIInv, SocketInv, Draw, providerVars
<1>3. FlushInv'
  BY DEF FlushInv, Draw, flushVars
<1>4. ClosedInv'
  BY DEF OsdIInv, ClosedInv, Draw, providerVars
<1>5. SentInv'
  BY DEF OsdIInv, SentInv, Draw, providerVars, flushVars
<1> QED
  BY <1>1, <1>2, <1>3, <1>4, <1>5 DEF OsdIInv

\* A flush that sends changes only begins with all windows as they were sent.
LEMMA FlushBeginKeeps == ASSUME OsdIInv, FlushBegin PROVE OsdIInv'
<1>1. OsdTypeOK'
  BY FirstWindow DEF OsdIInv, OsdTypeOK, FlushBegin, osdVars
<1>2. SocketInv'
  BY DEF OsdIInv, SocketInv, FlushBegin
<1>3. FlushInv'
  BY DEF OsdIInv, FlushInv, FlushBegin, osdVars
<1>4. ClosedInv'
  BY DEF OsdIInv, ClosedInv, FlushBegin, osdVars
<1>5. SentInv'
  BY DEF OsdIInv, SentInv, FlushBegin, osdVars, FlushInv, SocketInv, Windows
<1> QED
  BY <1>1, <1>2, <1>3, <1>4, <1>5 DEF OsdIInv

\* Opening a window that the client has leaves it alone, if there is no reset.
LEMMA FlushOpenKeeps == ASSUME OsdIInv, FlushOpen PROVE OsdIInv'
<1>0. window \in Windows
  BY OsdAssumption DEF FlushOpen, OsdIInv, OsdTypeOK, Windows
<1>1. OsdTypeOK'
  <2>1. view' \in [Client -> [Windows -> Contents]]
    BY <1>0, ContentsHas, ShowsType, SendType, OsdAssumption DEF FlushOpen
  <2> QED
    BY <2>1 DEF OsdIInv, OsdTypeOK, Contents, FlushOpen, providerVars, osdVars
<1>2. SocketInv'
  BY DEF OsdIInv, SocketInv, FlushOpen, providerVars
<1>3. FlushInv'
  BY DEF OsdIInv, FlushInv, FlushOpen, osdVars
<1>4. ClosedInv'
  BY DEF OsdIInv, ClosedInv, FlushOpen, Send, providerVars, osdVars, OsdTypeOK
<1>5. SentInv'
  BY DEF OsdIInv, SentInv, FlushOpen, Send, Shows, providerVars, osdVars, OsdTypeOK, Closed
<1> QED
  BY <1>1, <1>2, <1>3, <1>4, <1>5 DEF OsdIInv

\* The window that is passed is right afterwards.
LEMMA FlushBlockKeeps == ASSUME OsdIInv, FlushBlock PROVE OsdIInv'
<1>0. window \in Windows /\ window <= count
  BY OsdAssumption DEF FlushBlock, OsdIInv, OsdTypeOK, FlushInv, Windows
<1>a. ASSUME socket # Nobody, NEW w \in Windows, w # window PROVE view'[socket][w] = view[socket][w]
  BY <1>a DEF FlushBlock, Send, OsdIInv, OsdTypeOK
<1>b. ASSUME socket # Nobody, view[socket][window] = dirty[window] \/ ~shown \/ full
      PROVE view'[socket][window] = drawn[window]
  BY <1>0, <1>b DEF FlushBlock, Send, Shows, OsdIInv, OsdTypeOK
<1>c. ASSUME NEW w \in Windows PROVE dirty'[w] = IF w = window THEN drawn[w] ELSE dirty[w]
  BY DEF FlushBlock, OsdIInv, OsdTypeOK
<1>1. OsdTypeOK'
  <2>1. view' \in [Client -> [Windows -> Contents]]
    BY <1>0, ContentsHas, SendType DEF FlushBlock, OsdIInv, OsdTypeOK, Contents
  <2>2. window + 1 \in 1..(MaxWindows + 1)
    BY <1>0, OsdAssumption DEF Windows
  <2> QED
    BY <2>1, <2>2, <1>0 DEF OsdIInv, OsdTypeOK, Contents, FlushBlock, providerVars
<1>2. SocketInv'
  BY DEF OsdIInv, SocketInv, FlushBlock, providerVars
<1>3. FlushInv'
  BY DEF OsdIInv, FlushInv, FlushBlock
<1>4. ClosedInv'
  <2> SUFFICES ASSUME socket # Nobody, NEW w \in Windows, w > count PROVE view'[socket][w] = Closed
    BY DEF ClosedInv, FlushBlock, providerVars
  <2>1. w # window
    BY <1>0 DEF OsdIInv, OsdTypeOK
  <2>2. view[socket][w] = Closed
    BY DEF OsdIInv, ClosedInv
  <2> QED
    BY <2>1, <2>2, <1>a
<1>5. SentInv'
  <2> SUFFICES ASSUME since, socket # Nobody, NEW w \in Windows, w <= count,
                      w < window + 1 \/ (shown /\ ~full)
               PROVE view'[socket][w] = dirty'[w]
    BY DEF SentInv, FlushBlock, providerVars
  <2>1. fpc = "block"
    BY DEF FlushBlock
  <2>2. CASE w = window
    <3>1. view[socket][w] = dirty[w] \/ ~shown \/ full
      BY <2>1, <2>2 DEF OsdIInv, SentInv
    <3> QED
      BY <3>1, <2>2, <1>b, <1>c
  <2>3. CASE w # window
    <3>1. w < window \/ (shown /\ ~full)
      BY <1>0, <2>3 DEF Windows
    <3>2. view[socket][w] = dirty[w]
      BY <3>1, <2>1 DEF OsdIInv, SentInv
    <3> QED
      BY <3>2, <2>3, <1>a, <1>c
  <2> QED
    BY <2>2, <2>3
<1> QED
  BY <1>1, <1>2, <1>3, <1>4, <1>5 DEF OsdIInv

\* All windows have been passed.
LEMMA FlushEndKeeps == ASSUME OsdIInv, FlushEnd PROVE OsdIInv'
<1> USE DEF providerVars
<1>1. OsdTypeOK'
  BY FirstWindow DEF OsdIInv, OsdTypeOK, FlushEnd, FlushInv
<1>2. SocketInv'
  BY DEF OsdIInv, SocketInv, FlushEnd
<1>3. FlushInv'
  BY DEF FlushInv, FlushEnd
<1>4. ClosedInv'
  BY DEF OsdIInv, ClosedInv, FlushEnd
<1>5. SentInv'
  BY DEF OsdIInv, SentInv, FlushEnd, OsdTypeOK, Windows
<1> QED
  BY <1>1, <1>2, <1>3, <1>4, <1>5 DEF OsdIInv

-----------------------------------------------------------------------------

\* All actions together.
LEMMA OsdNextKeeps == ASSUME OsdIInv, [OsdNext]_osdAllVars PROVE OsdIInv'
<1>1. CASE OsdNext
  BY <1>1, ConnectKeeps, DisconnectKeeps, EndSessionKeeps, SetAreasKeeps, ActivateKeeps,
     DeactivateKeeps, DrawKeeps, FlushBeginKeeps, FlushOpenKeeps, FlushBlockKeeps, FlushEndKeeps
     DEF OsdNext
<1>2. CASE UNCHANGED osdAllVars
  BY <1>2 DEF osdAllVars, providerVars, osdVars, flushVars, OsdIInv, OsdTypeOK, SocketInv, FlushInv,
     ClosedInv, SentInv
<1> QED
  BY <1>1, <1>2

\* Between flushes the inductive invariant says what OsdInv does.
LEMMA OsdIInvImplies == OsdIInv => OsdInv
<1> SUFFICES ASSUME OsdIInv PROVE OsdInv
  OBVIOUS
<1>1. SocketAlive
  BY ClientAssumption DEF OsdIInv, SocketInv, SocketAlive, OsdTypeOK
<1>2. ViewRight
  BY DEF OsdIInv, OsdTypeOK, ClosedInv, SentInv, ViewRight, Clean, Windows
<1>3. NothingLeft
  BY DEF OsdIInv, OsdTypeOK, ClosedInv, NothingLeft, NoView
<1> QED
  BY <1>1, <1>2, <1>3 DEF OsdIInv, OsdInv

\* The client that has the OSD shows what VDR shows between flushes, once one has begun since
\* it connected, however often clients connect and leave while VDR flushes (vnsiosd.c); no
\* windows stay behind, and nothing is written to a socket that is gone.
THEOREM ClientShowsOsd == OsdSpec => []OsdInv
<1>1. OsdInit => OsdIInv
  BY OsdInitInv
<1>2. OsdIInv /\ [OsdNext]_osdAllVars => OsdIInv'
  BY OsdNextKeeps
<1>3. OsdIInv => OsdInv
  BY OsdIInvImplies
<1> QED
  BY <1>1, <1>2, <1>3, PTL DEF OsdSpec

-----------------------------------------------------------------------------
(* The recordings. *)

\* Who holds which lock follows from where the requests are.
RecordingsLockInv ==
  /\ \A c \in Client :
       /\ c \in recReaders <=> at[c] = "list"
       /\ c \in delReaders <=> at[c] = "listDel"
       /\ cacheMutex = c <=> at[c] \in {"lookRead", "deleteFind"}
       /\ recWriter = c <=> at[c] \in {"rename", "undelete"}
  /\ delWriter = Nobody

\* The deletion of a recording has renamed its files and not yet changed VDR's lists.
Pending(n) == \E c \in Client : at[c] = "deleteList" /\ found[c] = Live(n)

\* VDR's lists differ from the disk by the deletions that are half done, and these have no
\* files any more.
ListedInv ==
  /\ \A f \in recs : f[2] = "rec"
  /\ \A f \in dels : f[2] = "del"
  /\ \A c \in Client : at[c] \in {"deleteDo", "deleteList"} => found[c] # NoFile
  /\ ~crossed => \A c \in Client : at[c] = "deleteList" => found[c] \notin disk
  /\ ~crossed /\ ~rescan => \A n \in Name :
       /\ Live(n) \in disk => Live(n) \in recs
       /\ Live(n) \in recs => Live(n) \in disk \/ Pending(n)
       /\ Deleted(n) \in dels => Deleted(n) \in disk
       /\ Deleted(n) \in disk => Deleted(n) \in dels \/ (Pending(n) /\ Live(n) \in recs)

RecordingsIInv == RecordingsTypeOK /\ RecordingsLockInv /\ ListedInv /\ OnlyLiveFound

\* A file is a recording's or a deleted one's.
LEMMA FileKinds ==
  /\ \A f \in Files : f[1] \in Name /\ f[2] \in {"rec", "del"} /\ f = <<f[1], f[2]>>
  /\ \A n \in Name : Live(n) \in Files /\ Deleted(n) \in Files /\ Live(n) # Deleted(n)
  /\ NoFile \notin Files
BY DEF Files, Live, Deleted, NoFile

\* Every file has a number.
LEMMA NumbersExist == \A f \in Files : Hash[f] \in Uid
BY DEF Uid

\* There is a number that no file has.
LEMMA NoUidIsNumber == NoUid \in Uid
BY NumbersExist, FileKinds, RecordingsAssumption DEF NoUid

\* At first VDR's lists are those of the disk and nobody asks for anything.
LEMMA RecordingsInitInv == RecordingsInit => RecordingsIInv
<1> SUFFICES ASSUME RecordingsInit PROVE RecordingsIInv
  OBVIOUS
<1> USE DEF RecordingsInit
<1>1. RecordingsTypeOK
  <2>1. recs \in SUBSET Files /\ dels \in SUBSET Files
    OBVIOUS
  <2>2. number \in [Client -> Uid] /\ cache \in [Uid -> Files \union {NoFile}]
    BY NoUidIsNumber
  <2>3. requests \in 0..MaxRequests
    BY RecordingsAssumption
  <2> QED
    BY <2>1, <2>2, <2>3 DEF RecordingsTypeOK, NoAnswer
<1>2. RecordingsLockInv
  BY ClientAssumption DEF RecordingsLockInv
<1>3. ListedInv
  BY FileKinds DEF ListedInv, Live, Deleted
<1>4. OnlyLiveFound
  BY DEF OnlyLiveFound, NoAnswer
<1> QED
  BY <1>1, <1>2, <1>3, <1>4 DEF RecordingsIInv

Places == {"idle", "list", "listDel", "look", "lookRead", "rename",
           "delete", "deleteFind", "deleteDo", "deleteList", "undelete"}
Ops == {"none", "list", "look", "rename", "delete", "purge", "undelete", "purgeAll"}
Rets == {"none", "ok", "unknown", "locked", "error", "invalid", "empty"}

\* A request goes to its next place.
LEMMA Went ==
  ASSUME RecordingsTypeOK, NEW c \in Client, NEW p \in Places, Goto(c, p)
  PROVE  at' \in [Client -> Places] /\ at'[c] = p /\ \A d \in Client \ {c} : at'[d] = at[d]
BY DEF RecordingsTypeOK, Goto, Places

\* A request is answered.
LEMMA Answered ==
  ASSUME RecordingsTypeOK, NEW c \in Client, NEW op \in Ops, NEW f \in Files \union {NoFile},
         NEW r \in Rets, Answer(c, op, f, r)
  PROVE  /\ at' \in [Client -> Places] /\ at'[c] = "idle"
         /\ \A d \in Client \ {c} : at'[d] = at[d] /\ found'[d] = found[d] /\ number'[d] = number[d]
         /\ number' \in [Client -> Uid]
         /\ found' \in [Client -> Files \union {NoFile}] /\ found'[c] = NoFile
         /\ answer' \in [op : Ops, file : Files \union {NoFile}, ret : Rets]
         /\ answer'.op = op /\ answer'.file = f /\ answer'.ret = r
<1>1. /\ at' \in [Client -> Places] /\ at'[c] = "idle" /\ \A d \in Client \ {c} : at'[d] = at[d]
  BY Went DEF Answer, Places
<1>2. /\ number' \in [Client -> Uid] /\ \A d \in Client \ {c} : number'[d] = number[d]
  BY NoUidIsNumber DEF Answer, RecordingsTypeOK
<1>3. /\ found' \in [Client -> Files \union {NoFile}] /\ found'[c] = NoFile
      /\ \A d \in Client \ {c} : found'[d] = found[d]
  BY DEF Answer, RecordingsTypeOK
<1>4. /\ answer' \in [op : Ops, file : Files \union {NoFile}, ret : Rets]
      /\ answer'.op = op /\ answer'.file = f /\ answer'.ret = r
  BY DEF Answer
<1> QED
  BY <1>1, <1>2, <1>3, <1>4

\* Lists and deletions under way stay as they are.
LEMMA ListedUnmoved ==
  ASSUME ListedInv, UNCHANGED <<disk, recs, dels, rescan, crossed>>,
         \A d \in Client : at'[d] = "deleteList" <=> at[d] = "deleteList",
         \A d \in Client : at'[d] = "deleteDo" => at[d] = "deleteDo",
         \A d \in Client : at'[d] \in {"deleteDo", "deleteList"} => found'[d] = found[d]
  PROVE  ListedInv'
BY DEF ListedInv, Pending

\* What is found is what was found before.
LEMMA FoundUnmoved ==
  ASSUME OnlyLiveFound, \A d \in Client : found'[d] = NoFile \/ found'[d] = found[d],
         UNCHANGED answer \/ answer'.op # "look" \/ answer'.ret # "ok"
  PROVE  OnlyLiveFound'
BY DEF OnlyLiveFound

\* A request is one of those that are allowed.
LEMMA Begun ==
  ASSUME RecordingsTypeOK, NEW c \in Client, BeginRequest(c)
  PROVE  requests' \in 0..MaxRequests /\ at[c] = "idle"
BY RecordingsAssumption DEF RecordingsTypeOK, BeginRequest

\* VDR starts a recording.
LEMMA RecordKeeps ==
  ASSUME RecordingsIInv, NEW n \in Name, Record(n) PROVE RecordingsIInv'
<1> USE DEF RecordingsIInv
<1>1. UNCHANGED at
  BY DEF Record
<1>2. RecordingsTypeOK'
  BY <1>1, FileKinds DEF RecordingsTypeOK, Places, Ops, Rets, Record, recLocks, recLock, delLock, request, vdrRecordings
<1>3. RecordingsLockInv'
  BY <1>1, ClientAssumption DEF RecordingsLockInv, RecordingsTypeOK, Record, recLocks, recLock, delLock, request, vdrRecordings
<1>4. ListedInv'
  BY <1>1, FileKinds, SMTT(30) DEF ListedInv, Pending, Live, Deleted, RecordingsTypeOK, Record, recLocks, recLock, delLock, request, vdrRecordings, Fresh
<1>5. OnlyLiveFound'
  BY <1>1, FoundUnmoved DEF Record, recLocks, recLock, delLock, request, vdrRecordings
<1> QED
  BY <1>2, <1>3, <1>4, <1>5

\* VDR ends a recording.
LEMMA EndRecordingKeeps ==
  ASSUME RecordingsIInv, NEW n \in Name, EndRecording(n) PROVE RecordingsIInv'
<1> USE DEF RecordingsIInv
<1>1. UNCHANGED at
  BY DEF EndRecording
<1>2. RecordingsTypeOK'
  BY <1>1, FileKinds DEF RecordingsTypeOK, Places, Ops, Rets, EndRecording, recLocks, recLock, delLock, request, vdrRecordings
<1>3. RecordingsLockInv'
  BY <1>1, ClientAssumption DEF RecordingsLockInv, RecordingsTypeOK, EndRecording, recLocks, recLock, delLock, request, vdrRecordings
<1>4. ListedInv'
  BY <1>1, ListedUnmoved DEF EndRecording, recLocks, recLock, delLock, request, vdrRecordings
<1>5. OnlyLiveFound'
  BY <1>1, FoundUnmoved DEF EndRecording, recLocks, recLock, delLock, request, vdrRecordings
<1> QED
  BY <1>2, <1>3, <1>4, <1>5

\* VDR reads its lists from the disk.
LEMMA LookAtDiskKeeps ==
  ASSUME RecordingsIInv, LookAtDisk PROVE RecordingsIInv'
<1> USE DEF RecordingsIInv
<1>1. UNCHANGED at
  BY DEF LookAtDisk
<1>2. RecordingsTypeOK'
  <2>1. recs' \in SUBSET Files /\ dels' \in SUBSET Files
    BY DEF LookAtDisk, RecordingsTypeOK
  <2>2. /\ UNCHANGED <<disk, busy, cache, cacheMutex, recReaders, recWriter, delReaders, delWriter>>
        /\ UNCHANGED <<number, unlisted, found, answer, requests, crossed>> /\ rescan' \in BOOLEAN
    BY DEF LookAtDisk, recLocks, recLock, delLock, request
  <2> QED
    BY <1>1, <2>1, <2>2 DEF RecordingsTypeOK
<1>3. RecordingsLockInv'
  BY <1>1, ClientAssumption DEF RecordingsLockInv, RecordingsTypeOK, LookAtDisk, recLocks, recLock, delLock, request, vdrRecordings
<1>4. ListedInv'
  BY <1>1, FileKinds DEF ListedInv, Pending, Live, Deleted, RecordingsTypeOK, LookAtDisk, recLocks, recLock, delLock, request, vdrRecordings
<1>5. OnlyLiveFound'
  BY <1>1, FoundUnmoved DEF LookAtDisk, recLocks, recLock, delLock, request, vdrRecordings
<1> QED
  BY <1>2, <1>3, <1>4, <1>5

\* A client lists the recordings and holds their lock.
LEMMA ListRecordingsKeeps ==
  ASSUME RecordingsIInv, NEW c \in Client, ListRecordings(c) PROVE RecordingsIInv'
<1> USE DEF RecordingsIInv
<1>1. /\ at' \in [Client -> Places] /\ at'[c] = "list" /\ \A d \in Client \ {c} : at'[d] = at[d]
  BY Went DEF ListRecordings, Places
<1>2. RecordingsTypeOK'
  <2>1. requests' \in 0..MaxRequests
    BY Begun DEF ListRecordings
  <2>2. number' \in [Client -> Uid]
    BY <1>1 DEF ListRecordings, RecordingsTypeOK
  <2> QED
    BY <1>1, <2>1, <2>2, ZenonT(30) DEF RecordingsTypeOK, Places, Ops, Rets, ListRecordings, recLocks, recLock, delLock, request, vdrRecordings, BeginRequest, CanRead, RecordingsLockInv
<1>3. RecordingsLockInv'
  BY <1>1, ClientAssumption DEF RecordingsLockInv, RecordingsTypeOK, ListRecordings, recLocks, recLock, delLock, request, vdrRecordings, BeginRequest, CanRead
<1>4. ListedInv'
  BY <1>1, ListedUnmoved DEF ListRecordings, recLocks, recLock, delLock, request, vdrRecordings, BeginRequest, CanRead
<1>5. OnlyLiveFound'
  BY <1>1, FoundUnmoved DEF ListRecordings, recLocks, recLock, delLock, request, vdrRecordings
<1> QED
  BY <1>2, <1>3, <1>4, <1>5

\* A client lists the deleted recordings and holds their lock.
LEMMA ListDeletedKeeps ==
  ASSUME RecordingsIInv, NEW c \in Client, ListDeleted(c) PROVE RecordingsIInv'
<1> USE DEF RecordingsIInv
<1>1. /\ at' \in [Client -> Places] /\ at'[c] = "listDel" /\ \A d \in Client \ {c} : at'[d] = at[d]
  BY Went DEF ListDeleted, Places
<1>2. RecordingsTypeOK'
  <2>1. requests' \in 0..MaxRequests
    BY Begun DEF ListDeleted
  <2>2. number' \in [Client -> Uid]
    BY <1>1 DEF ListDeleted, RecordingsTypeOK
  <2>3. delReaders' \in SUBSET Client /\ delWriter' = Nobody
    BY DEF ListDeleted, RecordingsLockInv, RecordingsTypeOK
  <2>4. unlisted' \in [Client -> SUBSET Files]
    BY DEF ListDeleted, RecordingsTypeOK
  <2>5. at' \in [Client -> Places]
    BY <1>1
  <2>6. UNCHANGED <<disk, recs, dels, rescan, busy, cache, cacheMutex, recReaders, recWriter, found, answer, crossed>>
    BY DEF ListDeleted, vdrRecordings, recLock
  <2> QED
    BY <2>1, <2>2, <2>3, <2>4, <2>5, <2>6 DEF RecordingsTypeOK, Places
<1>3. RecordingsLockInv'
  BY <1>1, ClientAssumption DEF RecordingsLockInv, RecordingsTypeOK, ListDeleted, recLocks, recLock, delLock, request, vdrRecordings, BeginRequest, CanReadDel
<1>4. ListedInv'
  BY <1>1, ListedUnmoved DEF ListDeleted, recLocks, recLock, delLock, request, vdrRecordings, BeginRequest, CanReadDel
<1>5. OnlyLiveFound'
  BY <1>1, FoundUnmoved DEF ListDeleted, recLocks, recLock, delLock, request, vdrRecordings
<1> QED
  BY <1>2, <1>3, <1>4, <1>5

\* A recording that is listed gets its number in the cache.
LEMMA RegisterKeeps ==
  ASSUME RecordingsIInv, NEW c \in Client, Register(c) PROVE RecordingsIInv'
<1> USE DEF RecordingsIInv
<1>1. UNCHANGED at
  BY DEF Register
<1>2. RecordingsTypeOK'
  BY <1>1, FileKinds, NumbersExist DEF RecordingsTypeOK, Places, Ops, Rets, Register, recLocks, recLock, delLock, request, vdrRecordings
<1>3. RecordingsLockInv'
  BY <1>1, ClientAssumption DEF RecordingsLockInv, RecordingsTypeOK, Register, recLocks, recLock, delLock, request, vdrRecordings
<1>4. ListedInv'
  BY <1>1, ListedUnmoved DEF Register, recLocks, recLock, delLock, request, vdrRecordings
<1>5. OnlyLiveFound'
  BY <1>1, FoundUnmoved DEF Register, recLocks, recLock, delLock, request, vdrRecordings
<1> QED
  BY <1>2, <1>3, <1>4, <1>5

\* A list ends.
LEMMA ListedKeeps ==
  ASSUME RecordingsIInv, NEW c \in Client, Listed(c) PROVE RecordingsIInv'
<1> USE DEF RecordingsIInv
<1>1. /\ at' \in [Client -> Places] /\ at'[c] = "idle"
      /\ \A d \in Client \ {c} : at'[d] = at[d] /\ found'[d] = found[d] /\ number'[d] = number[d]
      /\ number' \in [Client -> Uid]
      /\ found' \in [Client -> Files \union {NoFile}] /\ found'[c] = NoFile
      /\ answer' \in [op : Ops, file : Files \union {NoFile}, ret : Rets]
      /\ answer'.op = "list" /\ answer'.file = NoFile /\ answer'.ret = "ok"
  BY Answered DEF Listed, Ops, Rets
<1>2. RecordingsTypeOK'
  BY <1>1, FileKinds DEF RecordingsTypeOK, Places, Ops, Rets, Listed, recLocks, recLock, delLock, request, vdrRecordings
<1>3. RecordingsLockInv'
  BY <1>1, ClientAssumption DEF RecordingsLockInv, RecordingsTypeOK, Listed, recLocks, recLock, delLock, request, vdrRecordings
<1>4. ListedInv'
  BY <1>1, ListedUnmoved DEF Listed, recLocks, recLock, delLock, request, vdrRecordings
<1>5. OnlyLiveFound'
  BY <1>1, FoundUnmoved DEF Listed, recLocks, recLock, delLock, request, vdrRecordings
<1> QED
  BY <1>2, <1>3, <1>4, <1>5

\* A request for a number nobody was told is answered at once.
LEMMA UnknownKeeps ==
  ASSUME RecordingsIInv, NEW c \in Client, NEW op \in {"look", "delete"}, Unknown(c, op) PROVE RecordingsIInv'
<1> USE DEF RecordingsIInv
<1>1. /\ at' \in [Client -> Places] /\ at'[c] = "idle"
      /\ \A d \in Client \ {c} : at'[d] = at[d] /\ found'[d] = found[d] /\ number'[d] = number[d]
      /\ number' \in [Client -> Uid]
      /\ found' \in [Client -> Files \union {NoFile}] /\ found'[c] = NoFile
      /\ answer' \in [op : Ops, file : Files \union {NoFile}, ret : Rets]
      /\ answer'.op = op /\ answer'.file = NoFile /\ answer'.ret = "unknown"
  BY Answered DEF Unknown, Ops, Rets
<1>2. RecordingsTypeOK'
  <2>1. requests' \in 0..MaxRequests
    BY Begun DEF Unknown
  <2>2. number' \in [Client -> Uid]
    BY <1>1 DEF Unknown, RecordingsTypeOK
  <2> QED
    BY <1>1, <2>1, <2>2 DEF RecordingsTypeOK, Places, Ops, Rets, Unknown, recLocks, recLock, delLock, request, vdrRecordings, CanWrite
<1>3. RecordingsLockInv'
  BY <1>1, ClientAssumption DEF RecordingsLockInv, RecordingsTypeOK, Unknown, recLocks, recLock, delLock, request, vdrRecordings, BeginRequest
<1>4. ListedInv'
  BY <1>1, ListedUnmoved DEF Unknown, recLocks, recLock, delLock, request, vdrRecordings, BeginRequest
<1>5. OnlyLiveFound'
  BY <1>1, FoundUnmoved DEF Unknown, recLocks, recLock, delLock, request, vdrRecordings
<1> QED
  BY <1>2, <1>3, <1>4, <1>5

\* A request goes to the cache.
LEMMA AskKeeps ==
  ASSUME RecordingsIInv, NEW c \in Client, NEW op \in {"look", "delete"}, Ask(c, op) PROVE RecordingsIInv'
<1> USE DEF RecordingsIInv
<1>1. /\ at' \in [Client -> Places] /\ at'[c] = op /\ \A d \in Client \ {c} : at'[d] = at[d]
  BY Went DEF Ask, Places
<1>2. RecordingsTypeOK'
  <2>1. requests' \in 0..MaxRequests
    BY Begun DEF Ask
  <2>2. number' \in [Client -> Uid]
    BY <1>1 DEF Ask, RecordingsTypeOK
  <2> QED
    BY <1>1, <2>1, <2>2 DEF RecordingsTypeOK, Places, Ops, Rets, Ask, recLocks, recLock, delLock, request, vdrRecordings, CanWrite
<1>3. RecordingsLockInv'
  BY <1>1, ClientAssumption DEF RecordingsLockInv, RecordingsTypeOK, Ask, recLocks, recLock, delLock, request, vdrRecordings, BeginRequest
<1>4. ListedInv'
  BY <1>1, ListedUnmoved DEF Ask, recLocks, recLock, delLock, request, vdrRecordings, BeginRequest
<1>5. OnlyLiveFound'
  BY <1>1, FoundUnmoved DEF Ask, recLocks, recLock, delLock, request, vdrRecordings
<1> QED
  BY <1>2, <1>3, <1>4, <1>5

\* A request has the mutex of the cache.
LEMMA LockCacheKeeps ==
  ASSUME RecordingsIInv, NEW c \in Client, LockCache(c) PROVE RecordingsIInv'
<1> USE DEF RecordingsIInv
<1> DEFINE p == IF at[c] = "look" THEN "lookRead" ELSE "deleteFind"
<1>1. /\ at' \in [Client -> Places] /\ at'[c] \in {"lookRead", "deleteFind"}
      /\ \A d \in Client \ {c} : at'[d] = at[d]
  <2>1. p \in Places /\ p \in {"lookRead", "deleteFind"} /\ Goto(c, p)
    BY DEF LockCache, Places
  <2> HIDE DEF p
  <2> QED
    BY <2>1, Went
<1>2. RecordingsTypeOK'
  BY <1>1, FileKinds DEF RecordingsTypeOK, Places, Ops, Rets, LockCache, recLocks, recLock, delLock, request, vdrRecordings
<1>3. RecordingsLockInv'
  BY <1>1, ClientAssumption DEF RecordingsLockInv, RecordingsTypeOK, LockCache, recLocks, recLock, delLock, request, vdrRecordings
<1>4. ListedInv'
  BY <1>1, ListedUnmoved DEF LockCache, recLocks, recLock, delLock, request, vdrRecordings
<1>5. OnlyLiveFound'
  BY <1>1, FoundUnmoved DEF LockCache, recLocks, recLock, delLock, request, vdrRecordings
<1> QED
  BY <1>2, <1>3, <1>4, <1>5

\* A request to rename holds VDR's list.
LEMMA RenameLockKeeps ==
  ASSUME RecordingsIInv, NEW c \in Client, RenameLock(c) PROVE RecordingsIInv'
<1> USE DEF RecordingsIInv
<1>1. /\ at' \in [Client -> Places] /\ at'[c] = "rename" /\ \A d \in Client \ {c} : at'[d] = at[d]
  BY Went DEF RenameLock, Places
<1>2. RecordingsTypeOK'
  <2>1. requests' \in 0..MaxRequests
    BY Begun DEF RenameLock
  <2>2. number' \in [Client -> Uid]
    BY <1>1 DEF RenameLock, RecordingsTypeOK
  <2> QED
    BY <1>1, <2>1, <2>2 DEF RecordingsTypeOK, Places, Ops, Rets, RenameLock, recLocks, recLock, delLock, request, vdrRecordings, CanWrite
<1>3. RecordingsLockInv'
  BY <1>1, ClientAssumption DEF RecordingsLockInv, RecordingsTypeOK, RenameLock, recLocks, recLock, delLock, request, vdrRecordings, BeginRequest, CanWrite
<1>4. ListedInv'
  BY <1>1, ListedUnmoved DEF RenameLock, recLocks, recLock, delLock, request, vdrRecordings, BeginRequest, CanWrite
<1>5. OnlyLiveFound'
  BY <1>1, FoundUnmoved DEF RenameLock, recLocks, recLock, delLock, request, vdrRecordings
<1> QED
  BY <1>2, <1>3, <1>4, <1>5

\* A request to undelete holds VDR's list.
LEMMA UndeleteLockKeeps ==
  ASSUME RecordingsIInv, NEW c \in Client, UndeleteLock(c) PROVE RecordingsIInv'
<1> USE DEF RecordingsIInv
<1>1. /\ at' \in [Client -> Places] /\ at'[c] = "undelete" /\ \A d \in Client \ {c} : at'[d] = at[d]
  BY Went DEF UndeleteLock, Places
<1>2. RecordingsTypeOK'
  <2>1. requests' \in 0..MaxRequests
    BY Begun DEF UndeleteLock
  <2>2. number' \in [Client -> Uid]
    BY <1>1 DEF UndeleteLock, RecordingsTypeOK
  <2> QED
    BY <1>1, <2>1, <2>2 DEF RecordingsTypeOK, Places, Ops, Rets, UndeleteLock, recLocks, recLock, delLock, request, vdrRecordings, CanWrite
<1>3. RecordingsLockInv'
  BY <1>1, ClientAssumption DEF RecordingsLockInv, RecordingsTypeOK, UndeleteLock, recLocks, recLock, delLock, request, vdrRecordings, BeginRequest, CanWrite
<1>4. ListedInv'
  BY <1>1, ListedUnmoved DEF UndeleteLock, recLocks, recLock, delLock, request, vdrRecordings, BeginRequest, CanWrite
<1>5. OnlyLiveFound'
  BY <1>1, FoundUnmoved DEF UndeleteLock, recLocks, recLock, delLock, request, vdrRecordings
<1> QED
  BY <1>2, <1>3, <1>4, <1>5

\* A lookup finds a recording of VDR's list or none.
LEMMA ByNumberFinds ==
  ASSUME RecordingsTypeOK, ListedInv, NEW u \in Uid
  PROVE  /\ ByNumber(u) \in Files \union {NoFile}
         /\ ByNumber(u) # NoFile => ByNumber(u) \in recs /\ ByNumber(u) \in Files /\ ByNumber(u)[2] = "rec"
BY DEF ByNumber, RecordingsTypeOK, ListedInv

\* A lookup finds the recording in VDR's list and ends.
LEMMA LookupKeeps ==
  ASSUME RecordingsIInv, NEW c \in Client, Lookup(c) PROVE RecordingsIInv'
<1> USE DEF RecordingsIInv
<1> DEFINE f == ByNumber(number[c])
           r == IF f = NoFile THEN "unknown" ELSE "ok"
<1>0. /\ f \in Files \union {NoFile} /\ (f # NoFile => f[2] = "rec")
      /\ r \in Rets /\ Answer(c, "look", f, r) /\ "look" \in Ops /\ (r = "ok" => f # NoFile)
  <2>1. number[c] \in Uid
    BY DEF RecordingsTypeOK
  <2> QED
    BY <2>1, ByNumberFinds DEF Lookup, Rets, Ops
<1> HIDE DEF f, r
<1>1. /\ at' \in [Client -> Places] /\ at'[c] = "idle"
      /\ \A d \in Client \ {c} : at'[d] = at[d] /\ found'[d] = found[d] /\ number'[d] = number[d]
      /\ number' \in [Client -> Uid]
      /\ found' \in [Client -> Files \union {NoFile}] /\ found'[c] = NoFile
      /\ answer' \in [op : Ops, file : Files \union {NoFile}, ret : Rets]
      /\ answer'.op = "look" /\ answer'.file = f /\ answer'.ret = r
  BY <1>0, Answered
<1>2. /\ UNCHANGED <<disk, recs, dels, rescan, busy, cache, recReaders, recWriter, delReaders, delWriter>>
      /\ UNCHANGED <<unlisted, requests, crossed>> /\ cacheMutex' = Nobody /\ at[c] = "lookRead"
  BY DEF Lookup, vdrRecordings, recLock, delLock
<1>3. RecordingsTypeOK'
  BY <1>1, <1>2 DEF RecordingsTypeOK, Places, Ops, Rets
<1>4. RecordingsLockInv'
  BY <1>1, <1>2, ClientAssumption DEF RecordingsLockInv, RecordingsTypeOK
<1>5. ListedInv'
  BY <1>1, <1>2, ListedUnmoved
<1>6. OnlyLiveFound'
  BY <1>0, <1>1, <1>2 DEF OnlyLiveFound
<1> QED
  BY <1>3, <1>4, <1>5, <1>6

\* A recording has another name.
LEMMA RenameDoKeeps ==
  ASSUME RecordingsIInv, NEW c \in Client, RenameDo(c) PROVE RecordingsIInv'
<1> USE DEF RecordingsIInv
<1> DEFINE f == ByNumber(number[c])
<1>0. f \in Files \union {NoFile}
  <2>1. number[c] \in Uid
    BY DEF RecordingsTypeOK
  <2> QED
    BY <2>1, ByNumberFinds
<1>01. \/ f = NoFile /\ Answer(c, "rename", NoFile, "invalid") /\ UNCHANGED <<disk, rescan>>
       \/ f # NoFile /\ rescan' = TRUE /\ Answer(c, "rename", f, "error") /\ UNCHANGED disk
       \/ /\ f # NoFile /\ rescan' = TRUE /\ Answer(c, "rename", f, "ok")
          /\ \E m \in Name : Fresh(m) /\ disk' = {IF g[1] = f[1] THEN <<m, g[2]>> ELSE g : g \in disk}
  BY DEF RenameDo
<1> HIDE DEF f
<1>1. /\ at' \in [Client -> Places] /\ at'[c] = "idle"
      /\ \A d \in Client \ {c} : at'[d] = at[d] /\ found'[d] = found[d] /\ number'[d] = number[d]
      /\ number' \in [Client -> Uid]
      /\ found' \in [Client -> Files \union {NoFile}] /\ found'[c] = NoFile
      /\ answer' \in [op : Ops, file : Files \union {NoFile}, ret : Rets]
      /\ answer'.op = "rename"
  BY <1>0, <1>01, Answered DEF Ops, Rets
<1>2. /\ UNCHANGED <<recs, dels, busy, cache, cacheMutex, recReaders, delReaders, delWriter>>
      /\ UNCHANGED <<unlisted, requests, crossed>> /\ recWriter' = Nobody /\ at[c] = "rename"
  BY DEF RenameDo, delLock
<1>21. \/ UNCHANGED disk
       \/ rescan' /\ \E m \in Name : Fresh(m) /\ disk' = {IF g[1] = f[1] THEN <<m, g[2]>> ELSE g : g \in disk}
  BY <1>01
<1>22. disk' \in SUBSET Files
  BY <1>21, FileKinds DEF RecordingsTypeOK, Files
<1>23. rescan' \in BOOLEAN /\ (rescan' = rescan \/ rescan' = TRUE)
  BY <1>01 DEF RecordingsTypeOK
<1>3. RecordingsTypeOK'
  BY <1>1, <1>2, <1>22, <1>23 DEF RecordingsTypeOK, Places, Ops, Rets
<1>4. RecordingsLockInv'
  BY <1>1, <1>2, ClientAssumption DEF RecordingsLockInv, RecordingsTypeOK
<1>5. ListedInv'
  <2>1. CASE UNCHANGED <<disk, rescan>>
    BY <1>1, <1>2, <2>1, ListedUnmoved
  <2>2. CASE rescan' = TRUE
    <3>1. ASSUME ~crossed, NEW d \in Client, at'[d] = "deleteList" PROVE found'[d] \notin disk'
      <4>1. d # c /\ at[d] = "deleteList" /\ found'[d] = found[d] /\ found[d] \notin disk
        BY <1>1, <3>1 DEF ListedInv
      <4>2. CASE UNCHANGED disk
        BY <4>1, <4>2
      <4>3. ASSUME NEW m \in Name, Fresh(m),
                   disk' = {IF g[1] = f[1] THEN <<m, g[2]>> ELSE g : g \in disk}
            PROVE  found[d] \notin disk'
        BY <4>1, <4>3 DEF Fresh
      <4> QED
        BY <1>21, <4>1, <4>2, <4>3
    <3> QED
      BY <1>1, <1>2, <2>2, <3>1 DEF ListedInv
  <2> QED
    BY <1>01, <2>1, <2>2
<1>6. OnlyLiveFound'
  BY <1>1, FoundUnmoved
<1> QED
  BY <1>3, <1>4, <1>5, <1>6

\* A request to delete knows which recording, and holds no lock.
LEMMA LookupWriteKeeps ==
  ASSUME RecordingsIInv, NEW c \in Client, LookupWrite(c) PROVE RecordingsIInv'
<1> USE DEF RecordingsIInv
<1> DEFINE f == ByNumber(number[c])
<1>0. f \in Files \union {NoFile} /\ (f # NoFile => f \in Files /\ f[2] = "rec")
  <2>1. number[c] \in Uid
    BY DEF RecordingsTypeOK
  <2> QED
    BY <2>1, ByNumberFinds
<1>01. \/ Answer(c, "delete", NoFile, "unknown")
       \/ f # NoFile /\ Goto(c, "deleteDo") /\ found' = [found EXCEPT ![c] = f] /\ UNCHANGED <<number, answer>>
  BY DEF LookupWrite
<1> HIDE DEF f
<1>1. /\ at' \in [Client -> Places] /\ at'[c] \in {"idle", "deleteDo"}
      /\ \A d \in Client \ {c} : at'[d] = at[d] /\ found'[d] = found[d]
      /\ number' \in [Client -> Uid] /\ found' \in [Client -> Files \union {NoFile}]
      /\ answer' \in [op : Ops, file : Files \union {NoFile}, ret : Rets]
      /\ at'[c] = "deleteDo" => found'[c] # NoFile
      /\ found'[c] # NoFile => found'[c][2] = "rec"
      /\ UNCHANGED answer \/ answer'.op = "delete"
  <2>1. CASE Answer(c, "delete", NoFile, "unknown")
    BY <2>1, Answered DEF Ops, Rets
  <2>2. CASE f # NoFile /\ Goto(c, "deleteDo") /\ found' = [found EXCEPT ![c] = f] /\ UNCHANGED <<number, answer>>
    <3>1. /\ at' \in [Client -> Places] /\ at'[c] = "deleteDo" /\ \A d \in Client \ {c} : at'[d] = at[d]
      BY <2>2, Went DEF Places
    <3> QED
      BY <1>0, <2>2, <3>1 DEF RecordingsTypeOK, Ops, Rets
  <2> QED
    BY <1>01, <2>1, <2>2
<1>2. /\ UNCHANGED <<disk, recs, dels, rescan, busy, cache, recReaders, recWriter, delReaders, delWriter>>
      /\ UNCHANGED <<unlisted, requests, crossed>> /\ cacheMutex' = Nobody /\ at[c] = "deleteFind"
  BY DEF LookupWrite, vdrRecordings, recLock, delLock
<1>3. RecordingsTypeOK'
  BY <1>1, <1>2 DEF RecordingsTypeOK, Places, Ops, Rets
<1>4. RecordingsLockInv'
  BY <1>1, <1>2, ClientAssumption DEF RecordingsLockInv, RecordingsTypeOK
<1>5. ListedInv'
  BY <1>1, <1>2 DEF ListedInv, Pending
<1>6. OnlyLiveFound'
  BY <1>1, <1>2 DEF OnlyLiveFound
<1> QED
  BY <1>3, <1>4, <1>5, <1>6

\* The files of the recording have another name, VDR's lists are as before.
LEMMA DeleteDoKeeps ==
  ASSUME RecordingsIInv, NEW c \in Client, DeleteDo(c) PROVE RecordingsIInv'
<1> USE DEF RecordingsIInv
<1> DEFINE f == found[c]
<1>0. f \in Files /\ f[2] = "rec" /\ f[1] \in Name /\ f = Live(f[1])
  <2>1. f \in Files \union {NoFile} /\ f # NoFile
    BY DEF RecordingsTypeOK, ListedInv, DeleteDo
  <2>2. f[2] = "rec"
    BY <2>1 DEF OnlyLiveFound
  <2> QED
    BY <2>1, <2>2, FileKinds DEF Live
<1>01. \/ Answer(c, "delete", f, "locked") /\ UNCHANGED disk
       \/ Answer(c, "delete", f, "error") /\ UNCHANGED disk
       \/ /\ disk' = IF f \in disk THEN (disk \ {f}) \union {Deleted(f[1])} ELSE disk
          /\ Goto(c, "deleteList") /\ UNCHANGED <<number, found, answer>>
  BY DEF DeleteDo
<1>02. /\ UNCHANGED <<recs, dels, rescan, busy, cache, cacheMutex, recReaders, recWriter, delReaders, delWriter>>
       /\ UNCHANGED <<unlisted, requests, crossed>> /\ at[c] = "deleteDo"
  BY DEF DeleteDo, recLocks, recLock, delLock
<1> HIDE DEF f
<1>03. Deleted(f[1]) \in Files /\ Deleted(f[1]) # f
  BY <1>0, FileKinds
<1>04. f = found[c]
  BY DEF f
<1>a. CASE \E r \in {"locked", "error"} : Answer(c, "delete", f, r) /\ UNCHANGED disk
  <2> PICK r \in {"locked", "error"} : Answer(c, "delete", f, r) /\ UNCHANGED disk
    BY <1>a
  <2>1. /\ at' \in [Client -> Places] /\ at'[c] = "idle"
        /\ \A d \in Client \ {c} : at'[d] = at[d] /\ found'[d] = found[d] /\ number'[d] = number[d]
        /\ number' \in [Client -> Uid]
        /\ found' \in [Client -> Files \union {NoFile}] /\ found'[c] = NoFile
        /\ answer' \in [op : Ops, file : Files \union {NoFile}, ret : Rets]
        /\ answer'.op = "delete"
    BY <1>0, Answered DEF Ops, Rets
  <2>3. RecordingsTypeOK'
    BY <2>1, <1>02 DEF RecordingsTypeOK, Places, Ops, Rets
  <2>4. RecordingsLockInv'
    BY <2>1, <1>02, ClientAssumption DEF RecordingsLockInv, RecordingsTypeOK
  <2>5. ListedInv'
    BY <2>1, <1>02, ListedUnmoved
  <2>6. OnlyLiveFound'
    BY <2>1, FoundUnmoved
  <2> QED
    BY <2>3, <2>4, <2>5, <2>6
<1>b. CASE /\ disk' = IF f \in disk THEN (disk \ {f}) \union {Deleted(f[1])} ELSE disk
           /\ Goto(c, "deleteList") /\ UNCHANGED <<number, found, answer>>
  <2>1. at' \in [Client -> Places] /\ at'[c] = "deleteList" /\ \A d \in Client \ {c} : at'[d] = at[d]
    BY <1>b, Went DEF Places
  <2>2. disk' \in SUBSET Files
    BY <1>b, <1>03 DEF RecordingsTypeOK
  <2>3. RecordingsTypeOK'
    BY <1>b, <1>02, <2>1, <2>2 DEF RecordingsTypeOK, Places
  <2>4. RecordingsLockInv'
    BY <1>b, <1>02, <2>1, ClientAssumption DEF RecordingsLockInv, RecordingsTypeOK
  <2>5. ListedInv'
    <3>1. \A d \in Client : at'[d] \in {"deleteDo", "deleteList"} => found'[d] # NoFile
      BY <1>b, <1>02, <2>1 DEF ListedInv
    <3>2. ASSUME ~crossed, NEW d \in Client, at'[d] = "deleteList" PROVE found'[d] \notin disk'
      <4>1. CASE d = c
        BY <1>b, <1>03, <1>04, <4>1
      <4>2. CASE d # c
        <5>1. found[d] \notin disk /\ found[d] \in Files /\ found[d][2] = "rec"
          BY <1>02, <2>1, <3>2, <4>2, FileKinds DEF ListedInv, OnlyLiveFound, RecordingsTypeOK
        <5>2. found[d] # Deleted(f[1])
          BY <5>1 DEF Deleted
        <5> QED
          BY <1>b, <5>1, <5>2
      <4> QED
        BY <4>1, <4>2
    <3>3. ASSUME ~crossed, ~rescan, NEW n \in Name
          PROVE  /\ Live(n) \in disk' => Live(n) \in recs
                 /\ Live(n) \in recs => Live(n) \in disk' \/ Pending(n)'
                 /\ Deleted(n) \in dels => Deleted(n) \in disk'
                 /\ Deleted(n) \in disk' => Deleted(n) \in dels \/ (Pending(n)' /\ Live(n) \in recs)
      <4>1. /\ Live(n) \in disk => Live(n) \in recs
            /\ Live(n) \in recs => Live(n) \in disk \/ Pending(n)
            /\ Deleted(n) \in dels => Deleted(n) \in disk
            /\ Deleted(n) \in disk => Deleted(n) \in dels \/ (Pending(n) /\ Live(n) \in recs)
        BY <3>3 DEF ListedInv
      <4>2. Pending(n) => Pending(n)'
        BY <1>b, <1>02, <2>1 DEF Pending
      <4>3. f = Live(n) => Pending(n)'
        BY <1>b, <1>04, <2>1 DEF Pending
      <4>4. Deleted(n) = Deleted(f[1]) => f = Live(n)
        BY <1>0, <3>3 DEF Deleted
      <4>5. Live(n) # Deleted(f[1]) /\ f # Deleted(n)
        BY <1>0, FileKinds DEF Deleted, Live
      <4> QED
        BY <1>b, <4>1, <4>2, <4>3, <4>4, <4>5
    <3> QED
      BY <1>02, <3>1, <3>2, <3>3 DEF ListedInv
  <2>6. OnlyLiveFound'
    BY <1>b DEF OnlyLiveFound
  <2> QED
    BY <2>3, <2>4, <2>5, <2>6
<1> QED
  BY <1>01, <1>a, <1>b

\* VDR's lists have the recording where its files are.
LEMMA DeleteListKeeps ==
  ASSUME RecordingsIInv, NEW c \in Client, DeleteList(c) PROVE RecordingsIInv'
<1> USE DEF RecordingsIInv
<1> DEFINE f == found[c]
<1>0. f \in Files /\ f[2] = "rec" /\ f[1] \in Name /\ f = Live(f[1])
  <2>1. f \in Files \union {NoFile} /\ f # NoFile
    BY DEF RecordingsTypeOK, ListedInv, DeleteList
  <2>2. f[2] = "rec"
    BY <2>1 DEF OnlyLiveFound
  <2> QED
    BY <2>1, <2>2, FileKinds DEF Live
<1>01. /\ recs' = recs \ {f}
       /\ dels' = IF f \in recs THEN dels \union ({Deleted(f[1])} \intersect disk) ELSE dels
       /\ Answer(c, "delete", f, "ok")
  BY DEF DeleteList
<1>2. /\ UNCHANGED <<disk, rescan, busy, cache, cacheMutex, recReaders, recWriter, delReaders, delWriter>>
      /\ UNCHANGED <<unlisted, requests, crossed>> /\ at[c] = "deleteList"
  BY DEF DeleteList, recLocks, recLock, delLock
<1> HIDE DEF f
<1>03. Deleted(f[1]) \in Files /\ Deleted(f[1])[2] = "del"
  BY <1>0, FileKinds DEF Deleted
<1>04. f = found[c]
  BY DEF f
<1>1. /\ at' \in [Client -> Places] /\ at'[c] = "idle"
      /\ \A d \in Client \ {c} : at'[d] = at[d] /\ found'[d] = found[d] /\ number'[d] = number[d]
      /\ number' \in [Client -> Uid]
      /\ found' \in [Client -> Files \union {NoFile}] /\ found'[c] = NoFile
      /\ answer' \in [op : Ops, file : Files \union {NoFile}, ret : Rets]
      /\ answer'.op = "delete"
  BY <1>0, <1>01, Answered DEF Ops, Rets
<1>21. recs' \in SUBSET Files /\ dels' \in SUBSET Files
  BY <1>01, <1>03 DEF RecordingsTypeOK
<1>3. RecordingsTypeOK'
  BY <1>1, <1>2, <1>21 DEF RecordingsTypeOK, Places, Ops, Rets
<1>4. RecordingsLockInv'
  BY <1>1, <1>2, ClientAssumption DEF RecordingsLockInv, RecordingsTypeOK
<1>5. ListedInv'
  <2>1. /\ \A g \in recs' : g[2] = "rec"
        /\ \A g \in dels' : g[2] = "del"
    BY <1>01, <1>03 DEF ListedInv
  <2>2. \A d \in Client : at'[d] \in {"deleteDo", "deleteList"} => found'[d] # NoFile
    BY <1>1 DEF ListedInv
  <2>3. ~crossed => \A d \in Client : at'[d] = "deleteList" => found'[d] \notin disk
    BY <1>1, <1>2 DEF ListedInv
  <2>4. ASSUME ~crossed, ~rescan, NEW n \in Name
        PROVE  /\ Live(n) \in disk => Live(n) \in recs'
               /\ Live(n) \in recs' => Live(n) \in disk \/ Pending(n)'
               /\ Deleted(n) \in dels' => Deleted(n) \in disk
               /\ Deleted(n) \in disk => Deleted(n) \in dels' \/ (Pending(n)' /\ Live(n) \in recs')
    <3>1. /\ Live(n) \in disk => Live(n) \in recs
          /\ Live(n) \in recs => Live(n) \in disk \/ Pending(n)
          /\ Deleted(n) \in dels => Deleted(n) \in disk
          /\ Deleted(n) \in disk => Deleted(n) \in dels \/ (Pending(n) /\ Live(n) \in recs)
          /\ f \notin disk
      BY <1>2, <1>04, <2>4 DEF ListedInv
    <3>2. Pending(n) => f = Live(n) \/ Pending(n)'
      BY <1>1, <1>04 DEF Pending
    <3>3. Deleted(n) = Deleted(f[1]) <=> f = Live(n)
      BY <1>0, <2>4 DEF Deleted, Live
    <3> QED
      BY <1>01, <3>1, <3>2, <3>3
  <2> QED
    BY <1>2, <2>1, <2>2, <2>3, <2>4 DEF ListedInv
<1>6. OnlyLiveFound'
  BY <1>1, FoundUnmoved
<1> QED
  BY <1>3, <1>4, <1>5, <1>6

\* A request that finds the file system locked is answered at once.
LEMMA LockFileTakenKeeps ==
  ASSUME RecordingsIInv, NEW c \in Client, LockFileTaken(c) PROVE RecordingsIInv'
<1> USE DEF RecordingsIInv
<1>1. /\ at' \in [Client -> Places] /\ at'[c] = "idle"
      /\ \A d \in Client \ {c} : at'[d] = at[d] /\ found'[d] = found[d] /\ number'[d] = number[d]
      /\ number' \in [Client -> Uid]
      /\ found' \in [Client -> Files \union {NoFile}] /\ found'[c] = NoFile
      /\ answer' \in [op : Ops, file : Files \union {NoFile}, ret : Rets]
      /\ answer'.op # "look"
  BY Answered DEF LockFileTaken, Ops, Rets
<1>2. /\ UNCHANGED <<disk, recs, dels, rescan, busy, cache, cacheMutex, recReaders, recWriter, delReaders, delWriter>>
      /\ UNCHANGED <<unlisted, crossed>> /\ at[c] = "idle" /\ requests' \in 0..MaxRequests
  BY Begun DEF LockFileTaken, recLocks, recLock, delLock, vdrRecordings
<1>3. RecordingsTypeOK'
  BY <1>1, <1>2 DEF RecordingsTypeOK, Places, Ops, Rets
<1>4. RecordingsLockInv'
  BY <1>1, <1>2, ClientAssumption DEF RecordingsLockInv, RecordingsTypeOK
<1>5. ListedInv'
  BY <1>1, <1>2, ListedUnmoved
<1>6. OnlyLiveFound'
  BY <1>1, FoundUnmoved
<1> QED
  BY <1>3, <1>4, <1>5, <1>6

\* VDR is told to look, and deletions under way are still without files.
LEMMA ListedLater ==
  ASSUME ListedInv, RecordingsTypeOK, rescan' \/ crossed', recs' = recs, dels' \subseteq dels,
         ~crossed' => ~crossed /\ \A d \in Client : at[d] = "deleteList" => found[d] \notin disk',
         \A d \in Client : at'[d] = "idle" \/ (at'[d] = at[d] /\ found'[d] = found[d])
  PROVE  ListedInv'
BY DEF ListedInv

\* A deleted recording is purged.
LEMMA DeletedDeleteKeeps ==
  ASSUME RecordingsIInv, NEW c \in Client, DeletedDelete(c) PROVE RecordingsIInv'
<1> USE DEF RecordingsIInv
<1>01. \/ Answer(c, "purge", NoFile, "empty") /\ UNCHANGED <<disk, dels, rescan>>
       \/ \E f \in dels :
            \/ Answer(c, "purge", f, "error") /\ UNCHANGED <<disk, dels, rescan>>
            \/ disk' = disk \ {f} /\ dels' = dels \ {f} /\ rescan' = TRUE /\ Answer(c, "purge", f, "ok")
  BY DEF DeletedDelete
<1>02. dels \subseteq Files
  BY DEF RecordingsTypeOK
<1>1. /\ at' \in [Client -> Places] /\ at'[c] = "idle"
      /\ \A d \in Client \ {c} : at'[d] = at[d] /\ found'[d] = found[d] /\ number'[d] = number[d]
      /\ number' \in [Client -> Uid]
      /\ found' \in [Client -> Files \union {NoFile}] /\ found'[c] = NoFile
      /\ answer' \in [op : Ops, file : Files \union {NoFile}, ret : Rets]
      /\ answer'.op = "purge"
  BY <1>01, <1>02, Answered DEF Ops, Rets
<1>2. /\ UNCHANGED <<recs, busy, cache, cacheMutex, recReaders, recWriter, delReaders, delWriter>>
      /\ UNCHANGED <<unlisted, crossed>> /\ at[c] = "idle" /\ requests' \in 0..MaxRequests
  BY Begun DEF DeletedDelete, recLocks, recLock, delLock
<1>21. UNCHANGED <<disk, dels, rescan>> \/ (rescan' = TRUE /\ disk' \subseteq disk /\ dels' \subseteq dels)
  BY <1>01
<1>3. RecordingsTypeOK'
  BY <1>1, <1>2, <1>21 DEF RecordingsTypeOK, Places, Ops, Rets
<1>4. RecordingsLockInv'
  BY <1>1, <1>2, ClientAssumption DEF RecordingsLockInv, RecordingsTypeOK
<1>5. ListedInv'
  <2>1. CASE UNCHANGED <<disk, dels, rescan>>
    BY <1>1, <1>2, <2>1, ListedUnmoved
  <2>2. CASE rescan' = TRUE /\ disk' \subseteq disk /\ dels' \subseteq dels
    <3>1. ~crossed' => ~crossed /\ \A d \in Client : at[d] = "deleteList" => found[d] \notin disk'
      BY <1>2, <2>2 DEF ListedInv
    <3> QED
      BY <1>1, <1>2, <2>2, <3>1, ListedLater
  <2> QED
    BY <1>21, <2>1, <2>2
<1>6. OnlyLiveFound'
  BY <1>1, FoundUnmoved
<1> QED
  BY <1>3, <1>4, <1>5, <1>6

\* All deleted recordings are purged.
LEMMA DeletedDeleteAllKeeps ==
  ASSUME RecordingsIInv, NEW c \in Client, DeletedDeleteAll(c) PROVE RecordingsIInv'
<1> USE DEF RecordingsIInv
<1>01. \E r \in {"ok", "error"} : Answer(c, "purgeAll", NoFile, r)
  BY DEF DeletedDeleteAll
<1>1. /\ at' \in [Client -> Places] /\ at'[c] = "idle"
      /\ \A d \in Client \ {c} : at'[d] = at[d] /\ found'[d] = found[d] /\ number'[d] = number[d]
      /\ number' \in [Client -> Uid]
      /\ found' \in [Client -> Files \union {NoFile}] /\ found'[c] = NoFile
      /\ answer' \in [op : Ops, file : Files \union {NoFile}, ret : Rets]
      /\ answer'.op = "purgeAll"
  BY <1>01, Answered DEF Ops, Rets
<1>2. /\ UNCHANGED <<recs, busy, cache, cacheMutex, recReaders, recWriter, delReaders, delWriter>>
      /\ UNCHANGED <<unlisted, crossed>> /\ at[c] = "idle" /\ requests' \in 0..MaxRequests
      /\ rescan' = TRUE /\ disk' \subseteq disk /\ dels' \subseteq dels
  BY Begun DEF DeletedDeleteAll, recLocks, recLock, delLock
<1>3. RecordingsTypeOK'
  BY <1>1, <1>2 DEF RecordingsTypeOK, Places, Ops, Rets
<1>4. RecordingsLockInv'
  BY <1>1, <1>2, ClientAssumption DEF RecordingsLockInv, RecordingsTypeOK
<1>5. ListedInv'
  <2>1. ~crossed' => ~crossed /\ \A d \in Client : at[d] = "deleteList" => found[d] \notin disk'
    BY <1>2 DEF ListedInv
  <2> QED
    BY <1>1, <1>2, <2>1, ListedLater
<1>6. OnlyLiveFound'
  BY <1>1, FoundUnmoved
<1> QED
  BY <1>3, <1>4, <1>5, <1>6

\* A deleted recording is a recording again.
LEMMA UndeleteKeeps ==
  ASSUME RecordingsIInv, NEW c \in Client, Undelete(c) PROVE RecordingsIInv'
<1> USE DEF RecordingsIInv
<1>01. \/ Answer(c, "undelete", NoFile, "unknown") /\ UNCHANGED <<disk, dels, rescan>>
       \/ \E f \in dels : Hash[f] = number[c] /\ UndeleteFiles(f) /\ Answer(c, "undelete", f, "ok")
  BY DEF Undelete
<1>02. dels \subseteq Files
  BY DEF RecordingsTypeOK
<1>1. /\ at' \in [Client -> Places] /\ at'[c] = "idle"
      /\ \A d \in Client \ {c} : at'[d] = at[d] /\ found'[d] = found[d] /\ number'[d] = number[d]
      /\ number' \in [Client -> Uid]
      /\ found' \in [Client -> Files \union {NoFile}] /\ found'[c] = NoFile
      /\ answer' \in [op : Ops, file : Files \union {NoFile}, ret : Rets]
      /\ answer'.op = "undelete"
  BY <1>01, <1>02, Answered DEF Ops, Rets
<1>2. /\ UNCHANGED <<recs, busy, cache, cacheMutex, recReaders, delReaders, delWriter>>
      /\ UNCHANGED <<unlisted, requests>> /\ at[c] = "undelete" /\ recWriter' = Nobody
      /\ crossed' = (crossed \/ \E d \in Client : at[d] = "deleteList" /\ Hash[Deleted(found[d][1])] = number[c])
  BY DEF Undelete, delLock
<1>21. \/ UNCHANGED <<disk, dels, rescan>>
       \/ /\ rescan' = TRUE
          /\ \E f \in dels : /\ Hash[f] = number[c] /\ dels' = dels \ {f}
                             /\ UNCHANGED disk \/ disk' = (disk \ {f}) \union {Live(f[1])}
  BY <1>01 DEF UndeleteFiles
<1>22. disk' \in SUBSET Files /\ dels' \in SUBSET Files /\ rescan' \in BOOLEAN /\ crossed' \in BOOLEAN
  <2>1. crossed' \in BOOLEAN
    BY <1>2 DEF RecordingsTypeOK
  <2>2. rescan' \in BOOLEAN
    BY <1>21 DEF RecordingsTypeOK
  <2>3. dels' \in SUBSET Files
    BY <1>02, <1>21
  <2>4. disk \in SUBSET Files
    BY DEF RecordingsTypeOK
  <2>5. ASSUME NEW f \in Files PROVE (disk \ {f}) \union {Live(f[1])} \in SUBSET Files
    BY <2>4, FileKinds
  <2>6. disk' \in SUBSET Files
    BY <1>02, <1>21, <2>4, <2>5
  <2> QED
    BY <2>1, <2>2, <2>3, <2>6
<1>3. RecordingsTypeOK'
  BY <1>1, <1>2, <1>22 DEF RecordingsTypeOK, Places, Ops, Rets
<1>4. RecordingsLockInv'
  BY <1>1, <1>2, ClientAssumption DEF RecordingsLockInv, RecordingsTypeOK
<1>5. ListedInv'
  <2>1. CASE UNCHANGED <<disk, dels, rescan>>
    <3>1. CASE crossed' = crossed
      BY <1>1, <1>2, <2>1, <3>1, ListedUnmoved
    <3>2. CASE crossed'
      BY <1>1, <1>2, <2>1, <3>2, ListedLater
    <3> QED
      BY <1>2, <3>1, <3>2 DEF RecordingsTypeOK
  <2>2. ASSUME rescan' = TRUE, NEW f \in dels, Hash[f] = number[c], dels' = dels \ {f},
               UNCHANGED disk \/ disk' = (disk \ {f}) \union {Live(f[1])}
        PROVE  ListedInv'
    <3>1. ASSUME ~crossed', NEW d \in Client, at[d] = "deleteList" PROVE found[d] \notin disk'
      <4>1. found[d] \notin disk /\ ~crossed /\ Hash[Deleted(found[d][1])] # number[c]
        BY <1>2, <3>1 DEF ListedInv
      <4>2. f = Deleted(f[1])
        BY <1>02, <2>2, FileKinds DEF ListedInv, Deleted
      <4>3. found[d] # Live(f[1])
        BY <2>2, <4>1, <4>2 DEF Live
      <4> QED
        BY <2>2, <4>1, <4>3
    <3> QED
      BY <1>1, <1>2, <2>2, <3>1, ListedLater
  <2> QED
    BY <1>21, <2>1, <2>2
<1>6. OnlyLiveFound'
  BY <1>1, FoundUnmoved
<1> QED
  BY <1>3, <1>4, <1>5, <1>6

\* VDR's and the clients' steps.
LEMMA RecordingsNextKeeps == RecordingsIInv /\ [RecordingsNext]_recVars => RecordingsIInv'
<1> SUFFICES ASSUME RecordingsIInv, [RecordingsNext]_recVars PROVE RecordingsIInv'
  OBVIOUS
<1>1. ASSUME NEW n \in Name, Record(n) \/ EndRecording(n) PROVE RecordingsIInv'
  BY <1>1, RecordKeeps, EndRecordingKeeps
<1>2. CASE LookAtDisk
  BY <1>2, LookAtDiskKeeps
<1>3. ASSUME NEW c \in Client, RequestBegins(c) PROVE RecordingsIInv'
  BY <1>3, ListRecordingsKeeps, ListDeletedKeeps, UnknownKeeps, AskKeeps, RenameLockKeeps,
     LockFileTakenKeeps, DeletedDeleteKeeps, UndeleteLockKeeps, DeletedDeleteAllKeeps DEF RequestBegins
<1>4. ASSUME NEW c \in Client, GoesOn(c) PROVE RecordingsIInv'
  BY <1>4, RegisterKeeps, ListedKeeps, LockCacheKeeps, LookupKeeps, RenameDoKeeps, LookupWriteKeeps,
     DeleteDoKeeps, DeleteListKeeps, UndeleteKeeps DEF GoesOn
<1>5. CASE UNCHANGED recVars
  <2>1. UNCHANGED <<disk, recs, dels, rescan, busy, cache, cacheMutex, recReaders, recWriter, delReaders,
                    delWriter, at, number, unlisted, found, answer, requests, crossed>>
    BY <1>5 DEF recVars
  <2>2. RecordingsTypeOK'
    BY <2>1 DEF RecordingsIInv, RecordingsTypeOK
  <2>3. RecordingsLockInv'
    BY <2>1 DEF RecordingsIInv, RecordingsLockInv
  <2>4. ListedInv' /\ OnlyLiveFound'
    BY <2>1, ListedUnmoved, FoundUnmoved DEF RecordingsIInv
  <2> QED
    BY <2>2, <2>3, <2>4 DEF RecordingsIInv
<1> QED
  BY <1>1, <1>2, <1>3, <1>4, <1>5 DEF RecordingsNext

\* A deleted recording that no deletion under way accounts for is where VDR has it.
LEMMA RecordingsFollow == RecordingsIInv => ListsFollow
<1> SUFFICES ASSUME RecordingsIInv, ~crossed, ~rescan, \A c \in Client : at[c] # "deleteList"
             PROVE  /\ recs = {f \in disk : f[2] = "rec"}
                    /\ dels = {f \in disk : f[2] = "del"}
  BY DEF ListsFollow
<1>1. \A n \in Name : ~Pending(n)
  BY DEF Pending
<1>2. \A n \in Name : (Live(n) \in disk <=> Live(n) \in recs) /\ (Deleted(n) \in disk <=> Deleted(n) \in dels)
  BY <1>1 DEF RecordingsIInv, ListedInv
<1>3. \A f \in Files : f[1] \in Name /\ (f[2] = "rec" => f = Live(f[1])) /\ (f[2] = "del" => f = Deleted(f[1]))
  BY FileKinds DEF Live, Deleted
<1>4. recs \subseteq Files /\ dels \subseteq Files /\ disk \subseteq Files
  BY DEF RecordingsIInv, RecordingsTypeOK
<1>5. \A f \in Files : f \in recs <=> f \in disk /\ f[2] = "rec"
  BY <1>2, <1>3 DEF RecordingsIInv, ListedInv
<1>6. \A f \in Files : f \in dels <=> f \in disk /\ f[2] = "del"
  BY <1>2, <1>3 DEF RecordingsIInv, ListedInv
<1> QED
  BY <1>4, <1>5, <1>6

\* Where nothing goes on, somebody keeps the mutex of the cache, as without it every request
\* gets all its locks in their order.
LEMMA RecordingsGoOn == RecordingsIInv => RecordingsBlocked
<1> SUFFICES ASSUME RecordingsIInv, NEW b \in Client, at[b] # "idle",
                    \A c \in Client : ~RecordingGoesOn(c)
             PROVE  RecordingsCycle
  BY DEF RecordingsBlocked
<1> USE DEF RecordingsIInv
<1>0. \A c \in Client : at[c] \in Places
  BY DEF RecordingsTypeOK, Places
<1>1. \A c \in Client : at[c] # "deleteDo"
  BY DEF RecordingGoesOn
<1>2. cacheMutex # Nobody
  <2> SUFFICES ASSUME cacheMutex = Nobody PROVE FALSE
    OBVIOUS
  <2>1. \A c \in Client : at[c] \notin {"list", "listDel", "look", "delete", "rename", "lookRead", "deleteFind"}
    BY ClientAssumption DEF RecordingGoesOn, RecordingsLockInv
  <2>2. recReaders = {} /\ delReaders = {}
    BY <2>1 DEF RecordingsLockInv, RecordingsTypeOK
  <2>3. \A c \in Client : at[c] # "undelete"
    BY <2>2 DEF RecordingGoesOn, CanWriteDel, RecordingsLockInv
  <2>4. recWriter = Nobody
    BY <2>1, <2>3 DEF RecordingsLockInv, RecordingsTypeOK
  <2>5. \A c \in Client : at[c] # "deleteList"
    BY <2>2, <2>4 DEF RecordingGoesOn, CanWrite
  <2> QED
    BY <1>0, <1>1, <2>1, <2>3, <2>5 DEF Places
<1>3. PICK c \in Client : cacheMutex = c
  BY <1>2 DEF RecordingsTypeOK
<1>4. at[c] \in {"lookRead", "deleteFind"} /\ recWriter # c
  BY <1>3 DEF RecordingsLockInv
<1>5. recWriter # Nobody \/ recReaders # {}
  BY <1>4 DEF RecordingGoesOn, CanRead, CanWrite
<1>6. CASE recReaders # {}
  <2>1. PICK d \in recReaders : TRUE
    BY <1>6
  <2>2. d \in Client /\ at[d] = "list" /\ unlisted[d] # {}
    BY <2>1 DEF RecordingsTypeOK, RecordingsLockInv, RecordingGoesOn
  <2> QED
    BY <1>3, <1>4, <2>1, <2>2 DEF RecordingsCycle
<1>7. CASE recWriter # Nobody
  <2>1. PICK d \in Client : recWriter = d /\ at[d] \in {"rename", "undelete"}
    BY <1>7 DEF RecordingsTypeOK, RecordingsLockInv
  <2>2. CASE at[d] = "rename"
    <3>1. cache[number[d]] # NoFile
      BY <2>2 DEF RecordingGoesOn
    <3> QED
      BY <1>3, <1>4, <2>1, <2>2, <3>1 DEF RecordingsCycle
  <2>3. CASE at[d] = "undelete"
    <3>1. PICK e \in delReaders : TRUE
      BY <2>3 DEF RecordingGoesOn, CanWriteDel, RecordingsLockInv
    <3>2. e \in Client /\ unlisted[e] # {}
      BY <3>1 DEF RecordingsTypeOK, RecordingsLockInv, RecordingGoesOn
    <3> QED
      BY <1>3, <1>4, <2>1, <2>3, <3>1, <3>2 DEF RecordingsCycle
  <2> QED
    BY <2>1, <2>2, <2>3
<1> QED
  BY <1>5, <1>6, <1>7

\* Whatever clients list, look up, rename, delete, purge and undelete at the same time, VDR's lists
\* differ from the disk by deletions that are half done only, a lookup never finds a deleted
\* recording (recordingscache.c), and requests can block in the ways of RecordingsCycle only.
THEOREM RecordingsAreSafe == RecordingsSpec => []RecordingsInv
<1>1. RecordingsIInv => RecordingsInv
  BY RecordingsFollow, RecordingsGoOn DEF RecordingsIInv, RecordingsInv
<1> QED
  BY <1>1, RecordingsInitInv, RecordingsNextKeeps, PTL DEF RecordingsSpec

-----------------------------------------------------------------------------
(* The composition. *)

\* A behaviour of the composition is one of each part, so what is proved of a part holds there.
THEOREM SharedIsItsParts == SharedSpec => OsdSpec /\ RecordingsSpec /\ TimersSpec /\ FilterSpec
<1>1. SharedInit => OsdInit /\ RecordingsInit /\ TimersInit /\ FilterInit
  BY DEF SharedInit
<1>2. [SharedNext]_sharedVars => /\ [OsdNext]_osdAllVars /\ [RecordingsNext]_recVars
                                 /\ [TimersNext]_vars /\ [FilterNext]_channelVars
  BY DEF SharedNext, sharedVars
<1> QED
  BY <1>1, <1>2, PTL DEF SharedSpec, OsdSpec, RecordingsSpec, TimersSpec, FilterSpec

-----------------------------------------------------------------------------
(* The search timers.                                                        *)


\* Who holds which lock follows from where the requests and the search thread are.
TimersLockInv ==
  /\ \A c \in Client :
       /\ pc[c] # "idle" <=> clientLock = c
       /\ pc[c] = "children" <=> searchLock = c
       /\ pc[c] = "listed" <=> c \in readers
  /\ vdrLock = "scan" <=> scan \in {"sched", "scan", "look", "note"}
  /\ vdrLock = "scan" => readers = {}
  /\ child # NoTimer => scan \in {"look", "note"}

\* A request that has begun is one there is; the search timer it has found is still there while it waits for VDR's lock.
RequestInv ==
  /\ arg = [c \in Client |-> arg[c]]
  /\ \A c \in Client : pc[c] = "begun" => arg[c][1] \in Requests
  /\ \A c \in Client : pc[c] = "children" =>
       /\ arg[c][2] \in Ids(search)
       /\ arg[c][1] = "delete" \/ (arg[c][1] = "update" /\ arg[c][3] \in Fields)
  /\ ListConsistent

\* The lines that can be read are those of the search timers.
Readable(lines) == {l \in Range(lines) : l.name \notin misread}

\* Names that nobody else has, and that have been given.
OwnNames(s) ==
  /\ Len(s) <= names
  /\ \A i \in DOMAIN s : s[i].name <= names
  /\ \A i, j \in DOMAIN s : i # j => s[i].name # s[j].name

\* Search timers have ids and names of their own, and the file holds them.
SearchInv ==
  /\ Readable(file) = Readable(Written(search))
  /\ OwnNames(search) /\ OwnNames(file)
  /\ nextId <= names /\ Len(snap) <= MaxSearch
  /\ \A i \in DOMAIN search : search[i].id <= nextId
  /\ \A i, j \in DOMAIN search : i # j => search[i].id # search[j].id
  /\ \A k \in DOMAIN snap : snap[k].name <= names
  /\ \A p \in todo : p[1] \in DOMAIN snap
  /\ scan = "idle" => snap = << >>

\* VDR's timers have numbers of their own; a child that is not noted yet has a search timer
\* to be noted with.
ChildInv ==
  /\ \A t \in vdr : t.id <= made /\ t.by <= names
  /\ scan \in {"look", "note"} => child \in Timer /\ child.by # 0 /\ child.by <= names
  /\ scan = "look" => child.id = made + 1
  /\ scan = "note" =>
       /\ child \in vdr
       /\ child.id \in stale \/ \E i \in DOMAIN search : search[i].name = child.by /\ search[i].ch = ChannelOf[child.ev]

TimersIInv == TimersTypeOK /\ TimersLockInv /\ RequestInv /\ SearchInv /\ ChildInv /\ NoOrphans

\* A child that was deleted by hand is in the list of those its search timer made, unless
\* that could not be read.
DeletedInv ==
  \A d \in dropped :
    /\ d[1] <= names
    /\ d[1] \in misread \/ \E i \in DOMAIN search : search[i].name = d[1] /\ d[2] \in search[i].created

-----------------------------------------------------------------------------

\* At first there are neither search timers nor requests.
LEMMA TimersInitInv == TimersInit => TimersIInv /\ DeletedInv
<1> SUFFICES ASSUME TimersInit PROVE TimersIInv /\ DeletedInv
  OBVIOUS
<1> USE DEF TimersInit
<1>0. search \in Seq(SearchTimer) /\ snap \in Seq(SearchTimer) /\ DOMAIN search = {} /\ DOMAIN snap = {}
      /\ Len(search) = 0 /\ Len(snap) = 0
  OBVIOUS
<1>1. TimersTypeOK
  <2>1. nextId \in 0..MaxSearch /\ names \in 0..MaxSearch /\ made \in 0..MaxTimers
    BY TimersAssumption
  <2>2. named \in [Client -> 0..MaxSearch]
    BY TimersAssumption
  <2>3. pc \in [Client -> {"idle", "begun", "listed", "children"}]
    OBVIOUS
  <2>4. clientLock \in Client \cup {Nobody} /\ searchLock \in Client \cup {Nobody} /\ readers \subseteq Client
    OBVIOUS
  <2>5. todo \subseteq (1..MaxSearch) \X Events /\ dropped \subseteq (1..MaxSearch) \X Starts /\ stale \subseteq 1..MaxTimers
        /\ vdr \subseteq Timer /\ child \in Timer \cup {NoTimer} /\ misread \subseteq 1..MaxSearch /\ other \in BOOLEAN
    OBVIOUS
  <2>6. file \in Seq(Line)
    OBVIOUS
  <2> QED
    BY <1>0, <2>1, <2>2, <2>3, <2>4, <2>5, <2>6 DEF TimersTypeOK
<1>2. TimersLockInv
  BY ClientAssumption DEF TimersLockInv
<1>3. RequestInv
  BY DEF RequestInv, ListConsistent
<1>4. SearchInv
  <2>1. DOMAIN file = {} /\ Len(file) = 0 /\ names = 0 /\ nextId = 0 /\ todo = {} /\ snap = << >>
    OBVIOUS
  <2>2. DOMAIN Written(search) = {}
    BY <1>0 DEF Written
  <2>3. Readable(file) = {} /\ Readable(Written(search)) = {}
    BY <2>1, <2>2 DEF Readable, Range
  <2>4. OwnNames(search) /\ OwnNames(file)
    BY <1>0, <2>1 DEF OwnNames
  <2>5. Len(snap) <= MaxSearch /\ nextId <= names
    BY <1>0, <2>1, TimersAssumption
  <2> QED
    <3> HIDE DEF TimersInit
    <3> QED
      BY <1>0, <2>1, <2>3, <2>4, <2>5 DEF SearchInv
<1>5. ChildInv /\ NoOrphans
  BY DEF ChildInv, NoOrphans
<1>6. DeletedInv
  BY DEF DeletedInv
<1> QED
  BY <1>1, <1>2, <1>3, <1>4, <1>5, <1>6 DEF TimersIInv

\* There are no more search timers than were made.
LEMMA SearchLengths ==
  ASSUME TimersTypeOK, SearchInv
  PROVE  /\ Len(search) \in 0..MaxSearch /\ DOMAIN search = 1..Len(search)
         /\ DOMAIN search \subseteq 1..MaxSearch /\ DOMAIN snap \subseteq 1..MaxSearch
         /\ \A i \in DOMAIN search : search[i] \in SearchTimer
         /\ \A k \in DOMAIN snap : snap[k] \in SearchTimer
<1>1. Len(search) \in Nat /\ Len(snap) \in Nat /\ DOMAIN search = 1..Len(search) /\ DOMAIN snap = 1..Len(snap)
  BY LenProperties DEF TimersTypeOK
<1>2. Len(search) <= MaxSearch /\ Len(snap) <= MaxSearch
  BY <1>1, TimersAssumption DEF TimersTypeOK, SearchInv, OwnNames
<1>3. /\ \A i \in DOMAIN search : search[i] \in SearchTimer
      /\ \A k \in DOMAIN snap : snap[k] \in SearchTimer
  BY <1>1, ElementOfSeq DEF TimersTypeOK
<1> QED
  BY <1>1, <1>2, <1>3, TimersAssumption

\* A line is what it stands for, but for the id and the margin.
LEMMA LinesAre ==
  ASSUME NEW s \in Seq(SearchTimer)
  PROVE  /\ Written(s) \in Seq(Line) /\ Len(Written(s)) = Len(s) /\ Len(s) \in Nat
         /\ DOMAIN Written(s) = DOMAIN s /\ DOMAIN s = 1..Len(s)
         /\ \A i \in DOMAIN s : /\ s[i] \in SearchTimer
                                /\ Written(s)[i] = [name |-> s[i].name, ch |-> s[i].ch, text |-> s[i].text, on |-> s[i].on,
                                                     plain |-> s[i].plain, created |-> s[i].created]
<1>1. Len(s) \in Nat /\ DOMAIN s = 1..Len(s) /\ \A i \in DOMAIN s : s[i] \in SearchTimer
  BY LenProperties, ElementOfSeq
<1>2. /\ DOMAIN Written(s) = DOMAIN s
      /\ \A i \in DOMAIN s : Written(s)[i] = [name |-> s[i].name, ch |-> s[i].ch, text |-> s[i].text, on |-> s[i].on,
                                               plain |-> s[i].plain, created |-> s[i].created]
  BY DEF Written
<1>3. \A i \in DOMAIN s : Written(s)[i] \in Line
  BY <1>1, <1>2 DEF SearchTimer, Line
<1>4. Written(s) \in [1..Len(s) -> Line]
  <2>1. Written(s) = [i \in DOMAIN s |-> Written(s)[i]]
    BY DEF Written
  <2> QED
    BY <1>1, <1>3, <2>1
<1>5. Written(s) \in Seq(Line)
  BY <1>1, <1>4
<1>6. Len(Written(s)) = Len(s)
  BY <1>1, <1>2, <1>5, LenProperties
<1> QED
  BY <1>1, <1>2, <1>5, <1>6

\* What is saved is what there is.
LEMMA SavedIs ==
  ASSUME search' \in Seq(SearchTimer), OwnNames(search)', file' = Written(search')
  PROVE  file' \in Seq(Line) /\ OwnNames(file)' /\ Readable(file)' = Readable(Written(search))'
<1>1. /\ file' \in Seq(Line) /\ Len(file') = Len(search') /\ DOMAIN file' = DOMAIN search'
      /\ \A i \in DOMAIN search' : file'[i].name = search'[i].name
  <2> DEFINE s == search'
  <2>1. s \in Seq(SearchTimer) /\ file' = Written(s)
    OBVIOUS
  <2> HIDE DEF s
  <2>2. /\ file' \in Seq(Line) /\ Len(file') = Len(s) /\ DOMAIN file' = DOMAIN s
        /\ \A i \in DOMAIN s : file'[i] = [name |-> s[i].name, ch |-> s[i].ch, text |-> s[i].text, on |-> s[i].on,
                                            plain |-> s[i].plain, created |-> s[i].created]
    BY <2>1, LinesAre
  <2>3. \A i \in DOMAIN s : file'[i].name = s[i].name
    BY <2>2
  <2> QED
    BY <2>2, <2>3 DEF s
<1>2. OwnNames(file)'
  BY <1>1 DEF OwnNames
<1>3. Written(search)' = Written(search')
  BY DEF Written
<1> QED
  BY <1>1, <1>2, <1>3 DEF Readable

\* Each part depends on few variables.
LEMMA RequestUnmoved ==
  ASSUME RequestInv, UNCHANGED <<arg, named, pc, search>> PROVE RequestInv'
BY DEF RequestInv, ListConsistent, Ids

\* The search timers, the file and the copy stay as they are.
LEMMA SearchUnmoved ==
  ASSUME SearchInv, UNCHANGED <<search, nextId, names, file, snap, misread>>, scan' = "idle" => scan = "idle",
         todo' \subseteq todo
  PROVE  SearchInv'
<1>1. Readable(file)' = Readable(file) /\ Readable(Written(search))' = Readable(Written(search))
  BY DEF Readable, Written
<1>2. OwnNames(search)' /\ OwnNames(file)'
  BY DEF SearchInv, OwnNames
<1> QED
  BY <1>1, <1>2 DEF SearchInv

\* VDR's timers stay as they are.
LEMMA ChildUnmoved ==
  ASSUME ChildInv, NoOrphans, UNCHANGED <<vdr, made, child, stale, misread, search, names>>,
         scan' \in {"look", "note"} => scan' = scan
  PROVE  ChildInv' /\ NoOrphans'
BY DEF ChildInv, NoOrphans, IsParent

\* What was deleted by hand stays as it is.
LEMMA DeletedUnmoved ==
  ASSUME DeletedInv, UNCHANGED <<dropped, search, names, misread>> PROVE DeletedInv'
BY DEF DeletedInv

\* A request that ends was the only one.
LEMMA RequestEnds ==
  ASSUME TimersTypeOK, TimersLockInv, RequestInv, NEW c \in Client, pc[c] # "idle", Done(c)
  PROVE  /\ pc' \in [Client -> {"idle", "begun", "listed", "children"}]
         /\ \A d \in Client : pc'[d] = "idle" /\ (d # c => pc[d] = "idle")
         /\ clientLock = c /\ clientLock' = Nobody
         /\ RequestInv'
<1>1. /\ pc' \in [Client -> {"idle", "begun", "listed", "children"}] /\ pc'[c] = "idle"
      /\ \A d \in Client \ {c} : pc'[d] = pc[d]
  BY DEF TimersTypeOK, Done
<1>2. clientLock = c /\ clientLock' = Nobody /\ \A d \in Client \ {c} : pc[d] = "idle"
  BY DEF TimersLockInv, Done
<1>3. arg' = [d \in Client |-> arg'[d]]
  BY DEF RequestInv, Done
<1> QED
  BY <1>1, <1>2, <1>3 DEF RequestInv, ListConsistent

\* A request that begins takes the lock of all requests.
LEMMA BeginKeeps ==
  ASSUME TimersIInv, NEW c \in Client, Begin(c)
  PROVE  TimersIInv' /\ (DeletedInv => DeletedInv')
<1> USE DEF TimersIInv
<1>1. UNCHANGED <<search, nextId, names, file, vdr, made, other, doScan, snap, todo, child, scan, searchLock, vdrLock, readers, named, dropped, stale, misread>>
  BY DEF Begin, scanThread, locks, clientState, history, Done
<1>2. /\ pc[c] = "idle" /\ clientLock = Nobody /\ clientLock' = c
      /\ pc' = [pc EXCEPT ![c] = "begun"] /\ \E op \in Requests : arg' = [arg EXCEPT ![c] = <<op>>]
  BY DEF Begin, TimersTypeOK, TimersLockInv, Asks
<1>3. TimersTypeOK'
  BY <1>1, <1>2 DEF TimersTypeOK, TimersLockInv
<1>4. TimersLockInv'
  BY <1>1, <1>2, ClientAssumption DEF TimersLockInv, TimersTypeOK
<1>5. RequestInv'
  <2>1. arg' = [d \in Client |-> arg'[d]] /\ \A d \in Client \ {c} : arg'[d] = arg[d]
    BY <1>2 DEF RequestInv
  <2>2. pc'[c] = "begun" /\ \A d \in Client \ {c} : pc'[d] = pc[d]
    BY <1>2 DEF TimersTypeOK
  <2>3. arg'[c][1] \in Requests
    BY <1>2 DEF RequestInv
  <2> QED
    BY <1>1, <2>1, <2>2, <2>3 DEF RequestInv, ListConsistent, Ids
<1>6. SearchInv'
  BY <1>1, <1>2, SearchUnmoved
<1>7. ChildInv' /\ NoOrphans'
  BY <1>1, <1>2, ChildUnmoved
<1>8. DeletedInv => DeletedInv'
  BY <1>1, DeletedUnmoved
<1> QED
  BY <1>3, <1>4, <1>5, <1>6, <1>7, <1>8

\* A request that only reads ends.
LEMMA GetKeeps ==
  ASSUME TimersIInv, NEW c \in Client, Get(c)
  PROVE  TimersIInv' /\ (DeletedInv => DeletedInv')
<1> USE DEF TimersIInv
<1>1. UNCHANGED <<search, nextId, names, file, vdr, made, other, doScan, snap, todo, child, scan, searchLock, vdrLock, readers, named, dropped, stale, misread>>
  BY DEF Get, scanThread, locks, clientState, history, Done
<1>2. /\ pc[c] = "begun" /\ Done(c)
      /\ pc' \in [Client -> {"idle", "begun", "listed", "children"}]
      /\ \A d \in Client : pc'[d] = "idle" /\ (d # c => pc[d] = "idle")
      /\ clientLock = c /\ clientLock' = Nobody /\ RequestInv'
  <2>1. pc[c] = "begun" /\ Done(c)
    BY DEF Get, Asks
  <2> QED
    BY <2>1, RequestEnds
<1>3. TimersTypeOK'
  BY <1>1, <1>2 DEF TimersTypeOK, TimersLockInv
<1>4. TimersLockInv'
  BY <1>1, <1>2, ClientAssumption DEF TimersLockInv, TimersTypeOK
<1>5. RequestInv'
  BY <1>2
<1>6. SearchInv'
  BY <1>1, <1>2, SearchUnmoved
<1>7. ChildInv' /\ NoOrphans'
  BY <1>1, <1>2, ChildUnmoved
<1>8. DeletedInv => DeletedInv'
  BY <1>1, DeletedUnmoved
<1> QED
  BY <1>3, <1>4, <1>5, <1>6, <1>7, <1>8

\* A request that is refused ends.
LEMMA RefusedKeeps ==
  ASSUME TimersIInv, NEW c \in Client, Refused(c)
  PROVE  TimersIInv' /\ (DeletedInv => DeletedInv')
<1> USE DEF TimersIInv
<1>1. UNCHANGED <<search, nextId, names, file, vdr, made, other, doScan, snap, todo, child, scan, searchLock, vdrLock, readers, named, dropped, stale, misread>>
  BY DEF Refused, scanThread, locks, clientState, history, Done
<1>2. /\ pc[c] = "begun" /\ Done(c)
      /\ pc' \in [Client -> {"idle", "begun", "listed", "children"}]
      /\ \A d \in Client : pc'[d] = "idle" /\ (d # c => pc[d] = "idle")
      /\ clientLock = c /\ clientLock' = Nobody /\ RequestInv'
  <2>1. pc[c] = "begun" /\ Done(c)
    BY DEF Refused, Asks
  <2> QED
    BY <2>1, RequestEnds
<1>3. TimersTypeOK'
  BY <1>1, <1>2 DEF TimersTypeOK, TimersLockInv
<1>4. TimersLockInv'
  BY <1>1, <1>2, ClientAssumption DEF TimersLockInv, TimersTypeOK
<1>5. RequestInv'
  BY <1>2
<1>6. SearchInv'
  BY <1>1, <1>2, SearchUnmoved
<1>7. ChildInv' /\ NoOrphans'
  BY <1>1, <1>2, ChildUnmoved
<1>8. DeletedInv => DeletedInv'
  BY <1>1, DeletedUnmoved
<1> QED
  BY <1>3, <1>4, <1>5, <1>6, <1>7, <1>8

\* A list announces the number of search timers there are.
LEMMA GetListKeeps ==
  ASSUME TimersIInv, NEW c \in Client, GetList(c)
  PROVE  TimersIInv' /\ (DeletedInv => DeletedInv')
<1> USE DEF TimersIInv
<1>1. UNCHANGED <<search, nextId, names, file, vdr, made, other, doScan, snap, todo, child, scan, clientLock, searchLock, vdrLock, arg, dropped, stale, misread>>
  BY DEF GetList, scanThread, locks, clientState, history, Done
<1>2. /\ pc[c] = "begun" /\ vdrLock = "none" /\ searchLock = Nobody
      /\ readers' = readers \cup {c} /\ named' = [named EXCEPT ![c] = Len(search)]
      /\ pc' = [pc EXCEPT ![c] = "listed"]
  BY DEF GetList, TimersTypeOK, TimersLockInv, Asks
<1>3. TimersTypeOK'
  <2>1. readers' \subseteq Client /\ named' \in [Client -> 0..MaxSearch] /\ pc' \in [Client -> {"idle", "begun", "listed", "children"}]
    BY <1>1, <1>2, SearchLengths DEF TimersTypeOK
  <2> QED
    BY <1>1, <1>2, <2>1 DEF TimersTypeOK
<1>4. TimersLockInv'
  BY <1>1, <1>2, ClientAssumption DEF TimersLockInv, TimersTypeOK
<1>5. RequestInv'
  BY <1>1, <1>2 DEF RequestInv, ListConsistent, TimersTypeOK, Ids
<1>6. SearchInv'
  BY <1>1, <1>2, SearchUnmoved
<1>7. ChildInv' /\ NoOrphans'
  BY <1>1, <1>2, ChildUnmoved
<1>8. DeletedInv => DeletedInv'
  BY <1>1, DeletedUnmoved
<1> QED
  BY <1>3, <1>4, <1>5, <1>6, <1>7, <1>8

\* A list ends.
LEMMA GetListSearchKeeps ==
  ASSUME TimersIInv, NEW c \in Client, GetListSearch(c)
  PROVE  TimersIInv' /\ (DeletedInv => DeletedInv')
<1> USE DEF TimersIInv
<1>1. UNCHANGED <<search, nextId, names, file, vdr, made, other, doScan, snap, todo, child, scan, searchLock, vdrLock, dropped, stale, misread>>
  BY DEF GetListSearch, scanThread, locks, clientState, history, Done
<1>2. /\ pc[c] # "idle" /\ Done(c)
      /\ pc' \in [Client -> {"idle", "begun", "listed", "children"}]
      /\ \A d \in Client : pc'[d] = "idle" /\ (d # c => pc[d] = "idle")
      /\ clientLock = c /\ clientLock' = Nobody /\ RequestInv'
  <2>1. pc[c] # "idle" /\ Done(c)
    BY DEF GetListSearch, Asks
  <2> QED
    BY <2>1, RequestEnds
<1>21. pc[c] = "listed" /\ readers' = readers \ {c} /\ named' = [named EXCEPT ![c] = 0] /\ searchLock = Nobody
  BY DEF GetListSearch, Asks, TimersTypeOK, TimersLockInv
<1>3. TimersTypeOK'
  <2>1. readers' \subseteq Client /\ named' \in [Client -> 0..MaxSearch]
    BY <1>1, <1>2, <1>21, TimersAssumption DEF TimersTypeOK, SearchInv
  <2> QED
    BY <1>1, <1>2, <2>1 DEF TimersTypeOK
<1>4. TimersLockInv'
  BY <1>1, <1>2, <1>21, ClientAssumption DEF TimersLockInv, TimersTypeOK
<1>5. RequestInv'
  BY <1>2
<1>6. SearchInv'
  BY <1>1, <1>2, <1>21, SearchUnmoved
<1>7. ChildInv' /\ NoOrphans'
  BY <1>1, <1>2, <1>21, ChildUnmoved
<1>8. DeletedInv => DeletedInv'
  BY <1>1, DeletedUnmoved
<1> QED
  BY <1>3, <1>4, <1>5, <1>6, <1>7, <1>8

\* A request finds its search timer, keeps its lock and waits for VDR's.
LEMMA ReachesKeeps ==
  ASSUME TimersIInv, NEW c \in Client, Reaches(c)
  PROVE  TimersIInv' /\ (DeletedInv => DeletedInv')
<1> USE DEF TimersIInv
<1>1. UNCHANGED <<search, nextId, names, file, vdr, made, other, doScan, snap, todo, child, scan, clientLock, vdrLock, readers, named, dropped, stale, misread>>
  BY DEF Reaches, scanThread, locks, clientState, history, Done
<1>2. /\ pc[c] = "begun" /\ searchLock = Nobody /\ searchLock' = c
      /\ pc' = [pc EXCEPT ![c] = "children"]
      /\ \E i \in DOMAIN search, f \in Fields : \E p \in {<<"delete", search[i].id>>, <<"update", search[i].id, f>>} : arg' = [arg EXCEPT ![c] = p]
  BY DEF Reaches, TimersTypeOK, TimersLockInv, Asks
<1>3. TimersTypeOK'
  BY <1>1, <1>2 DEF TimersTypeOK, TimersLockInv
<1>4. TimersLockInv'
  BY <1>1, <1>2, ClientAssumption DEF TimersLockInv, TimersTypeOK
<1>5. RequestInv'
  <2>1. arg' = [d \in Client |-> arg'[d]] /\ \A d \in Client \ {c} : arg'[d] = arg[d]
    BY <1>2 DEF RequestInv
  <2>2. pc'[c] = "children" /\ \A d \in Client \ {c} : pc'[d] = pc[d]
    BY <1>2 DEF TimersTypeOK
  <2>3. PICK i \in DOMAIN search, f \in Fields :
          arg'[c] = <<"delete", search[i].id>> \/ arg'[c] = <<"update", search[i].id, f>>
    BY <1>2, <2>1 DEF RequestInv
  <2>4. arg'[c][2] \in Ids(search) /\ (arg'[c][1] = "delete" \/ (arg'[c][1] = "update" /\ arg'[c][3] \in Fields))
    BY <2>3 DEF Ids
  <2> QED
    BY <1>1, <2>1, <2>2, <2>4 DEF RequestInv, ListConsistent, Ids
<1>6. SearchInv'
  BY <1>1, <1>2, SearchUnmoved
<1>7. ChildInv' /\ NoOrphans'
  BY <1>1, <1>2, ChildUnmoved
<1>8. DeletedInv => DeletedInv'
  BY <1>1, DeletedUnmoved
<1> QED
  BY <1>3, <1>4, <1>5, <1>6, <1>7, <1>8

\* A scan is asked for.
LEMMA ScanKeeps ==
  ASSUME TimersIInv, Scan
  PROVE  TimersIInv' /\ (DeletedInv => DeletedInv')
<1> USE DEF TimersIInv
<1>1. UNCHANGED <<search, nextId, names, file, vdr, made, other, snap, todo, child, scan, clientLock, searchLock, vdrLock, readers, pc, arg, named, dropped, stale, misread>>
  BY DEF Scan, scanThread, locks, clientState, history, Done
<1>2. doScan' \in BOOLEAN
  BY DEF Scan, TimersTypeOK, TimersLockInv, Asks
<1>3. TimersTypeOK'
  BY <1>1, <1>2 DEF TimersTypeOK, TimersLockInv
<1>4. TimersLockInv'
  BY <1>1, <1>2, ClientAssumption DEF TimersLockInv, TimersTypeOK
<1>5. RequestInv'
  BY <1>1, RequestUnmoved
<1>6. SearchInv'
  BY <1>1, <1>2, SearchUnmoved
<1>7. ChildInv' /\ NoOrphans'
  BY <1>1, <1>2, ChildUnmoved
<1>8. DeletedInv => DeletedInv'
  BY <1>1, DeletedUnmoved
<1> QED
  BY <1>3, <1>4, <1>5, <1>6, <1>7, <1>8

\* The copy has the ids and names of the search timers there are.
LEMMA TakeCopyKeeps ==
  ASSUME TimersIInv, TakeCopy
  PROVE  TimersIInv' /\ (DeletedInv => DeletedInv')
<1> USE DEF TimersIInv
<1>1. UNCHANGED <<search, nextId, names, file, vdr, made, other, todo, child, clientLock, searchLock, vdrLock, readers, pc, arg, named, dropped, stale, misread>>
  BY DEF TakeCopy, scanThread, locks, clientState, history, Done
<1>2. scan = "idle" /\ doScan' = FALSE /\ snap' = search /\ scan' = "write" /\ snap = << >>
  BY DEF TakeCopy, SearchInv, TimersTypeOK, TimersLockInv, Asks
<1>3. TimersTypeOK'
  BY <1>1, <1>2 DEF TimersTypeOK, TimersLockInv
<1>4. TimersLockInv'
  BY <1>1, <1>2, ClientAssumption DEF TimersLockInv, TimersTypeOK
<1>5. RequestInv'
  BY <1>1, RequestUnmoved
<1>6. SearchInv'
  <2>1. todo = {}
    BY <1>2 DEF SearchInv
  <2>2. Len(snap') <= MaxSearch
    BY <1>2, SearchLengths
  <2>3. Readable(file)' = Readable(Written(search))' /\ OwnNames(search)' /\ OwnNames(file)'
    BY <1>1 DEF SearchInv, Readable, Written, OwnNames
  <2>4. \A k \in DOMAIN snap' : snap'[k].name <= names'
    BY <1>1, <1>2 DEF SearchInv, OwnNames
  <2> QED
    BY <1>1, <1>2, <2>1, <2>2, <2>3, <2>4 DEF SearchInv
<1>7. ChildInv' /\ NoOrphans'
  BY <1>1, <1>2, ChildUnmoved
<1>8. DeletedInv => DeletedInv'
  BY <1>1, DeletedUnmoved
<1> QED
  BY <1>3, <1>4, <1>5, <1>6, <1>7, <1>8

\* VDR's lock is taken.
LEMMA ScanLockKeeps ==
  ASSUME TimersIInv, ScanLock
  PROVE  TimersIInv' /\ (DeletedInv => DeletedInv')
<1> USE DEF TimersIInv
<1>1. UNCHANGED <<search, nextId, names, file, vdr, made, other, doScan, snap, todo, child, clientLock, searchLock, readers, pc, arg, named, dropped, stale, misread>>
  BY DEF ScanLock, scanThread, locks, clientState, history
<1>2. scan = "write" /\ vdrLock' = "scan" /\ scan' = "sched" /\ readers = {}
  BY DEF ScanLock, Writable
<1>3. TimersTypeOK'
  BY <1>1, <1>2 DEF TimersTypeOK
<1>4. TimersLockInv'
  BY <1>1, <1>2, ClientAssumption DEF TimersLockInv, TimersTypeOK
<1>5. RequestInv'
  BY <1>1, RequestUnmoved
<1>6. SearchInv'
  BY <1>1, <1>2, SearchUnmoved
<1>7. ChildInv' /\ NoOrphans'
  BY <1>1, <1>2, ChildUnmoved
<1>8. DeletedInv => DeletedInv'
  BY <1>1, DeletedUnmoved
<1> QED
  BY <1>3, <1>4, <1>5, <1>6, <1>7, <1>8

\* What matches is to be looked at.
LEMMA ScanBeginKeeps ==
  ASSUME TimersIInv, ScanBegin
  PROVE  TimersIInv' /\ (DeletedInv => DeletedInv')
<1> USE DEF TimersIInv
<1>1. UNCHANGED <<search, nextId, names, file, vdr, made, other, doScan, snap, child, clientLock, searchLock, vdrLock, readers, pc, arg, named, dropped, stale, misread>>
  BY DEF ScanBegin, scanThread, locks, clientState, history
<1>2. scan = "sched" /\ scan' = "scan" /\ \A p \in todo' : p \in (DOMAIN snap) \X Events
  BY DEF ScanBegin
<1>3. TimersTypeOK'
  <2>1. todo' \subseteq (1..MaxSearch) \X Events
    BY <1>2, SearchLengths
  <2> QED
    BY <1>1, <1>2, <2>1 DEF TimersTypeOK
<1>4. TimersLockInv'
  BY <1>1, <1>2, ClientAssumption DEF TimersLockInv, TimersTypeOK
<1>5. RequestInv'
  BY <1>1, RequestUnmoved
<1>6. SearchInv'
  <2>1. Readable(file)' = Readable(Written(search))' /\ OwnNames(search)' /\ OwnNames(file)'
    BY <1>1 DEF SearchInv, Readable, Written, OwnNames
  <2> QED
    BY <1>1, <1>2, <2>1 DEF SearchInv
<1>7. ChildInv' /\ NoOrphans'
  BY <1>1, <1>2, ChildUnmoved
<1>8. DeletedInv => DeletedInv'
  BY <1>1, DeletedUnmoved
<1> QED
  BY <1>3, <1>4, <1>5, <1>6, <1>7, <1>8

\* The list that the search thread asks for is taken and left by others.
LEMMA ListsKeep ==
  ASSUME TimersIInv, ListTaken \/ ListLeft
  PROVE  TimersIInv' /\ (DeletedInv => DeletedInv')
<1> USE DEF TimersIInv
<1>1. UNCHANGED <<search, nextId, names, file, vdr, made, doScan, snap, todo, child, scan, clientLock, searchLock, vdrLock, readers, pc, arg, named, dropped, stale, misread>>
  BY DEF ListTaken, ListLeft, scanThread, locks, clientState, history
<1>3. TimersTypeOK'
  BY <1>1 DEF TimersTypeOK, ListTaken, ListLeft
<1>4. TimersLockInv'
  BY <1>1 DEF TimersLockInv
<1>5. RequestInv'
  BY <1>1, RequestUnmoved
<1>6. SearchInv'
  BY <1>1, SearchUnmoved
<1>7. ChildInv' /\ NoOrphans'
  BY <1>1, ChildUnmoved
<1>8. DeletedInv => DeletedInv'
  BY <1>1, DeletedUnmoved
<1> QED
  BY <1>3, <1>4, <1>5, <1>6, <1>7, <1>8

\* Without a copy nothing is to be looked at.
LEMMA ScanEndKeeps ==
  ASSUME TimersIInv, ScanEnd
  PROVE  TimersIInv' /\ (DeletedInv => DeletedInv')
<1> USE DEF TimersIInv
<1>1. UNCHANGED <<search, nextId, names, file, vdr, made, other, doScan, todo, child, clientLock, searchLock, readers, pc, arg, named, dropped, stale, misread>>
  BY DEF ScanEnd, scanThread, locks, clientState, history, Done
<1>2. /\ scan = "scan" /\ vdrLock' = "none" /\ scan' = "idle" /\ snap' = << >> /\ todo = {}
  BY DEF ScanEnd, TimersTypeOK, TimersLockInv, Asks
<1>3. TimersTypeOK'
  BY <1>1, <1>2 DEF TimersTypeOK, TimersLockInv
<1>4. TimersLockInv'
  BY <1>1, <1>2, ClientAssumption DEF TimersLockInv, TimersTypeOK
<1>5. RequestInv'
  BY <1>1, RequestUnmoved
<1>6. SearchInv'
  <2>1. Len(snap') <= MaxSearch /\ DOMAIN snap' = {}
    BY <1>2, TimersAssumption
  <2>2. Readable(file)' = Readable(Written(search))' /\ OwnNames(search)' /\ OwnNames(file)' /\ todo' = {}
    BY <1>1, <1>2 DEF SearchInv, Readable, Written, OwnNames
  <2> QED
    BY <1>1, <1>2, <2>1, <2>2 DEF SearchInv
<1>7. ChildInv' /\ NoOrphans'
  BY <1>1, <1>2, ChildUnmoved
<1>8. DeletedInv => DeletedInv'
  BY <1>1, DeletedUnmoved
<1> QED
  BY <1>3, <1>4, <1>5, <1>6, <1>7, <1>8

\* What is passed over makes no child.
LEMMA PassOverKeeps ==
  ASSUME TimersIInv, NEW p \in todo, PassOver(p)
  PROVE  TimersIInv' /\ (DeletedInv => DeletedInv')
<1> USE DEF TimersIInv
<1>1. UNCHANGED <<search, nextId, names, file, vdr, made, other, doScan, snap, child, scan, clientLock, searchLock, vdrLock, readers, pc, arg, named, dropped, stale, misread>>
  BY DEF PassOver, scanThread, locks, clientState, history, Done
<1>2. todo' = todo \ {p}
  BY DEF PassOver, TimersTypeOK, TimersLockInv, Asks
<1>3. TimersTypeOK'
  BY <1>1, <1>2 DEF TimersTypeOK, TimersLockInv
<1>4. TimersLockInv'
  BY <1>1, <1>2, ClientAssumption DEF TimersLockInv, TimersTypeOK
<1>5. RequestInv'
  BY <1>1, RequestUnmoved
<1>6. SearchInv'
  BY <1>1, <1>2, SearchUnmoved
<1>7. ChildInv' /\ NoOrphans'
  BY <1>1, <1>2, ChildUnmoved
<1>8. DeletedInv => DeletedInv'
  BY <1>1, DeletedUnmoved
<1> QED
  BY <1>3, <1>4, <1>5, <1>6, <1>7, <1>8

-----------------------------------------------------------------------------
(* Search timers come, go and change.                                           *)

\* No search timer is lost and none forgets a child: the children have theirs still.
LEMMA ChildrenStay ==
  ASSUME TimersTypeOK, ChildInv, NoOrphans, UNCHANGED <<vdr, made, child, stale, misread, scan>>,
         names' \in Nat, names' >= names,
         \A i \in DOMAIN search : \E j \in DOMAIN search' :
           /\ search'[j].name = search[i].name /\ search'[j].ch = search[i].ch
           /\ search[i].created \subseteq search'[j].created
  PROVE  ChildInv' /\ NoOrphans'
<1>1. \A t \in Timer : t.by \in Nat /\ t.id \in Nat
  BY DEF Timer
<1>2. ChildInv'
  BY <1>1 DEF ChildInv, TimersTypeOK
<1>3. NoOrphans'
  BY DEF NoOrphans, IsParent
<1> QED
  BY <1>2, <1>3

\* Those that were deleted by hand are in the lists of theirs still.
LEMMA DeletedStay ==
  ASSUME TimersTypeOK, DeletedInv, UNCHANGED <<dropped, misread>>, names' \in Nat, names' >= names,
         \A i \in DOMAIN search : \E j \in DOMAIN search' :
           search'[j].name = search[i].name /\ search[i].created \subseteq search'[j].created
  PROVE  DeletedInv'
<1> SUFFICES ASSUME NEW d \in dropped
             PROVE  /\ d[1] <= names'
                    /\ d[1] \in misread \/ \E j \in DOMAIN search' : search'[j].name = d[1] /\ d[2] \in search'[j].created
  BY DEF DeletedInv
<1>1. d[1] \in Nat /\ names \in Nat /\ d[1] <= names
  BY DEF TimersTypeOK, DeletedInv
<1>2. d[1] \in misread \/ \E i \in DOMAIN search : search[i].name = d[1] /\ d[2] \in search[i].created
  BY DEF DeletedInv
<1> QED
  BY <1>1, <1>2

\* A new search timer has an id and a name nobody has had.
LEMMA AddKeeps ==
  ASSUME TimersIInv, NEW c \in Client, Add(c)
  PROVE  TimersIInv' /\ (DeletedInv => DeletedInv')
<1> USE DEF TimersIInv
<1>1. UNCHANGED <<vdr, made, other, doScan, snap, todo, child, scan, searchLock, vdrLock, readers, named, dropped, stale, misread>>
  BY DEF Add, scanThread, locks, clientState, history, Done
<1>2. /\ pc[c] = "begun" /\ Done(c)
      /\ pc' \in [Client -> {"idle", "begun", "listed", "children"}]
      /\ \A d \in Client : pc'[d] = "idle" /\ (d # c => pc[d] = "idle")
      /\ clientLock = c /\ clientLock' = Nobody /\ RequestInv'
  <2>1. pc[c] = "begun" /\ Done(c)
    BY DEF Add, Asks
  <2> QED
    BY <2>1, RequestEnds
<1>0. PICK f \in Fields, m \in Margins :
        search' = Append(search, [id |-> nextId + 1, name |-> names + 1, ch |-> f.ch,
                    text |-> f.text, on |-> f.on, plain |-> f.plain, margin |-> m, created |-> {}])
  BY DEF Add
<1> DEFINE new == [id |-> nextId + 1, name |-> names + 1, ch |-> f.ch,
                    text |-> f.text, on |-> f.on, plain |-> f.plain, margin |-> m, created |-> {}]
           n == Len(search)
<1>a. nextId \in Nat /\ names \in Nat /\ names < MaxSearch /\ nextId <= names /\ MaxSearch \in Nat
  BY TimersAssumption DEF TimersTypeOK, SearchInv, Add
<1>b. new \in SearchTimer /\ new.id = nextId + 1 /\ new.name = names + 1
  BY <1>a, TimersAssumption DEF SearchTimer
<1>c. n \in Nat /\ n <= names /\ DOMAIN search = 1..n /\ search \in Seq(SearchTimer)
  BY SearchLengths DEF SearchInv, TimersTypeOK, OwnNames
<1> HIDE DEF new, n
<1>d. /\ search' \in Seq(SearchTimer) /\ Len(search') = n + 1 /\ DOMAIN search' = 1..(n + 1)
      /\ search'[n + 1] = new /\ \A i \in 1..n : search'[i] = search[i]
  <2>1. search' = Append(search, new)
    BY <1>0 DEF new
  <2> QED
    BY <1>b, <1>c, <2>1, AppendProperties, LenProperties DEF n
<1>e. nextId' = nextId + 1 /\ names' = names + 1 /\ file' = Written(search')
  BY DEF Add, Save
<1>6. SearchInv' /\ file' \in Seq(Line)
  <2>1. \A i \in 1..n : search[i].id \in Nat /\ search[i].name \in Nat /\ search[i].id <= nextId /\ search[i].name <= names
    <3>1. \A i \in 1..n : search[i].id \in Nat /\ search[i].name \in Nat
      BY <1>c, SearchLengths DEF SearchTimer
    <3>2. \A i \in 1..n : search[i].id <= nextId /\ search[i].name <= names
      BY <1>c DEF SearchInv, OwnNames
    <3> QED
      BY <3>1, <3>2
  <2>0. \A i \in DOMAIN search' : i = n + 1 \/ (i \in 1..n /\ search'[i] = search[i])
    BY <1>c, <1>d
  <2>01. search'[n + 1].id = nextId + 1 /\ search'[n + 1].name = names + 1
    BY <1>b, <1>d
  <2>3. Len(search') <= names' /\ nextId' <= names' /\ Len(snap') <= MaxSearch
    BY <1>1, <1>a, <1>c, <1>d, <1>e DEF SearchInv
  <2>4. ASSUME NEW i \in DOMAIN search' PROVE search'[i].id <= nextId' /\ search'[i].name <= names'
    <3>1. CASE i = n + 1
      BY <1>a, <1>e, <2>01, <3>1
    <3>2. CASE i \in 1..n /\ search'[i] = search[i]
      BY <1>a, <1>e, <2>1, <3>2
    <3> QED
      BY <2>0, <3>1, <3>2
  <2>5. ASSUME NEW i \in DOMAIN search', NEW j \in DOMAIN search', i # j
        PROVE  search'[i].id # search'[j].id /\ search'[i].name # search'[j].name
    <3>1. CASE i = n + 1
      BY <1>a, <2>0, <2>01, <2>1, <2>5, <3>1
    <3>2. CASE j = n + 1
      BY <1>a, <2>0, <2>01, <2>1, <2>5, <3>2
    <3>3. CASE i \in 1..n /\ search'[i] = search[i] /\ j \in 1..n /\ search'[j] = search[j]
      BY <1>c, <2>5, <3>3 DEF SearchInv, OwnNames
    <3> QED
      BY <2>0, <3>1, <3>2, <3>3
  <2>6. \A k \in DOMAIN snap : snap[k].name <= names'
    <3>1. \A k \in DOMAIN snap : snap[k].name \in Nat /\ snap[k].name <= names
      BY SearchLengths DEF SearchInv, SearchTimer
    <3> QED
      BY <1>a, <1>e, <3>1
  <2>7. OwnNames(search)'
    BY <2>3, <2>4, <2>5 DEF OwnNames
  <2>8. file' \in Seq(Line) /\ OwnNames(file)' /\ Readable(file)' = Readable(Written(search))'
    BY <1>d, <1>e, <2>7, SavedIs
  <2> QED
    BY <1>1, <2>3, <2>4, <2>5, <2>6, <2>7, <2>8 DEF SearchInv
<1>3. TimersTypeOK'
  BY <1>1, <1>2, <1>6, <1>a, <1>d, <1>e DEF TimersTypeOK
<1>4. TimersLockInv'
  BY <1>1, <1>2, ClientAssumption DEF TimersLockInv, TimersTypeOK
<1>5. RequestInv'
  BY <1>2
<1>7. ChildInv' /\ NoOrphans'
  <2>1. \A i \in DOMAIN search : i \in DOMAIN search' /\ search'[i] = search[i]
    BY <1>c, <1>d
  <2>2. names' \in Nat /\ names' >= names
    BY <1>a, <1>e
  <2> QED
    BY <1>1, <2>1, <2>2, ChildrenStay
<1>8. DeletedInv => DeletedInv'
  <2>1. \A i \in DOMAIN search : i \in DOMAIN search' /\ search'[i] = search[i]
    BY <1>c, <1>d
  <2>2. names' \in Nat /\ names' >= names
    BY <1>a, <1>e
  <2> QED
    BY <1>1, <2>1, <2>2, DeletedStay
<1> QED
  BY <1>3, <1>4, <1>5, <1>6, <1>7, <1>8

\* What a request gives a search timer makes another search timer.
LEMMA UpdatedIs ==
  ASSUME NEW x \in SearchTimer, NEW f \in Fields, NEW m \in Margins
  PROVE  /\ Updated(x, f, m) \in SearchTimer
         /\ Updated(x, f, m).id = x.id /\ Updated(x, f, m).name = x.name /\ Updated(x, f, m).ch = f.ch
         /\ Updated(x, f, m).created = x.created
BY TimersAssumption DEF SearchTimer, Updated

\* One search timer is changed and keeps its id and its name.
LEMMA OneChanges ==
  ASSUME TimersTypeOK, SearchInv, NEW i \in DOMAIN search, NEW x \in SearchTimer,
         x.id = search[i].id, x.name = search[i].name, search' = [search EXCEPT ![i] = x],
         file' = Written(search'), UNCHANGED <<nextId, names, snap, todo, scan>>
  PROVE  /\ search' \in Seq(SearchTimer) /\ file' \in Seq(Line) /\ SearchInv' /\ DOMAIN search' = DOMAIN search
         /\ search'[i] = x /\ \A j \in DOMAIN search \ {i} : search'[j] = search[j]
<1>1. /\ search' \in Seq(SearchTimer) /\ Len(search') = Len(search) /\ DOMAIN search' = DOMAIN search
      /\ search'[i] = x /\ \A j \in DOMAIN search \ {i} : search'[j] = search[j]
  BY SearchLengths, ExceptSeq, LenProperties DEF TimersTypeOK
<1>2. \A j \in DOMAIN search : search'[j].id = search[j].id /\ search'[j].name = search[j].name
  BY <1>1
<1>3. OwnNames(search)'
  BY <1>1, <1>2 DEF SearchInv, OwnNames
<1>4. file' \in Seq(Line) /\ OwnNames(file)' /\ Readable(file)' = Readable(Written(search))'
  BY <1>1, <1>3, SavedIs
<1>5. SearchInv'
  BY <1>1, <1>2, <1>3, <1>4 DEF SearchInv
<1> QED
  BY <1>1, <1>4, <1>5

\* A search timer that changes without losing its channel keeps its children.
LEMMA UpdateKeeps ==
  ASSUME TimersIInv, NEW c \in Client, Update(c)
  PROVE  TimersIInv' /\ (DeletedInv => DeletedInv')
<1> USE DEF TimersIInv
<1>1. UNCHANGED <<nextId, names, vdr, made, other, doScan, snap, todo, child, scan, searchLock, vdrLock, readers, named, dropped, stale, misread>>
  BY DEF Update, scanThread, locks, clientState, history, Done
<1>2. /\ pc[c] = "begun" /\ Done(c)
      /\ pc' \in [Client -> {"idle", "begun", "listed", "children"}]
      /\ \A d \in Client : pc'[d] = "idle" /\ (d # c => pc[d] = "idle")
      /\ clientLock = c /\ clientLock' = Nobody /\ RequestInv'
  <2>1. pc[c] = "begun" /\ Done(c)
    BY DEF Update, Asks
  <2> QED
    BY <2>1, RequestEnds
<1>0. PICK i \in DOMAIN search, f \in Fields, m \in Margins :
        search[i].ch = f.ch /\ search' = [search EXCEPT ![i] = Updated(@, f, m)]
  BY DEF Update
<1> DEFINE x == Updated(search[i], f, m)
<1>a. x \in SearchTimer /\ x.id = search[i].id /\ x.name = search[i].name /\ x.ch = search[i].ch /\ x.created = search[i].created
  BY <1>0, SearchLengths, UpdatedIs
<1>b. search' = [search EXCEPT ![i] = x] /\ file' = Written(search')
  BY <1>0 DEF Update, Save
<1> HIDE DEF x
<1>c. /\ search' \in Seq(SearchTimer) /\ file' \in Seq(Line) /\ SearchInv' /\ DOMAIN search' = DOMAIN search
      /\ search'[i] = x /\ \A j \in DOMAIN search \ {i} : search'[j] = search[j]
  BY <1>1, <1>a, <1>b, OneChanges
<1>d. \A j \in DOMAIN search : /\ search'[j].name = search[j].name /\ search'[j].ch = search[j].ch
                              /\ search'[j].created = search[j].created
  BY <1>a, <1>c
<1>e. names' \in Nat /\ names' >= names
  BY <1>1 DEF TimersTypeOK
<1>3. TimersTypeOK'
  BY <1>1, <1>2, <1>c DEF TimersTypeOK
<1>4. TimersLockInv'
  BY <1>1, <1>2, ClientAssumption DEF TimersLockInv, TimersTypeOK
<1>5. RequestInv'
  BY <1>2
<1>6. SearchInv'
  BY <1>c
<1>7. ChildInv' /\ NoOrphans'
  BY <1>1, <1>c, <1>d, <1>e, ChildrenStay
<1>8. DeletedInv => DeletedInv'
  BY <1>1, <1>c, <1>d, <1>e, DeletedStay
<1> QED
  BY <1>3, <1>4, <1>5, <1>6, <1>7, <1>8

\* What is read of a line that was written without anything in it that cannot be read.
LEMMA ReadIs ==
  ASSUME NEW s \in SearchTimer, NEW i, NEW line \in Line, IsRead(s, i, line), line.plain, line.text \notin Odd
  PROVE  /\ s.id = i /\ s.name = line.name /\ s.ch = line.ch /\ s.created = line.created
         /\ line = [name |-> s.name, ch |-> s.ch, text |-> s.text, on |-> s.on, plain |-> s.plain, created |-> s.created]
BY DEF IsRead, Line, SearchTimer

\* The search timers are read from the file, with new ids, when there is no copy.
LEMMA RestartKeeps ==
  ASSUME TimersIInv, Restart
  PROVE  TimersIInv' /\ (DeletedInv => DeletedInv')
<1> USE DEF TimersIInv
<1>1. UNCHANGED <<names, file, vdr, made, other, snap, todo, child, scan, clientLock, searchLock, vdrLock, readers, pc, arg, named, dropped, stale>>
  BY DEF Restart, scanThread, locks, clientState
<1>0. /\ \A c \in Client : pc[c] = "idle"
      /\ scan = "idle" /\ doScan' = FALSE
  BY DEF Restart
<1>2. PICK n \in 0..Len(file), known \in SUBSET Channels :
       \E from \in [1..n -> DOMAIN file], s \in [1..n -> SearchTimer] :
         LET skipped == {i \in DOMAIN file : \A j \in 1..n : from[j] # i}
         IN /\ \A j, k \in 1..n : j < k => from[j] < from[k]
            /\ \A j \in 1..n : file[from[j]].ch \in known /\ IsRead(s[j], j, file[from[j]])
            /\ \A i \in skipped : file[i].ch \notin known \/ ~file[i].plain
            /\ search' = s /\ nextId' = n
            /\ misread' = misread \cup
                 {file[i].name : i \in {i \in DOMAIN file :
                   i \in skipped \/ ~file[i].plain \/ file[i].text \in Odd}}
  BY DEF Restart
<1>3. PICK from \in [1..n -> DOMAIN file], s \in [1..n -> SearchTimer] :
         /\ \A j, k \in 1..n : j < k => from[j] < from[k]
         /\ \A j \in 1..n : IsRead(s[j], j, file[from[j]])
         /\ search' = s /\ nextId' = n
         /\ misread' = misread \cup
              {file[i].name : i \in {i \in DOMAIN file :
                (\A j \in 1..n : from[j] # i) \/ ~file[i].plain \/ file[i].text \in Odd}}
  BY <1>2
<1> HIDE <1>2
<1>4. /\ Len(file) \in Nat /\ DOMAIN file = 1..Len(file) /\ \A i \in DOMAIN file : file[i] \in Line
      /\ names \in Nat /\ Len(file) <= names /\ names <= MaxSearch
      /\ \A i \in DOMAIN file : file[i].name \in 1..MaxSearch /\ file[i].name <= names
  <2>1. Len(file) \in Nat /\ DOMAIN file = 1..Len(file) /\ \A i \in DOMAIN file : file[i] \in Line
    BY LenProperties, ElementOfSeq DEF TimersTypeOK
  <2>2. names \in Nat /\ Len(file) <= names /\ names <= MaxSearch
    BY DEF TimersTypeOK, SearchInv, OwnNames
  <2> QED
    BY <2>1, <2>2 DEF SearchInv, OwnNames, Line
<1>5. /\ n \in Nat /\ n <= Len(file) /\ search' \in Seq(SearchTimer) /\ DOMAIN search' = 1..n /\ Len(search') = n
      /\ \A j \in 1..n : search'[j] = s[j] /\ s[j] \in SearchTimer /\ from[j] \in DOMAIN file
  <2>1. n \in Nat /\ n <= Len(file)
    BY <1>4
  <2>2. search' \in [1..n -> SearchTimer]
    BY <1>3
  <2>3. search' \in Seq(SearchTimer) /\ DOMAIN search' = 1..n
    BY <2>1, <2>2
  <2>4. Len(search') = n
    BY <2>1, <2>3, LenProperties
  <2> QED
    BY <1>3, <2>1, <2>3, <2>4
<1>6. \A j \in 1..n : s[j].id = j /\ s[j].name = file[from[j]].name
  BY <1>3 DEF IsRead
<1>7. ASSUME NEW i \in DOMAIN file, file[i].name \notin misread'
      PROVE  \E j \in 1..n : from[j] = i /\ file[i].plain /\ file[i].text \notin Odd
  <2>1. ~((\A j \in 1..n : from[j] # i) \/ ~file[i].plain \/ file[i].text \in Odd)
    BY <1>3, <1>7
  <2> QED
    BY <2>1, <1>4 DEF Line
<1>8. \A j \in 1..n : s[j].name \notin misread' =>
        /\ s[j].ch = file[from[j]].ch /\ s[j].created = file[from[j]].created
        /\ file[from[j]] = [name |-> s[j].name, ch |-> s[j].ch, text |-> s[j].text, on |-> s[j].on,
                            plain |-> s[j].plain, created |-> s[j].created]
  <2> SUFFICES ASSUME NEW j \in 1..n, s[j].name \notin misread'
               PROVE  /\ s[j].ch = file[from[j]].ch /\ s[j].created = file[from[j]].created
                      /\ file[from[j]] = [name |-> s[j].name, ch |-> s[j].ch, text |-> s[j].text, on |-> s[j].on,
                                          plain |-> s[j].plain, created |-> s[j].created]
    OBVIOUS
  <2>1. from[j] \in DOMAIN file /\ file[from[j]].name \notin misread' /\ file[from[j]] \in Line
    BY <1>4, <1>5, <1>6
  <2>2. file[from[j]].plain /\ file[from[j]].text \notin Odd
    BY <1>7, <2>1
  <2> QED
    BY <1>3, <1>5, <2>1, <2>2, ReadIs
<1>9. /\ DOMAIN Written(search') = 1..n
      /\ \A j \in 1..n : Written(search')[j] = [name |-> s[j].name, ch |-> s[j].ch, text |-> s[j].text, on |-> s[j].on,
                                                 plain |-> s[j].plain, created |-> s[j].created]
  BY <1>5, LinesAre
\* A search timer that can be read is there again, with its children.
<1>10. ASSUME NEW i \in DOMAIN search, search[i].name \notin misread'
       PROVE  \E j \in DOMAIN search' : /\ search'[j].name = search[i].name /\ search'[j].ch = search[i].ch
                                        /\ search'[j].created = search[i].created
  <2>1. search[i].name \notin misread
    BY <1>3, <1>10
  <2>2. /\ i \in DOMAIN Written(search) /\ Written(search)[i].name = search[i].name
        /\ Written(search)[i].ch = search[i].ch /\ Written(search)[i].created = search[i].created
    BY DEF Written
  <2>3. Written(search)[i] \in Readable(Written(search))
    BY <2>1, <2>2 DEF Readable, Range
  <2>4. Written(search)[i] \in Readable(file)
    BY <2>3 DEF SearchInv
  <2>5. PICK k \in DOMAIN file : file[k] = Written(search)[i]
    BY <2>4 DEF Readable, Range
  <2>6. PICK j \in 1..n : from[j] = k
    BY <1>7, <1>10, <2>2, <2>5
  <2>7. s[j].name \notin misread'
    BY <1>6, <1>10, <2>2, <2>5, <2>6
  <2>8. s[j].name = search[i].name /\ s[j].ch = search[i].ch /\ s[j].created = search[i].created
    <3>1. s[j].name = file[from[j]].name
      BY <1>6
    <3>2. s[j].ch = file[from[j]].ch /\ s[j].created = file[from[j]].created
      BY <1>8, <2>7
    <3>3. file[from[j]] = Written(search)[i]
      BY <2>5, <2>6
    <3> QED
      BY <2>2, <3>1, <3>2, <3>3
  <2> QED
    BY <1>5, <2>8
<1>11. misread \subseteq misread' /\ misread' \subseteq 1..MaxSearch
  BY <1>3, <1>4 DEF TimersTypeOK
<1>12. TimersTypeOK'
  <2>1. nextId' \in 0..MaxSearch
    BY <1>3, <1>4, <1>5, TimersAssumption
  <2>2. doScan' \in BOOLEAN
    BY <1>0
  <2> QED
    BY <1>1, <1>5, <1>11, <2>1, <2>2 DEF TimersTypeOK
<1>13. TimersLockInv'
  BY <1>1 DEF TimersLockInv
<1>14. RequestInv'
  BY <1>0, <1>1 DEF RequestInv, ListConsistent
<1>15. OwnNames(search)'
  <2>1. Len(search') <= names'
    BY <1>1, <1>4, <1>5
  <2>2. \A j \in 1..n : s[j].name <= names
    BY <1>4, <1>5, <1>6
  <2>3. ASSUME NEW j \in 1..n, NEW k \in 1..n, j # k PROVE s[j].name # s[k].name
    <3>1. from[j] # from[k]
      <4>1. from[j] \in Int /\ from[k] \in Int /\ j \in Int /\ k \in Int
        BY <1>4, <1>5
      <4>2. j < k \/ k < j
        BY <2>3, <4>1
      <4> QED
        BY <1>3, <4>1, <4>2
    <3>2. file[from[j]].name # file[from[k]].name
      BY <1>5, <3>1 DEF SearchInv, OwnNames
    <3> QED
      BY <1>6, <3>2
  <2> QED
    BY <1>1, <1>5, <2>1, <2>2, <2>3 DEF OwnNames
<1>16. Readable(file)' = Readable(Written(search))'
  <2>1. Written(search)' = Written(search') /\ file' = file
    BY <1>1 DEF Written
  <2>2. ASSUME NEW l \in Readable(file)' PROVE l \in Readable(Written(search))'
    <3>1. PICK i \in DOMAIN file : file[i] = l /\ l.name \notin misread'
      BY <2>1 DEF Readable, Range
    <3>2. PICK j \in 1..n : from[j] = i
      BY <1>7, <3>1
    <3>3. Written(search')[j] = l
      BY <1>6, <1>8, <1>9, <3>1, <3>2
    <3> QED
      BY <1>9, <2>1, <3>1, <3>3 DEF Readable, Range
  <2>3. ASSUME NEW l \in Readable(Written(search))' PROVE l \in Readable(file)'
    <3>1. PICK j \in 1..n : Written(search')[j] = l /\ l.name \notin misread'
      BY <1>9, <2>1 DEF Readable, Range
    <3>2. s[j].name \notin misread'
      <4>1. Written(search')[j].name = s[j].name
        BY <1>9
      <4> QED
        BY <3>1, <4>1
    <3>3. l = file[from[j]]
      BY <1>8, <1>9, <3>1, <3>2
    <3> QED
      BY <1>5, <2>1, <3>1, <3>3 DEF Readable, Range
  <2> QED
    BY <2>2, <2>3
<1>17. SearchInv'
  <2>1. snap' = << >> /\ todo' = {}
    BY <1>0, <1>1 DEF SearchInv
  <2>2. DOMAIN snap' = {} /\ Len(snap') = 0 /\ 0 <= MaxSearch
    BY <2>1, TimersAssumption
  <2>3. OwnNames(file)'
    BY <1>1 DEF SearchInv, OwnNames
  <2>4. nextId' <= names'
    BY <1>1, <1>3, <1>4, <1>5
  <2>5. \A j \in 1..n : search'[j].id = j
    BY <1>5, <1>6
  <2>6. \A j \in DOMAIN search' : search'[j].id <= nextId'
    BY <1>3, <1>5, <2>5
  <2>7. \A j, k \in DOMAIN search' : j # k => search'[j].id # search'[k].id
    BY <1>5, <2>5
  <2> QED
    BY <1>15, <1>16, <2>1, <2>2, <2>3, <2>4, <2>6, <2>7 DEF SearchInv
<1>18. ChildInv' /\ NoOrphans'
  <2>1. ChildInv'
    BY <1>0, <1>1 DEF ChildInv
  <2>2. child = NoTimer /\ \A t \in vdr : t # NoTimer
    BY <1>0 DEF TimersLockInv, TimersTypeOK, Timer, NoTimer
  <2>3. ASSUME NEW t \in vdr, t.by # 0, ~t.rec, t.id \notin stale, t.by \notin misread'
        PROVE  \E j \in DOMAIN search' : search'[j].name = t.by /\ IsParent(search'[j], t)
    <3>1. PICK i \in DOMAIN search : search[i].name = t.by /\ IsParent(search[i], t)
      BY <1>11, <2>2, <2>3 DEF NoOrphans
    <3> QED
      BY <1>10, <2>3, <3>1 DEF IsParent
  <2>4. NoOrphans'
    BY <1>1, <2>3 DEF NoOrphans, IsParent
  <2> QED
    BY <2>1, <2>4
<1>19. DeletedInv => DeletedInv'
  <2> SUFFICES ASSUME DeletedInv, NEW d \in dropped, d[1] \notin misread'
               PROVE  \E j \in DOMAIN search' : search'[j].name = d[1] /\ d[2] \in search'[j].created
    BY <1>1 DEF DeletedInv
  <2>1. PICK i \in DOMAIN search : search[i].name = d[1] /\ d[2] \in search[i].created
    BY <1>11 DEF DeletedInv
  <2> QED
    BY <1>10, <2>1
<1> QED
  BY <1>12, <1>13, <1>14, <1>17, <1>18, <1>19

\* One search timer goes and the others stay as they are.
LEMMA OneGoes ==
  ASSUME TimersTypeOK, SearchInv, NEW i \in DOMAIN search,
         search' = RemoveAt(search, i),
         file' = Written(search'), UNCHANGED <<nextId, names, snap, todo, scan>>
  PROVE  /\ search' \in Seq(SearchTimer) /\ file' \in Seq(Line) /\ SearchInv'
         /\ \A j \in DOMAIN search' : \E k \in DOMAIN search \ {i} : search'[j] = search[k]
         /\ \A k \in DOMAIN search \ {i} : \E j \in DOMAIN search' : search'[j] = search[k]
<1> DEFINE n == Len(search')
           old == [j \in 1..n |-> IF j < i THEN j ELSE j + 1]
<1>1. /\ search' \in Seq(SearchTimer) /\ n \in Nat /\ n + 1 = Len(search) /\ DOMAIN search' = 1..n
      /\ \A j \in 1..n : search'[j] = search[IF j < i THEN j ELSE j + 1]
  <2>1. search \in Seq(SearchTimer)
    BY DEF TimersTypeOK
  <2>2. /\ search' \in Seq(SearchTimer) /\ Len(search') \in Nat /\ Len(search') + 1 = Len(search)
        /\ DOMAIN search' = 1..Len(search')
        /\ \A j \in 1..Len(search') : search'[j] = search[IF j < i THEN j ELSE j + 1]
    <3>1. search' = RemoveAt(search, i)
      OBVIOUS
    <3>2. /\ RemoveAt(search, i) \in Seq(SearchTimer) /\ Len(RemoveAt(search, i)) \in Nat
          /\ Len(RemoveAt(search, i)) + 1 = Len(search)
          /\ DOMAIN RemoveAt(search, i) = 1..Len(RemoveAt(search, i))
          /\ \A j \in 1..Len(RemoveAt(search, i)) : RemoveAt(search, i)[j] = search[IF j < i THEN j ELSE j + 1]
      BY <2>1, Removed
    <3> QED
      BY <3>1, <3>2, Zenon
  <2> QED
    BY <2>2
<1>2. Len(search) \in Nat /\ DOMAIN search = 1..Len(search) /\ i \in 1..Len(search) /\ Len(search) <= names /\ names \in Nat
  <2>1. search \in Seq(SearchTimer) /\ names \in Nat
    BY DEF TimersTypeOK
  <2>2. Len(search) \in Nat /\ DOMAIN search = 1..Len(search)
    BY <2>1, LenProperties
  <2>3. Len(search) <= names
    BY SearchLengths DEF SearchInv, OwnNames
  <2> QED
    BY <2>1, <2>2, <2>3
<1>21. n = Len(search')
  OBVIOUS
<1> HIDE DEF n
<1>3. /\ \A j \in 1..n : old[j] \in DOMAIN search \ {i} /\ search'[j] = search[old[j]]
      /\ \A j, k \in 1..n : j # k => old[j] # old[k]
  <2>1. ASSUME NEW j \in 1..n PROVE old[j] = (IF j < i THEN j ELSE j + 1) /\ old[j] \in 1..Len(search) /\ old[j] # i /\ j \in Int
    BY <1>1, <1>2
  <2>2. \A j \in 1..n : search'[j] = search[old[j]]
    BY <1>1, <2>1
  <2>3. ASSUME NEW j \in 1..n, NEW k \in 1..n, j # k PROVE old[j] # old[k]
    <3>1. j \in Int /\ k \in Int /\ i \in Int
      BY <1>1, <1>2
    <3> QED
      BY <2>1, <2>3, <3>1
  <2> QED
    BY <1>2, <2>1, <2>2, <2>3
<1>4. ASSUME NEW k \in DOMAIN search \ {i} PROVE \E j \in 1..n : old[j] = k
  <2>1. CASE k < i
    <3>1. k \in 1..n /\ old[k] = k
      BY <1>1, <1>2, <2>1
    <3> QED
      BY <3>1
  <2>2. CASE ~(k < i)
    <3>1. k - 1 \in 1..n /\ old[k - 1] = k
      BY <1>1, <1>2, <2>2
    <3> QED
      BY <3>1
  <2> QED
    BY <2>1, <2>2
<1> HIDE DEF old
<1>5. SearchInv' /\ file' \in Seq(Line)
  <2>1. n <= names' /\ nextId' <= names' /\ Len(snap') <= MaxSearch
    BY <1>1, <1>2 DEF SearchInv, TimersTypeOK
  <2>2. \A j \in 1..n : old[j] \in DOMAIN search /\ search'[j].id = search[old[j]].id /\ search'[j].name = search[old[j]].name
    BY <1>3
  <2>3. /\ \A k \in DOMAIN search : search[k].id <= nextId /\ search[k].name <= names
        /\ \A k, m \in DOMAIN search : k # m => search[k].id # search[m].id /\ search[k].name # search[m].name
    BY DEF SearchInv, OwnNames
  <2>4. \A j \in 1..n : search'[j].id <= nextId' /\ search'[j].name <= names'
    BY <2>2, <2>3
  <2>5. ASSUME NEW j \in 1..n, NEW k \in 1..n, j # k
        PROVE  search'[j].id # search'[k].id /\ search'[j].name # search'[k].name
    <3>1. old[j] \in DOMAIN search /\ old[k] \in DOMAIN search /\ old[j] # old[k]
      BY <1>3, <2>5
    <3>2. search[old[j]].id # search[old[k]].id /\ search[old[j]].name # search[old[k]].name
      BY <2>3, <3>1
    <3> QED
      BY <2>2, <3>2, Zenon
  <2>6. Len(search') <= names' /\ DOMAIN search' = 1..n
    BY <1>1, <1>21, <2>1
  <2>7. /\ \A j \in DOMAIN search' : search'[j].id <= nextId' /\ search'[j].name <= names'
        /\ \A j, k \in DOMAIN search' : j # k => search'[j].id # search'[k].id /\ search'[j].name # search'[k].name
    <3>1. \A j \in DOMAIN search' : j \in 1..n
      BY <2>6
    <3> QED
      BY <2>4, <2>5, <3>1, SMTT(30)
  <2>8. OwnNames(search)'
    BY <2>6, <2>7 DEF OwnNames
  <2>9. file' \in Seq(Line) /\ OwnNames(file)' /\ Readable(file)' = Readable(Written(search))'
    BY <1>1, <2>8, SavedIs
  <2>10. /\ \A m \in DOMAIN snap' : snap'[m].name <= names'
         /\ \A p \in todo' : p[1] \in DOMAIN snap'
         /\ scan' = "idle" => snap' = << >>
    BY DEF SearchInv
  <2> QED
    BY <2>1, <2>7, <2>8, <2>9, <2>10 DEF SearchInv
<1>6. \A j \in DOMAIN search' : \E k \in DOMAIN search \ {i} : search'[j] = search[k]
  BY <1>1, <1>3
<1>7. ASSUME NEW k \in DOMAIN search \ {i} PROVE \E j \in DOMAIN search' : search'[j] = search[k]
  <2>1. PICK j \in 1..n : old[j] = k
    BY <1>4
  <2> QED
    BY <1>1, <1>3, <2>1
<1> QED
  BY <1>1, <1>5, <1>6, <1>7

\* A request that waited for VDR's lock has its search timer still.
LEMMA AtIs ==
  ASSUME NEW s, NEW id \in Ids(s) PROVE At(s, id) \in DOMAIN s /\ s[At(s, id)].id = id
BY DEF Ids, At

\* The children of a search timer go with it, except those that record.
LEMMA DeleteOrUpdateKeeps ==
  ASSUME TimersIInv, NEW c \in Client, DeleteOrUpdate(c)
  PROVE  TimersIInv' /\ (DeletedInv => DeletedInv')
<1> USE DEF TimersIInv
<1>1. UNCHANGED <<nextId, names, made, other, doScan, snap, todo, child, scan, vdrLock, readers, named, stale, misread>>
  BY DEF DeleteOrUpdate, scanThread, history
<1>2. /\ pc[c] = "children" /\ Done(c) /\ Writable /\ searchLock = c /\ searchLock' = Nobody
      /\ pc' \in [Client -> {"idle", "begun", "listed", "children"}]
      /\ \A d \in Client : pc'[d] = "idle" /\ (d # c => pc[d] = "idle")
      /\ clientLock = c /\ clientLock' = Nobody /\ RequestInv'
  <2>1. pc[c] = "children" /\ Done(c) /\ Writable /\ searchLock' = Nobody /\ searchLock = c
    BY DEF DeleteOrUpdate, TimersLockInv
  <2> QED
    BY <2>1, RequestEnds
<1> DEFINE i == At(search, arg[c][2])
<1>a. i \in DOMAIN search
  BY <1>2, AtIs DEF RequestInv
<1>b. /\ vdr' = {t \in vdr : ~(IsParent(search[i], t) /\ ~t.rec)}
      /\ dropped' = {d \in dropped : d[1] # search[i].name}
      /\ file' = Written(search')
  BY DEF DeleteOrUpdate, DeleteChildren, Save
<1>c. /\ search' \in Seq(SearchTimer) /\ file' \in Seq(Line) /\ SearchInv'
      /\ \A j \in DOMAIN search' : search'[j].name = search[i].name \/ \E k \in DOMAIN search \ {i} : search'[j] = search[k]
      /\ \A k \in DOMAIN search \ {i} : \E j \in DOMAIN search' : search'[j] = search[k]
  <2>1. CASE arg[c][1] = "delete"
    <3>1. search' = RemoveAt(search, i)
      BY <2>1 DEF DeleteOrUpdate
    <3> HIDE DEF i
    <3> QED
      BY <1>1, <1>a, <1>b, <3>1, OneGoes
  <2>2. CASE arg[c][1] # "delete"
    <3>1. arg[c][3] \in Fields
      BY <1>2, <2>2 DEF RequestInv
    <3>2. PICK m \in Margins : search' = [search EXCEPT ![i] = Updated([@ EXCEPT !.created = {}], arg[c][3], m)]
      BY <2>2 DEF DeleteOrUpdate
    <3> DEFINE y == [search[i] EXCEPT !.created = {}]
               x == Updated(y, arg[c][3], m)
    <3>3. search[i] \in SearchTimer
      BY <1>a, SearchLengths
    <3>4. y \in SearchTimer /\ y.id = search[i].id /\ y.name = search[i].name
      BY <3>3 DEF SearchTimer
    <3>5. search' = [search EXCEPT ![i] = x]
      BY <3>2
    <3> HIDE DEF y
    <3>6. x \in SearchTimer /\ x.id = search[i].id /\ x.name = search[i].name
      BY <3>1, <3>4, UpdatedIs
    <3> HIDE DEF x, i
    <3>7. /\ search' \in Seq(SearchTimer) /\ file' \in Seq(Line) /\ SearchInv' /\ DOMAIN search' = DOMAIN search
          /\ search'[i] = x /\ \A j \in DOMAIN search \ {i} : search'[j] = search[j]
      BY <1>1, <1>a, <1>b, <3>5, <3>6, OneChanges
    <3> QED
      BY <3>6, <3>7
  <2> QED
    BY <2>1, <2>2
<1> HIDE DEF i
<1>3. TimersTypeOK'
  <2>1. vdr' \subseteq Timer /\ dropped' \subseteq (1..MaxSearch) \X Starts
    BY <1>b DEF TimersTypeOK
  <2> QED
    BY <1>1, <1>2, <1>c, <2>1 DEF TimersTypeOK
<1>4. TimersLockInv'
  BY <1>1, <1>2, ClientAssumption DEF TimersLockInv, TimersTypeOK
<1>5. RequestInv'
  BY <1>2
<1>6. SearchInv'
  BY <1>c
<1>7. ChildInv' /\ NoOrphans'
  <2>1. scan \notin {"look", "note"} /\ child = NoTimer
    BY <1>2 DEF TimersLockInv, Writable
  <2>2. \A t \in vdr : t # NoTimer
    BY DEF TimersTypeOK, Timer, NoTimer
  <2>3. vdr' \subseteq vdr /\ \A t \in vdr' : t.rec \/ ~IsParent(search[i], t)
    BY <1>b
  <2>4. ChildInv'
    BY <1>1, <2>1, <2>3 DEF ChildInv
  <2>5. ASSUME NEW t \in vdr', t.by # 0, ~t.rec, t.id \notin stale, t.by \notin misread
        PROVE  \E j \in DOMAIN search' : search'[j].name = t.by /\ IsParent(search'[j], t)
    <3>1. PICK k \in DOMAIN search : search[k].name = t.by /\ IsParent(search[k], t)
      BY <2>1, <2>2, <2>3, <2>5 DEF NoOrphans
    <3>2. k # i
      BY <2>3, <2>5, <3>1
    <3> QED
      BY <1>c, <3>1, <3>2
  <2>6. NoOrphans'
    BY <1>1, <2>5 DEF NoOrphans, IsParent
  <2> QED
    BY <2>4, <2>6
<1>8. DeletedInv => DeletedInv'
  <2> SUFFICES ASSUME DeletedInv, NEW d \in dropped'
               PROVE  /\ d[1] <= names
                      /\ d[1] \in misread \/ \E j \in DOMAIN search' : search'[j].name = d[1] /\ d[2] \in search'[j].created
    BY <1>1 DEF DeletedInv
  <2>1. d \in dropped /\ d[1] # search[i].name
    BY <1>b
  <2>2. d[1] <= names /\ (d[1] \in misread \/ \E k \in DOMAIN search : search[k].name = d[1] /\ d[2] \in search[k].created)
    BY <2>1 DEF DeletedInv
  <2>3. ASSUME NEW k \in DOMAIN search, search[k].name = d[1], d[2] \in search[k].created
        PROVE  \E j \in DOMAIN search' : search'[j].name = d[1] /\ d[2] \in search'[j].created
    <3>1. PICK j \in DOMAIN search' : search'[j] = search[k]
      BY <1>c, <2>1, <2>3
    <3> QED
      BY <2>3, <3>1
  <2> QED
    BY <2>2, <2>3
<1> QED
  BY <1>3, <1>4, <1>5, <1>6, <1>7, <1>8

-----------------------------------------------------------------------------
(* VDR's timers come, go and change.                                            *)

\* While VDR's timers may be changed there is no child that is still to be noted.
LEMMA NoChildYet ==
  ASSUME TimersTypeOK, TimersLockInv, Writable
  PROVE  scan \notin {"look", "note"} /\ child = NoTimer /\ \A t \in vdr : t # NoTimer
<1>1. scan \notin {"look", "note"} /\ child = NoTimer
  BY DEF TimersLockInv, Writable
<1>2. \A t \in vdr : t.id # 0
  BY DEF TimersTypeOK, Timer
<1> QED
  BY <1>1, <1>2 DEF NoTimer

\* A timer is the one it was, though VDR may have started to record it.
Goes(t, u) == t.by = u.by /\ t.ev = u.ev /\ t.start = u.start /\ t.id = u.id /\ (u.rec => t.rec)

\* Children stay what they are but for their recording, or are children no more.
LEMMA VdrChanges ==
  ASSUME TimersIInv, Writable, UNCHANGED <<search, names, child, scan, stale, misread>>,
         \A t \in vdr' : t.id <= made' /\ t.by <= names /\ (t.by = 0 \/ \E u \in vdr : Goes(t, u))
  PROVE  ChildInv' /\ NoOrphans'
<1> USE DEF TimersIInv
<1>1. scan \notin {"look", "note"} /\ child = NoTimer /\ \A t \in vdr : t # NoTimer
  BY NoChildYet
<1>3. ChildInv'
  BY <1>1 DEF ChildInv
<1>4. ASSUME NEW t \in vdr', t.by # 0, ~t.rec, t.id \notin stale, t.by \notin misread
      PROVE  \E j \in DOMAIN search : search[j].name = t.by /\ IsParent(search[j], t)
  <2>1. PICK u \in vdr : Goes(t, u)
    BY <1>4
  <2>2. PICK j \in DOMAIN search : search[j].name = u.by /\ IsParent(search[j], u)
    BY <1>1, <1>4, <2>1 DEF NoOrphans, Goes
  <2> QED
    BY <2>1, <2>2 DEF Goes, IsParent
<1>5. NoOrphans'
  BY <1>4 DEF NoOrphans, IsParent
<1> QED
  BY <1>3, <1>5

\* A child that is deleted by hand is in the list of the search timer that knows it.
LEMMA VdrDeletes ==
  ASSUME TimersIInv, DeletedInv, UNCHANGED <<search, names, misread>>,
         \A d \in dropped' : d \in dropped \/ \E t \in vdr : KnownChild(t) /\ d = <<t.by, t.start>>
  PROVE  DeletedInv'
<1> SUFFICES ASSUME NEW d \in dropped', d \notin dropped
             PROVE  d[1] <= names /\ \E i \in DOMAIN search : search[i].name = d[1] /\ d[2] \in search[i].created
  BY DEF DeletedInv
<1>1. PICK t \in vdr : KnownChild(t) /\ d = <<t.by, t.start>>
  OBVIOUS
<1>2. t.by <= names
  BY DEF TimersIInv, ChildInv
<1> QED
  BY <1>1, <1>2 DEF KnownChild, IsParent

\* What is left when a timer is deleted by hand.
LEMMA RemoveTimerIs ==
  ASSUME TimersIInv, NEW t \in vdr, RemoveTimer(t), UNCHANGED made
  PROVE  /\ vdr' \subseteq vdr /\ dropped' \subseteq (1..MaxSearch) \X Starts
         /\ \A u \in vdr' : u.id <= made' /\ u.by <= names
         /\ \A d \in dropped' : d \in dropped \/ \E u \in vdr : KnownChild(u) /\ d = <<u.by, u.start>>
<1>1. t.start \in Starts /\ (KnownChild(t) => t.by \in 1..MaxSearch)
  <2>1. t.start \in Starts
    BY DEF TimersIInv, TimersTypeOK, Timer
  <2>2. \A i \in DOMAIN search : search[i].name \in 1..MaxSearch
    BY SearchLengths DEF TimersIInv, SearchTimer
  <2> QED
    BY <2>1, <2>2 DEF KnownChild
<1>3. vdr' \subseteq vdr /\ dropped \subseteq (1..MaxSearch) \X Starts
  BY DEF RemoveTimer, TimersIInv, TimersTypeOK
<1>4. \A u \in vdr' : u.id <= made' /\ u.by <= names
  BY <1>3 DEF TimersIInv, ChildInv
<1>5. \A d \in dropped' : d \in dropped \/ (KnownChild(t) /\ d = <<t.by, t.start>>)
  BY DEF RemoveTimer
<1>6. KnownChild(t) => <<t.by, t.start>> \in (1..MaxSearch) \X Starts
  BY <1>1
<1> QED
  BY <1>3, <1>4, <1>5, <1>6

\* A client makes a timer that is no child.
LEMMA AddVdrKeeps ==
  ASSUME TimersIInv, NEW c \in Client, AddVdr(c)
  PROVE  TimersIInv' /\ (DeletedInv => DeletedInv')
<1> USE DEF TimersIInv
<1>1. UNCHANGED <<search, nextId, names, file, other, doScan, snap, todo, child, scan, searchLock, vdrLock, readers, named, dropped, stale, misread>>
  BY DEF AddVdr, scanThread, history
<1>2. /\ pc[c] = "begun" /\ Done(c) /\ Writable
      /\ pc' \in [Client -> {"idle", "begun", "listed", "children"}]
      /\ \A d \in Client : pc'[d] = "idle" /\ (d # c => pc[d] = "idle")
      /\ clientLock = c /\ clientLock' = Nobody /\ RequestInv'
  <2>1. pc[c] = "begun" /\ Done(c) /\ Writable
    BY DEF AddVdr, Asks
  <2> QED
    BY <2>1, RequestEnds
<1>0. PICK e \in Events : vdr' = vdr \cup {NewTimer(e, <<e, 0>>, 0)}
  BY DEF AddVdr
<1> DEFINE new == NewTimer(e, <<e, 0>>, 0)
<1>a. new \in Timer /\ new.by = 0 /\ new.id = made + 1 /\ made + 1 \in 1..MaxTimers /\ made' = made + 1 /\ made \in Nat
  <2>1. <<e, 0>> \in Starts /\ 0 \in 0..MaxSearch /\ FALSE \in BOOLEAN
    BY TimersAssumption DEF Starts
  <2>2. made < MaxTimers /\ made' = made + 1
    BY DEF AddVdr
  <2>3. made \in Nat
    BY DEF TimersTypeOK
  <2>4. /\ new \in Timer /\ new.by = 0 /\ new.id = made + 1 /\ made + 1 \in 1..MaxTimers
    <3>1. new = [id |-> made + 1, ev |-> e, start |-> <<e, 0>>, rec |-> FALSE, by |-> 0]
      BY DEF NewTimer
    <3>2. made + 1 \in 1..MaxTimers
      BY <2>2, <2>3, TimersAssumption
    <3> HIDE DEF new
    <3>3. new \in Timer
      BY <2>1, <3>1, <3>2 DEF Timer
    <3> QED
      BY <3>1, <3>2, <3>3
  <2> QED
    BY <2>2, <2>3, <2>4
<1>b. vdr' = vdr \cup {new}
  BY <1>0
<1> HIDE DEF new
<1>3. TimersTypeOK'
  <2>1. vdr' \subseteq Timer /\ made' \in 0..MaxTimers
    BY <1>a, <1>b DEF TimersTypeOK
  <2> QED
    BY <1>1, <1>2, <2>1 DEF TimersTypeOK
<1>c. /\ \A t \in vdr' : t.id <= made' /\ t.by <= names
      /\ \A t \in vdr' : t.by = 0 \/ \E u \in vdr : Goes(t, u)
  <2>1. \A t \in vdr : t.id \in Nat /\ t.id <= made /\ t.by <= names
    BY DEF TimersTypeOK, Timer, ChildInv
  <2>2. \A t \in vdr : t.id <= made' /\ t.by <= names
    BY <1>a, <2>1
  <2>3. new.id <= made' /\ new.by <= names
    BY <1>a DEF TimersTypeOK
  <2> QED
    BY <1>a, <1>b, <2>2, <2>3 DEF Goes
<1>4. TimersLockInv'
  BY <1>1, <1>2, ClientAssumption DEF TimersLockInv, TimersTypeOK
<1>5. RequestInv'
  BY <1>2
<1>6. SearchInv'
  BY <1>1, SearchUnmoved
<1>7. ChildInv' /\ NoOrphans'
  BY <1>1, <1>2, <1>c, VdrChanges
<1>8. DeletedInv => DeletedInv'
  BY <1>1, DeletedUnmoved
<1> QED
  BY <1>3, <1>4, <1>5, <1>6, <1>7, <1>8

\* A client deletes a timer.
LEMMA DeleteVdrKeeps ==
  ASSUME TimersIInv, NEW c \in Client, DeleteVdr(c)
  PROVE  TimersIInv' /\ (DeletedInv => DeletedInv')
<1> USE DEF TimersIInv
<1>1. UNCHANGED <<search, nextId, names, file, made, other, doScan, snap, todo, child, scan, searchLock, vdrLock, readers, named, stale, misread>>
  BY DEF DeleteVdr, scanThread, history
<1>2. /\ pc[c] = "begun" /\ Done(c) /\ Writable
      /\ pc' \in [Client -> {"idle", "begun", "listed", "children"}]
      /\ \A d \in Client : pc'[d] = "idle" /\ (d # c => pc[d] = "idle")
      /\ clientLock = c /\ clientLock' = Nobody /\ RequestInv'
  <2>1. pc[c] = "begun" /\ Done(c) /\ Writable
    BY DEF DeleteVdr, Asks
  <2> QED
    BY <2>1, RequestEnds
<1>0. PICK t \in vdr : RemoveTimer(t)
  BY DEF DeleteVdr
<1>a. /\ vdr' \subseteq vdr /\ dropped' \subseteq (1..MaxSearch) \X Starts
      /\ \A u \in vdr' : u.id <= made' /\ u.by <= names
      /\ \A d \in dropped' : d \in dropped \/ \E u \in vdr : KnownChild(u) /\ d = <<u.by, u.start>>
  BY <1>0, <1>1, RemoveTimerIs
<1>3. TimersTypeOK'
  <2>1. vdr' \subseteq Timer
    BY <1>a DEF TimersTypeOK
  <2> QED
    BY <1>1, <1>2, <1>a, <2>1 DEF TimersTypeOK
<1>c. \A u \in vdr' : \E v \in vdr : Goes(u, v)
  BY <1>a DEF Goes
<1>4. TimersLockInv'
  BY <1>1, <1>2, ClientAssumption DEF TimersLockInv, TimersTypeOK
<1>5. RequestInv'
  BY <1>2
<1>6. SearchInv'
  BY <1>1, SearchUnmoved
<1>7. ChildInv' /\ NoOrphans'
  BY <1>1, <1>2, <1>a, <1>c, VdrChanges
<1>8. DeletedInv => DeletedInv'
  BY <1>1, <1>a, VdrDeletes
<1> QED
  BY <1>3, <1>4, <1>5, <1>6, <1>7, <1>8

\* A client makes a timer of VDR's one that is no child.
LEMMA UpdateVdrKeeps ==
  ASSUME TimersIInv, NEW c \in Client, UpdateVdr(c)
  PROVE  TimersIInv' /\ (DeletedInv => DeletedInv')
<1> USE DEF TimersIInv
<1>1. UNCHANGED <<search, nextId, names, file, made, other, doScan, snap, todo, child, scan, searchLock, vdrLock, readers, named, dropped, stale, misread>>
  BY DEF UpdateVdr, scanThread, history
<1>2. /\ pc[c] = "begun" /\ Done(c) /\ Writable
      /\ pc' \in [Client -> {"idle", "begun", "listed", "children"}]
      /\ \A d \in Client : pc'[d] = "idle" /\ (d # c => pc[d] = "idle")
      /\ clientLock = c /\ clientLock' = Nobody /\ RequestInv'
  <2>1. pc[c] = "begun" /\ Done(c) /\ Writable
    BY DEF UpdateVdr, Asks
  <2> QED
    BY <2>1, RequestEnds
<1>0. PICK t \in vdr, e \in Events :
        vdr' = (vdr \ {t}) \cup {[t EXCEPT !.ev = e, !.start = <<e, 0>>, !.by = 0]}
  BY DEF UpdateVdr
<1> DEFINE new == [t EXCEPT !.ev = e, !.start = <<e, 0>>, !.by = 0]
<1>a. new \in Timer /\ new.by = 0 /\ new.id = t.id
  <2>1. t \in Timer /\ <<e, 0>> \in Starts /\ 0 \in 0..MaxSearch
    BY TimersAssumption DEF TimersTypeOK, Starts
  <2> QED
    BY <2>1 DEF Timer
<1>b. vdr' = (vdr \ {t}) \cup {new}
  BY <1>0
<1> HIDE DEF new
<1>3. TimersTypeOK'
  <2>1. vdr' \subseteq Timer
    BY <1>a, <1>b DEF TimersTypeOK
  <2> QED
    BY <1>1, <1>2, <2>1 DEF TimersTypeOK
<1>c. /\ \A u \in vdr' : u.id <= made' /\ u.by <= names
      /\ \A u \in vdr' : u.by = 0 \/ \E v \in vdr : Goes(u, v)
  <2>1. 0 <= names
    BY DEF TimersTypeOK
  <2>2. t.id <= made
    BY DEF ChildInv
  <2> QED
    BY <1>1, <1>a, <1>b, <2>1, <2>2 DEF ChildInv, Goes
<1>4. TimersLockInv'
  BY <1>1, <1>2, ClientAssumption DEF TimersLockInv, TimersTypeOK
<1>5. RequestInv'
  BY <1>2
<1>6. SearchInv'
  BY <1>1, SearchUnmoved
<1>7. ChildInv' /\ NoOrphans'
  BY <1>1, <1>2, <1>c, VdrChanges
<1>8. DeletedInv => DeletedInv'
  BY <1>1, DeletedUnmoved
<1> QED
  BY <1>3, <1>4, <1>5, <1>6, <1>7, <1>8

\* What VDR does to its timers.
LEMMA VdrKeeps ==
  ASSUME TimersIInv, Vdr
  PROVE  TimersIInv' /\ (DeletedInv => DeletedInv')
<1> USE DEF TimersIInv
<1>1. UNCHANGED <<search, nextId, names, file, made, other, doScan, snap, todo, child, scan, clientLock, searchLock, vdrLock, readers, pc, arg, named, stale, misread>>
  BY DEF Vdr, scanThread, locks, clientState
<1>2. Writable
  BY DEF Vdr
<1>a. /\ vdr' \subseteq Timer /\ dropped' \subseteq (1..MaxSearch) \X Starts
      /\ \A t \in vdr' : t.id <= made' /\ t.by <= names
      /\ \A t \in vdr' : \E u \in vdr : Goes(t, u)
      /\ \A d \in dropped' : d \in dropped \/ \E t \in vdr : KnownChild(t) /\ d = <<t.by, t.start>>
  <2>0. /\ vdr \subseteq Timer /\ dropped \subseteq (1..MaxSearch) \X Starts
        /\ \A t \in vdr : t.id <= made' /\ t.by <= names /\ Goes(t, t)
    BY <1>1 DEF TimersTypeOK, ChildInv, Goes
  <2>1. CASE \E t \in vdr : RemoveTimer(t)
    <3>1. PICK t \in vdr : RemoveTimer(t)
      BY <2>1
    <3>2. /\ vdr' \subseteq vdr /\ dropped' \subseteq (1..MaxSearch) \X Starts
          /\ \A d \in dropped' : d \in dropped \/ \E u \in vdr : KnownChild(u) /\ d = <<u.by, u.start>>
      BY <1>1, <3>1, RemoveTimerIs
    <3> QED
      BY <2>0, <3>2
  <2>2. CASE \E t \in vdr : vdr' = (vdr \ {t}) \cup {[t EXCEPT !.rec = TRUE]} /\ UNCHANGED dropped
    <3>1. PICK t \in vdr : vdr' = (vdr \ {t}) \cup {[t EXCEPT !.rec = TRUE]} /\ UNCHANGED dropped
      BY <2>2
    <3> DEFINE x == [t EXCEPT !.rec = TRUE]
    <3>2. x \in Timer /\ Goes(x, t)
      BY <2>0 DEF Goes, Timer
    <3>3. vdr' = (vdr \ {t}) \cup {x}
      BY <3>1
    <3> HIDE DEF x
    <3>4. x.id <= made' /\ x.by <= names
      BY <2>0, <3>2 DEF Goes
    <3> QED
      BY <2>0, <3>1, <3>2, <3>3, <3>4
  <2>3. CASE \E t \in vdr : vdr' = vdr \ {t} /\ UNCHANGED dropped
    BY <2>0, <2>3
  <2> QED
    BY <2>1, <2>2, <2>3 DEF Vdr
<1>3. TimersTypeOK'
  BY <1>1, <1>a DEF TimersTypeOK
<1>4. TimersLockInv'
  BY <1>1 DEF TimersLockInv
<1>5. RequestInv'
  BY <1>1, RequestUnmoved
<1>6. SearchInv'
  BY <1>1, SearchUnmoved
<1>7. ChildInv' /\ NoOrphans'
  BY <1>1, <1>2, <1>a, VdrChanges
<1>8. DeletedInv => DeletedInv'
  BY <1>1, <1>a, VdrDeletes
<1> QED
  BY <1>3, <1>4, <1>5, <1>6, <1>7, <1>8

-----------------------------------------------------------------------------
(* The search thread makes a child and notes it.                                *)

\* The child is made of the copy's search timer and the event.
LEMMA MatchKeeps ==
  ASSUME TimersIInv, NEW p \in todo, Match(p)
  PROVE  TimersIInv' /\ (DeletedInv => DeletedInv')
<1> USE DEF TimersIInv
<1>1. UNCHANGED <<search, nextId, names, file, vdr, made, other, doScan, snap, clientLock, searchLock, vdrLock, readers, pc, arg, named, dropped, stale, misread>>
  BY DEF Match, locks, clientState, history
<1>2. scan = "scan" /\ scan' = "look" /\ todo' = todo \ {p} /\ made < MaxTimers
  BY DEF Match
<1>a. /\ child' \in Timer /\ child'.id = made + 1 /\ child'.by # 0 /\ child'.by <= names
  <2>1. made \in Nat /\ made + 1 \in 1..MaxTimers
    BY <1>2, TimersAssumption DEF TimersTypeOK
  <2>2. p[1] \in DOMAIN snap /\ p[2] \in Events
    BY DEF SearchInv, TimersTypeOK
  <2>3. snap[p[1]] \in SearchTimer
    BY <2>2, SearchLengths
  <2>4. /\ snap[p[1]].name \in 0..MaxSearch /\ snap[p[1]].name # 0 /\ snap[p[1]].margin \in Margins
        /\ snap[p[1]].name <= names
    BY <2>2, <2>3, TimersAssumption DEF SearchTimer, SearchInv
  <2>5. Start(snap[p[1]], p[2]) \in Starts
    BY <2>2, <2>4 DEF Start, Starts
  <2>6. child' = [id |-> made + 1, ev |-> p[2], start |-> Start(snap[p[1]], p[2]), rec |-> FALSE, by |-> snap[p[1]].name]
    BY DEF Match, NewTimer
  <2>7. child' \in Timer
    BY <2>1, <2>2, <2>4, <2>5, <2>6 DEF Timer
  <2> QED
    BY <2>4, <2>6, <2>7
<1>3. TimersTypeOK'
  BY <1>1, <1>2, <1>a DEF TimersTypeOK
<1>4. TimersLockInv'
  BY <1>1, <1>2 DEF TimersLockInv
<1>5. RequestInv'
  BY <1>1, RequestUnmoved
<1>6. SearchInv'
  BY <1>1, <1>2, SearchUnmoved
<1>7. ChildInv'
  BY <1>1, <1>2, <1>a DEF ChildInv
<1>8. NoOrphans'
  <2>1. child = NoTimer /\ \A t \in vdr : t # NoTimer
    BY <1>2 DEF TimersLockInv, TimersTypeOK, Timer, NoTimer
  <2> QED
    BY <1>1, <2>1 DEF NoOrphans, IsParent
<1>9. DeletedInv => DeletedInv'
  BY <1>1, DeletedUnmoved
<1> QED
  BY <1>3, <1>4, <1>5, <1>6, <1>7, <1>8, <1>9

\* A child that its search timer has made before is not made.
LEMMA ChildKnownKeeps ==
  ASSUME TimersIInv, ChildKnown
  PROVE  TimersIInv' /\ (DeletedInv => DeletedInv')
<1> USE DEF TimersIInv
<1>1. UNCHANGED <<search, nextId, names, file, vdr, made, other, doScan, snap, todo, clientLock, searchLock, vdrLock, readers, pc, arg, named, dropped, stale, misread>>
  BY DEF ChildKnown, locks, clientState, history
<1>2. scan = "look" /\ scan' = "scan" /\ child' = NoTimer
  BY DEF ChildKnown
<1>3. TimersTypeOK'
  BY <1>1, <1>2 DEF TimersTypeOK
<1>4. TimersLockInv'
  BY <1>1, <1>2 DEF TimersLockInv
<1>5. RequestInv'
  BY <1>1, RequestUnmoved
<1>6. SearchInv'
  BY <1>1, <1>2, SearchUnmoved
<1>7. ChildInv'
  BY <1>1, <1>2 DEF ChildInv
<1>8. NoOrphans'
  <2>1. child \notin vdr
    BY <1>2 DEF ChildInv, TimersTypeOK, Timer
  <2> QED
    BY <1>1, <2>1 DEF NoOrphans, IsParent
<1>9. DeletedInv => DeletedInv'
  BY <1>1, DeletedUnmoved
<1> QED
  BY <1>3, <1>4, <1>5, <1>6, <1>7, <1>8, <1>9

\* A child that its search timer would make now was not deleted by hand.
LEMMA AddChildIsNew ==
  ASSUME TimersIInv, DeletedInv, AddChild, child.by \notin misread
  PROVE  <<child.by, child.start>> \notin dropped
<1> SUFFICES ASSUME <<child.by, child.start>> \in dropped PROVE FALSE
  OBVIOUS
<1> DEFINE d == <<child.by, child.start>>
<1>1. d \in dropped /\ d[1] = child.by /\ d[2] = child.start
  OBVIOUS
<1> HIDE DEF d
<1>2. PICK i \in DOMAIN search : search[i].name = child.by /\ child.start \in search[i].created
  BY <1>1 DEF DeletedInv
<1>3. ~IsChild(child)
  BY DEF AddChild
<1> QED
  BY <1>2, <1>3 DEF IsChild

\* A child is made that is still to be noted.
LEMMA AddChildKeeps ==
  ASSUME TimersIInv, AddChild
  PROVE  TimersIInv' /\ (DeletedInv => DeletedInv')
<1> USE DEF TimersIInv
<1>1. UNCHANGED <<search, nextId, names, file, other, doScan, snap, todo, child, clientLock, searchLock, vdrLock, readers, pc, arg, named, dropped, misread>>
  BY DEF AddChild, locks, clientState
<1>2. /\ scan = "look" /\ scan' = "note" /\ vdr' = vdr \cup {child} /\ made' = made + 1
      /\ stale' = IF \E i \in DOMAIN search : search[i].name = child.by /\ Matches(search[i], child.ev)
                     THEN stale ELSE stale \cup {child.id}
  BY DEF AddChild
<1>a. /\ child \in Timer /\ child.id = made + 1 /\ child.by # 0 /\ child.by <= names
      /\ made \in Nat /\ child.id \in 1..MaxTimers
  BY <1>2 DEF ChildInv, TimersTypeOK, Timer
<1>b. stale \subseteq stale' /\ stale' \subseteq 1..MaxTimers
  BY <1>2, <1>a DEF TimersTypeOK
<1>3. TimersTypeOK'
  <2>1. vdr' \subseteq Timer /\ made' \in 0..MaxTimers
    BY <1>2, <1>a, TimersAssumption DEF TimersTypeOK
  <2> QED
    BY <1>1, <1>2, <1>b, <2>1 DEF TimersTypeOK
<1>4. TimersLockInv'
  BY <1>1, <1>2 DEF TimersLockInv
<1>5. RequestInv'
  BY <1>1, RequestUnmoved
<1>6. SearchInv'
  BY <1>1, <1>2, SearchUnmoved
<1>7. ChildInv'
  <2>1. \A t \in vdr : t.id \in Nat /\ t.id <= made /\ t.by <= names
    BY DEF TimersTypeOK, Timer, ChildInv
  <2>2. \A t \in vdr : t.id <= made' /\ t.by <= names'
    BY <1>1, <1>2, <1>a, <2>1
  <2>3. child'.id <= made' /\ child'.by <= names' /\ child' \in vdr'
    BY <1>1, <1>2, <1>a
  <2>4. child'.id \in stale' \/ \E i \in DOMAIN search : search[i].name = child.by /\ search[i].ch = ChannelOf[child.ev]
    BY <1>1, <1>2 DEF Matches
  <2> QED
    BY <1>1, <1>2, <1>a, <2>2, <2>3, <2>4 DEF ChildInv
<1>8. NoOrphans'
  <2>1. \A t \in vdr' : t # child' => t \in vdr /\ t # child
    BY <1>1, <1>2
  <2> QED
    BY <1>1, <1>b, <2>1 DEF NoOrphans, IsParent
<1>9. DeletedInv => DeletedInv'
  BY <1>1, DeletedUnmoved
<1> QED
  BY <1>3, <1>4, <1>5, <1>6, <1>7, <1>8, <1>9

\* The child is in the list of its search timer, if that is there still.
LEMMA NoteChildKeeps ==
  ASSUME TimersIInv, NoteChild
  PROVE  TimersIInv' /\ (DeletedInv => DeletedInv')
<1> USE DEF TimersIInv
<1>1. UNCHANGED <<nextId, names, vdr, made, other, doScan, snap, todo, clientLock, searchLock, vdrLock, readers, pc, arg, named, dropped, stale, misread>>
  BY DEF NoteChild, locks, clientState, history
<1>0. search' = [i \in DOMAIN search |->
        IF search[i].name = child.by THEN [search[i] EXCEPT !.created = @ \cup {child.start}] ELSE search[i]]
  BY DEF NoteChild
<1>2. scan = "note" /\ scan' = "scan" /\ child' = NoTimer
  BY DEF NoteChild
<1>a. child \in vdr /\ child.by # 0 /\ child.start \in Starts
  BY <1>2 DEF ChildInv, TimersTypeOK, Timer
<1> DEFINE n == Len(search)
<1>b. n \in Nat /\ DOMAIN search = 1..n /\ \A i \in 1..n : search[i] \in SearchTimer
  BY SearchLengths
<1>21. n = Len(search)
  OBVIOUS
<1> HIDE DEF n
<1>c. ASSUME NEW i \in 1..n
      PROVE  /\ search'[i] \in SearchTimer /\ search'[i].id = search[i].id /\ search'[i].name = search[i].name
             /\ search'[i].ch = search[i].ch /\ search[i].created \subseteq search'[i].created
             /\ search[i].name = child.by => child.start \in search'[i].created
  <2>1. search[i] \in SearchTimer
    BY <1>b
  <2>2. CASE search[i].name = child.by
    <3>1. search'[i] = [search[i] EXCEPT !.created = @ \cup {child.start}]
      BY <1>0, <1>b, <2>2
    <3> QED
      BY <1>a, <2>1, <3>1 DEF SearchTimer
  <2>3. CASE search[i].name # child.by
    <3>1. search'[i] = search[i]
      BY <1>0, <1>b, <2>3
    <3> QED
      BY <2>1, <2>3, <3>1
  <2> QED
    BY <2>2, <2>3
<1>d. DOMAIN search' = 1..n /\ search' \in Seq(SearchTimer) /\ Len(search') = n
  <2>1. DOMAIN search' = 1..n /\ search' \in [1..n -> SearchTimer]
    BY <1>0, <1>b, <1>c
  <2>2. search' \in Seq(SearchTimer)
    BY <1>b, <2>1
  <2> QED
    BY <1>b, <2>1, <2>2, LenProperties
<1>e. SearchInv' /\ file' \in Seq(Line)
  <2>1. \A i \in DOMAIN search : search'[i].id = search[i].id /\ search'[i].name = search[i].name
    BY <1>b, <1>c
  <2>2. DOMAIN search' = DOMAIN search /\ Len(search') = Len(search)
    BY <1>b, <1>d, <1>21
  <2>3. OwnNames(search)'
    BY <1>1, <2>1, <2>2 DEF SearchInv, OwnNames
  <2>4. file' \in Seq(Line) /\ OwnNames(file)' /\ Readable(file)' = Readable(Written(search))'
    <3>1. CASE search' # search
      <4>1. file' = Written(search')
        BY <3>1 DEF NoteChild, Save
      <4> QED
        BY <1>d, <2>3, <4>1, SavedIs
    <3>2. CASE search' = search
      <4>1. file' = file
        BY <3>2 DEF NoteChild
      <4> QED
        BY <1>1, <3>2, <4>1 DEF SearchInv, OwnNames, Readable, Written, TimersTypeOK
    <3> QED
      BY <3>1, <3>2
  <2> QED
    BY <1>1, <1>2, <2>1, <2>2, <2>3, <2>4 DEF SearchInv
<1>3. TimersTypeOK'
  BY <1>1, <1>2, <1>d, <1>e DEF TimersTypeOK
<1>4. TimersLockInv'
  BY <1>1, <1>2 DEF TimersLockInv
<1>5. RequestInv'
  <2>1. Ids(search)' = Ids(search)
    BY <1>b, <1>c, <1>d DEF Ids
  <2>2. Len(search') = Len(search)
    BY <1>d, <1>21
  <2> QED
    BY <1>1, <2>1, <2>2 DEF RequestInv, ListConsistent
<1>6. SearchInv'
  BY <1>e
<1>7. ChildInv'
  BY <1>1, <1>2 DEF ChildInv
<1>8. NoOrphans'
  <2>1. ASSUME NEW t \in vdr, t.by # 0, ~t.rec, t.id \notin stale, t.by \notin misread
        PROVE  \E i \in DOMAIN search' : search'[i].name = t.by /\ IsParent(search'[i], t)
    <3>1. CASE t = child
      <4>1. PICK i \in DOMAIN search : search[i].name = child.by /\ search[i].ch = ChannelOf[child.ev]
        BY <1>2, <2>1, <3>1 DEF ChildInv
      <4> QED
        BY <1>b, <1>c, <1>d, <3>1, <4>1 DEF IsParent
    <3>2. CASE t # child
      <4>1. PICK i \in DOMAIN search : search[i].name = t.by /\ IsParent(search[i], t)
        BY <2>1, <3>2 DEF NoOrphans
      <4> QED
        BY <1>b, <1>c, <1>d, <4>1 DEF IsParent
    <3> QED
      BY <3>1, <3>2
  <2> QED
    BY <1>1, <2>1 DEF NoOrphans, IsParent
<1>9. DeletedInv => DeletedInv'
  <2>1. \A j \in DOMAIN search : j \in DOMAIN search' /\ search'[j].name = search[j].name /\ search[j].created \subseteq search'[j].created
    BY <1>b, <1>c, <1>d
  <2>2. names' \in Nat /\ names' >= names
    BY <1>1 DEF TimersTypeOK
  <2> QED
    BY <1>1, <2>1, <2>2, DeletedStay
<1> QED
  BY <1>3, <1>4, <1>5, <1>6, <1>7, <1>8, <1>9

-----------------------------------------------------------------------------
(* The timers as a whole.                                                       *)

\* No step of a client, of VDR or of the search thread breaks the invariant, and none breaks what
\* is known of the children that were deleted by hand.
LEMMA TimersStep ==
  ASSUME TimersIInv, TimersNext
  PROVE  TimersIInv' /\ (DeletedInv => DeletedInv')
<1>1. ASSUME NEW c \in Client, Begin(c) \/ ClientStep(c)
      PROVE  TimersIInv' /\ (DeletedInv => DeletedInv')
  <2>1. CASE Begin(c)
    BY <2>1, BeginKeeps
  <2>2. CASE Get(c)
    BY <2>2, GetKeeps
  <2>3. CASE GetList(c)
    BY <2>3, GetListKeeps
  <2>4. CASE GetListSearch(c)
    BY <2>4, GetListSearchKeeps
  <2>5. CASE Add(c)
    BY <2>5, AddKeeps
  <2>6. CASE Refused(c)
    BY <2>6, RefusedKeeps
  <2>7. CASE Reaches(c)
    BY <2>7, ReachesKeeps
  <2>8. CASE Update(c)
    BY <2>8, UpdateKeeps
  <2>9. CASE DeleteOrUpdate(c)
    BY <2>9, DeleteOrUpdateKeeps
  <2>10. CASE AddVdr(c)
    BY <2>10, AddVdrKeeps
  <2>11. CASE DeleteVdr(c)
    BY <2>11, DeleteVdrKeeps
  <2>12. CASE UpdateVdr(c)
    BY <2>12, UpdateVdrKeeps
  <2> QED
    BY <1>1, <2>1, <2>2, <2>3, <2>4, <2>5, <2>6, <2>7, <2>8, <2>9, <2>10, <2>11, <2>12 DEF ClientStep
<1>2. CASE Vdr
  BY <1>2, VdrKeeps
<1>3. CASE Scan
  BY <1>3, ScanKeeps
<1>4. CASE ScanStep
  <2>1. CASE TakeCopy
    BY <2>1, TakeCopyKeeps
  <2>2. CASE ScanBegin
    BY <2>2, ScanBeginKeeps
  <2>3. CASE NoteChild
    BY <2>3, NoteChildKeeps
  <2>4. CASE ScanEnd
    BY <2>4, ScanEndKeeps
  <2>5. ASSUME NEW p \in todo, PassOver(p) PROVE TimersIInv' /\ (DeletedInv => DeletedInv')
    BY <2>5, PassOverKeeps
  <2>6. ASSUME NEW p \in todo, Match(p) PROVE TimersIInv' /\ (DeletedInv => DeletedInv')
    BY <2>6, MatchKeeps
  <2>7. CASE ScanLock
    BY <2>7, ScanLockKeeps
  <2>8. CASE ChildKnown
    BY <2>8, ChildKnownKeeps
  <2>9. CASE AddChild
    BY <2>9, AddChildKeeps
  <2> QED
    BY <1>4, <2>1, <2>2, <2>3, <2>4, <2>5, <2>6, <2>7, <2>8, <2>9 DEF ScanStep
<1>5. CASE Restart
  BY <1>5, RestartKeeps
<1>6. CASE ListTaken \/ ListLeft
  BY <1>6, ListsKeep
<1> QED
  BY <1>1, <1>2, <1>3, <1>4, <1>5, <1>6 DEF TimersNext

\* A step that changes nothing.
LEMMA TimersStutter ==
  ASSUME TimersIInv, UNCHANGED vars
  PROVE  TimersIInv' /\ (DeletedInv => DeletedInv')
<1> USE DEF TimersIInv
<1>1. UNCHANGED <<search, nextId, names, file, vdr, made, other, doScan, snap, todo, child, scan, clientLock, searchLock, vdrLock, readers, pc, arg, named, dropped, stale, misread>>
  BY DEF vars, scanThread, locks, clientState, history
<1>2. TimersTypeOK'
  BY <1>1 DEF TimersTypeOK
<1>3. TimersLockInv'
  BY <1>1 DEF TimersLockInv
<1>4. RequestInv' /\ SearchInv'
  BY <1>1, RequestUnmoved, SearchUnmoved
<1>6. ChildInv' /\ NoOrphans'
  BY <1>1, ChildUnmoved
<1>7. DeletedInv => DeletedInv'
  BY <1>1, DeletedUnmoved
<1> QED
  BY <1>2, <1>3, <1>4, <1>6, <1>7

\* The invariant holds in every state.
LEMMA TimersInductive == TimersSpec => []TimersIInv
<1>1. TimersInit => TimersIInv
  BY TimersInitInv
<1>2. TimersIInv /\ [TimersNext]_vars => TimersIInv'
  BY TimersStep, TimersStutter
<1> QED
  BY <1>1, <1>2, PTL DEF TimersSpec

\* Where nothing goes on a request has found its search timer and waits for the scan, which
\* waits for it.
LEMMA BlockedIsCycle == TimersIInv => TimersBlocked
<1> SUFFICES ASSUME TimersIInv, NEW c \in Client, pc[c] # "idle", ~TimerGoesOn(c), ~SearchGoesOn
             PROVE  TimersCycle
  BY DEF TimersBlocked
<1> USE DEF TimersIInv
<1>1. clientLock = c /\ \A d \in Client : pc[d] # "idle" => d = c
  BY DEF TimersLockInv
<1>2. pc[c] # "children" => searchLock = Nobody
  BY <1>1 DEF TimersLockInv, TimersTypeOK
<1>3. pc[c] # "listed" => readers = {}
  BY <1>1 DEF TimersLockInv, TimersTypeOK
<1>4. vdrLock = "none" \/ (vdrLock = "scan" /\ scan \in {"sched", "scan", "look", "note"})
  BY DEF TimersLockInv, TimersTypeOK
<1>5. searchLock = Nobody => vdrLock = "none"
  BY <1>4 DEF SearchGoesOn
<1>6. CASE pc[c] = "begun"
  <2>1. searchLock = Nobody /\ vdrLock = "none" /\ readers = {}
    BY <1>2, <1>3, <1>5, <1>6
  <2>2. arg[c][1] \in Requests
    BY <1>6 DEF RequestInv
  <2> QED
    BY <1>6, <2>1, <2>2 DEF TimerGoesOn, Asks, Requests, Writable
<1>7. CASE pc[c] = "listed"
  BY <1>2, <1>7 DEF TimerGoesOn
<1>8. CASE pc[c] = "children"
  <2>1. searchLock = c /\ vdrLock = "scan" /\ scan \in {"sched", "scan", "look", "note"}
    BY <1>3, <1>4, <1>8 DEF TimerGoesOn, Writable, TimersLockInv
  <2>2. scan \in {"look", "note"}
    BY <2>1 DEF SearchGoesOn
  <2> QED
    BY <1>8, <2>1, <2>2 DEF TimersCycle
<1> QED
  BY <1>6, <1>7, <1>8 DEF TimersTypeOK

\* Search timers, their children and the file agree in every state the timer requests of any
\* number of clients, VDR, the search thread and restarts reach, up to the lines that a restart
\* could not read; what a list announces is what follows, and the one way to block is the cycle
\* of a request that changes search timers and the scan.
THEOREM TimersAreSafe == TimersSpec => []TimersInv
<1>1. TimersIInv => TimersInv
  BY BlockedIsCycle DEF TimersIInv, TimersInv, SearchInv, RequestInv, FileCurrent, Readable
<1> QED
  BY <1>1, TimersInductive, PTL

\* The search thread never makes a child again that was deleted by hand and that its search timer
\* would still make, whatever restarts, requests, recordings and schedules there are in between:
\* unless the search is changed, or its line cannot be read.
THEOREM DeletedStaysDeleted == TimersSpec => NotRecreated
<1> DEFINE NoneAgain == \A t \in vdr' \ vdr : t.id = made + 1 /\ t.by \notin misread =>
                          <<t.by, t.start>> \notin dropped
<1>1. TimersIInv /\ DeletedInv /\ TimersNext => NoneAgain
  <2> SUFFICES ASSUME TimersIInv, DeletedInv, TimersNext, NEW t \in vdr' \ vdr, t.id = made + 1, t.by \notin misread
               PROVE  <<t.by, t.start>> \notin dropped
    OBVIOUS
  <2>1. made \in Nat /\ \A u \in vdr : u.id \in Nat /\ u.id <= made
    BY DEF TimersIInv, TimersTypeOK, ChildInv, Timer
  <2>2. CASE AddChild
    <3>1. t = child
      BY <2>2 DEF AddChild
    <3> QED
      BY <2>2, <3>1, AddChildIsNew
  <2>3. CASE \E c \in Client : AddVdr(c)
    <3>1. PICK e \in Events :
            vdr' = vdr \cup {[id |-> made + 1, ev |-> e, start |-> <<e, 0>>, rec |-> FALSE, by |-> 0]}
      BY <2>3 DEF AddVdr, NewTimer
    <3>2. t.by = 0
      BY <3>1
    <3>3. \A d \in dropped : d[1] # 0
      BY DEF TimersIInv, TimersTypeOK
    <3> QED
      BY <3>2, <3>3
  <2>4. CASE ~AddChild /\ \A c \in Client : ~AddVdr(c)
    <3>1. made' = made
      BY <2>4 DEF TimersNext, ClientStep, ScanStep, Begin, Get, GetList, GetListSearch, Add, Refused, Reaches, Update,
           DeleteOrUpdate, DeleteVdr, UpdateVdr, Vdr, Scan, TakeCopy, ScanLock, ScanBegin, Match, ChildKnown, NoteChild,
           ScanEnd, PassOver, Restart, ListTaken, ListLeft
    <3>2. \A u \in vdr' : u.id \in Nat /\ u.id <= made'
      BY TimersStep, SMTT(30) DEF TimersIInv, TimersTypeOK, ChildInv, Timer
    <3> QED
      BY <2>1, <3>1, <3>2
  <2> QED
    BY <2>2, <2>3, <2>4
<1>2. TimersIInv /\ DeletedInv /\ [TimersNext]_vars => DeletedInv' /\ [NoneAgain]_vars
  BY <1>1, TimersStep, TimersStutter
<1>3. TimersInit => DeletedInv
  BY TimersInitInv
<1> QED
  BY <1>2, <1>3, TimersInductive, PTL DEF TimersSpec, NotRecreated

=============================================================================
