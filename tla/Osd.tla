----------------------------------- MODULE Osd -----------------------------------
(***************************************************************************)
(* VDR's on-screen display, sent to a client (vnsiosd.c).  VDR's main thread    *)
(* draws into the bitmaps of the windows of a cVnsiOsd and flushes them; every   *)
(* command is a packet of its own, to whatever client's socket is the provider's *)
(* when it is sent.  The threads of the clients connect and disconnect           *)
(* meanwhile.  All state of the provider is static.                              *)
(*                                                                         *)
(* The content of a window is the number of times something was drawn into it;   *)
(* a client that starts with no windows keeps what the commands tell it.         *)
(***************************************************************************)
EXTENDS Integers, ClientThreads

CONSTANTS
  MaxWindows,   \* windows of an OSD
  MaxDraws,     \* bound: changes of a window
  MaxAreas,     \* bound: calls of SetAreas
  Reconnects    \* clients may connect when they or others are connected

ASSUME OsdAssumption ==
  /\ MaxWindows \in Nat /\ MaxDraws \in Nat /\ MaxAreas \in Nat
  /\ Reconnects \in BOOLEAN

Windows == 1..MaxWindows
Closed == -2    \* no such window at the client
Mixed == -1     \* a window of which the client has only parts

VARIABLES
  socket,       \* m_Socket: the client it belongs to, or Nobody
  requestFull,  \* m_RequestFull
  osds,         \* clients whose session has a provider, m_Osd
  gone,         \* clients whose session has ended
  active, shown, \* Active() and m_shown of the OSD
  count,        \* the number of bitmaps
  drawn,        \* the content of each
  dirty,        \* how much of it has been sent since it was last clean; drawn if it is clean
  fpc,          \* Flush: "idle", or the command to be sent next
  window,       \* the window it is at
  full,         \* its local full
  view,         \* what each client shows
  areas,        \* calls of SetAreas so far
  since         \* history: a Flush has begun since the client last connected

providerVars == <<socket, requestFull, osds, gone>>
osdVars == <<active, shown, count, drawn, dirty, areas>>
flushVars == <<fpc, window, full>>
osdAllVars == <<providerVars, osdVars, flushVars, view, since>>

NoView == [w \in Windows |-> Closed]

OsdTypeOK ==
  /\ socket \in Client \union {Nobody} /\ requestFull \in BOOLEAN
  /\ osds \in SUBSET Client /\ gone \in SUBSET Client
  /\ active \in BOOLEAN /\ shown \in BOOLEAN /\ (shown => active)
  /\ count \in 0..MaxWindows /\ drawn \in [Windows -> 0..MaxDraws]
  /\ dirty \in [Windows -> 0..MaxDraws] /\ areas \in 0..MaxAreas
  /\ fpc \in {"idle", "clear", "open", "block"} /\ window \in 1..(MaxWindows + 1) /\ full \in BOOLEAN
  /\ view \in [Client -> [Windows -> (Closed..MaxDraws)]]
  /\ since \in BOOLEAN

OsdInit ==
  /\ socket = Nobody /\ requestFull = FALSE /\ osds = {} /\ gone = {}
  /\ active = FALSE /\ shown = FALSE /\ count = 0 /\ areas = 0
  /\ drawn = [w \in Windows |-> 0] /\ dirty = [w \in Windows |-> 0]
  /\ fpc = "idle" /\ window = 1 /\ full = FALSE
  /\ view = [c \in Client |-> NoView] /\ since = FALSE

-----------------------------------------------------------------------------
(* The provider.  A client that connects makes a new one, and only then drops the one  *)
(* it may have; the destructor does not look whose socket it forgets.                  *)

Connect(c) ==
  /\ c \notin gone /\ (Reconnects \/ osds = {})
  /\ socket' = IF c \in osds THEN Nobody ELSE c
  /\ requestFull' = TRUE /\ osds' = osds \union {c}
  /\ view' = [view EXCEPT ![c] = NoView] /\ since' = FALSE
  /\ UNCHANGED <<gone, osdVars, flushVars>>

DropProvider(c) ==
  /\ osds' = osds \ {c}
  /\ socket' = IF c \in osds THEN Nobody ELSE socket

Disconnect(c) ==
  /\ c \in osds /\ DropProvider(c)
  /\ view' = [view EXCEPT ![c] = NoView]
  /\ UNCHANGED <<requestFull, gone, osdVars, flushVars, since>>

\* The end of a session drops the provider before the socket is destroyed.
EndSession(c) ==
  /\ c \notin gone /\ gone' = gone \union {c}
  /\ DropProvider(c)
  /\ view' = [view EXCEPT ![c] = NoView]
  /\ UNCHANGED <<requestFull, osdVars, flushVars, since>>

-----------------------------------------------------------------------------
(* Commands, to the client the provider has now.                                  *)

Send(w, content) ==
  view' = IF socket = Nobody THEN view ELSE [view EXCEPT ![socket][w] = content]

SendAll(f) == view' = IF socket = Nobody THEN view ELSE [view EXCEPT ![socket] = f]

Shows(w) == IF socket = Nobody THEN Closed ELSE view[socket][w]

\* SetAreas closes the windows that are shown, then the bitmaps are new and empty.
SetAreas ==
  /\ fpc = "idle" /\ areas < MaxAreas /\ areas' = areas + 1
  /\ IF shown THEN SendAll([w \in Windows |-> IF w <= count THEN Closed ELSE Shows(w)])
     ELSE UNCHANGED view
  /\ shown' = FALSE
  /\ \E n \in 1..MaxWindows : count' = n
  /\ drawn' = [w \in Windows |-> 0] /\ dirty' = [w \in Windows |-> 0]
  /\ UNCHANGED <<providerVars, active, flushVars, since>>

Draw(w) ==
  /\ fpc = "idle" /\ w <= count /\ drawn[w] < MaxDraws
  /\ drawn' = [drawn EXCEPT ![w] = @ + 1]
  /\ UNCHANGED <<providerVars, active, shown, count, dirty, areas, flushVars, view, since>>

\* SetActive(true) clears the windows and flushes if there are any.
Activate ==
  /\ fpc = "idle" /\ ~active /\ active' = TRUE
  /\ SendAll([w \in Windows |-> IF Shows(w) = Closed THEN Closed ELSE 0])
  /\ fpc' = IF count > 0 THEN "clear" ELSE "idle"
  /\ UNCHANGED <<providerVars, shown, count, drawn, dirty, areas, window, full, since>>

CloseWindows ==
  /\ IF shown THEN SendAll([w \in Windows |-> IF w <= count THEN Closed ELSE Shows(w)])
     ELSE UNCHANGED view
  /\ shown' = FALSE

Deactivate ==
  /\ fpc = "idle" /\ active /\ active' = FALSE
  /\ CloseWindows
  /\ UNCHANGED <<providerVars, count, drawn, dirty, areas, flushVars, since>>

-----------------------------------------------------------------------------
(* Flush. *)

\* Faulty variant: the request is forgotten in any case.
FlushBeginForgets ==
  /\ \/ fpc = "idle" /\ active
     \/ fpc = "clear"
  /\ full' = FALSE /\ requestFull' = FALSE /\ window' = 1 /\ fpc' = "open" /\ since' = TRUE
  /\ UNCHANGED <<socket, osds, gone, osdVars, view>>

FlushBegin ==
  /\ \/ fpc = "idle" /\ active
     \/ fpc = "clear"
  /\ full' = requestFull /\ requestFull' = FALSE /\ window' = 1 /\ fpc' = "open" /\ since' = TRUE
  /\ UNCHANGED <<socket, osds, gone, osdVars, view>>

\* VNSI_OSD_OPEN, with reset if everything is to be sent.
FlushOpen ==
  /\ fpc = "open" /\ window <= count
  /\ LET reset == ~shown \/ full
     IN Send(window, IF reset \/ Shows(window) = Closed THEN 0 ELSE Shows(window))
  /\ fpc' = "block"
  /\ UNCHANGED <<providerVars, osdVars, window, full, since>>

\* VNSI_OSD_SETBLOCK: the whole bitmap, or what is dirty of it.  A part makes the window of
\* a client right only if it had what was sent before.
FlushBlock ==
  /\ fpc = "block"
  /\ LET w == window
     IN /\ IF ~shown \/ full THEN Send(w, drawn[w])
           ELSE IF drawn[w] # dirty[w]
           THEN Send(w, IF Shows(w) = dirty[w] THEN drawn[w] ELSE Mixed)
           ELSE UNCHANGED view
        /\ dirty' = [dirty EXCEPT ![w] = drawn[w]]
  /\ window' = window + 1 /\ fpc' = "open"
  /\ UNCHANGED <<providerVars, active, shown, count, drawn, areas, full, since>>

FlushEnd ==
  /\ fpc = "open" /\ window > count
  /\ shown' = TRUE /\ fpc' = "idle" /\ window' = 1 /\ full' = FALSE
  /\ UNCHANGED <<providerVars, active, count, drawn, dirty, areas, view, since>>

OsdNext ==
  \/ \E c \in Client : Connect(c) \/ Disconnect(c) \/ EndSession(c)
  \/ SetAreas \/ Activate \/ Deactivate
  \/ \E w \in Windows : Draw(w)
  \/ FlushBegin \/ FlushOpen \/ FlushBlock \/ FlushEnd

OsdSpec == OsdInit /\ [][OsdNext]_osdAllVars

-----------------------------------------------------------------------------
(* Correctness.                                                                 *)

Clean == \A w \in Windows : w <= count => drawn[w] = dirty[w]

\* A client that connects at any moment, even while VDR flushes windows of which only parts
\* have changed, shows exactly what VDR shows once VDR has flushed for the first time since.
ViewRight ==
  fpc = "idle" /\ shown /\ Clean /\ since /\ socket # Nobody =>
    \A w \in Windows : view[socket][w] = IF w <= count THEN drawn[w] ELSE Closed

\* A client sees no windows any more when VDR's OSD has been closed.
NothingLeft ==
  fpc = "idle" /\ ~active /\ since /\ socket # Nobody => view[socket] = NoView

\* Nothing is written to the socket of a session that has ended.
SocketAlive == socket \notin gone

\* The one client that gets VDR's commands is there and shows what VDR shows.
OsdInv == OsdTypeOK /\ ViewRight /\ NothingLeft /\ SocketAlive

=============================================================================
