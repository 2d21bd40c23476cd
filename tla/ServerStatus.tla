------------------------------ MODULE ServerStatus ------------------------------
(***************************************************************************)
(* The server's threads around the sessions: cVNSIServer accepts clients      *)
(* (vnsiserver.c), cVNSIStatus keeps the list of them, tells them what        *)
(* changed in VDR, and destroys those that have ended (status.c).  A list of  *)
(* VDR is dirty from its change until the status thread's state key sees it.  *)
(* news is a history variable: the changes since a client that enabled the    *)
(* status interface was last notified of that list.                          *)
(***************************************************************************)
EXTENDS ClientSession

CONSTANTS
  KindOrder,     \* VDR's lists in the order in which they are looked at
  Timed,         \* those that are looked at every few seconds only
  MaxChanges     \* bound: changes of VDR's lists

ASSUME StatusAssumption ==
  /\ KindOrder \in Seq(Kinds)
  /\ Timed \subseteq Kinds /\ MaxChanges \in Nat
  /\ "none" \notin Clients

VARIABLES
  dirty,       \* lists the status thread has not seen changed
  list,        \* m_clients
  doomed,      \* removed from it, destroyed at the end of the iteration
  adding,      \* the client being added, with m_mutex held; "none" if there is none
  pc,          \* the status thread
  todo,        \* lists still to be looked at in this iteration
  down,        \* the destructor of the server
  server,      \* the server's thread: it accepts clients, may have one left, or has ended
  news,
  changes

statusVars == <<dirty, list, doomed, adding, pc, todo, down, server, news, changes>>

allVars == <<statusVars, sessionVars, scanVars>>

StatusTypeOK ==
  /\ SessionTypeOK
  /\ dirty \subseteq Kinds /\ list \subseteq Clients /\ doomed \subseteq Clients
  /\ adding \in Clients \cup {"none"}
  /\ pc \in {"prune", "check", "look", "tell", "sleep", "ended"}
  /\ todo \in {SubSeq(KindOrder, i, Len(KindOrder)) : i \in 1..(Len(KindOrder) + 1)}
  /\ down \in {"no", "cancelled", "clearing", "done"} /\ server \in {"accepts", "last", "ended"}
  /\ news \in [Clients -> SUBSET Kinds]
  /\ changes \in 0..MaxChanges

StatusInit ==
  /\ SessionInit
  /\ dirty = {} /\ list = {} /\ doomed = {} /\ adding = "none"
  /\ pc = "prune" /\ todo = << >> /\ down = "no" /\ server = "accepts"
  /\ news = [c \in Clients |-> {}]
  /\ changes = 0

-----------------------------------------------------------------------------
(* The server thread: a client is constructed and put into the list with the     *)
(* mutex held; its threads run from the moment it is constructed.                *)

\* Once it is cancelled the server's thread ends, but for a client it is just accepting.
Accepts == server # "ended" /\ server' = (IF server = "last" THEN "ended" ELSE server)

\* Faulty variant: the mutex is taken for the list only, after the construction.
AddClientUnlocked(c) ==
  /\ Accepts
  /\ Construct(c)
  /\ UNCHANGED <<dirty, list, doomed, adding, pc, todo, down, news, changes>>

AddClient(c) ==
  /\ Accepts /\ adding = "none"
  /\ adding' = c
  /\ Construct(c)
  /\ UNCHANGED <<dirty, list, doomed, pc, todo, down, news, changes>>

ClientAdded(c) ==
  /\ adding = c \/ (adding = "none" /\ life[c] = "up" /\ c \notin list \cup doomed)
  /\ adding' = "none" /\ list' = list \cup {c}
  /\ UNCHANGED <<dirty, doomed, pc, todo, down, server, news, changes, sessionVars, scanVars>>

-----------------------------------------------------------------------------
(* The status thread.                                                           *)

\* Clients whose command thread has ended are taken off the list.
Prune ==
  /\ pc = "prune" /\ adding = "none"
  /\ doomed' = {c \in list : thread[c] = "ended"}
  /\ list' = list \ doomed'
  /\ pc' = "check"
  /\ UNCHANGED <<dirty, adding, todo, down, server, news, changes, sessionVars, scanVars>>

CheckInhibit ==
  /\ pc = "check"
  /\ pc' = IF inhibit THEN "sleep" ELSE "look"
  /\ todo' = IF inhibit THEN todo ELSE KindOrder
  /\ UNCHANGED <<dirty, list, doomed, adding, down, server, news, changes, sessionVars, scanVars>>

\* isModified() also takes note of the change; a list whose timer has not run out is
\* passed over.
Look ==
  /\ pc = "look" /\ todo # << >>
  /\ LET k == Head(todo) IN
       \/ /\ k \notin dirty \/ k \in Timed
          /\ todo' = Tail(todo) /\ UNCHANGED <<dirty, pc>>
       \/ /\ k \in dirty
          /\ dirty' = dirty \ {k} /\ pc' = "tell" /\ UNCHANGED todo
  /\ UNCHANGED <<list, doomed, adding, down, server, news, changes, sessionVars, scanVars>>

Tell ==
  /\ pc = "tell" /\ adding = "none"
  /\ queue' = [c \in Clients |->
                IF c \in list THEN Append(queue[c], Change(Head(todo))) ELSE queue[c]]
  /\ pc' = "look" /\ todo' = Tail(todo)
  /\ UNCHANGED <<dirty, list, doomed, adding, down, server, news, changes, peer, wire, sent, reader,
                 reading, fd, thread, running, sess, current, answered, life, scanVars>>

Looked ==
  /\ pc = "look" /\ todo = << >> /\ pc' = "sleep"
  /\ UNCHANGED <<dirty, list, doomed, adding, todo, down, server, news, changes, sessionVars, scanVars>>

\* The last references to the clients taken off the list go with the loop's variables.
Dispose(c) ==
  /\ pc = "sleep" /\ c \in doomed
  /\ DestroyStop(c)
  /\ UNCHANGED statusVars

NextRound ==
  /\ pc = "sleep" /\ \A c \in doomed : life[c] = "freed"
  /\ pc' = IF down = "no" THEN "prune" ELSE "ended"
  /\ UNCHANGED <<dirty, list, doomed, adding, todo, down, server, news, changes, sessionVars, scanVars>>

-----------------------------------------------------------------------------
(* The end: the server thread is cancelled and not waited for, the status thread  *)
(* ends, the list is cleared without its mutex.                                  *)

CancelServer ==
  /\ down = "no" /\ down' = "cancelled" /\ server' \in {"last", "ended"}
  /\ UNCHANGED <<dirty, list, doomed, adding, pc, todo, news, changes, sessionVars, scanVars>>

\* Once by the server's destructor, and again by the status thread's own.
Clear ==
  /\ down = "cancelled" \/ (down = "done" /\ list # {})
  /\ pc = "ended"
  /\ down' = "clearing"
  /\ UNCHANGED <<dirty, list, doomed, adding, pc, todo, server, news, changes, sessionVars, scanVars>>

ClearOne(c) ==
  /\ down = "clearing" /\ c \in list
  /\ \A d \in list : life[d] \in {"up", "freed"}
  /\ DestroyStop(c)
  /\ UNCHANGED statusVars

Cleared ==
  /\ down = "clearing" /\ \A c \in list : life[c] = "freed"
  /\ down' = "done" /\ list' = {}
  /\ UNCHANGED <<dirty, doomed, adding, pc, todo, server, news, changes, sessionVars, scanVars>>

-----------------------------------------------------------------------------
(* VDR changes a list; the sessions go on.                                       *)

Listens(c) == thread[c] \in {"loop", "wait"} /\ running[c] /\ sess[c].enabled

ChangeList(k) ==
  /\ changes < MaxChanges /\ changes' = changes + 1
  /\ dirty' = dirty \cup {k}
  /\ news' = [c \in Clients |-> IF Listens(c) THEN news[c] \cup {k} ELSE news[c]]
  /\ UNCHANGED <<list, doomed, adding, pc, todo, down, server, sessionVars, scanVars>>

Session(c) ==
  /\ \/ SessionStep(c) /\ news' = [news EXCEPT ![c] = IF Listens(c)' THEN @ ELSE {}]
     \/ \E k \in Kinds : TakeChange(c, k) /\ news' = [news EXCEPT ![c] = @ \ {k}]
     \/ (PeerStep(c) \/ ReaderStep(c)) /\ UNCHANGED news
     \/ Others(c) /\ UNCHANGED sessionVars /\ UNCHANGED news
     \/ DestroyStep(c) /\ news' = [news EXCEPT ![c] = {}]
  /\ UNCHANGED <<dirty, list, doomed, adding, pc, todo, down, server, changes>>

StatusStep ==
  \/ Prune \/ CheckInhibit \/ Look \/ Tell \/ Looked \/ NextRound
  \/ \E c \in Clients : Dispose(c)

StatusNext ==
  \/ StatusStep
  \/ \E c \in Clients : AddClient(c) \/ ClientAdded(c) \/ ClearOne(c) \/ Session(c)
  \/ CancelServer \/ Clear \/ Cleared
  \/ \E k \in Kinds : ChangeList(k)
  \/ PluginStops /\ UNCHANGED <<sessionVars, statusVars>>
  \/ down = "done" /\ list = {} /\ UNCHANGED allVars

\* The threads of the server and the sessions go on, and every list's timer runs out.
StatusFairness ==
  /\ WF_allVars(Prune \/ CheckInhibit \/ Tell \/ Looked \/ NextRound \/ \E c \in Clients : Dispose(c))
  /\ WF_allVars(Look) /\ SF_allVars(Look /\ dirty' # dirty)
  /\ \A c \in Clients :
       /\ WF_allVars(ClientAdded(c))
       /\ WF_allVars(ReaderStep(c) /\ Session(c))
       /\ WF_allVars((SessionStep(c) \/ \E k \in Kinds : TakeChange(c, k)) /\ Session(c))
       /\ WF_allVars(DestroyStep(c) /\ Session(c))
       /\ WF_allVars(Others(c) /\ Session(c))

StatusSafety == StatusInit /\ [][StatusNext]_allVars

StatusSpec == StatusSafety /\ StatusFairness

-----------------------------------------------------------------------------
(* Correctness. *)

\* A change of one of VDR's lists is not lost on its way to a client that enabled the
\* status interface, although the state key sees it once for all clients: while the
\* client is not notified it is to be seen, is being told, or is in the client's queue.
NoChangeLost ==
  \A c \in Clients : \A k \in news[c] :
    down # "no" \/ k \in dirty \/ (pc = "tell" /\ Head(todo) = k)
      \/ \E i \in DOMAIN queue[c] : queue[c][i] = Change(k)

\* The clients in the list are never those that are being destroyed: the status thread
\* and VDR's callbacks use them through it.
ListAlive == \A c \in list : down \in {"no", "cancelled"} => life[c] = "up"

\* Every change reaches the clients that enabled the status interface, or they leave, or
\* the server ends, unless a scan holds changes back.
ChangeReaches ==
  \A c \in Clients, k \in Kinds :
    (k \in news[c]) ~> (k \notin news[c] \/ down # "no" \/ inhibit)

\* A client whose connection is lost, and whose socket was not given away, is removed
\* and destroyed.
DisconnectedRemoved ==
  \A c \in Clients :
    (peer[c] = "closed" /\ fd[c]) ~> (life[c] = "freed" \/ ~fd[c] \/ down # "no")

\* What the status thread knows of sessions and of VDR's lists is what they are.
StatusInv == StatusTypeOK /\ NoChangeLost /\ ListAlive

=============================================================================
