----------------------------- MODULE ClientSession -----------------------------
(***************************************************************************)
(* The sessions of the connected clients (vnsiclient.c, vnsisocket.c).  Each   *)
(* has a reader thread, which turns what the peer sends into commands, a       *)
(* queue, and a command thread, which executes the commands; VDR's threads and *)
(* the status thread put commands into the same queue.  The scans of the       *)
(* clients are those of ScanControl: call[c] is where the command thread is    *)
(* within a scan request or in the end of the session.                         *)
(***************************************************************************)
EXTENDS ScanControl, Lists, FiniteSets

CONSTANTS
  Ops,           \* the kinds of requests the peers send
  Kinds,         \* VDR's lists whose changes are announced
  MaxRequests,   \* bound: requests a peer sends
  MaxQueue       \* bound: commands VDR's threads find in a queue they add to

AllOps == {"Login", "EnableStatus", "Ping", "Setup", "Invalidate", "Open", "Close", "Seek",
           "Status", "RecOpen", "RecClose", "RecBlock", "RecInfo", "ScanQuery", "ScanStart",
           "ScanStop", "OsdConnect", "OsdDisconnect", "HitKey", "Garbage"}

\* The requests without arguments; the others may be malformed, ~fine.
Bare == {"Ping", "Invalidate", "Close", "Status", "RecClose", "ScanQuery", "ScanStop", "OsdConnect",
         "OsdDisconnect", "HitKey", "Garbage"}

ASSUME SessionAssumption == Ops \subseteq AllOps /\ MaxRequests \in Nat /\ MaxQueue \in Nat

VARIABLES
  peer,        \* the client at the other end: "none", "open" or "closed"
  wire,        \* requests on their way
  sent,        \* number of requests sent
  reader,      \* VNSISocket's thread: "none", "loop", "poll", "dead"
  reading,     \* its Running()
  fd,          \* the socket's descriptor has not been given away
  queue,       \* m_Queue
  thread,      \* the command thread: "none", "loop", "wait", "ending", "ended"
  running,     \* its Running()
  sess,        \* what the requests change in the session
  current,     \* the request being executed, 0 if there is none
  answered,    \* the number of the last request answered
  life         \* the object: "none", "up", and the steps of its destruction

sessionVars == <<peer, wire, sent, reader, reading, fd, queue, thread, running, sess,
                 current, answered, life>>

New == [logged |-> FALSE, enabled |-> FALSE, streaming |-> FALSE, player |-> FALSE,
        osd |-> FALSE, status |-> FALSE]

Request(n, op, fine) == [id |-> n, op |-> op, fine |-> fine]

Requests == [id : 1..MaxRequests, op : Ops, fine : BOOLEAN]

\* Commands that are no requests carry the number 0.
Commands == Requests \cup [id : {0}, op : Kinds \cup {"SocketError"}, fine : {TRUE}]
Error == Request(0, "SocketError", TRUE)
Change(k) == Request(0, k, TRUE)

SessionTypeOK ==
  /\ ScanTypeOK
  /\ peer \in [Clients -> {"none", "open", "closed"}]
  /\ sent \in [Clients -> 0..MaxRequests]
  /\ reader \in [Clients -> {"none", "loop", "poll", "dead"}]
  /\ reading \in [Clients -> BOOLEAN] /\ fd \in [Clients -> BOOLEAN]
  /\ wire \in [Clients -> Seq(Requests)] /\ queue \in [Clients -> Seq(Commands)]
  /\ thread \in [Clients -> {"none", "loop", "wait", "ending", "ended"}]
  /\ running \in [Clients -> BOOLEAN]
  /\ sess \in [Clients -> [DOMAIN New -> BOOLEAN]]
  /\ current \in [Clients -> 0..MaxRequests]
  /\ answered \in [Clients -> 0..MaxRequests]
  /\ life \in [Clients -> {"none", "up", "stop", "cancel", "socket", "freed"}]

SessionInit ==
  /\ ScanInit
  /\ peer = [c \in Clients |-> "none"]
  /\ wire = [c \in Clients |-> << >>]
  /\ sent = [c \in Clients |-> 0]
  /\ reader = [c \in Clients |-> "none"]
  /\ reading = [c \in Clients |-> FALSE]
  /\ fd = [c \in Clients |-> FALSE]
  /\ queue = [c \in Clients |-> << >>]
  /\ thread = [c \in Clients |-> "none"]
  /\ running = [c \in Clients |-> FALSE]
  /\ sess = [c \in Clients |-> New]
  /\ current = [c \in Clients |-> 0]
  /\ answered = [c \in Clients |-> 0]
  /\ life = [c \in Clients |-> "none"]

-----------------------------------------------------------------------------
(* The constructor starts the reader thread and then the command thread.        *)

Construct(c) ==
  /\ life[c] = "none" /\ life' = [life EXCEPT ![c] = "up"]
  /\ peer' = [peer EXCEPT ![c] = "open"]
  /\ reader' = [reader EXCEPT ![c] = "loop"]
  /\ reading' = [reading EXCEPT ![c] = TRUE]
  /\ fd' = [fd EXCEPT ![c] = TRUE]
  /\ thread' = [thread EXCEPT ![c] = "loop"]
  /\ running' = [running EXCEPT ![c] = TRUE]
  /\ UNCHANGED <<wire, sent, queue, sess, current, answered, scanVars>>

-----------------------------------------------------------------------------
(* The peer. *)

PeerSend(c) ==
  /\ peer[c] = "open" /\ sent[c] < MaxRequests
  /\ sent' = [sent EXCEPT ![c] = @ + 1]
  /\ \E op \in Ops : \E fine \in IF op \in Bare THEN {TRUE} ELSE BOOLEAN :
       wire' = [wire EXCEPT ![c] = Append(@, Request(sent[c] + 1, op, fine))]
  /\ UNCHANGED <<peer, reader, reading, fd, queue, thread, running, sess, current, answered,
                 life, scanVars>>

PeerClose(c) ==
  /\ peer[c] = "open" /\ peer' = [peer EXCEPT ![c] = "closed"]
  /\ UNCHANGED <<wire, sent, reader, reading, fd, queue, thread, running, sess, current,
                 answered, life, scanVars>>

-----------------------------------------------------------------------------
(* The reader thread (VNSISocket::Action). *)

\* Faulty variant: a new command overtakes the queued ones.
PutFirst(c, command) == queue' = [queue EXCEPT ![c] = <<command>> \o @]

Put(c, command) == queue' = [queue EXCEPT ![c] = Append(@, command)]

\* while (Running()): a reader that was cancelled leaves without a word.
ReaderLoop(c) ==
  /\ reader[c] = "loop"
  /\ reader' = [reader EXCEPT ![c] = IF reading[c] THEN "poll" ELSE "dead"]
  /\ UNCHANGED <<peer, wire, sent, reading, fd, queue, thread, running, sess, current,
                 answered, life, scanVars>>

ReadRequest(c) ==
  /\ reader[c] = "poll" /\ fd[c] /\ life[c] # "socket"
  /\ wire[c] # << >> /\ Head(wire[c]).op # "Garbage"
  /\ Put(c, Head(wire[c]))
  /\ wire' = [wire EXCEPT ![c] = Tail(@)]
  /\ reader' = [reader EXCEPT ![c] = "loop"]
  /\ UNCHANGED <<peer, sent, reading, fd, thread, running, sess, current, answered, life,
                 scanVars>>

\* Faulty variant: a reader that fails just ends.
ReadErrorSilent(c) ==
  /\ reader[c] = "poll"
  /\ wire[c] # << >> \/ peer[c] = "closed" \/ (life[c] = "socket" /\ fd[c])
  /\ fd[c] /\ life[c] # "socket" => IF wire[c] = << >> THEN TRUE ELSE Head(wire[c]).op = "Garbage"
  /\ reader' = [reader EXCEPT ![c] = "dead"]
  /\ UNCHANGED <<peer, wire, sent, reading, fd, queue, thread, running, sess, current,
                 answered, life, scanVars>>

\* The read fails: the peer is gone or sent a header that is refused, the destructor
\* has shut the socket down, or there is something to read and the descriptor has been
\* given away.
ReadError(c) ==
  /\ reader[c] = "poll"
  /\ wire[c] # << >> \/ peer[c] = "closed" \/ (life[c] = "socket" /\ fd[c])
  /\ fd[c] /\ life[c] # "socket" => IF wire[c] = << >> THEN TRUE ELSE Head(wire[c]).op = "Garbage"
  /\ Put(c, Error)
  /\ reader' = [reader EXCEPT ![c] = "dead"]
  /\ UNCHANGED <<peer, wire, sent, reading, fd, thread, running, sess, current, answered,
                 life, scanVars>>

-----------------------------------------------------------------------------
(* The requests.  Handle(c, r, s, reply, ok) is what is left of a handler: the   *)
(* new state of the session, whether an answer was written and the result, FALSE  *)
(* of which cancels the command thread.  A malformed request throws where its     *)
(* first argument is taken; the exception is caught and nothing is answered.      *)

Finish(c, r, reply, ok) ==
  /\ answered' = [answered EXCEPT ![c] = IF reply THEN r.id ELSE @]
  /\ running' = [running EXCEPT ![c] = @ /\ ok]

Handle(c, r, s, reply, ok) ==
  /\ sess' = [sess EXCEPT ![c] = s]
  /\ Finish(c, r, reply, ok)
  /\ UNCHANGED <<current, reading, fd, scanVars>>

\* Too short a login, or one with an old protocol, drops the client without an answer.
Login(c, r) ==
  /\ r.op = "Login"
  /\ \/ ~r.fine /\ \E ok \in BOOLEAN : Handle(c, r, sess[c], FALSE, ok)
     \/ r.fine /\ Handle(c, r, sess[c], FALSE, FALSE)
     \/ r.fine /\ Handle(c, r, [sess[c] EXCEPT !.logged = TRUE], TRUE, TRUE)

EnableStatus(c, r) ==
  /\ r.op = "EnableStatus"
  /\ \/ ~r.fine /\ Handle(c, r, sess[c], FALSE, TRUE)
     \/ r.fine /\ \E on \in BOOLEAN :
          Handle(c, r, [sess[c] EXCEPT !.enabled = on], TRUE, TRUE)

\* GETTIME, PING, GETSOCKET: no arguments.
Ping(c, r) == r.op = "Ping" /\ Handle(c, r, sess[c], TRUE, TRUE)

\* GETSETUP and STORESETUP.
Setup(c, r) == r.op = "Setup" /\ Handle(c, r, sess[c], r.fine, TRUE)

\* The answer is written, then the reader is told to end and the descriptor is dropped.
Invalidate(c, r) ==
  /\ r.op = "Invalidate"
  /\ reading' = [reading EXCEPT ![c] = FALSE]
  /\ fd' = [fd EXCEPT ![c] = FALSE]
  /\ answered' = [answered EXCEPT ![c] = r.id]
  /\ UNCHANGED <<running, sess, current, scanVars>>

\* A stream that is open is closed first; if no stream can be opened, the answer says
\* so and the client is dropped.
OpenStream(c, r) ==
  /\ r.op = "Open"
  /\ \/ ~r.fine /\ Handle(c, r, sess[c], FALSE, TRUE)
     \/ r.fine /\ \E ok \in BOOLEAN :
          Handle(c, r, [sess[c] EXCEPT !.streaming = ok, !.status = FALSE], TRUE, ok)

CloseStream(c, r) ==
  /\ r.op = "Close"
  /\ Handle(c, r, [sess[c] EXCEPT !.streaming = FALSE, !.status = FALSE], TRUE, TRUE)

\* SEEK and STATUS_SOCKET take their argument only when there is a stream.
SeekStream(c, r) ==
  /\ r.op = "Seek"
  /\ \E socket \in BOOLEAN :
       Handle(c, r, [sess[c] EXCEPT !.status = @ \/ (socket /\ sess[c].streaming /\ r.fine)],
              ~sess[c].streaming \/ r.fine, TRUE)

\* The status request is answered by the stream, with no number.
StatusRequest(c, r) == r.op = "Status" /\ Handle(c, r, sess[c], FALSE, TRUE)

\* A second recording is refused while one is open.
RecOpen(c, r) ==
  /\ r.op = "RecOpen"
  /\ \/ ~r.fine /\ Handle(c, r, sess[c], FALSE, TRUE)
     \/ r.fine /\ \E known \in BOOLEAN :
          Handle(c, r, [sess[c] EXCEPT !.player = @ \/ known], TRUE, TRUE)

RecClose(c, r) ==
  /\ r.op = "RecClose"
  /\ Handle(c, r, [sess[c] EXCEPT !.player = FALSE], TRUE, TRUE)

\* A block is refused during live streaming and without a recording, and the client
\* dropped without an answer.
RecBlock(c, r) ==
  /\ r.op = "RecBlock"
  /\ IF sess[c].streaming \/ ~sess[c].player
       THEN Handle(c, r, sess[c], FALSE, FALSE)
       ELSE Handle(c, r, sess[c], r.fine, TRUE)

\* Positions, frame numbers, I frames and the length of a recording.
RecInfo(c, r) == r.op = "RecInfo" /\ Handle(c, r, sess[c], r.fine, TRUE)

OsdConnect(c, r) ==
  /\ r.op = "OsdConnect"
  /\ Handle(c, r, [sess[c] EXCEPT !.osd = TRUE], TRUE, TRUE)

OsdDisconnect(c, r) ==
  /\ r.op = "OsdDisconnect"
  /\ Handle(c, r, [sess[c] EXCEPT !.osd = FALSE], FALSE, TRUE)

HitKey(c, r) == r.op = "HitKey" /\ Handle(c, r, sess[c], FALSE, TRUE)

\* The scan requests; starting and stopping take several steps of ScanControl.
ScanAtOnce(c, r) ==
  /\ \/ r.op = "ScanQuery" /\ (ScanQuery(c) \/ ScanTypes(c)) /\ Finish(c, r, TRUE, TRUE)
     \/ r.op = "ScanStart" /\ r.fine /\ ScanRefused(c) /\ Finish(c, r, TRUE, TRUE)
     \/ r.op = "ScanStop" /\ ~ScannerOK /\ ScanStop(c) /\ Finish(c, r, TRUE, TRUE)
     \/ r.op = "ScanStart" /\ ~r.fine /\ Finish(c, r, FALSE, TRUE) /\ UNCHANGED scanVars
  /\ UNCHANGED <<sess, current, reading, fd>>

ScanBegin(c, r) ==
  /\ \/ r.op = "ScanStart" /\ r.fine /\ ScanStart(c)
     \/ r.op = "ScanStop" /\ ScannerOK /\ ScanStop(c)
  /\ current' = [current EXCEPT ![c] = r.id]
  /\ UNCHANGED <<sess, answered, running, reading, fd>>

Process(c, r) ==
  \/ Login(c, r) \/ EnableStatus(c, r) \/ Ping(c, r) \/ Setup(c, r) \/ Invalidate(c, r)
  \/ OpenStream(c, r) \/ CloseStream(c, r) \/ SeekStream(c, r) \/ StatusRequest(c, r)
  \/ RecOpen(c, r) \/ RecClose(c, r) \/ RecBlock(c, r) \/ RecInfo(c, r)
  \/ OsdConnect(c, r) \/ OsdDisconnect(c, r) \/ HitKey(c, r)
  \/ ScanAtOnce(c, r) \/ ScanBegin(c, r)

-----------------------------------------------------------------------------
(* The command thread (cVNSIClient::Action).  A request that comes before the    *)
(* login is ignored.                                                            *)

LoopCheck(c) ==
  /\ thread[c] = "loop" /\ current[c] = 0
  /\ thread' = [thread EXCEPT ![c] = IF running[c] THEN "wait" ELSE "ending"]
  /\ UNCHANGED <<peer, wire, sent, reader, reading, fd, queue, running, sess, current,
                 answered, life, scanVars>>

\* Nothing has come within 100 ms.
Timeout(c) ==
  /\ thread[c] = "wait" /\ queue[c] = << >> /\ ~running[c]
  /\ thread' = [thread EXCEPT ![c] = "loop"]
  /\ UNCHANGED <<peer, wire, sent, reader, reading, fd, queue, running, sess, current,
                 answered, life, scanVars>>

\* Faulty variant: the command is looked at and left in the queue.
PopKept(c) ==
  /\ thread[c] = "wait" /\ queue[c] # << >>
  /\ thread' = [thread EXCEPT ![c] = "loop"]
  /\ UNCHANGED queue

Pop(c) ==
  /\ thread[c] = "wait" /\ queue[c] # << >>
  /\ queue' = [queue EXCEPT ![c] = Tail(@)]
  /\ thread' = [thread EXCEPT ![c] = "loop"]

TakeRequest(c) ==
  /\ Pop(c)
  /\ LET r == Head(queue[c]) IN
       /\ r.id # 0
       /\ IF sess[c].logged \/ r.op = "Login"
            THEN Process(c, r)
            ELSE UNCHANGED <<sess, current, answered, running, reading, fd, scanVars>>
  /\ UNCHANGED <<peer, wire, sent, reader, life>>

TakeError(c) ==
  /\ Pop(c) /\ Head(queue[c]) = Error
  /\ running' = [running EXCEPT ![c] = FALSE]
  /\ UNCHANGED <<peer, wire, sent, reader, reading, fd, sess, current, answered, life, scanVars>>

\* A notification is written if the client asked for them; nothing of the session changes.
TakeChange(c, k) ==
  /\ Pop(c) /\ Head(queue[c]) = Change(k)
  /\ UNCHANGED <<peer, wire, sent, reader, reading, fd, running, sess, current, answered,
                 life, scanVars>>

\* A scan request goes on, and is answered at its end.
ScanGoesOn(c) ==
  /\ current[c] # 0 /\ ScanCall(c)
  /\ IF call'[c] = "none"
       THEN /\ answered' = [answered EXCEPT ![c] = current[c]]
            /\ current' = [current EXCEPT ![c] = 0]
       ELSE UNCHANGED <<answered, current>>
  /\ UNCHANGED <<peer, wire, sent, reader, reading, fd, queue, thread, running, sess, life>>

\* The end of the session: first the stream, then the scan, then the OSD.
EndStream(c) ==
  /\ thread[c] = "ending" /\ current[c] = 0 /\ ScanLeave(c)
  /\ sess' = [sess EXCEPT ![c] = [@ EXCEPT !.streaming = FALSE, !.status = FALSE]]
  /\ UNCHANGED <<peer, wire, sent, reader, reading, fd, queue, thread, running, current,
                 answered, life>>

EndScan(c) ==
  /\ thread[c] = "ending" /\ current[c] = 0 /\ ScanCall(c)
  /\ UNCHANGED sessionVars

EndSession(c) ==
  /\ thread[c] = "ending" /\ call[c] = "gone"
  /\ thread' = [thread EXCEPT ![c] = "ended"]
  /\ sess' = [sess EXCEPT ![c].osd = FALSE]
  /\ UNCHANGED <<peer, wire, sent, reader, reading, fd, queue, running, current, answered,
                 life, scanVars>>

-----------------------------------------------------------------------------
(* The destructor.  It runs in the thread that drops the client, with the command  *)
(* thread still executing requests until Cancel has returned, and the socket goes   *)
(* last.                                                                        *)

Destroy(c, step, next) ==
  /\ life[c] = step /\ life' = [life EXCEPT ![c] = next]
  /\ UNCHANGED <<peer, wire, sent, fd, queue, thread, current, answered>>

DestroyStop(c) ==
  /\ Destroy(c, "up", "stop")
  /\ sess' = [sess EXCEPT ![c] = [@ EXCEPT !.streaming = FALSE, !.status = FALSE]]
  /\ IF supported[c] THEN PutStop ELSE UNCHANGED plugin
  /\ UNCHANGED <<reader, reading, running, inhibit, supported, finished, status, poll, call,
                 told, starts>>

\* The rest of StopScan, and Cancel(10) begins.
DestroyCancel(c) ==
  /\ Destroy(c, "stop", "cancel")
  /\ poll' = [poll EXCEPT ![c] = IF supported[c] THEN "off" ELSE @]
  /\ told' = [told EXCEPT ![c] = IF supported[c] /\ ~finished[c] THEN "finished" ELSE @]
  /\ status' = [status EXCEPT ![c] = @ \/ (supported[c] /\ ~finished[c])]
  /\ running' = [running EXCEPT ![c] = FALSE]
  /\ UNCHANGED <<reader, reading, sess, plugin, inhibit, supported, finished, call, starts>>

\* Faulty variant: the destructor does not wait for the command thread.
DestroySocketEarly(c) ==
  /\ Destroy(c, "cancel", "socket")
  /\ reading' = [reading EXCEPT ![c] = FALSE]
  /\ UNCHANGED <<reader, running, sess, scanVars>>

\* The members: the socket is the last one and goes first, with Shutdown and Cancel(10).
DestroySocket(c) ==
  /\ thread[c] = "ended"
  /\ Destroy(c, "cancel", "socket")
  /\ reading' = [reading EXCEPT ![c] = FALSE]
  /\ UNCHANGED <<reader, running, sess, scanVars>>

\* Shutdown wakes the reader unless the descriptor was given away; then it is killed.
DestroyRest(c) ==
  /\ reader[c] = "dead" \/ ~fd[c]
  /\ Destroy(c, "socket", "freed")
  /\ reader' = [reader EXCEPT ![c] = "dead"]
  /\ UNCHANGED <<reading, running, sess, scanVars>>

-----------------------------------------------------------------------------
(* VDR's threads add commands of their own: a recording starts or ends, a message  *)
(* is shown, a channel is retuned; the status thread adds the changes of lists.     *)

Announce(c, k) ==
  /\ life[c] = "up" /\ Len(queue[c]) < MaxQueue
  /\ Put(c, Change(k))
  /\ UNCHANGED <<peer, wire, sent, reader, reading, fd, thread, running, sess, current,
                 answered, life, scanVars>>

PeerStep(c) == PeerSend(c) \/ PeerClose(c)

ReaderStep(c) == ReaderLoop(c) \/ ReadRequest(c) \/ ReadError(c)

SessionStep(c) ==
  \/ LoopCheck(c) \/ Timeout(c) \/ TakeRequest(c) \/ TakeError(c)
  \/ ScanGoesOn(c) \/ EndStream(c) \/ EndScan(c) \/ EndSession(c)

\* What follows the first step of the destructor.
DestroyStep(c) == DestroyCancel(c) \/ DestroySocket(c) \/ DestroyRest(c)

Others(c) == PollLook(c) \/ PollReport(c)

SessionNext ==
  \/ \E c \in Clients :
       \/ Construct(c) \/ PeerStep(c) \/ ReaderStep(c) \/ SessionStep(c)
       \/ \E k \in Kinds : TakeChange(c, k) \/ Announce(c, k)
       \/ DestroyStop(c) \/ DestroyStep(c)
       \/ Others(c) /\ UNCHANGED sessionVars
  \/ PluginStops /\ UNCHANGED sessionVars
  \* every object is gone
  \/ (\A c \in Clients : life[c] = "freed") /\ UNCHANGED <<sessionVars, scanVars>>

SessionFairness ==
  /\ \A c \in Clients :
       /\ WF_<<sessionVars, scanVars>>(ReaderStep(c))
       /\ WF_<<sessionVars, scanVars>>(SessionStep(c) \/ \E k \in Kinds : TakeChange(c, k))
       /\ WF_<<sessionVars, scanVars>>(DestroyStep(c))
       /\ WF_<<sessionVars, scanVars>>(Others(c) /\ UNCHANGED sessionVars)
  /\ WF_<<sessionVars, scanVars>>(PluginStops /\ UNCHANGED sessionVars)

SessionSpec ==
  SessionInit /\ [][SessionNext]_<<sessionVars, scanVars>> /\ SessionFairness

-----------------------------------------------------------------------------
(* Correctness. *)

Ids(s) == [i \in DOMAIN s |-> s[i].id]

\* The command thread will look into the queue once more at least.
Takes(c) == thread[c] = "wait" \/ running[c]

\* The requests of c that have not been executed and still can be.
Asked(c) ==
  (IF current[c] = 0 THEN << >> ELSE <<current[c]>>) \o
  (IF Takes(c)
     THEN Ids(Kept(queue[c] \o (IF reader[c] = "dead" THEN << >> ELSE wire[c]), Requests))
     ELSE << >>)

Open(c) ==
  IF life[c] = "none" \/ (Takes(c) /\ reader[c] # "dead") THEN "yes"
  ELSE IF Takes(c) \/ current[c] # 0 THEN "draining" ELSE "no"

Service(c) == INSTANCE SessionService WITH
  count <- sent[c], asked <- Asked(c), answered <- answered[c], open <- Open(c)

\* Two threads and a queue keep what one loop over the socket would: requests are
\* executed and answered in the order they were sent, none twice, and none after the
\* session was told to end, but the one being executed.
ImplementsService ==
  /\ \A c \in Clients : Service(c)!Init
  /\ [][\A c \in Clients : [Service(c)!Next]_(Service(c)!serviceVars)]_<<sessionVars, scanVars>>

\* A request that was sent is executed unless its session ends or its reader does.
RequestServed ==
  \A c \in Clients, n \in 1..MaxRequests :
    (\E i \in DOMAIN Asked(c) : Asked(c)[i] = n) ~> ~(\E i \in DOMAIN Asked(c) : Asked(c)[i] = n)

\* When the object is gone so is all that would use it: both threads, the stream and
\* the polling thread, whatever the command thread started beside the destructor.
NothingOutlives ==
  \A c \in Clients : life[c] = "freed" =>
    reader[c] = "dead" /\ thread[c] = "ended" /\ poll[c] = "off" /\ ~sess[c].streaming

\* The session of a client that is gone ends, if its socket was not given away.
GoneEnds == \A c \in Clients : (peer[c] = "closed" /\ fd[c]) ~> (thread[c] = "ended" \/ ~fd[c])

\* The session's state is consistent, and what it uses is there as long as it is.
SessionInv == SessionTypeOK /\ NothingOutlives

=============================================================================
