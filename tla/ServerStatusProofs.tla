--------------------------- MODULE ServerStatusProofs ---------------------------
(***************************************************************************)
(* Proofs about client sessions (module ClientSession) and about the       *)
(* threads of the server above them (module ServerStatus), for every set   *)
(* of clients and kinds of lists and any number of requests.               *)
(*                                                                         *)
(* NothingOutlives relates the object to two threads of its own and to the *)
(* polling thread.  SessionIInv adds to the invariant of the scans which   *)
(* calls the command thread may be in (RequestInv) and how far the threads *)
(* have come at each step of the destructor (LifeInv).  That the sessions  *)
(* implement SessionService needs what cannot be on its way (ServiceInv).  *)
(* NoChangeLost and ListAlive need who is known to the status thread       *)
(* (KnownInv) and who is owed what (NewsInv).                              *)
(***************************************************************************)
EXTENDS ServerStatus, ScanControlProofs, DataLemmas

\* A request of the command thread that takes several steps is a scan request, and the last
\* steps of a scan are those of a session whose stream is closed.
Begun == {"starting", "stop", "stopping", "reporting"}
Leaving == {"leaving", "lastReport", "gone"}

RequestInv == \A c \in Clients :
  /\ current[c] # 0 <=> call[c] \in Begun
  /\ call[c] \in Leaving => thread[c] \in {"ending", "ended"} /\ ~sess[c].streaming

\* The threads within the life of the object.
LifeInv == \A c \in Clients :
  /\ life[c] = "none" => thread[c] = "none"
  /\ thread[c] = "ended" => call[c] = "gone"
  /\ life[c] \in {"socket", "freed"} => thread[c] = "ended"
  /\ life[c] = "freed" => reader[c] = "dead"

SessionIInv == SessionTypeOK /\ ScanIInv /\ RequestInv /\ LifeInv

\* Who is where: the status thread's list, those it destroys, and the one being added.
KnownInv ==
  /\ list \cap doomed = {}
  /\ \A c \in list \cup doomed : life[c] # "none"
  /\ adding # "none" => adding \notin list \cup doomed /\ life[adding] # "none"
  /\ \A c \in doomed : thread[c] = "ended"
  /\ pc = "prune" => \A c \in doomed : life[c] = "freed"
  /\ down \in {"no", "cancelled"} =>
       /\ \A c \in list : life[c] = "up"
       /\ adding # "none" => life[adding] = "up"
       /\ \A c \in Clients : life[c] # "none" =>
            c \in list \cup doomed \/ adding = c \/ life[c] = "freed"

NewsInv ==
  /\ \A c \in Clients : news[c] # {} => Listens(c)
  /\ pc = "tell" => todo # << >>

StatusIInv == SessionIInv /\ StatusTypeOK /\ KnownInv /\ NewsInv /\ NoChangeLost


-----------------------------------------------------------------------------
(* Commands and sessions.                                                       *)

\* What a request and a command of the queue are made of.
LEMMA RequestTypes ==
  /\ Requests \subseteq Commands
  /\ Error \in Commands
  /\ \A k \in Kinds : Change(k) \in Commands
  /\ \A n \in 1..MaxRequests, op \in Ops, fine \in BOOLEAN : Request(n, op, fine) \in Requests
BY SessionAssumption DEF Requests, Commands, Error, Change, Request

\* What the fields of a command are, and which are requests.
LEMMA CommandTypes ==
  ASSUME NEW r \in Commands
  PROVE  r.id \in 0..MaxRequests /\ r.fine \in BOOLEAN /\ (r.id # 0 => r \in Requests)
<1>1. MaxRequests \in Nat
  BY SessionAssumption
<1>2. CASE r \in Requests
  <2>1. r.id \in 1..MaxRequests /\ r.fine \in BOOLEAN
    BY <1>2 DEF Requests
  <2> QED
    BY <1>1, <1>2, <2>1
<1>3. CASE r \in [id : {0}, op : Kinds \cup {"SocketError"}, fine : {TRUE}]
  <2>1. r.id = 0
    BY <1>3
  <2>2. r.fine \in BOOLEAN
    BY <1>3
  <2>3. r.id \in 0..MaxRequests
    BY <1>1, <2>1
  <2> QED
    BY <2>1, <2>2, <2>3
<1> QED
  BY <1>2, <1>3 DEF Commands

\* What a session is, and what closing the stream and the OSD leaves of it.
LEMMA SessionFields ==
  ASSUME NEW s \in [DOMAIN New -> BOOLEAN]
  PROVE  /\ "streaming" \in DOMAIN s
         /\ \A on \in BOOLEAN :
              /\ [s EXCEPT !.logged = on] \in [DOMAIN New -> BOOLEAN]
              /\ [s EXCEPT !.enabled = on] \in [DOMAIN New -> BOOLEAN]
              /\ [s EXCEPT !.player = on] \in [DOMAIN New -> BOOLEAN]
              /\ [s EXCEPT !.osd = on] \in [DOMAIN New -> BOOLEAN]
              /\ [s EXCEPT !.status = on] \in [DOMAIN New -> BOOLEAN]
              /\ [s EXCEPT !.streaming = on, !.status = FALSE] \in [DOMAIN New -> BOOLEAN]
         /\ [s EXCEPT !.osd = FALSE].streaming = s.streaming
         /\ ~[s EXCEPT !.streaming = FALSE, !.status = FALSE].streaming
BY DEF New

\* Adding to a queue and taking its head off leave a queue of commands.
LEMMA QueueTypes ==
  ASSUME NEW S, NEW q \in Seq(S), NEW e \in S
  PROVE  /\ Append(q, e) \in Seq(S)
         /\ q # << >> => Head(q) \in S /\ Tail(q) \in Seq(S)
BY AppendProperties, HeadTailProperties

-----------------------------------------------------------------------------

\* At first there are no objects, no threads and nothing on the wire.
LEMMA SessionInitInv == SessionInit => SessionIInv
<1> SUFFICES ASSUME SessionInit PROVE SessionIInv
  OBVIOUS
<1> USE DEF SessionInit
<1>1. SessionTypeOK
  <2>1. ScanTypeOK
    BY ScanInitIInv DEF ScanIInv
  <2>2. wire \in [Clients -> Seq(Requests)] /\ queue \in [Clients -> Seq(Commands)]
    OBVIOUS
  <2>3. sess \in [Clients -> [DOMAIN New -> BOOLEAN]]
    <3>1. \A f \in DOMAIN New : New[f] = FALSE
      BY DEF New
    <3>2. New \in [DOMAIN New -> BOOLEAN]
      BY <3>1 DEF New
    <3> HIDE DEF New
    <3> QED
      BY <3>2
  <2> QED
    BY <2>1, <2>2, <2>3, SessionAssumption DEF SessionTypeOK
<1>2. ScanIInv
  BY ScanInitIInv
<1>3. RequestInv
  BY DEF RequestInv, Begun, Leaving, ScanInit
<1>4. LifeInv
  BY DEF LifeInv
<1> QED
  BY <1>1, <1>2, <1>3, <1>4 DEF SessionIInv

\* The constructor.
LEMMA ConstructKeeps == ASSUME SessionIInv, NEW c \in Clients, Construct(c) PROVE SessionIInv'
<1> USE DEF SessionIInv, Construct
<1>1. SessionTypeOK'
  <2>1. ScanTypeOK'
    BY ScanStutters DEF ScanIInv
  <2> QED
    BY <2>1 DEF SessionTypeOK
<1>2. ScanIInv'
  BY ScanStutters
<1>3. RequestInv'
  BY DEF RequestInv, LifeInv, scanVars
<1>4. LifeInv'
  BY DEF LifeInv, SessionTypeOK, scanVars
<1> QED
  BY <1>1, <1>2, <1>3, <1>4

\* The peer.
LEMMA PeerSendKeeps == ASSUME SessionIInv, NEW c \in Clients, PeerSend(c) PROVE SessionIInv'
<1> USE DEF SessionIInv, PeerSend
<1>1. SessionTypeOK'
  <2>1. ScanTypeOK'
    BY ScanStutters DEF ScanIInv
  <2>2. sent[c] + 1 \in 1..MaxRequests
    BY SessionAssumption DEF SessionTypeOK
  <2>3. wire' \in [Clients -> Seq(Requests)]
    <3>1. PICK op \in Ops, fine \in BOOLEAN :
            wire' = [wire EXCEPT ![c] = Append(@, Request(sent[c] + 1, op, fine))]
      OBVIOUS
    <3>2. Append(wire[c], Request(sent[c] + 1, op, fine)) \in Seq(Requests)
      BY <2>2, RequestTypes DEF SessionTypeOK
    <3> QED
      BY <3>1, <3>2 DEF SessionTypeOK
  <2> QED
    BY <2>1, <2>2, <2>3 DEF SessionTypeOK
<1>2. ScanIInv'
  BY ScanStutters
<1>3. RequestInv'
  BY DEF RequestInv, scanVars
<1>4. LifeInv'
  BY DEF LifeInv, scanVars
<1> QED
  BY <1>1, <1>2, <1>3, <1>4

\* The peer closes its end; nothing of the session changes.
LEMMA PeerCloseKeeps == ASSUME SessionIInv, NEW c \in Clients, PeerClose(c) PROVE SessionIInv'
<1> USE DEF SessionIInv, PeerClose
<1>1. SessionTypeOK'
  <2>1. ScanTypeOK'
    BY ScanStutters DEF ScanIInv
  <2> QED
    BY <2>1 DEF SessionTypeOK
<1>2. ScanIInv'
  BY ScanStutters
<1>3. RequestInv'
  BY DEF RequestInv, scanVars
<1>4. LifeInv'
  BY DEF LifeInv, scanVars
<1> QED
  BY <1>1, <1>2, <1>3, <1>4

\* The reader thread.
LEMMA ReaderLoopKeeps == ASSUME SessionIInv, NEW c \in Clients, ReaderLoop(c) PROVE SessionIInv'
<1> USE DEF SessionIInv, ReaderLoop
<1>1. SessionTypeOK'
  <2>1. ScanTypeOK'
    BY ScanStutters DEF ScanIInv
  <2> QED
    BY <2>1 DEF SessionTypeOK
<1>2. ScanIInv'
  BY ScanStutters
<1>3. RequestInv'
  BY DEF RequestInv, scanVars
<1>4. LifeInv'
  BY DEF LifeInv, scanVars
<1> QED
  BY <1>1, <1>2, <1>3, <1>4

\* A request goes from the wire into the queue.
LEMMA ReadRequestKeeps == ASSUME SessionIInv, NEW c \in Clients, ReadRequest(c) PROVE SessionIInv'
<1> USE DEF SessionIInv, ReadRequest
<1>1. SessionTypeOK'
  <2>1. ScanTypeOK'
    BY ScanStutters DEF ScanIInv
  <2>2. Head(wire[c]) \in Commands /\ Tail(wire[c]) \in Seq(Requests)
    BY RequestTypes DEF SessionTypeOK
  <2>3. Append(queue[c], Head(wire[c])) \in Seq(Commands)
    BY <2>2 DEF SessionTypeOK
  <2> QED
    BY <2>1, <2>2, <2>3 DEF SessionTypeOK, Put
<1>2. ScanIInv'
  BY ScanStutters
<1>3. RequestInv'
  BY DEF RequestInv, scanVars
<1>4. LifeInv'
  BY DEF LifeInv, scanVars
<1> QED
  BY <1>1, <1>2, <1>3, <1>4

\* The reader's last command says that the socket failed.
LEMMA ReadErrorKeeps == ASSUME SessionIInv, NEW c \in Clients, ReadError(c) PROVE SessionIInv'
<1> USE DEF SessionIInv, ReadError
<1>1. SessionTypeOK'
  <2>1. ScanTypeOK'
    BY ScanStutters DEF ScanIInv
  <2>2. Append(queue[c], Error) \in Seq(Commands)
    BY RequestTypes DEF SessionTypeOK
  <2> QED
    BY <2>1, <2>2 DEF SessionTypeOK, Put
<1>2. ScanIInv'
  BY ScanStutters
<1>3. RequestInv'
  BY DEF RequestInv, scanVars
<1>4. LifeInv'
  BY DEF LifeInv, scanVars
<1> QED
  BY <1>1, <1>2, <1>3, <1>4

\* The command thread.
LEMMA LoopCheckKeeps == ASSUME SessionIInv, NEW c \in Clients, LoopCheck(c) PROVE SessionIInv'
<1> USE DEF SessionIInv, LoopCheck
<1>1. SessionTypeOK'
  <2>1. ScanTypeOK'
    BY ScanStutters DEF ScanIInv
  <2> QED
    BY <2>1 DEF SessionTypeOK
<1>2. ScanIInv'
  BY ScanStutters
<1>3. RequestInv'
  BY DEF RequestInv, scanVars
<1>4. LifeInv'
  BY DEF LifeInv, scanVars
<1> QED
  BY <1>1, <1>2, <1>3, <1>4

\* Nothing to do for a while.
LEMMA TimeoutKeeps == ASSUME SessionIInv, NEW c \in Clients, Timeout(c) PROVE SessionIInv'
<1> USE DEF SessionIInv, Timeout
<1>1. SessionTypeOK'
  <2>1. ScanTypeOK'
    BY ScanStutters DEF ScanIInv
  <2> QED
    BY <2>1 DEF SessionTypeOK
<1>2. ScanIInv'
  BY ScanStutters
<1>3. RequestInv'
  BY DEF RequestInv, scanVars
<1>4. LifeInv'
  BY DEF LifeInv, scanVars
<1> QED
  BY <1>1, <1>2, <1>3, <1>4

\* The socket's error throws, and the thread's loop is left.
LEMMA TakeErrorKeeps == ASSUME SessionIInv, NEW c \in Clients, TakeError(c) PROVE SessionIInv'
<1> USE DEF SessionIInv, TakeError
<1>1. SessionTypeOK'
  <2>1. ScanTypeOK'
    BY ScanStutters DEF ScanIInv
  <2>2. Tail(queue[c]) \in Seq(Commands)
    BY DEF SessionTypeOK, Pop
  <2> QED
    BY <2>1, <2>2 DEF SessionTypeOK, Pop
<1>2. ScanIInv'
  BY ScanStutters
<1>3. RequestInv'
  BY DEF RequestInv, scanVars, Pop
<1>4. LifeInv'
  BY DEF LifeInv, scanVars, Pop
<1> QED
  BY <1>1, <1>2, <1>3, <1>4

-----------------------------------------------------------------------------
(* The requests.                                                                *)

\* What the execution of a request does to the state, as far as the invariant goes.
Served(c) ==
  /\ sess' \in [Clients -> [DOMAIN New -> BOOLEAN]] /\ current' \in [Clients -> 0..MaxRequests]
  /\ answered' \in [Clients -> 0..MaxRequests] /\ running' \in [Clients -> BOOLEAN]
  /\ reading' \in [Clients -> BOOLEAN] /\ fd' \in [Clients -> BOOLEAN]
  /\ ScanIInv'
  /\ \A d \in Clients \ {c} : sess'[d] = sess[d] /\ current'[d] = current[d] /\ call'[d] = call[d]
  /\ current'[c] # 0 <=> call'[c] \in Begun
  /\ call'[c] \notin Leaving

\* A request handled at once leaves the command thread free.
LEMMA HandleServed ==
  ASSUME SessionIInv, NEW c \in Clients, thread[c] = "wait", NEW r \in Commands,
         NEW s \in [DOMAIN New -> BOOLEAN], NEW reply \in BOOLEAN, NEW ok \in BOOLEAN,
         Handle(c, r, s, reply, ok)
  PROVE  Served(c)
<1> USE DEF Handle, Finish
<1>1. ScanIInv'
  BY ScanStutters DEF SessionIInv
<1>2. r.id \in 0..MaxRequests
  BY CommandTypes
<1>3. current'[c] # 0 <=> call'[c] \in Begun
  BY DEF SessionIInv, RequestInv, scanVars
<1>4. call'[c] \notin Leaving
  BY DEF SessionIInv, RequestInv, scanVars
<1>5. answered' \in [Clients -> 0..MaxRequests]
  BY <1>2 DEF SessionIInv, SessionTypeOK
<1>6. running' \in [Clients -> BOOLEAN]
  BY DEF SessionIInv, SessionTypeOK
<1> QED
  BY <1>1, <1>3, <1>4, <1>5, <1>6 DEF Served, SessionIInv, SessionTypeOK, scanVars

\* A scan request that is let in makes the thread wait for the polling thread.
LEMMA ScanBeginServed ==
  ASSUME SessionIInv, NEW c \in Clients, NEW r \in Commands, r.id # 0, ScanBegin(c, r)
  PROVE  Served(c)
<1> USE DEF ScanBegin
<1>1. ScanIInv'
  BY ScanStartKeeps, ScanStopKeeps DEF SessionIInv
<1>2. r.id \in 0..MaxRequests
  BY CommandTypes
<1>3. call'[c] \in {"starting", "stop"} /\ \A d \in Clients \ {c} : call'[d] = call[d]
  BY DEF SessionIInv, SessionTypeOK, ScanTypeOK, ScanStart, ScanStop
<1>4. current'[c] # 0 /\ current' \in [Clients -> 0..MaxRequests]
  BY <1>2 DEF SessionIInv, SessionTypeOK
<1> QED
  BY <1>1, <1>3, <1>4 DEF Served, SessionIInv, SessionTypeOK, Begun, Leaving

\* A scan request that is refused, or stopped with nothing running, takes one step.
LEMMA ScanAtOnceServed ==
  ASSUME SessionIInv, NEW c \in Clients, thread[c] = "wait", NEW r \in Commands,
         ScanAtOnce(c, r)
  PROVE  Served(c)
<1> USE DEF ScanAtOnce, Finish
<1>1. ScanIInv'
  BY ScanQueryKeeps, ScanTypesKeeps, ScanRefusedKeeps, ScanStopKeeps, ScanStutters DEF SessionIInv
<1>2. r.id \in 0..MaxRequests
  BY CommandTypes
<1>3. UNCHANGED call
  <2>1. CASE ScanStop(c) /\ ~ScannerOK
    BY <2>1 DEF ScanStop, SessionIInv, SessionTypeOK, ScanTypeOK
  <2> QED
    BY <2>1 DEF ScanQuery, ScanTypes, ScanRefused, scanVars
<1>4. answered' \in [Clients -> 0..MaxRequests]
  BY <1>2, ZenonT(30) DEF SessionIInv, SessionTypeOK
<1>5. running' \in [Clients -> BOOLEAN]
  BY DEF SessionIInv, SessionTypeOK
<1>6. (current'[c] # 0 <=> call'[c] \in Begun) /\ call'[c] \notin Leaving
  BY <1>3 DEF SessionIInv, RequestInv
<1> QED
  BY <1>1, <1>3, <1>4, <1>5, <1>6 DEF Served, SessionIInv, SessionTypeOK

\* The reader is told to end and the descriptor is given away.
LEMMA InvalidateServed ==
  ASSUME SessionIInv, NEW c \in Clients, thread[c] = "wait", NEW r \in Commands,
         Invalidate(c, r)
  PROVE  Served(c)
<1> USE DEF Invalidate
<1>1. ScanIInv'
  BY ScanStutters DEF SessionIInv
<1>2. r.id \in 0..MaxRequests
  BY CommandTypes
<1>3. (current'[c] # 0 <=> call'[c] \in Begun) /\ call'[c] \notin Leaving
  BY DEF SessionIInv, RequestInv, scanVars
<1> QED
  BY <1>1, <1>2, <1>3 DEF Served, SessionIInv, SessionTypeOK, scanVars

\* A request ends in Handle, with a session that differs in what the request is about.
LEMMA ProcessServed ==
  ASSUME SessionIInv, NEW c \in Clients, thread[c] = "wait", NEW r \in Commands, r.id # 0,
         Process(c, r)
  PROVE  Served(c)
<1> DEFINE s == sess[c]
<1>1. s \in [DOMAIN New -> BOOLEAN] /\ r.fine \in BOOLEAN
  BY CommandTypes DEF SessionIInv, SessionTypeOK
<1>2. /\ s.streaming \in BOOLEAN /\ s.status \in BOOLEAN /\ s.player \in BOOLEAN
      /\ (~s.streaming \/ r.fine) \in BOOLEAN
  BY <1>1 DEF New
<1> HIDE DEF s
<1>3. CASE Login(c, r)
  <2>1. [s EXCEPT !.logged = TRUE] \in [DOMAIN New -> BOOLEAN]
    BY <1>1
  <2>2. CASE \E ok \in BOOLEAN : Handle(c, r, s, FALSE, ok)
    BY <1>1, <2>2, HandleServed
  <2>3. CASE Handle(c, r, s, FALSE, FALSE)
    BY <1>1, <2>3, HandleServed
  <2>4. CASE Handle(c, r, [s EXCEPT !.logged = TRUE], TRUE, TRUE)
    BY <2>1, <2>4, HandleServed
  <2> QED
    BY <1>3, <2>2, <2>3, <2>4 DEF Login, s
<1>4. CASE EnableStatus(c, r)
  BY <1>1, <1>4, HandleServed DEF EnableStatus, s
<1>5. CASE OpenStream(c, r)
  <2>1. CASE Handle(c, r, s, FALSE, TRUE)
    BY <1>1, <2>1, HandleServed
  <2>2. ASSUME NEW ok \in BOOLEAN,
               Handle(c, r, [s EXCEPT !.streaming = ok, !.status = FALSE], TRUE, ok)
        PROVE  Served(c)
    <3> DEFINE t == [s EXCEPT !.streaming = ok, !.status = FALSE]
    <3>1. t \in [DOMAIN New -> BOOLEAN]
      BY <1>1
    <3>2. Handle(c, r, t, TRUE, ok)
      BY <2>2
    <3> HIDE DEF t
    <3> QED
      BY <3>1, <3>2, HandleServed
  <2> QED
    BY <1>5, <2>1, <2>2 DEF OpenStream, s
<1>6. CASE CloseStream(c, r)
  BY <1>1, <1>6, HandleServed DEF CloseStream, s
<1>7. CASE SeekStream(c, r)
  <2>1. PICK socket \in BOOLEAN :
          Handle(c, r, [s EXCEPT !.status = @ \/ (socket /\ s.streaming /\ r.fine)],
                 ~s.streaming \/ r.fine, TRUE)
    BY <1>7 DEF SeekStream, s
  <2> DEFINE on == s.status \/ (socket /\ s.streaming /\ r.fine)
  <2>2. on \in BOOLEAN
    OBVIOUS
  <2>3. [s EXCEPT !.status = on] \in [DOMAIN New -> BOOLEAN]
    BY <1>1, <2>2
  <2>4. Handle(c, r, [s EXCEPT !.status = on], ~s.streaming \/ r.fine, TRUE)
    BY <2>1
  <2> HIDE DEF on
  <2> QED
    BY <1>2, <2>3, <2>4, HandleServed
<1>8. CASE RecOpen(c, r)
  <2>1. CASE ~r.fine /\ Handle(c, r, s, FALSE, TRUE)
    BY <1>1, <2>1, HandleServed
  <2>2. ASSUME NEW known \in BOOLEAN, Handle(c, r, [s EXCEPT !.player = @ \/ known], TRUE, TRUE)
        PROVE Served(c)
    <3> DEFINE on == s.player \/ known
    <3>1. on \in BOOLEAN
      OBVIOUS
    <3>2. [s EXCEPT !.player = on] \in [DOMAIN New -> BOOLEAN]
      BY <1>1, <3>1
    <3>3. Handle(c, r, [s EXCEPT !.player = on], TRUE, TRUE)
      BY <2>2
    <3> HIDE DEF on
    <3> QED
      BY <3>2, <3>3, HandleServed
  <2> QED
    BY <1>8, <2>1, <2>2 DEF RecOpen, s
<1>9. CASE RecClose(c, r)
  BY <1>1, <1>9, HandleServed DEF RecClose, s
<1>10. CASE RecBlock(c, r)
  BY <1>1, <1>10, HandleServed DEF RecBlock, s
<1>11. CASE OsdConnect(c, r) \/ OsdDisconnect(c, r)
  BY <1>1, <1>11, HandleServed DEF OsdConnect, OsdDisconnect, s
<1>12. CASE Ping(c, r) \/ Setup(c, r) \/ StatusRequest(c, r) \/ RecInfo(c, r) \/ HitKey(c, r)
  BY <1>1, <1>12, HandleServed DEF Ping, Setup, StatusRequest, RecInfo, HitKey, s
<1> QED
  BY <1>3, <1>4, <1>5, <1>6, <1>7, <1>8, <1>9, <1>10, <1>11, <1>12, InvalidateServed,
     ScanAtOnceServed, ScanBeginServed DEF Process

\* The head of the queue is taken and handled.
LEMMA TakeRequestKeeps == ASSUME SessionIInv, NEW c \in Clients, TakeRequest(c) PROVE SessionIInv'
<1> DEFINE r == Head(queue[c])
<1>1. /\ r \in Commands /\ Tail(queue[c]) \in Seq(Commands) /\ r.id # 0
      /\ thread[c] = "wait" /\ thread' = [thread EXCEPT ![c] = "loop"]
      /\ queue' = [queue EXCEPT ![c] = Tail(@)]
      /\ UNCHANGED <<peer, wire, sent, reader, life>>
  BY DEF TakeRequest, Pop, SessionIInv, SessionTypeOK
<1> HIDE DEF r
<1>2. Served(c)
  <2>1. CASE Process(c, r)
    BY <1>1, <2>1, ProcessServed
  <2>2. CASE UNCHANGED <<sess, current, answered, running, reading, fd, scanVars>>
    <3>1. ScanIInv'
      BY <2>2, ScanStutters DEF SessionIInv
    <3>2. (current'[c] # 0 <=> call'[c] \in Begun) /\ call'[c] \notin Leaving
      BY <1>1, <2>2 DEF SessionIInv, RequestInv, scanVars
    <3> QED
      BY <2>2, <3>1, <3>2 DEF Served, SessionIInv, SessionTypeOK, scanVars
  <2> QED
    BY <2>1, <2>2 DEF TakeRequest, r
<1>3. SessionTypeOK'
  BY <1>1, <1>2 DEF Served, ScanIInv, SessionIInv, SessionTypeOK
<1>4. RequestInv'
  BY <1>1, <1>2 DEF Served, SessionIInv, SessionTypeOK, RequestInv
<1>5. LifeInv'
  BY <1>1, <1>2 DEF Served, SessionIInv, LifeInv, RequestInv
<1> QED
  BY <1>2, <1>3, <1>4, <1>5 DEF Served, SessionIInv

-----------------------------------------------------------------------------
(* The rest of the command thread, and what VDR's threads add to its queue.     *)

\* A change is taken from the queue; nothing else of the session changes.
LEMMA TakeChangeKeeps ==
  ASSUME SessionIInv, NEW c \in Clients, NEW k \in Kinds, TakeChange(c, k)
  PROVE  SessionIInv'
<1> USE DEF SessionIInv, TakeChange, Pop
<1>1. SessionTypeOK'
  <2>1. ScanTypeOK'
    BY ScanStutters DEF ScanIInv
  <2>2. Tail(queue[c]) \in Seq(Commands)
    BY DEF SessionTypeOK
  <2> QED
    BY <2>1, <2>2 DEF SessionTypeOK
<1>2. ScanIInv'
  BY ScanStutters
<1>3. RequestInv'
  BY DEF RequestInv, scanVars
<1>4. LifeInv'
  BY DEF LifeInv, scanVars
<1> QED
  BY <1>1, <1>2, <1>3, <1>4

\* VDR's callbacks put a command into the queue of a client.
LEMMA AnnounceKeeps ==
  ASSUME SessionIInv, NEW c \in Clients, NEW k \in Kinds, Announce(c, k)
  PROVE  SessionIInv'
<1> USE DEF SessionIInv, Announce, Put
<1>1. SessionTypeOK'
  <2>1. ScanTypeOK'
    BY ScanStutters DEF ScanIInv
  <2>2. Append(queue[c], Change(k)) \in Seq(Commands)
    BY RequestTypes DEF SessionTypeOK
  <2> QED
    BY <2>1, <2>2 DEF SessionTypeOK
<1>2. ScanIInv'
  BY ScanStutters
<1>3. RequestInv'
  BY DEF RequestInv, scanVars
<1>4. LifeInv'
  BY DEF LifeInv, scanVars
<1> QED
  BY <1>1, <1>2, <1>3, <1>4

\* The steps of a scan request and of the end of a scan.
LEMMA ScanCallOf ==
  ASSUME ScanTypeOK, NEW c \in Clients, ScanCall(c)
  PROVE  /\ \A d \in Clients \ {c} : call'[d] = call[d]
         /\ call[c] \in Begun => call'[c] \in Begun \cup {"none"}
         /\ call[c] \notin Begun => call[c] \in Leaving \ {"gone"} /\ call'[c] \in Leaving
BY DEF ScanTypeOK, ScanCall, ScanStarted, ScanStopCommand, ScanJoin, ScanStopped, Begun, Leaving

\* A scan request ends with an answer, or the thread waits on.
LEMMA ScanGoesOnKeeps == ASSUME SessionIInv, NEW c \in Clients, ScanGoesOn(c) PROVE SessionIInv'
<1> USE DEF SessionIInv, ScanGoesOn
<1>1. ScanIInv'
  BY ScanCallKeeps
<1>2. SessionTypeOK'
  <2>1. current' \in [Clients -> 0..MaxRequests] /\ answered' \in [Clients -> 0..MaxRequests]
    <3>1. CASE call'[c] = "none"
      <4>1. 0 \in 0..MaxRequests
        BY SessionAssumption
      <4>2. current' = [current EXCEPT ![c] = 0] /\ answered' = [answered EXCEPT ![c] = current[c]]
        BY <3>1
      <4> QED
        BY <4>1, <4>2 DEF SessionTypeOK
    <3>2. CASE call'[c] # "none"
      BY <3>2 DEF SessionTypeOK
    <3> QED
      BY <3>1, <3>2
  <2> QED
    BY <1>1, <2>1 DEF SessionTypeOK, ScanIInv
<1>3. RequestInv'
  <2>1. call[c] \in Begun /\ call'[c] \in Begun \cup {"none"}
    BY ScanCallOf DEF RequestInv, SessionTypeOK
  <2>2. current'[c] # 0 <=> call'[c] \in Begun
    BY <2>1 DEF SessionTypeOK, Begun
  <2>3. call'[c] \notin Leaving
    BY <2>1 DEF Begun, Leaving
  <2>4. \A d \in Clients \ {c} : current'[d] = current[d] /\ call'[d] = call[d]
    BY ScanCallOf DEF SessionTypeOK
  <2> QED
    BY <2>2, <2>3, <2>4 DEF RequestInv
<1>4. LifeInv'
  <2>1. call[c] # "gone"
    BY DEF RequestInv, Begun
  <2>2. \A d \in Clients \ {c} : call'[d] = call[d]
    BY ScanCallOf DEF SessionTypeOK
  <2> QED
    BY <2>1, <2>2 DEF LifeInv
<1> QED
  BY <1>1, <1>2, <1>3, <1>4

\* The end of the session.
LEMMA EndStreamKeeps == ASSUME SessionIInv, NEW c \in Clients, EndStream(c) PROVE SessionIInv'
<1> USE DEF SessionIInv, EndStream
<1>1. ScanIInv'
  BY ScanLeaveKeeps
<1>2. SessionTypeOK'
  BY <1>1 DEF SessionTypeOK, ScanIInv
<1>3. RequestInv'
  <2>1. call'[c] \in Leaving /\ \A d \in Clients \ {c} : call'[d] = call[d]
    BY DEF ScanLeave, SessionTypeOK, ScanTypeOK, Leaving
  <2>2. sess[c] \in [DOMAIN New -> BOOLEAN] /\ sess' = [sess EXCEPT ![c] = sess'[c]]
    BY DEF SessionTypeOK
  <2>3. ~sess'[c].streaming
    <3>1. sess'[c] = [sess[c] EXCEPT !.streaming = FALSE, !.status = FALSE]
      BY DEF SessionTypeOK
    <3> QED
      BY <2>2, <3>1, SessionFields
  <2> QED
    BY <2>1, <2>2, <2>3 DEF RequestInv, Begun, Leaving
<1>4. LifeInv'
  <2>1. \A d \in Clients \ {c} : call'[d] = call[d]
    BY DEF ScanLeave, SessionTypeOK, ScanTypeOK
  <2> QED
    BY <2>1 DEF LifeInv
<1> QED
  BY <1>1, <1>2, <1>3, <1>4

\* The thread that ends stops its scan.
LEMMA EndScanKeeps == ASSUME SessionIInv, NEW c \in Clients, EndScan(c) PROVE SessionIInv'
<1> USE DEF SessionIInv, EndScan
<1>1. ScanIInv'
  BY ScanCallKeeps
<1>2. SessionTypeOK'
  BY <1>1 DEF SessionTypeOK, ScanIInv, sessionVars
<1>3. RequestInv'
  <2>1. call'[c] \in Leaving /\ call[c] \in Leaving /\ \A d \in Clients \ {c} : call'[d] = call[d]
    BY ScanCallOf DEF RequestInv, SessionTypeOK
  <2> QED
    BY <2>1 DEF RequestInv, sessionVars, Begun, Leaving
<1>4. LifeInv'
  <2>1. \A d \in Clients \ {c} : call'[d] = call[d]
    BY ScanCallOf DEF SessionTypeOK
  <2> QED
    BY <2>1 DEF LifeInv, sessionVars
<1> QED
  BY <1>1, <1>2, <1>3, <1>4

\* A thread that has ended has neither stream nor scan.
LEMMA EndSessionKeeps == ASSUME SessionIInv, NEW c \in Clients, EndSession(c) PROVE SessionIInv'
<1> USE DEF SessionIInv, EndSession
<1>1. ScanIInv'
  BY ScanStutters
<1>2. SessionTypeOK'
  BY <1>1 DEF SessionTypeOK, ScanIInv
<1>3. RequestInv'
  BY DEF RequestInv, scanVars
<1>4. LifeInv'
  BY DEF LifeInv, scanVars
<1> QED
  BY <1>1, <1>2, <1>3, <1>4

-----------------------------------------------------------------------------
(* The destructor, in another thread.                                           *)

\* The stop command of the destructor.
LEMMA DestroyStopKeeps == ASSUME SessionIInv, NEW c \in Clients, DestroyStop(c) PROVE SessionIInv'
<1> USE DEF SessionIInv, DestroyStop, Destroy
<1>1. ScanIInv'
  BY DEF ScanIInv, ScanTypeOK, PluginInv, PollInv, UpdatesHeld, PutStop
<1>2. SessionTypeOK'
  BY <1>1 DEF SessionTypeOK, ScanIInv
<1>3. RequestInv'
  <2>1. sess'[c] = [sess[c] EXCEPT !.streaming = FALSE, !.status = FALSE]
    BY DEF SessionTypeOK
  <2>2. ~sess'[c].streaming
    BY <2>1 DEF SessionTypeOK
  <2>3. \A d \in Clients \ {c} : sess'[d] = sess[d]
    OBVIOUS
  <2> QED
    BY <2>2, <2>3 DEF RequestInv
<1>4. LifeInv'
  BY DEF LifeInv
<1> QED
  BY <1>1, <1>2, <1>3, <1>4

\* The destructor gives the thread time to end, and may go on without.
LEMMA DestroyCancelKeeps == ASSUME SessionIInv, NEW c \in Clients, DestroyCancel(c) PROVE SessionIInv'
<1> USE DEF SessionIInv, DestroyCancel, Destroy
<1>1. ScanIInv'
  BY DEF ScanIInv, ScanTypeOK, PluginInv, PollInv, UpdatesHeld
<1>2. SessionTypeOK'
  BY <1>1 DEF SessionTypeOK, ScanIInv
<1>3. RequestInv'
  BY DEF RequestInv
<1>4. LifeInv'
  BY DEF LifeInv
<1> QED
  BY <1>1, <1>2, <1>3, <1>4

\* The socket's destructor ends the reader thread.
LEMMA DestroySocketKeeps == ASSUME SessionIInv, NEW c \in Clients, DestroySocket(c) PROVE SessionIInv'
<1> USE DEF SessionIInv, DestroySocket, Destroy
<1>1. ScanIInv'
  BY ScanStutters
<1>2. SessionTypeOK'
  BY <1>1 DEF SessionTypeOK, ScanIInv
<1>3. RequestInv'
  BY DEF RequestInv, scanVars
<1>4. LifeInv'
  BY DEF LifeInv, scanVars
<1> QED
  BY <1>1, <1>2, <1>3, <1>4

\* The members go last.
LEMMA DestroyRestKeeps == ASSUME SessionIInv, NEW c \in Clients, DestroyRest(c) PROVE SessionIInv'
<1> USE DEF SessionIInv, DestroyRest, Destroy
<1>1. ScanIInv'
  BY ScanStutters
<1>2. SessionTypeOK'
  BY <1>1 DEF SessionTypeOK, ScanIInv
<1>3. RequestInv'
  BY DEF RequestInv, scanVars
<1>4. LifeInv'
  BY DEF LifeInv, SessionTypeOK, scanVars
<1> QED
  BY <1>1, <1>2, <1>3, <1>4

-----------------------------------------------------------------------------
(* The polling thread and the plugin beside the sessions.                       *)

\* The polling thread's steps and the plugin's, beside a session that does nothing.
LEMMA OthersKeep ==
  ASSUME SessionIInv, UNCHANGED sessionVars,
         PluginStops \/ \E c \in Clients : Others(c)
  PROVE  SessionIInv'
<1>1. ScanIInv'
  BY PluginStopsKeeps, PollLookKeeps, PollReportKeeps DEF SessionIInv, Others
<1>2. UNCHANGED call
  BY DEF PluginStops, Others, PollLook, PollReport
<1>3. SessionTypeOK'
  BY <1>1 DEF SessionIInv, SessionTypeOK, ScanIInv, sessionVars
<1>4. RequestInv' /\ LifeInv'
  BY <1>2 DEF SessionIInv, RequestInv, LifeInv, sessionVars
<1> QED
  BY <1>1, <1>3, <1>4 DEF SessionIInv

\* A step that changes nothing.
LEMMA SessionStutters ==
  ASSUME SessionIInv, UNCHANGED <<sessionVars, scanVars>> PROVE SessionIInv'
<1>1. ScanIInv'
  BY ScanStutters DEF SessionIInv
<1>2. SessionTypeOK'
  BY <1>1 DEF SessionIInv, SessionTypeOK, ScanIInv, sessionVars
<1>3. RequestInv' /\ LifeInv'
  BY DEF SessionIInv, RequestInv, LifeInv, sessionVars, scanVars
<1> QED
  BY <1>1, <1>2, <1>3 DEF SessionIInv

\* The steps of one session.
LEMMA SessionStepKeeps ==
  ASSUME SessionIInv, NEW c \in Clients, SessionStep(c) PROVE SessionIInv'
BY LoopCheckKeeps, TimeoutKeeps, TakeRequestKeeps, TakeErrorKeeps, ScanGoesOnKeeps,
   EndStreamKeeps, EndScanKeeps, EndSessionKeeps DEF SessionStep

\* Those of the peer and of the reader.
LEMMA PeerReaderKeeps ==
  ASSUME SessionIInv, NEW c \in Clients, PeerStep(c) \/ ReaderStep(c) PROVE SessionIInv'
BY PeerSendKeeps, PeerCloseKeeps, ReaderLoopKeeps, ReadRequestKeeps, ReadErrorKeeps
   DEF PeerStep, ReaderStep

\* Those of the destructor.
LEMMA DestroyStepKeeps ==
  ASSUME SessionIInv, NEW c \in Clients, DestroyStep(c) PROVE SessionIInv'
BY DestroyCancelKeeps, DestroySocketKeeps, DestroyRestKeeps DEF DestroyStep

\* All steps together.
LEMMA SessionNextKeeps ==
  SessionIInv /\ [SessionNext]_<<sessionVars, scanVars>> => SessionIInv'
BY ConstructKeeps, SessionStepKeeps, PeerReaderKeeps, TakeChangeKeeps, AnnounceKeeps,
   DestroyStopKeeps, DestroyStepKeeps, OthersKeep, SessionStutters DEF SessionNext

\* When the object is gone so are its threads, its stream and its polling thread.
LEMMA SessionIInvImplies == SessionIInv => SessionInv
<1> SUFFICES ASSUME SessionIInv PROVE SessionInv
  OBVIOUS
<1>1. ASSUME NEW c \in Clients, life[c] = "freed"
      PROVE  reader[c] = "dead" /\ thread[c] = "ended" /\ poll[c] = "off" /\ ~sess[c].streaming
  <2>1. reader[c] = "dead" /\ thread[c] = "ended" /\ call[c] = "gone"
    BY <1>1 DEF SessionIInv, LifeInv
  <2>2. poll[c] = "off"
    BY <2>1 DEF SessionIInv, ScanIInv, PollInv
  <2>3. ~sess[c].streaming
    BY <2>1 DEF SessionIInv, RequestInv, Leaving
  <2> QED
    BY <2>1, <2>2, <2>3
<1> QED
  BY <1>1 DEF SessionIInv, SessionInv, NothingOutlives

\* The session's state is consistent, and what it uses is there as long as it is: whatever
\* the command thread starts beside the destructor (vnsiclient.c:80), a destroyed client has
\* no thread, no stream and no polling of a scan left.
THEOREM SessionsAreSafe == SessionSpec => []SessionInv
BY SessionInitInv, SessionNextKeeps, SessionIInvImplies, PTL DEF SessionSpec

\* The scans keep their own invariant with the sessions around them, whose destructors stop
\* a scan of their own accord (vnsiclient.c:81), in another thread than the requests.
THEOREM SessionsKeepScans == SessionSpec => []ScanInv
<1>1. SessionIInv => ScanInv
  BY ScanIInvImplies DEF SessionIInv
<1> QED
  BY <1>1, SessionInitInv, SessionNextKeeps, PTL DEF SessionSpec

-----------------------------------------------------------------------------
(* The service.                                                                 *)

\* Without an object nothing is on its way, and the command thread waits for a command only
\* when it has finished the one before.
ServiceInv == \A c \in Clients :
  /\ life[c] = "none" => /\ peer[c] = "none" /\ reader[c] = "none" /\ thread[c] = "none"
                         /\ wire[c] = << >> /\ queue[c] = << >> /\ current[c] = 0 /\ ~running[c]
  /\ thread[c] = "wait" => current[c] = 0

\* What is on its way to the command thread.
Coming(c) == queue[c] \o (IF reader[c] = "dead" THEN << >> ELSE wire[c])

\* What the service sees of a session.
Seen(c) ==
  <<sent[c], queue[c], wire[c], reader[c], thread[c], running[c], current[c], answered[c], life[c]>>

-----------------------------------------------------------------------------

\* The numbers of requests.
LEMMA IdsOf ==
  ASSUME NEW l \in Seq(Requests)
  PROVE  /\ Ids(l) \in Seq(Nat) /\ Len(Ids(l)) = Len(l)
         /\ \A i \in 1..Len(l) : Ids(l)[i] = l[i].id
<1>1. Len(l) \in Nat /\ DOMAIN l = 1..Len(l) /\ \A i \in 1..Len(l) : l[i] \in Requests
  BY LenProperties, ElementOfSeq
<1>2. \A i \in 1..Len(l) : l[i].id \in Nat
  BY <1>1 DEF Requests
<1>3. Ids(l) = [i \in 1..Len(l) |-> l[i].id]
  BY <1>1 DEF Ids
<1>4. Ids(l) \in [1..Len(l) -> Nat]
  BY <1>2, <1>3
<1>5. Ids(l) \in Seq(Nat)
  BY <1>1, <1>4, SeqDef
<1>6. Len(Ids(l)) = Len(l)
  BY <1>1, <1>3
<1> QED
  BY <1>3, <1>5, <1>6

\* Those of two sequences one after the other.
LEMMA IdsConcat ==
  ASSUME NEW l \in Seq(Requests), NEW m \in Seq(Requests)
  PROVE  Ids(l \o m) = Ids(l) \o Ids(m)
<1>1. /\ l \o m \in Seq(Requests) /\ Len(l \o m) = Len(l) + Len(m)
      /\ \A i \in 1..(Len(l) + Len(m)) : (l \o m)[i] = IF i <= Len(l) THEN l[i] ELSE m[i - Len(l)]
  BY ConcatProperties
<1>2. /\ Ids(l) \o Ids(m) \in Seq(Nat) /\ Len(Ids(l) \o Ids(m)) = Len(l) + Len(m)
      /\ \A i \in 1..(Len(l) + Len(m)) :
           (Ids(l) \o Ids(m))[i] = IF i <= Len(l) THEN Ids(l)[i] ELSE Ids(m)[i - Len(l)]
  <2>1. /\ Ids(l) \in Seq(Nat) /\ Ids(m) \in Seq(Nat)
        /\ Len(Ids(l)) = Len(l) /\ Len(Ids(m)) = Len(m)
    BY IdsOf
  <2> DEFINE a == Ids(l)
             b == Ids(m)
  <2> HIDE DEF a, b
  <2>2. a \in Seq(Nat) /\ b \in Seq(Nat)
    BY <2>1 DEF a, b
  <2>3. /\ a \o b \in Seq(Nat) /\ Len(a \o b) = Len(a) + Len(b)
        /\ \A i \in 1..(Len(a) + Len(b)) :
             (a \o b)[i] = IF i <= Len(a) THEN a[i] ELSE b[i - Len(a)]
    BY <2>2, ConcatProperties
  <2>4. Len(a) = Len(l) /\ Len(b) = Len(m)
    BY <2>1 DEF a, b
  <2>5. /\ a \o b \in Seq(Nat) /\ Len(a \o b) = Len(l) + Len(m)
        /\ \A i \in 1..(Len(l) + Len(m)) :
             (a \o b)[i] = IF i <= Len(l) THEN a[i] ELSE b[i - Len(l)]
    BY <2>3, <2>4
  <2> QED
    BY <2>5 DEF a, b
<1>3. /\ Ids(l \o m) \in Seq(Nat) /\ Len(Ids(l \o m)) = Len(l) + Len(m)
      /\ \A i \in 1..(Len(l) + Len(m)) : Ids(l \o m)[i] = (l \o m)[i].id
  <2> DEFINE q == l \o m
  <2>1. q \in Seq(Requests) /\ Len(q) = Len(l) + Len(m)
    BY <1>1
  <2> HIDE DEF q
  <2>2. Ids(q) \in Seq(Nat) /\ Len(Ids(q)) = Len(q) /\ \A i \in 1..Len(q) : Ids(q)[i] = q[i].id
    BY <2>1, IdsOf
  <2> QED
    BY <2>1, <2>2 DEF q
<1>4. Len(l) \in Nat /\ Len(m) \in Nat
  BY LenProperties
<1>5. ASSUME NEW i \in 1..(Len(l) + Len(m)) PROVE Ids(l \o m)[i] = (Ids(l) \o Ids(m))[i]
  <2>1. CASE i <= Len(l)
    <3>1. i \in 1..Len(l)
      BY <1>4, <2>1
    <3>2. Ids(l)[i] = l[i].id
      BY <3>1, IdsOf
    <3> QED
      BY <1>1, <1>2, <1>3, <2>1, <3>2
  <2>2. CASE ~(i <= Len(l))
    <3> DEFINE j == i - Len(l)
    <3>1. j \in 1..Len(m)
      BY <1>4, <2>2
    <3>2. Ids(m)[j] = m[j].id
      BY <3>1, IdsOf
    <3> QED
      BY <1>1, <1>2, <1>3, <2>2, <3>2
  <2> QED
    BY <2>1, <2>2
<1> QED
  BY <1>2, <1>3, <1>5, SeqEqual

\* Those of one request.
LEMMA IdsOfOne == ASSUME NEW r \in Requests PROVE Ids(<<r>>) = <<r.id>> /\ r.id \in Nat
<1>1. Ids(<<r>>) = [i \in 1..1 |-> <<r>>[i].id]
  BY DEF Ids
<1>2. r.id \in Nat
  BY DEF Requests
<1> QED
  BY <1>1, <1>2

\* What is kept of commands are requests.
LEMMA RequestsKept ==
  ASSUME NEW q \in Seq(Commands)
  PROVE  Kept(q, Requests) \in Seq(Requests) /\ Ids(Kept(q, Requests)) \in Seq(Nat)
<1>1. Kept(q, Requests) \in Seq(Commands) /\ Range(Kept(q, Requests)) \subseteq Requests
  BY KeptType
<1>2. Kept(q, Requests) \in Seq(Range(Kept(q, Requests)))
  BY <1>1, SeqOfRange
<1>3. Kept(q, Requests) \in Seq(Requests)
  BY <1>1, <1>2, SeqMonotonic
<1> QED
  BY <1>3, IdsOf

\* The types of what is on its way.
LEMMA ComingType ==
  ASSUME SessionTypeOK, NEW x \in Clients
  PROVE  /\ queue[x] \in Seq(Commands) /\ wire[x] \in Seq(Requests) /\ wire[x] \in Seq(Commands)
         /\ Coming(x) \in Seq(Commands)
         /\ Asked(x) = (IF current[x] = 0 THEN << >> ELSE <<current[x]>>) \o
                       (IF Takes(x) THEN Ids(Kept(Coming(x), Requests)) ELSE << >>)
         /\ current[x] \in Nat /\ sent[x] \in 0..MaxRequests
<1>1. queue[x] \in Seq(Commands) /\ wire[x] \in Seq(Requests)
  BY DEF SessionTypeOK
<1>2. wire[x] \in Seq(Commands)
  BY <1>1, RequestTypes, SeqMonotonic
<1>3. Coming(x) \in Seq(Commands)
  BY <1>1, <1>2, ConcatProperties, EmptySeq DEF Coming
<1>4. current[x] \in Nat /\ sent[x] \in 0..MaxRequests
  BY SessionAssumption DEF SessionTypeOK
<1> QED
  BY <1>1, <1>2, <1>3, <1>4 DEF Asked, Coming

-----------------------------------------------------------------------------
(* What steps of a session are steps of the service.                            *)

\* A step that changes nothing of a session.
LEMMA UnseenStutters ==
  ASSUME NEW x \in Clients, UNCHANGED Seen(x)
  PROVE  UNCHANGED Service(x)!serviceVars
BY DEF Seen, Service!serviceVars, Asked, Open, Takes

\* The command thread will take nothing any more: the rest is lost.
LEMMA StopServes ==
  ASSUME SessionTypeOK, NEW x \in Clients, life'[x] # "none", ~Takes(x)', current'[x] = 0,
         UNCHANGED <<sent[x], answered[x]>>
  PROVE  Service(x)!Next
<1>1. Asked(x)' = << >> /\ Open(x)' = "no"
  BY DEF Asked, Open
<1>2. Service(x)!End
  BY <1>1 DEF Service!End
<1> QED
  BY <1>2 DEF Service!Next

\* The same, while a request is being executed.
LEMMA StopCuts ==
  ASSUME SessionTypeOK, NEW x \in Clients, life[x] # "none", life'[x] # "none",
         Takes(x), ~Takes(x)', UNCHANGED <<sent[x], answered[x], current[x]>>
  PROVE  Service(x)!Next
<1>1. CASE current[x] = 0
  BY <1>1, StopServes
<1>2. CASE current[x] # 0
  <2> DEFINE a == <<current[x]>>
             b == Ids(Kept(Coming(x), Requests))
  <2>1. a \in Seq(Nat) /\ b \in Seq(Nat) /\ Len(a) = 1
    <3>1. current[x] \in Nat /\ Coming(x) \in Seq(Commands)
      BY ComingType
    <3> QED
      BY <3>1, RequestsKept
  <2>2. Asked(x) = a \o b /\ Asked(x)' = a
    <3>1. Asked(x) = a \o b
      BY <1>2, ComingType
    <3>2. Asked(x)' = a \o << >>
      BY <1>2 DEF Asked
    <3> HIDE DEF a
    <3> QED
      BY <2>1, <3>1, <3>2, ConcatEmptySeq
  <2>3. Open(x) # "no" /\ Open(x)' = "draining"
    BY <1>2 DEF Open
  <2> HIDE DEF a, b
  <2>4. Len(a) \in 0..Len(a \o b) /\ SubSeq(a \o b, 1, Len(a)) = a
    BY <2>1, FirstPart
  <2>5. Service(x)!Cut
    BY <2>2, <2>3, <2>4 DEF Service!Cut
  <2> QED
    BY <2>5 DEF Service!Next
<1> QED
  BY <1>1, <1>2

\* The reader is dead: what is still on the wire is lost.
LEMMA DeadCuts ==
  ASSUME SessionTypeOK, SessionTypeOK', NEW x \in Clients, life[x] # "none", life'[x] # "none",
         reader'[x] = "dead", Takes(x), Takes(x)', UNCHANGED <<sent[x], answered[x], current[x]>>,
         Kept(queue'[x], Requests) = Kept(queue[x], Requests)
  PROVE  Service(x)!Next
<1> DEFINE h == IF current[x] = 0 THEN << >> ELSE <<current[x]>>
           a == Ids(Kept(queue[x], Requests))
           w == IF reader[x] = "dead" THEN << >> ELSE wire[x]
           b == Ids(Kept(w, Requests))
<1>1. /\ queue[x] \in Seq(Commands) /\ w \in Seq(Commands) /\ h \in Seq(Nat)
      /\ a \in Seq(Nat) /\ b \in Seq(Nat)
  <2>1. queue[x] \in Seq(Commands) /\ w \in Seq(Commands) /\ current[x] \in Nat
    <3>1. /\ << >> \in Seq(Commands) /\ wire[x] \in Seq(Commands)
          /\ queue[x] \in Seq(Commands) /\ current[x] \in Nat
      <4>1. << >> \in Seq(Commands)
        OBVIOUS
      <4> QED
        BY <4>1, ComingType
    <3>2. CASE reader[x] = "dead"
      BY <3>1, <3>2
    <3>3. CASE reader[x] # "dead"
      BY <3>1, <3>3
    <3> QED
      BY <3>2, <3>3
  <2> HIDE DEF w
  <2> QED
    BY <2>1, RequestsKept
<1>2. Asked(x) = h \o (a \o b)
  <2>1. Kept(queue[x] \o w, Requests) = Kept(queue[x], Requests) \o Kept(w, Requests)
    <3> HIDE DEF w
    <3> QED
      BY <1>1, KeptConcat
  <2>2. /\ Kept(queue[x], Requests) \in Seq(Requests) /\ Kept(w, Requests) \in Seq(Requests)
    <3> HIDE DEF w
    <3> QED
      BY <1>1, RequestsKept
  <2>3. Ids(Kept(queue[x] \o w, Requests)) = a \o b
    <3> HIDE DEF w
    <3> QED
      BY <2>1, <2>2, IdsConcat
  <2> QED
    BY <2>3 DEF Asked
<1>3. Asked(x)' = h \o a
  <2>1. queue'[x] \in Seq(Commands) /\ queue'[x] \o << >> = queue'[x]
    BY ConcatEmptySeq DEF SessionTypeOK
  <2>2. Asked(x)' = h \o Ids(Kept(queue'[x] \o << >>, Requests))
    BY DEF Asked
  <2> QED
    BY <2>1, <2>2
<1>4. Open(x) # "no" /\ Open(x)' = "draining"
  BY DEF Open
<1> HIDE DEF h, a, b
<1> DEFINE c == h \o a
<1>5. c \in Seq(Nat) /\ Asked(x) = c \o b /\ Asked(x)' = c
  BY <1>1, <1>2, <1>3, ConcatProperties, ConcatAssociative, SMTT(30)
<1> HIDE DEF c
<1>6. Len(c) \in 0..Len(c \o b) /\ SubSeq(c \o b, 1, Len(c)) = c
  BY <1>1, <1>5, FirstPart
<1>7. Service(x)!Cut
  BY <1>4, <1>5, <1>6 DEF Service!Cut
<1> QED
  BY <1>7 DEF Service!Next

\* Another request comes from the peer.
LEMMA SendAsks ==
  ASSUME SessionTypeOK, ServiceInv, NEW x \in Clients, PeerSend(x)
  PROVE  Service(x)!Next
<1>1. PICK r \in Requests : r.id = sent[x] + 1 /\ wire' = [wire EXCEPT ![x] = Append(@, r)]
  <2>1. PICK op \in Ops, fine \in BOOLEAN :
          wire' = [wire EXCEPT ![x] = Append(@, Request(sent[x] + 1, op, fine))]
    BY DEF PeerSend
  <2>2. sent[x] + 1 \in 1..MaxRequests
    <3>1. sent[x] \in 0..MaxRequests /\ sent[x] < MaxRequests
      BY DEF SessionTypeOK, PeerSend
    <3> QED
      BY <3>1, SessionAssumption
  <2>3. Request(sent[x] + 1, op, fine) \in Requests /\ Request(sent[x] + 1, op, fine).id = sent[x] + 1
    BY <2>2 DEF Request, Requests
  <2> QED
    BY <2>1, <2>3
<1>2. /\ life[x] # "none" /\ sent'[x] = sent[x] + 1 /\ wire'[x] = Append(wire[x], r)
      /\ UNCHANGED <<queue[x], reader[x], thread[x], running[x], current[x], answered[x], life[x]>>
  BY <1>1 DEF PeerSend, ServiceInv, SessionTypeOK
<1>3. Open(x)' = Open(x) /\ (Open(x) = "yes" <=> Takes(x) /\ reader[x] # "dead")
  BY <1>2 DEF Open, Takes
<1>4. CASE ~Takes(x) \/ reader[x] = "dead"
  BY <1>2, <1>3, <1>4 DEF Asked, Takes, Service!Next, Service!Ask
<1>5. CASE Takes(x) /\ reader[x] # "dead"
  <2> DEFINE h == IF current[x] = 0 THEN << >> ELSE <<current[x]>>
             q == queue[x] \o wire[x]
  <2>0. queue[x] \in Seq(Commands) /\ wire[x] \in Seq(Commands) /\ current[x] \in Nat /\ r \in Commands
    BY ComingType, RequestTypes
  <2>1. q \in Seq(Commands) /\ h \in Seq(Nat)
    BY <2>0, ConcatProperties
  <2>2. queue[x] \o Append(wire[x], r) = Append(q, r)
    <3>1. \A a, b \in Seq(Commands), e \in Commands : a \o Append(b, e) = Append(a \o b, e)
      BY ONLY AppendConcat
    <3> QED
      BY <2>0, <3>1
  <2>3. Asked(x) = h \o Ids(Kept(q, Requests)) /\ Asked(x)' = h \o Ids(Kept(Append(q, r), Requests))
    BY <1>2, <1>5, <2>2 DEF Asked, Takes
  <2> HIDE DEF h, q
  <2>4. Kept(Append(q, r), Requests) = Append(Kept(q, Requests), r)
    BY <2>0, <2>1, KeptAppend
  <2> DEFINE k == Kept(q, Requests)
  <2>5. k \in Seq(Requests) /\ <<r>> \in Seq(Requests)
    BY <2>1, RequestsKept
  <2> HIDE DEF k
  <2>6. Append(k, r) = k \o <<r>> /\ Ids(k \o <<r>>) = Ids(k) \o Ids(<<r>>)
    BY <2>5, AppendIsConcat, IdsConcat
  <2>7. Ids(k) \in Seq(Nat) /\ r.id \in Nat /\ Ids(<<r>>) = <<r.id>>
    BY <2>5, IdsOf, IdsOfOne
  <2> DEFINE s == Ids(k)
  <2> HIDE DEF s
  <2>8. s \o <<r.id>> = Append(s, r.id) /\ h \o Append(s, r.id) = Append(h \o s, r.id)
    BY <2>1, <2>7, AppendIsConcat, AppendConcat DEF s
  <2>9. Asked(x)' = Append(Asked(x), sent[x] + 1)
    BY <1>1, <2>3, <2>4, <2>6, <2>7, <2>8 DEF k, s
  <2> QED
    BY <1>2, <1>3, <1>5, <2>9 DEF Service!Next, Service!Ask
<1> QED
  BY <1>4, <1>5

\* A request goes from the wire into the queue.
LEMMA ReadUnseen ==
  ASSUME SessionTypeOK, NEW x \in Clients, ReadRequest(x)
  PROVE  UNCHANGED Service(x)!serviceVars
<1>1. /\ wire[x] # << >> /\ queue'[x] = Append(queue[x], Head(wire[x])) /\ wire'[x] = Tail(wire[x])
      /\ reader[x] = "poll" /\ reader'[x] = "loop"
      /\ UNCHANGED <<sent[x], thread[x], running[x], current[x], answered[x], life[x]>>
  BY DEF ReadRequest, Put, SessionTypeOK
<1> DEFINE q == queue[x]
           w == wire[x]
<1>2. q \in Seq(Commands) /\ w \in Seq(Commands) /\ w # << >>
  BY <1>1, ComingType
<1>3. Append(q, Head(w)) \o Tail(w) = q \o w
  <2> HIDE DEF q, w
  <2>1. Head(w) \in Commands /\ Tail(w) \in Seq(Commands) /\ <<Head(w)>> \in Seq(Commands) /\ w = <<Head(w)>> \o Tail(w)
    BY <1>2, FirstAndRest
  <2>2. Append(q, Head(w)) = q \o <<Head(w)>>
    BY <1>2, <2>1, AppendIsConcat
  <2>3. (q \o <<Head(w)>>) \o Tail(w) = q \o (<<Head(w)>> \o Tail(w))
    BY <1>2, <2>1, ConcatAssociative
  <2> QED
    BY <2>1, <2>2, <2>3
<1>4. Asked(x)' = Asked(x) /\ Open(x)' = Open(x)
  BY <1>1, <1>3 DEF Asked, Open, Takes
<1> QED
  BY <1>1, <1>4 DEF Service!serviceVars

\* A command that is no request changes nothing of what is kept.
LEMMA PutUnkept ==
  ASSUME NEW q \in Seq(Commands), NEW e \in Commands, e.id = 0
  PROVE  Append(q, e) \in Seq(Commands) /\ Kept(Append(q, e), Requests) = Kept(q, Requests)
<1>1. e \notin Requests
  BY SessionAssumption DEF Requests
<1> QED
  BY <1>1, KeptAppend, AppendProperties

\* What the service sees of the execution of a request: it is answered or not, and may end the
\* session, or it is begun.
Outcome(c, r) ==
  /\ \A d \in Clients \ {c} : UNCHANGED <<running[d], current[d], answered[d], sess[d]>>
  /\ \/ current'[c] = current[c] /\ answered'[c] \in {answered[c], r.id}
     \/ current'[c] = r.id /\ UNCHANGED <<running[c], answered[c]>>

\* Every kind of request has such an outcome.
LEMMA ProcessOutcome ==
  ASSUME SessionTypeOK, NEW c \in Clients, NEW r, Process(c, r)
  PROVE  Outcome(c, r)
<1> USE DEF SessionTypeOK
<1>1. ASSUME NEW s, NEW reply, NEW ok, Handle(c, r, s, reply, ok) PROVE Outcome(c, r)
  BY <1>1 DEF Handle, Finish, Outcome
<1>2. CASE Login(c, r) \/ EnableStatus(c, r) \/ OpenStream(c, r) \/ CloseStream(c, r)
  BY <1>1, <1>2 DEF Login, EnableStatus, OpenStream, CloseStream
<1>3. CASE SeekStream(c, r) \/ StatusRequest(c, r) \/ RecOpen(c, r) \/ RecClose(c, r)
  BY <1>1, <1>3 DEF SeekStream, StatusRequest, RecOpen, RecClose
<1>4. CASE RecBlock(c, r) \/ RecInfo(c, r) \/ OsdConnect(c, r) \/ OsdDisconnect(c, r) \/ HitKey(c, r)
  BY <1>1, <1>4 DEF RecBlock, RecInfo, OsdConnect, OsdDisconnect, HitKey
<1>5. CASE Ping(c, r) \/ Setup(c, r)
  BY <1>1, <1>5 DEF Ping, Setup
<1>6. CASE Invalidate(c, r)
  BY <1>6 DEF Invalidate, Outcome
<1>7. CASE ScanAtOnce(c, r)
  BY <1>7 DEF ScanAtOnce, Finish, Outcome
<1>8. CASE ScanBegin(c, r)
  BY <1>8 DEF ScanBegin, Outcome
<1> QED
  BY <1>2, <1>3, <1>4, <1>5, <1>6, <1>7, <1>8 DEF Process

\* What the command thread takes from the queue is the oldest command on its way.
LEMMA OldestFirst ==
  ASSUME SessionTypeOK, NEW x \in Clients, queue[x] # << >>, queue'[x] = Tail(queue[x]),
         UNCHANGED <<reader[x], wire[x]>>
  PROVE  /\ Head(queue[x]) \in Commands
         /\ Coming(x)' \in Seq(Commands)
         /\ Kept(Coming(x), Requests) = IF Head(queue[x]) \in Requests
              THEN <<Head(queue[x])>> \o Kept(Coming(x)', Requests) ELSE Kept(Coming(x)', Requests)
<1> DEFINE q == queue[x]
           w == IF reader[x] = "dead" THEN << >> ELSE wire[x]
<1>1. q \in Seq(Commands) /\ w \in Seq(Commands)
  <2>1. << >> \in Seq(Commands)
    OBVIOUS
  <2>2. q \in Seq(Commands) /\ wire[x] \in Seq(Commands)
    BY ComingType
  <2>3. CASE reader[x] = "dead"
    BY <2>1, <2>2, <2>3
  <2>4. CASE reader[x] # "dead"
    BY <2>2, <2>4
  <2> QED
    BY <2>3, <2>4
<1>2. Coming(x) = q \o w /\ Coming(x)' = Tail(q) \o w /\ q # << >>
  BY DEF Coming
<1> HIDE DEF q, w
<1>3. Head(q) \in Commands /\ Tail(q) \in Seq(Commands) /\ <<Head(q)>> \in Seq(Commands) /\ q = <<Head(q)>> \o Tail(q)
  BY <1>1, <1>2, FirstAndRest
<1> DEFINE e == Head(q)
           t == Tail(q)
           l == t \o w
<1>4. l \in Seq(Commands) /\ (<<e>> \o t) \o w = <<e>> \o l
  BY <1>1, <1>3, ConcatProperties, ConcatAssociative
<1>5. e \in Commands /\ q \o w = <<e>> \o l
  BY <1>3, <1>4
<1> HIDE DEF e, l
<1>6. Kept(<<e>> \o l, Requests) = IF e \in Requests THEN <<e>> \o Kept(l, Requests) ELSE Kept(l, Requests)
  <2>1. CASE e \in Requests
    BY <1>4, <1>5, <2>1, KeptFirst, ZenonT(30)
  <2>2. CASE e \notin Requests
    BY <1>4, <1>5, <2>2, KeptFirst
  <2> QED
    BY <2>1, <2>2
<1>7. Coming(x) = <<e>> \o l /\ Coming(x)' = l
  BY <1>2, <1>5 DEF l
<1>8. /\ e \in Commands /\ l \in Seq(Commands)
      /\ Kept(Coming(x), Requests) = IF e \in Requests
           THEN <<e>> \o Kept(Coming(x)', Requests) ELSE Kept(Coming(x)', Requests)
  BY <1>4, <1>5, <1>6, <1>7
<1> QED
  BY <1>7, <1>8 DEF e, q

\* A request that is taken is served, or, if it takes several steps, begun.
LEMMA TakeServes ==
  ASSUME SessionTypeOK, SessionTypeOK', ServiceInv, NEW x \in Clients, TakeRequest(x)
  PROVE  [Service(x)!Next]_(Service(x)!serviceVars)
<1> DEFINE r == Head(queue[x])
<1>1. /\ thread[x] = "wait" /\ current[x] = 0 /\ queue[x] # << >>
      /\ queue'[x] = Tail(queue[x]) /\ thread'[x] = "loop"
      /\ UNCHANGED <<sent[x], reader[x], wire[x], life[x]>> /\ r.id # 0 /\ life[x] # "none"
  BY DEF TakeRequest, Pop, ServiceInv, SessionTypeOK
<1>2. Outcome(x, r)
  <2>1. CASE Process(x, r)
    BY <2>1, ProcessOutcome
  <2>2. CASE UNCHANGED <<sess, current, answered, running, reading, fd, scanVars>>
    BY <2>2 DEF Outcome
  <2> QED
    BY <2>1, <2>2 DEF TakeRequest
<1> DEFINE k == Kept(Coming(x)', Requests)
<1>3. r \in Requests /\ k \in Seq(Requests) /\ Kept(Coming(x), Requests) = <<r>> \o k
  <2>1. r \in Commands /\ Coming(x)' \in Seq(Commands)
    BY <1>1, OldestFirst
  <2>2. r \in Requests
    BY <1>1, <2>1, CommandTypes
  <2>3. k \in Seq(Requests)
    <3> DEFINE m == Coming(x)'
    <3>1. m \in Seq(Commands)
      BY <2>1
    <3> HIDE DEF m
    <3>2. Kept(m, Requests) \in Seq(Requests)
      BY <3>1, RequestsKept
    <3> QED
      BY <3>2 DEF m
  <2> QED
    BY <1>1, <2>2, <2>3, OldestFirst
<1> HIDE DEF k
<1> DEFINE s == Ids(k)
<1>4. s \in Seq(Nat) /\ r.id \in Nat /\ Ids(<<r>> \o k) = <<r.id>> \o s
  <2>1. <<r>> \in Seq(Requests)
    BY <1>3
  <2>2. Ids(<<r>> \o k) = Ids(<<r>>) \o Ids(k)
    BY <1>3, <2>1, IdsConcat
  <2> QED
    BY <1>3, <2>2, IdsOf, IdsOfOne
<1> DEFINE n == r.id
<1>5. Asked(x) = <<n>> \o s
  <2>1. Takes(x)
    BY <1>1 DEF Takes
  <2>2. Asked(x) = << >> \o Ids(Kept(Coming(x), Requests))
    BY <1>1, <2>1, ComingType
  <2>3. <<n>> \o s \in Seq(Nat)
    BY <1>4, HeadOfConcat
  <2> QED
    BY <1>3, <1>4, <2>2, <2>3, ConcatEmptySeq
<1>6. Asked(x)' = (IF current'[x] = 0 THEN << >> ELSE <<current'[x]>>) \o (IF running'[x] THEN s ELSE << >>)
  BY <1>1 DEF Asked, Takes, k, Coming
<1>7. /\ Open(x) = IF reader[x] = "dead" THEN "draining" ELSE "yes"
      /\ running'[x] => Open(x)' = Open(x)
      /\ ~running'[x] => Open(x)' = IF current'[x] = 0 THEN "no" ELSE "draining"
  BY <1>1 DEF Open, Takes
<1>8. n # 0 /\ sent'[x] = sent[x]
  BY <1>1
<1> HIDE DEF s
<1>9. /\ <<n>> \o s \in Seq(Nat) /\ <<n>> \o s # << >>
      /\ Head(<<n>> \o s) = n /\ Tail(<<n>> \o s) = s
  BY <1>4, HeadOfConcat
<1> HIDE DEF n
<1>10. << >> \o s = s /\ << >> \o << >> = << >> /\ <<n>> \o << >> = <<n>>
  BY <1>4, ConcatEmptySeq DEF n
<1>11. CASE current'[x] = 0 /\ answered'[x] \in {answered[x], n}
  <2>1. CASE running'[x]
    <3>1. Asked(x)' = s
      BY <1>6, <1>10, <1>11, <2>1
    <3>2. Service(x)!Serve
      BY <1>5, <1>7, <1>8, <1>9, <1>11, <2>1, <3>1 DEF Service!Serve
    <3> QED
      BY <3>2 DEF Service!Next
  <2>2. CASE ~running'[x]
    <3>1. Asked(x)' = << >> /\ Open(x)' = "no"
      BY <1>6, <1>7, <1>10, <1>11, <2>2
    <3>2. Service(x)!Serve
      BY <1>5, <1>7, <1>8, <1>9, <1>11, <2>2, <3>1 DEF Service!Serve
    <3> QED
      BY <3>2 DEF Service!Next
  <2> QED
    BY <2>1, <2>2
<1>12. CASE current'[x] = n /\ UNCHANGED answered[x]
  <2>1. CASE running'[x]
    <3>1. Asked(x)' = <<n>> \o s
      BY <1>6, <1>8, <1>12, <2>1
    <3> QED
      BY <1>5, <1>7, <1>8, <1>12, <2>1, <3>1 DEF Service!serviceVars
  <2>2. CASE ~running'[x]
    <3>1. Asked(x)' = <<n>> /\ Open(x)' = "draining"
      BY <1>6, <1>7, <1>8, <1>10, <1>12, <2>2
    <3>2. Len(<<n>>) \in 0..Len(<<n>> \o s) /\ SubSeq(<<n>> \o s, 1, Len(<<n>>)) = <<n>>
      <4>1. <<n>> \in Seq(Nat)
        BY <1>4 DEF n
      <4> QED
        BY <1>4, <4>1, FirstPart
    <3>3. Service(x)!Cut
      BY <1>5, <1>7, <1>8, <1>12, <3>1, <3>2 DEF Service!Cut
    <3> QED
      BY <3>3 DEF Service!Next
  <2> QED
    BY <2>1, <2>2
<1> QED
  BY <1>1, <1>2, <1>11, <1>12 DEF Outcome, n

\* A step of one session is not seen in another one.
LEMMA OthersUnseen ==
  ASSUME SessionTypeOK, NEW c \in Clients, NEW x \in Clients \ {c},
         \/ Construct(c) \/ PeerStep(c) \/ ReaderStep(c) \/ SessionStep(c)
         \/ \E k \in Kinds : TakeChange(c, k) \/ Announce(c, k)
         \/ DestroyStop(c) \/ DestroyStep(c)
         \/ Others(c) /\ UNCHANGED sessionVars
  PROVE  UNCHANGED <<peer[x], Seen(x)>>
<1> USE DEF SessionTypeOK, Seen
<1>1. CASE Construct(c) \/ PeerStep(c)
  <2>1. CASE Construct(c)
    BY <2>1 DEF Construct
  <2>2. CASE PeerSend(c)
    BY <2>2 DEF PeerSend
  <2>3. CASE PeerClose(c)
    BY <2>3 DEF PeerClose
  <2> QED
    BY <1>1, <2>1, <2>2, <2>3 DEF PeerStep
<1>2. CASE ReaderStep(c)
  BY <1>2 DEF ReaderStep, ReaderLoop, ReadRequest, ReadError, Put
<1>3. CASE LoopCheck(c) \/ Timeout(c) \/ TakeError(c)
  BY <1>3 DEF LoopCheck, Timeout, TakeError, Pop
<1>4. CASE TakeRequest(c)
  <2> DEFINE r == Head(queue[c])
  <2>1. \A d \in Clients \ {c} : UNCHANGED <<running[d], current[d], answered[d]>>
    <3>1. CASE Process(c, r)
      BY <3>1, ProcessOutcome DEF Outcome
    <3>2. CASE UNCHANGED <<sess, current, answered, running, reading, fd, scanVars>>
      BY <3>2
    <3> QED
      BY <1>4, <3>1, <3>2 DEF TakeRequest
  <2> QED
    BY <1>4, <2>1 DEF TakeRequest, Pop
<1>5. CASE ScanGoesOn(c)
  BY <1>5 DEF ScanGoesOn
<1>6. CASE EndStream(c) \/ EndScan(c) \/ EndSession(c)
  BY <1>6 DEF EndStream, EndScan, EndSession, sessionVars
<1>7. CASE \E k \in Kinds : TakeChange(c, k) \/ Announce(c, k)
  BY <1>7 DEF TakeChange, Announce, Pop, Put
<1>8. CASE DestroyStop(c) \/ DestroyStep(c)
  BY <1>8 DEF DestroyStop, DestroyStep, DestroyCancel, DestroySocket, DestroyRest, Destroy
<1>9. CASE Others(c) /\ UNCHANGED sessionVars
  BY <1>9 DEF sessionVars
<1> QED
  BY <1>1, <1>2, <1>3, <1>4, <1>5, <1>6, <1>7, <1>8, <1>9 DEF SessionStep

\* A command that is no request and is taken: the next one is still the same, unless it was
\* the last one.
LEMMA TakeUnseen ==
  ASSUME SessionTypeOK, ServiceInv, NEW x \in Clients, Pop(x), Head(queue[x]).id = 0,
         UNCHANGED <<sent, reader, wire, current, answered, life>>,
         running'[x] \in {running[x], FALSE}
  PROVE  [Service(x)!Next]_(Service(x)!serviceVars)
<1>1. /\ thread[x] = "wait" /\ current[x] = 0 /\ queue[x] # << >>
      /\ queue'[x] = Tail(queue[x]) /\ thread'[x] = "loop" /\ life[x] # "none"
  BY DEF Pop, ServiceInv, SessionTypeOK
<1>2. Head(queue[x]) \notin Requests
  BY SessionAssumption DEF Requests
<1>3. Kept(Coming(x), Requests) = Kept(Coming(x)', Requests)
  BY <1>1, <1>2, OldestFirst
<1>4. CASE running'[x]
  <2>1. Takes(x) /\ Takes(x)'
    BY <1>1, <1>4 DEF Takes
  <2>2. Asked(x)' = Asked(x)
    BY <1>3, <2>1 DEF Asked, Coming
  <2>3. Open(x)' = Open(x)
    BY <2>1 DEF Open
  <2> QED
    BY <2>2, <2>3 DEF Service!serviceVars
<1>5. CASE ~running'[x]
  <2>1. ~Takes(x)'
    BY <1>1, <1>5 DEF Takes
  <2> QED
    BY <1>1, <2>1, StopServes
<1> QED
  BY <1>4, <1>5

\* Nor does one that is put into the queue matter.
LEMMA PutUnseen ==
  ASSUME SessionTypeOK, NEW x \in Clients, NEW e \in Commands, e.id = 0,
         queue'[x] = Append(queue[x], e),
         UNCHANGED <<sent, reader, wire, thread, running, current, answered, life>>
  PROVE  UNCHANGED Service(x)!serviceVars
<1> DEFINE q == queue[x]
           w == IF reader[x] = "dead" THEN << >> ELSE wire[x]
<1>1. q \in Seq(Commands) /\ w \in Seq(Commands)
  <2>1. << >> \in Seq(Commands)
    OBVIOUS
  <2>2. q \in Seq(Commands) /\ wire[x] \in Seq(Commands)
    BY ComingType
  <2>3. CASE reader[x] = "dead"
    BY <2>1, <2>2, <2>3
  <2>4. CASE reader[x] # "dead"
    BY <2>2, <2>4
  <2> QED
    BY <2>3, <2>4
<1>2. queue'[x] = Append(q, e)
  OBVIOUS
<1>3. Kept(Append(q, e) \o w, Requests) = Kept(q \o w, Requests)
  <2> HIDE DEF q, w
  <2>1. Append(q, e) \in Seq(Commands) /\ Kept(Append(q, e), Requests) = Kept(q, Requests)
    BY <1>1, PutUnkept
  <2>2. Kept(Append(q, e) \o w, Requests) = Kept(Append(q, e), Requests) \o Kept(w, Requests)
    BY <1>1, <2>1, KeptConcat
  <2>3. Kept(q \o w, Requests) = Kept(q, Requests) \o Kept(w, Requests)
    BY <1>1, KeptConcat
  <2> QED
    BY <2>1, <2>2, <2>3
<1>4. Asked(x)' = Asked(x)
  BY <1>2, <1>3 DEF Asked, Takes
<1> QED
  BY <1>4 DEF Service!serviceVars, Open, Takes

\* The end of the reader cuts the input, unless nobody takes it any more.
LEMMA ReaderEnds ==
  ASSUME SessionTypeOK, SessionTypeOK', NEW x \in Clients, life[x] # "none", life'[x] # "none",
         reader'[x] = "dead", UNCHANGED <<sent, thread, running, current, answered>>,
         Kept(queue'[x], Requests) = Kept(queue[x], Requests)
  PROVE  [Service(x)!Next]_(Service(x)!serviceVars)
<1>1. CASE Takes(x)
  <2>1. Takes(x)'
    BY <1>1 DEF Takes
  <2> QED
    BY <1>1, <2>1, DeadCuts
<1>2. CASE ~Takes(x)
  BY <1>2 DEF Service!serviceVars, Asked, Open, Takes
<1> QED
  BY <1>1, <1>2

\* A scan request is served when its last step is done.
LEMMA ScanServes ==
  ASSUME SessionTypeOK, ServiceInv, NEW x \in Clients, ScanGoesOn(x)
  PROVE  [Service(x)!Next]_(Service(x)!serviceVars)
<1>1. /\ current[x] # 0 /\ life[x] # "none"
      /\ UNCHANGED <<sent[x], reader[x], wire[x], queue[x], thread[x], running[x], life[x]>>
  BY DEF ScanGoesOn, ServiceInv
<1>2. Takes(x)' = Takes(x)
  BY <1>1 DEF Takes
<1>3. CASE call'[x] # "none"
  <2>1. UNCHANGED Seen(x)
    BY <1>1, <1>3 DEF ScanGoesOn, Seen
  <2> QED
    BY <2>1, UnseenStutters
<1>4. CASE call'[x] = "none"
  <2> DEFINE n == current[x]
             s == IF Takes(x) THEN Ids(Kept(Coming(x), Requests)) ELSE << >>
  <2>1. n \in Nat /\ s \in Seq(Nat)
    <3>1. Coming(x) \in Seq(Commands)
      BY ComingType
    <3>2. Ids(Kept(Coming(x), Requests)) \in Seq(Nat)
      BY <3>1, RequestsKept
    <3>3. << >> \in Seq(Nat)
      OBVIOUS
    <3> QED
      BY <3>2, <3>3, ComingType
  <2>2. current'[x] = 0 /\ answered'[x] = n
    BY <1>4 DEF ScanGoesOn, SessionTypeOK
  <2>3. Asked(x) = <<n>> \o s /\ Asked(x)' = << >> \o s
    BY <1>1, <1>2, <2>2 DEF Asked, Coming
  <2>4. /\ Open(x) # "no"
        /\ Takes(x) => Open(x)' = Open(x)
        /\ ~Takes(x) => Open(x)' = "no" /\ s = << >>
    BY <1>1, <1>2, <2>2 DEF Open
  <2>5. sent'[x] = sent[x]
    BY <1>1
  <2> HIDE DEF n, s
  <2>6. /\ << >> \o s = s /\ <<n>> \o s # << >> /\ Head(<<n>> \o s) = n /\ Tail(<<n>> \o s) = s
    BY <2>1, HeadOfConcat, ConcatEmptySeq
  <2>7. Service(x)!Serve
    BY <2>2, <2>3, <2>4, <2>5, <2>6 DEF Service!Serve
  <2> QED
    BY <2>7 DEF Service!Next
<1> QED
  BY <1>3, <1>4

\* The new object has nothing on its way.
LEMMA ConstructUnseen ==
  ASSUME SessionTypeOK, ServiceInv, NEW x \in Clients, Construct(x)
  PROVE  UNCHANGED Service(x)!serviceVars
<1>1. /\ life[x] = "none" /\ life'[x] = "up" /\ thread'[x] = "loop" /\ running'[x]
      /\ reader'[x] = "loop" /\ UNCHANGED <<wire, sent, queue, current, answered>>
      /\ wire[x] = << >> /\ queue[x] = << >> /\ current[x] = 0 /\ ~running[x] /\ thread[x] = "none"
  BY DEF Construct, ServiceInv, SessionTypeOK
<1>2. Asked(x) = << >> \o << >>
  BY <1>1 DEF Asked, Takes
<1>3. Asked(x)' = << >> \o Ids(Kept(<< >> \o << >>, Requests))
  BY <1>1 DEF Asked, Takes
<1>4. << >> \o << >> = << >>
  BY EmptySeq, ConcatEmptySeq
<1>5. Kept(<< >>, Requests) = << >> /\ Ids(<< >>) = << >>
  BY KeptEmpty DEF Ids
<1>6. Open(x) = "yes" /\ Open(x)' = "yes"
  BY <1>1 DEF Open, Takes
<1> QED
  BY <1>1, <1>2, <1>3, <1>4, <1>5, <1>6 DEF Service!serviceVars

\* The command thread looks whether it was told to end.
LEMMA LoopServes ==
  ASSUME SessionTypeOK, ServiceInv, NEW x \in Clients, LoopCheck(x) \/ Timeout(x)
  PROVE  [Service(x)!Next]_(Service(x)!serviceVars)
<1>1. /\ life[x] # "none" /\ current[x] = 0
      /\ UNCHANGED <<sent, reader, wire, queue, running, current, answered, life>>
  BY DEF LoopCheck, Timeout, ServiceInv
<1>2. CASE Takes(x)' = Takes(x)
  BY <1>1, <1>2 DEF Service!serviceVars, Asked, Open
<1>3. CASE Takes(x)' # Takes(x)
  <2>1. ~Takes(x)'
    BY <1>1, <1>3 DEF LoopCheck, Timeout, Takes, SessionTypeOK
  <2> QED
    BY <1>1, <2>1, StopServes
<1> QED
  BY <1>2, <1>3

\* The end of the session, and the first and the third step of the destructor, are not seen.
LEMMA EndUnseen ==
  ASSUME SessionTypeOK, NEW x \in Clients,
         EndStream(x) \/ EndScan(x) \/ EndSession(x) \/ PeerClose(x)
         \/ DestroyStop(x) \/ DestroySocket(x)
  PROVE  UNCHANGED Service(x)!serviceVars
<1>1. CASE EndStream(x) \/ EndScan(x) \/ EndSession(x) \/ PeerClose(x)
  BY <1>1 DEF EndStream, EndScan, EndSession, PeerClose, sessionVars,
     SessionTypeOK, Service!serviceVars, Asked, Open, Takes
<1>2. CASE DestroyStop(x) \/ DestroySocket(x)
  BY <1>2, ZenonT(30) DEF DestroyStop, DestroySocket, Destroy, SessionTypeOK, Service!serviceVars, Asked, Open, Takes
<1> QED
  BY <1>1, <1>2

\* A reader that finds it was cancelled ends, as one does that cannot read, and the last
\* reader is killed.
LEMMA ReaderServes ==
  ASSUME SessionTypeOK, SessionTypeOK', ServiceInv, NEW x \in Clients,
         ReaderLoop(x) \/ ReadError(x) \/ DestroyRest(x)
  PROVE  [Service(x)!Next]_(Service(x)!serviceVars)
<1>1. /\ life[x] # "none" /\ life'[x] # "none"
      /\ UNCHANGED <<sent, thread, running, current, answered>>
  BY DEF ReaderLoop, ReadError, DestroyRest, Destroy, ServiceInv, SessionTypeOK
<1>2. CASE reader'[x] = "dead"
  <2>1. Kept(queue'[x], Requests) = Kept(queue[x], Requests)
    <3>1. CASE ReaderLoop(x) \/ DestroyRest(x)
      BY <3>1 DEF ReaderLoop, DestroyRest, Destroy
    <3>2. CASE ReadError(x)
      <4>1. queue'[x] = Append(queue[x], Error) /\ queue[x] \in Seq(Commands)
        BY <3>2 DEF ReadError, Put, SessionTypeOK
      <4>2. Error \in Commands /\ Error.id = 0
        BY RequestTypes DEF Error, Request
      <4> QED
        BY <4>1, <4>2, PutUnkept
    <3> QED
      BY <3>1, <3>2
  <2> QED
    BY <1>1, <1>2, <2>1, ReaderEnds
<1>3. CASE reader'[x] # "dead"
  <2>1. ReaderLoop(x)
    BY <1>3 DEF ReadError, DestroyRest, SessionTypeOK
  <2>2. reader[x] # "dead" /\ UNCHANGED <<queue, wire, life>>
    BY <2>1 DEF ReaderLoop
  <2> QED
    BY <1>1, <1>3, <2>2 DEF Service!serviceVars, Asked, Open, Takes
<1> QED
  BY <1>2, <1>3

\* The destructor cancels the command thread.
LEMMA CancelServes ==
  ASSUME SessionTypeOK, NEW x \in Clients, DestroyCancel(x)
  PROVE  [Service(x)!Next]_(Service(x)!serviceVars)
<1>1. /\ life[x] # "none" /\ life'[x] # "none"
      /\ UNCHANGED <<sent, thread, reader, wire, queue, current, answered>>
  BY DEF DestroyCancel, Destroy, SessionTypeOK
<1>2. CASE Takes(x)' = Takes(x)
  BY <1>1, <1>2 DEF Service!serviceVars, Asked, Open
<1>3. CASE Takes(x)' # Takes(x)
  <2>1. Takes(x) /\ ~Takes(x)'
    BY <1>1, <1>3 DEF DestroyCancel, Takes, SessionTypeOK
  <2> QED
    BY <1>1, <2>1, StopCuts
<1> QED
  BY <1>2, <1>3

\* What is put into the queue of a session that is up, and what is taken again.
LEMMA NewsUnseen ==
  ASSUME SessionTypeOK, ServiceInv, NEW x \in Clients,
         TakeError(x) \/ \E k \in Kinds : TakeChange(x, k) \/ Announce(x, k)
  PROVE  [Service(x)!Next]_(Service(x)!serviceVars)
<1>1. CASE TakeError(x)
  <2>1. Pop(x) /\ Head(queue[x]).id = 0 /\ running'[x] \in {running[x], FALSE}
    BY <1>1 DEF TakeError, Error, Request, SessionTypeOK
  <2> QED
    BY <1>1, <2>1, TakeUnseen DEF TakeError
<1>2. ASSUME NEW k \in Kinds, TakeChange(x, k) PROVE [Service(x)!Next]_(Service(x)!serviceVars)
  <2>1. Pop(x) /\ Head(queue[x]).id = 0 /\ running'[x] \in {running[x], FALSE}
    BY <1>2 DEF TakeChange, Change, Request
  <2> QED
    BY <1>2, <2>1, TakeUnseen DEF TakeChange
<1>3. ASSUME NEW k \in Kinds, Announce(x, k) PROVE [Service(x)!Next]_(Service(x)!serviceVars)
  <2>1. Change(k) \in Commands /\ Change(k).id = 0
    BY RequestTypes DEF Change, Request
  <2>2. queue'[x] = Append(queue[x], Change(k))
    BY <1>3 DEF Announce, Put, SessionTypeOK
  <2> QED
    BY <1>3, <2>1, <2>2, PutUnseen DEF Announce
<1> QED
  BY <1>1, <1>2, <1>3

-----------------------------------------------------------------------------

\* At first there is nothing on its way.
LEMMA ServiceInitInv == SessionInit => ServiceInv /\ \A c \in Clients : Service(c)!Init
<1> SUFFICES ASSUME SessionInit PROVE ServiceInv /\ \A c \in Clients : Service(c)!Init
  OBVIOUS
<1>1. ServiceInv
  BY DEF SessionInit, ServiceInv
<1>2. ASSUME NEW c \in Clients PROVE Service(c)!Init
  <2>1. Asked(c) = << >> \o << >>
    BY DEF SessionInit, Asked, Takes
  <2>2. << >> \o << >> = << >>
    BY EmptySeq, ConcatEmptySeq
  <2> QED
    BY <2>1, <2>2 DEF SessionInit, Open, Service!Init
<1> QED
  BY <1>1, <1>2

\* Nor is there before the object is, and the command thread waits when it is done.
LEMMA ServiceInvKept ==
  ASSUME SessionTypeOK, ServiceInv, [SessionNext]_<<sessionVars, scanVars>>
  PROVE  ServiceInv'
<1> DEFINE I(x) == /\ life[x] = "none" => /\ peer[x] = "none" /\ reader[x] = "none" /\ thread[x] = "none"
                                          /\ wire[x] = << >> /\ queue[x] = << >> /\ current[x] = 0
                                          /\ ~running[x]
                   /\ thread[x] = "wait" => current[x] = 0
<1>1. ASSUME NEW x \in Clients, UNCHANGED <<peer[x], Seen(x)>> PROVE I(x)'
  BY <1>1 DEF ServiceInv, Seen
<1>2. CASE UNCHANGED sessionVars
  BY <1>2 DEF ServiceInv, sessionVars
<1>3. ASSUME NEW c \in Clients,
        \/ Construct(c) \/ PeerStep(c) \/ ReaderStep(c) \/ SessionStep(c)
        \/ \E k \in Kinds : TakeChange(c, k) \/ Announce(c, k)
        \/ DestroyStop(c) \/ DestroyStep(c)
      PROVE ServiceInv'
  <2> USE DEF SessionTypeOK
  <2>1. I(c)
    BY DEF ServiceInv
  <2>2. I(c)'
    <3>1. CASE Construct(c) \/ PeerStep(c)
      BY <2>1, <3>1, ZenonT(30) DEF Construct, PeerStep, PeerSend, PeerClose
    <3>2. CASE ReaderStep(c)
      BY <2>1, <3>2 DEF ReaderStep, ReaderLoop, ReadRequest, ReadError, Put
    <3>3. CASE LoopCheck(c) \/ Timeout(c) \/ TakeError(c)
      BY <2>1, <3>3 DEF LoopCheck, Timeout, TakeError, Pop
    <3>4. CASE TakeRequest(c)
      BY <2>1, <3>4 DEF TakeRequest, Pop
    <3>5. CASE ScanGoesOn(c)
      BY <2>1, <3>5 DEF ScanGoesOn
    <3>6. CASE EndStream(c) \/ EndScan(c) \/ EndSession(c)
      BY <2>1, <3>6 DEF EndStream, EndScan, EndSession, sessionVars
    <3>7. CASE \E k \in Kinds : TakeChange(c, k) \/ Announce(c, k)
      BY <2>1, <3>7 DEF TakeChange, Announce, Pop, Put
    <3>8. CASE DestroyStop(c) \/ DestroyStep(c)
      BY <2>1, <3>8 DEF DestroyStop, DestroyStep, DestroyCancel, DestroySocket, DestroyRest, Destroy
    <3> QED
      BY <1>3, <3>1, <3>2, <3>3, <3>4, <3>5, <3>6, <3>7, <3>8 DEF SessionStep
  <2>3. ASSUME NEW x \in Clients \ {c} PROVE I(x)'
    BY <1>1, <1>3, OthersUnseen
  <2> QED
    BY <2>2, <2>3 DEF ServiceInv
<1> QED
  BY <1>2, <1>3 DEF SessionNext

\* Every step of the sessions is one of the service of each client, or not seen by it.
LEMMA SessionServes ==
  ASSUME SessionTypeOK, SessionTypeOK', ServiceInv, [SessionNext]_<<sessionVars, scanVars>>
  PROVE  \A x \in Clients : [Service(x)!Next]_(Service(x)!serviceVars)
<1>1. CASE UNCHANGED sessionVars
  BY <1>1, UnseenStutters DEF sessionVars, Seen
<1>2. ASSUME NEW c \in Clients,
        \/ Construct(c) \/ PeerStep(c) \/ ReaderStep(c) \/ SessionStep(c)
        \/ \E k \in Kinds : TakeChange(c, k) \/ Announce(c, k)
        \/ DestroyStop(c) \/ DestroyStep(c)
      PROVE \A x \in Clients : [Service(x)!Next]_(Service(x)!serviceVars)
  <2>1. [Service(c)!Next]_(Service(c)!serviceVars)
    <3>1. CASE Construct(c)
      BY <3>1, ConstructUnseen
    <3>2. CASE PeerSend(c)
      BY <3>2, SendAsks
    <3>3. CASE ReadRequest(c)
      BY <3>3, ReadUnseen
    <3>4. CASE ReaderLoop(c) \/ ReadError(c) \/ DestroyRest(c)
      BY <3>4, ReaderServes
    <3>5. CASE LoopCheck(c) \/ Timeout(c)
      BY <3>5, LoopServes
    <3>6. CASE TakeRequest(c)
      BY <3>6, TakeServes
    <3>7. CASE TakeError(c) \/ \E k \in Kinds : TakeChange(c, k) \/ Announce(c, k)
      BY <3>7, NewsUnseen
    <3>8. CASE ScanGoesOn(c)
      BY <3>8, ScanServes
    <3>9. CASE EndStream(c) \/ EndScan(c) \/ EndSession(c) \/ PeerClose(c) \/ DestroyStop(c) \/ DestroySocket(c)
      BY <3>9, EndUnseen
    <3>10. CASE DestroyCancel(c)
      BY <3>10, CancelServes
    <3> QED
      BY <1>2, <3>1, <3>2, <3>3, <3>4, <3>5, <3>6, <3>7, <3>8, <3>9, <3>10
      DEF PeerStep, ReaderStep, SessionStep, DestroyStep
  <2>2. ASSUME NEW x \in Clients \ {c} PROVE [Service(x)!Next]_(Service(x)!serviceVars)
    BY <1>2, OthersUnseen, UnseenStutters
  <2> QED
    BY <2>1, <2>2
<1> QED
  BY <1>1, <1>2 DEF SessionNext

\* A reader thread, a queue and a command thread serve each client as one loop over its
\* socket would (vnsisocket.c:53, vnsiclient.c:108): requests are taken in the order they were
\* sent, none twice, and none after the session was told to end but the one being executed.
THEOREM SessionsImplementService == SessionSpec => ImplementsService
<1> DEFINE Step == [\A c \in Clients : [Service(c)!Next]_(Service(c)!serviceVars)]_<<sessionVars, scanVars>>
<1>1. SessionInit => SessionIInv /\ ServiceInv /\ \A c \in Clients : Service(c)!Init
  BY SessionInitInv, ServiceInitInv
<1>2. SessionIInv /\ ServiceInv /\ [SessionNext]_<<sessionVars, scanVars>> =>
        (SessionIInv /\ ServiceInv)' /\ Step
  <2> SUFFICES ASSUME SessionIInv, ServiceInv, [SessionNext]_<<sessionVars, scanVars>>
               PROVE  (SessionIInv /\ ServiceInv)' /\ Step
    OBVIOUS
  <2>1. SessionIInv'
    BY SessionNextKeeps
  <2>2. ServiceInv'
    BY ServiceInvKept DEF SessionIInv
  <2>3. \A c \in Clients : [Service(c)!Next]_(Service(c)!serviceVars)
    BY <2>1, SessionServes DEF SessionIInv
  <2> QED
    BY <2>1, <2>2, <2>3
<1> QED
  BY <1>1, <1>2, PTL DEF SessionSpec, ImplementsService

-----------------------------------------------------------------------------
(* The status thread's walk over VDR's lists.                                   *)

Rests == {SubSeq(KindOrder, i, Len(KindOrder)) : i \in 1..(Len(KindOrder) + 1)}

\* What is left of the lists to walk through.
LEMMA RestTypes ==
  /\ KindOrder \in Rests /\ << >> \in Rests
  /\ \A s \in Rests : s \in Seq(Kinds) /\ (s # << >> => Head(s) \in Kinds /\ Tail(s) \in Rests)
<1> DEFINE n == Len(KindOrder)
           Rest(i) == SubSeq(KindOrder, i, n)
<1>1. KindOrder \in Seq(Kinds) /\ n \in Nat
  BY StatusAssumption
<1>2. \A i \in 1..n : KindOrder[i] \in Kinds
  BY <1>1
<1>3. KindOrder \in Rests
  <2>1. Rest(1) = KindOrder
    BY <1>1
  <2>2. 1 \in 1..(n + 1)
    BY <1>1
  <2> QED
    BY <2>1, <2>2 DEF Rests
<1>4. << >> \in Rests
  <2>1. Rest(n + 1) = << >>
    BY <1>1
  <2>2. n + 1 \in 1..(n + 1)
    BY <1>1
  <2> QED
    BY <2>1, <2>2 DEF Rests
<1>5. ASSUME NEW i \in 1..(n + 1) PROVE Rest(i) \in Seq(Kinds)
  BY <1>1, <1>2
<1>6. ASSUME NEW i \in 1..(n + 1), Rest(i) # << >>
      PROVE  Head(Rest(i)) \in Kinds /\ Tail(Rest(i)) \in Rests
  <2>1. i <= n
    BY <1>1, <1>6
  <2>2. Tail(Rest(i)) = Rest(i + 1)
    BY <1>1, <1>2, <2>1
  <2>3. i + 1 \in 1..(n + 1)
    BY <1>1, <2>1
  <2>4. Head(Rest(i)) \in Kinds
    BY <1>5, <1>6
  <2> QED
    BY <2>2, <2>3, <2>4 DEF Rests
<1> QED
  BY <1>3, <1>4, <1>5, <1>6 DEF Rests

Holds(q, x) == \E i \in DOMAIN q : q[i] = x

\* What is in a queue stays there as a command is added, or another one taken off.
LEMMA QueueKeeps ==
  ASSUME NEW S, NEW q \in Seq(S), NEW x, Holds(q, x)
  PROVE  /\ \A e \in S : Holds(Append(q, e), x)
         /\ Head(q) # x => Holds(Tail(q), x)
<1> USE DEF Holds
<1>0. PICK i \in DOMAIN q : q[i] = x
  OBVIOUS
<1>1. i \in 1..Len(q) /\ Len(q) \in Nat
  OBVIOUS
<1>2. ASSUME NEW e \in S PROVE Holds(Append(q, e), x)
  <2>1. Append(q, e) \in Seq(S) /\ Len(Append(q, e)) = Len(q) + 1 /\ Append(q, e)[i] = q[i]
    BY <1>1
  <2>3. Append(q, e)[i] = x
    BY <1>0, <2>1
  <2>2. i \in DOMAIN Append(q, e)
    BY <1>1, <2>1
  <2> QED
    BY <2>2, <2>3
<1>3. q # << >>
  BY <1>1
<1>4. ASSUME Head(q) # x PROVE Holds(Tail(q), x)
  <2>1. /\ Tail(q) \in Seq(S) /\ Len(Tail(q)) = Len(q) - 1
        /\ \A j \in 1..Len(Tail(q)) : Tail(q)[j] = q[j + 1]
    BY <1>3
  <2>2. i # 1
    BY <1>0, <1>4
  <2>3. i - 1 \in DOMAIN Tail(q)
    BY <1>1, <2>1, <2>2
  <2>4. Tail(q)[i - 1] = x
    BY <1>0, <1>1, <2>1, <2>2
  <2> QED
    BY <2>3, <2>4
<1> QED
  BY <1>2, <1>4

\* The last command in a queue.
LEMMA QueueLast ==
  ASSUME NEW S, NEW q \in Seq(S), NEW e \in S
  PROVE  Holds(Append(q, e), e)
<1>1. /\ Append(q, e) \in Seq(S) /\ Len(Append(q, e)) = Len(q) + 1
      /\ Append(q, e)[Len(q) + 1] = e /\ Len(q) \in Nat
  OBVIOUS
<1>2. Len(q) + 1 \in DOMAIN Append(q, e)
  BY <1>1
<1> QED
  BY <1>1, <1>2 DEF Holds

-----------------------------------------------------------------------------
(* What the steps of a session leave alone.                                     *)

\* A thread that has ended stays so, and only the destructor changes the object's life.
LEMMA SessionFrame ==
  ASSUME SessionIInv, NEW c \in Clients,
         SessionStep(c) \/ PeerStep(c) \/ ReaderStep(c) \/ \E k \in Kinds : TakeChange(c, k)
  PROVE  /\ UNCHANGED life /\ (thread[c] = "ended" => thread'[c] = "ended")
         /\ \A d \in Clients \ {c} : /\ thread'[d] = thread[d] /\ running'[d] = running[d]
                                     /\ sess'[d] = sess[d] /\ queue'[d] = queue[d]
<1> USE DEF SessionIInv, SessionTypeOK
<1>1. CASE PeerStep(c)
  BY <1>1 DEF PeerStep, PeerSend, PeerClose
<1>2. CASE ReaderStep(c)
  BY <1>2 DEF ReaderStep, ReaderLoop, ReadRequest, ReadError, Put
<1>3. ASSUME NEW k \in Kinds, TakeChange(c, k)
      PROVE  /\ UNCHANGED <<life, running, sess>> /\ thread' = [thread EXCEPT ![c] = "loop"]
             /\ thread[c] = "wait" /\ \A d \in Clients \ {c} : queue'[d] = queue[d]
  BY <1>3 DEF TakeChange, Pop
<1>4. CASE TakeRequest(c)
  <2> DEFINE r == Head(queue[c])
  <2>1. /\ thread[c] = "wait" /\ thread' = [thread EXCEPT ![c] = "loop"] /\ UNCHANGED life
        /\ queue' = [queue EXCEPT ![c] = Tail(@)] /\ r \in Commands
    BY <1>4 DEF TakeRequest, Pop
  <2>2. \A d \in Clients \ {c} : sess'[d] = sess[d] /\ running'[d] = running[d]
    <3> HIDE DEF r
    <3>1. CASE UNCHANGED <<sess, running>>
      BY <3>1
    <3>2. CASE Process(c, r)
      BY <3>2, ProcessOutcome DEF Outcome, SessionIInv
    <3> QED
      BY <1>4, <3>1, <3>2 DEF TakeRequest, r
  <2> QED
    BY <2>1, <2>2
<1>5. CASE SessionStep(c) /\ ~TakeRequest(c)
  BY <1>5 DEF SessionStep, LoopCheck, Timeout, TakeError, Pop, ScanGoesOn, EndStream, EndScan,
     EndSession, sessionVars
<1> QED
  BY <1>1, <1>2, <1>3, <1>4, <1>5

\* The destructor leaves the other clients alone, and its own queue.
LEMMA DestroyFrame ==
  ASSUME SessionIInv, NEW c \in Clients, DestroyStop(c) \/ DestroyStep(c)
  PROVE  /\ UNCHANGED <<thread, queue>> /\ life[c] \in {"up", "stop", "cancel", "socket"}
         /\ life'[c] \notin {"none", "up"}
         /\ \A d \in Clients \ {c} : /\ life'[d] = life[d] /\ running'[d] = running[d]
                                     /\ sess'[d] = sess[d]
BY DEF SessionIInv, SessionTypeOK, DestroyStop, DestroyStep, DestroyCancel, DestroySocket,
       DestroyRest, Destroy
-----------------------------------------------------------------------------
(* The server and the status thread.                                            *)

\* At first the status thread knows no client and no change.
LEMMA StatusInitInv == StatusInit => StatusIInv
<1> SUFFICES ASSUME StatusInit PROVE StatusIInv
  OBVIOUS
<1> USE DEF StatusInit
<1>1. SessionIInv
  BY SessionInitInv
<1>2. StatusTypeOK
  <2>1. todo \in Rests
    BY RestTypes
  <2>2. changes \in 0..MaxChanges /\ news \in [Clients -> SUBSET Kinds]
    BY StatusAssumption
  <2> QED
    BY <1>1, <2>1, <2>2 DEF SessionIInv, StatusTypeOK
<1>3. KnownInv
  BY DEF KnownInv, SessionInit
<1>4. NewsInv /\ NoChangeLost
  BY DEF NewsInv, NoChangeLost
<1> QED
  BY <1>1, <1>2, <1>3, <1>4 DEF StatusIInv

\* The commands the status thread puts into the queues are commands.
LEMMA TellKeepsSessions == ASSUME StatusIInv, Tell PROVE SessionIInv'
<1> USE DEF StatusIInv, SessionIInv
<1>1. Head(todo) \in Kinds
  BY RestTypes DEF Tell, NewsInv, StatusTypeOK
<1>2. queue' \in [Clients -> Seq(Commands)]
  <2>1. ASSUME NEW c \in Clients PROVE Append(queue[c], Change(Head(todo))) \in Seq(Commands)
    BY <1>1, RequestTypes DEF SessionTypeOK
  <2> QED
    BY <2>1 DEF Tell
<1>3. ScanIInv'
  BY ScanStutters DEF Tell
<1>4. SessionTypeOK'
  BY <1>2, <1>3 DEF Tell, SessionTypeOK, ScanIInv
<1>5. RequestInv' /\ LifeInv'
  BY DEF Tell, RequestInv, LifeInv, scanVars
<1> QED
  BY <1>3, <1>4, <1>5

\* To the sessions, the server's threads are the constructor, the destructor and what is put
\* into their queues.
LEMMA StatusKeepsSessions == ASSUME StatusIInv, [StatusNext]_allVars PROVE SessionIInv'
<1>1. SessionIInv
  BY DEF StatusIInv
<1>2. CASE StatusStep
  <2>1. CASE Tell
    BY <2>1, TellKeepsSessions
  <2>2. CASE \E c \in Clients : Dispose(c)
    BY <1>1, <2>2, DestroyStopKeeps DEF Dispose
  <2> QED
    BY <1>1, <1>2, <2>1, <2>2, SessionStutters DEF StatusStep, Prune, CheckInhibit, Look, Looked,
       NextRound
<1>3. ASSUME NEW c \in Clients, AddClient(c) \/ ClientAdded(c) \/ ClearOne(c) PROVE SessionIInv'
  BY <1>1, <1>3, ConstructKeeps, DestroyStopKeeps, SessionStutters DEF AddClient, ClientAdded,
     ClearOne
<1>4. ASSUME NEW c \in Clients, Session(c) PROVE SessionIInv'
  BY <1>1, <1>4, SessionStepKeeps, TakeChangeKeeps, PeerReaderKeeps, OthersKeep, DestroyStepKeeps
     DEF Session
<1>5. CASE CancelServer \/ Clear \/ Cleared \/ \E k \in Kinds : ChangeList(k)
  BY <1>1, <1>5, SessionStutters DEF CancelServer, Clear, Cleared, ChangeList
<1>6. CASE PluginStops /\ UNCHANGED <<sessionVars, statusVars>>
  BY <1>1, <1>6, OthersKeep
<1>7. CASE UNCHANGED allVars
  BY <1>1, <1>7, SessionStutters DEF allVars
<1> QED
  BY <1>2, <1>3, <1>4, <1>5, <1>6, <1>7 DEF StatusNext

\* The status thread's own state keeps its type.
LEMMA StatusTypes ==
  ASSUME StatusIInv, [StatusNext]_allVars, SessionIInv' PROVE StatusTypeOK'
<1> USE DEF StatusTypeOK
<1>0. StatusTypeOK /\ SessionTypeOK'
  BY DEF StatusIInv, SessionIInv
<1>1. todo \in Rests /\ (todo' = todo => todo' \in Rests)
  BY <1>0 DEF Rests
<1>2. todo' \in Rests =>
        todo' \in {SubSeq(KindOrder, i, Len(KindOrder)) : i \in 1..(Len(KindOrder) + 1)}
  BY DEF Rests
<1>3. CASE StatusStep
  <2>1. CASE Prune \/ Looked \/ NextRound \/ \E c \in Clients : Dispose(c)
    BY <1>0, <2>1 DEF Prune, Looked, NextRound, Dispose, statusVars
  <2>2. CASE CheckInhibit
    <3>1. todo' \in Rests
      BY <1>1, <2>2, RestTypes DEF CheckInhibit
    <3> QED
      BY <1>0, <1>2, <2>2, <3>1 DEF CheckInhibit
  <2>3. CASE Look
    <3>1. todo' \in Rests
      BY <1>1, <2>3, RestTypes DEF Look
    <3>2. dirty' \subseteq Kinds /\ pc' \in {"look", "tell"}
      BY <1>0, <2>3 DEF Look
    <3> QED
      BY <1>0, <1>2, <2>3, <3>1, <3>2 DEF Look
  <2>4. CASE Tell
    <3>1. todo' \in Rests
      BY <1>1, <2>4, RestTypes DEF Tell
    <3> QED
      BY <1>0, <1>2, <2>4, <3>1 DEF Tell
  <2> QED
    BY <1>3, <2>1, <2>2, <2>3, <2>4 DEF StatusStep
<1>4. ASSUME NEW c \in Clients, AddClient(c) \/ ClientAdded(c) \/ ClearOne(c) PROVE StatusTypeOK'
  BY <1>0, <1>4 DEF AddClient, Accepts, ClientAdded, ClearOne, statusVars
<1>5. ASSUME NEW c \in Clients, Session(c) PROVE StatusTypeOK'
  <2>1. news' \in [Clients -> SUBSET Kinds]
    BY <1>0, <1>5 DEF Session
  <2> QED
    BY <1>0, <1>5, <2>1 DEF Session
<1>6. CASE CancelServer \/ Clear \/ Cleared
  BY <1>0, <1>6 DEF CancelServer, Clear, Cleared
<1>7. ASSUME NEW k \in Kinds, ChangeList(k) PROVE StatusTypeOK'
  <2>1. news' \in [Clients -> SUBSET Kinds] /\ changes' \in 0..MaxChanges
    BY <1>0, <1>7, StatusAssumption DEF ChangeList
  <2> QED
    BY <1>0, <1>7, <2>1 DEF ChangeList
<1>8. CASE UNCHANGED statusVars
  BY <1>0, <1>8 DEF statusVars
<1> QED
  BY <1>3, <1>4, <1>5, <1>6, <1>7, <1>8 DEF StatusNext, allVars

\* A client the server knows stays known until it is freed, and is destroyed only when it was
\* taken off the list.
LEMMA KnownKept == ASSUME StatusIInv, [StatusNext]_allVars PROVE KnownInv'
<1> USE DEF KnownInv
<1>0. KnownInv /\ SessionIInv /\ StatusTypeOK /\ LifeInv
  BY DEF StatusIInv, SessionIInv
<1>1. CASE Prune
  BY <1>0, <1>1 DEF Prune, sessionVars
<1>2. CASE CheckInhibit \/ Look \/ Tell \/ Looked \/ NextRound
  BY <1>0, <1>2 DEF CheckInhibit, Look, Tell, Looked, NextRound, sessionVars
<1>3. ASSUME NEW c \in Clients, AddClient(c) PROVE KnownInv'
  <2>1. /\ life[c] = "none" /\ life' = [life EXCEPT ![c] = "up"] /\ thread'[c] = "loop"
        /\ \A d \in Clients \ {c} : thread'[d] = thread[d]
    BY <1>0, <1>3 DEF AddClient, Construct, SessionIInv, SessionTypeOK
  <2> QED
    BY <1>0, <1>3, <2>1, StatusAssumption DEF AddClient, StatusTypeOK, SessionTypeOK
<1>4. ASSUME NEW c \in Clients, ClientAdded(c) PROVE KnownInv'
  BY <1>0, <1>4, StatusAssumption DEF ClientAdded, sessionVars
<1>5. ASSUME NEW c \in Clients, Dispose(c) \/ ClearOne(c) PROVE KnownInv'
  <2>1. /\ UNCHANGED thread /\ life[c] \in {"up", "stop", "cancel", "socket"}
        /\ life'[c] \notin {"none", "up"} /\ \A d \in Clients \ {c} : life'[d] = life[d]
    BY <1>0, <1>5, DestroyFrame DEF Dispose, ClearOne
  <2>2. UNCHANGED statusVars /\ ((c \in doomed /\ pc = "sleep") \/ (c \in list /\ down = "clearing"))
    BY <1>5 DEF Dispose, ClearOne
  <2>3. UNCHANGED <<list, doomed, adding, pc, down>>
    BY <2>2 DEF statusVars
  <2>4. adding # "none" => adding \in Clients \ {c}
    BY <1>0, <2>2 DEF StatusTypeOK
  <2>5. CASE c \in doomed
    <3>1. c \notin list /\ pc = "sleep"
      BY <1>0, <2>2, <2>5
    <3> QED
      BY <1>0, <2>1, <2>3, <2>4, <2>5, <3>1 DEF StatusTypeOK
  <2>6. CASE c \in list /\ down = "clearing"
    <3>1. c \notin doomed
      BY <1>0, <2>6
    <3> QED
      BY <1>0, <2>1, <2>3, <2>4, <2>6, <3>1 DEF StatusTypeOK
  <2> QED
    BY <2>2, <2>5, <2>6
<1>6. ASSUME NEW c \in Clients, Session(c) PROVE KnownInv'
  <2>1. UNCHANGED <<list, doomed, adding, pc, down>>
    BY <1>6 DEF Session
  <2>2. CASE UNCHANGED life /\ \A d \in Clients : thread[d] = "ended" => thread'[d] = "ended"
    BY <1>0, <2>1, <2>2 DEF StatusTypeOK
  <2>3. CASE DestroyStep(c)
    <3>1. /\ UNCHANGED thread /\ life'[c] \notin {"none", "up"}
          /\ \A d \in Clients \ {c} : life'[d] = life[d]
      BY <1>0, <2>3, DestroyFrame
    <3>2. life[c] \in {"stop", "cancel", "socket"}
      BY <2>3 DEF DestroyStep, DestroyCancel, DestroySocket, DestroyRest, Destroy
    <3>3. list \subseteq Clients /\ doomed \subseteq Clients /\ adding \in Clients \cup {"none"}
      BY <1>0 DEF StatusTypeOK
    <3>4. /\ \A d \in list \cup doomed : life'[d] # "none"
          /\ adding # "none" => life'[adding] # "none"
      BY <1>0, <3>1, <3>3
    <3>5. pc = "prune" => \A d \in doomed : life'[d] = "freed"
      BY <1>0, <3>1, <3>2, <3>3
    <3>6. down \in {"no", "cancelled"} =>
            /\ \A d \in list : life'[d] = "up"
            /\ adding # "none" => life'[adding] = "up"
            /\ \A d \in Clients : life'[d] # "none" => d \in list \cup doomed \/ adding = d \/ life'[d] = "freed"
      BY <1>0, <3>1, <3>2, <3>3
    <3> QED
      BY <1>0, <2>1, <3>1, <3>4, <3>5, <3>6
  <2>4. CASE ~DestroyStep(c)
    BY <1>0, <1>6, <2>2, <2>4, SessionFrame DEF Session, sessionVars
  <2> QED
    BY <2>3, <2>4
<1>7. CASE CancelServer \/ Clear \/ Cleared \/ \E k \in Kinds : ChangeList(k)
  BY <1>0, <1>7 DEF CancelServer, Clear, Cleared, ChangeList, sessionVars
<1>8. CASE UNCHANGED <<sessionVars, statusVars>>
  BY <1>0, <1>8 DEF statusVars, sessionVars
<1> QED
  BY <1>1, <1>2, <1>3, <1>4, <1>5, <1>6, <1>7, <1>8 DEF StatusNext, StatusStep, allVars

\* Only clients that listen are owed news, and a change is told from the list's head.
LEMMA NewsKept == ASSUME StatusIInv, [StatusNext]_allVars PROVE NewsInv'
<1>0. NewsInv /\ SessionIInv /\ StatusTypeOK /\ LifeInv /\ SessionTypeOK
  BY DEF StatusIInv, SessionIInv
<1>1. CASE Prune \/ CheckInhibit \/ Looked \/ NextRound
  BY <1>0, <1>1 DEF Prune, CheckInhibit, Looked, NextRound, NewsInv, Listens, sessionVars
<1>2. CASE Look
  <2>1. UNCHANGED <<news, thread, running, sess>> /\ (pc' = "tell" => todo' # << >>)
    BY <1>2 DEF Look, sessionVars
  <2> QED
    BY <1>0, <2>1 DEF NewsInv, Listens
<1>3. CASE Tell
  BY <1>0, <1>3 DEF Tell, NewsInv, Listens
<1>4. ASSUME NEW c \in Clients, AddClient(c) PROVE NewsInv'
  <2>1. news[c] = {}
    BY <1>0, <1>4 DEF AddClient, Construct, NewsInv, Listens, LifeInv
  <2>2. UNCHANGED <<news, pc, todo, sess>>
    BY <1>4 DEF AddClient, Construct
  <2>3. \A d \in Clients \ {c} : thread'[d] = thread[d] /\ running'[d] = running[d]
    BY <1>0, <1>4 DEF AddClient, Construct
  <2> QED
    BY <1>0, <2>1, <2>2, <2>3 DEF NewsInv, Listens
<1>5. ASSUME NEW c \in Clients, Dispose(c) \/ ClearOne(c) PROVE NewsInv'
  <2>1. UNCHANGED <<thread, running, news, pc, todo>>
    BY <1>5 DEF Dispose, ClearOne, DestroyStop, Destroy, statusVars
  <2>2. \A d \in Clients : sess'[d].enabled = sess[d].enabled
    <3>1. sess' = [sess EXCEPT ![c] = [@ EXCEPT !.streaming = FALSE, !.status = FALSE]]
      BY <1>5 DEF Dispose, ClearOne, DestroyStop
    <3>2. "enabled" \in DOMAIN sess[c]
      BY <1>0 DEF SessionTypeOK, New
    <3> QED
      BY <1>0, <3>1, <3>2
  <2> QED
    BY <1>0, <2>1, <2>2 DEF NewsInv, Listens
<1>6. ASSUME NEW c \in Clients, Session(c) PROVE NewsInv'
  <2>1. UNCHANGED <<pc, todo>> /\ news \in [Clients -> SUBSET Kinds]
    BY <1>0, <1>6 DEF Session, StatusTypeOK
  <2>2. \A d \in Clients \ {c} : news'[d] = news[d]
    BY <1>6, <2>1 DEF Session
  <2>3. \A d \in Clients \ {c} : Listens(d) => Listens(d)'
    <3>1. CASE DestroyStep(c)
      BY <1>0, <3>1, DestroyFrame DEF Listens
    <3>2. CASE Others(c) /\ UNCHANGED sessionVars
      BY <3>2 DEF Listens, sessionVars
    <3> QED
      BY <1>0, <1>6, <3>1, <3>2, SessionFrame DEF Session, Listens
  <2>4. news'[c] # {} => Listens(c)'
    <3>1. CASE SessionStep(c) /\ news' = [news EXCEPT ![c] = IF Listens(c)' THEN @ ELSE {}]
      BY <2>1, <3>1
    <3>2. ASSUME NEW k \in Kinds, TakeChange(c, k), news' = [news EXCEPT ![c] = @ \ {k}]
          PROVE  news'[c] # {} => Listens(c)'
      BY <1>0, <2>1, <3>2 DEF TakeChange, Pop, NewsInv, Listens
    <3>3. CASE (PeerStep(c) \/ ReaderStep(c)) /\ UNCHANGED news
      BY <1>0, <3>3 DEF PeerStep, PeerSend, PeerClose, ReaderStep, ReaderLoop, ReadRequest,
         ReadError, NewsInv, Listens
    <3>4. CASE Others(c) /\ UNCHANGED sessionVars /\ UNCHANGED news
      BY <1>0, <3>4 DEF NewsInv, Listens, sessionVars
    <3>5. CASE DestroyStep(c) /\ news' = [news EXCEPT ![c] = {}]
      BY <2>1, <3>5
    <3> QED
      BY <1>6, <3>1, <3>2, <3>3, <3>4, <3>5 DEF Session
  <2> QED
    BY <1>0, <2>1, <2>2, <2>3, <2>4 DEF NewsInv
<1>7. ASSUME NEW k \in Kinds, ChangeList(k) PROVE NewsInv'
  BY <1>0, <1>7 DEF ChangeList, NewsInv, Listens, sessionVars
<1>8. CASE CancelServer \/ Clear \/ Cleared \/ \E c \in Clients : ClientAdded(c)
  BY <1>0, <1>8 DEF CancelServer, Clear, Cleared, ClientAdded, NewsInv, Listens, sessionVars
<1>9. CASE UNCHANGED <<sessionVars, statusVars>>
  BY <1>0, <1>9 DEF statusVars, sessionVars, NewsInv, Listens
<1> QED
  BY <1>1, <1>2, <1>3, <1>4, <1>5, <1>6, <1>7, <1>8, <1>9 DEF StatusNext, StatusStep, allVars

\* Where a change is that a client has not been told.
Pending(c, k) ==
  \/ down # "no" \/ k \in dirty \/ (pc = "tell" /\ Head(todo) = k)
  \/ Holds(queue[c], Change(k))

\* While a change is told, whoever listens is in the list: nobody is being added.
LEMMA ListenersListed ==
  ASSUME StatusIInv, NEW c \in Clients, news[c] # {}, down = "no", adding = "none"
  PROVE  c \in list
<1>1. Listens(c)
  BY DEF StatusIInv, NewsInv
<1>2. life[c] \notin {"none", "freed"} /\ thread[c] # "ended"
  BY <1>1 DEF StatusIInv, SessionIInv, LifeInv, Listens
<1> QED
  BY <1>2, StatusAssumption DEF StatusIInv, KnownInv

\* A change moves from the list's state key to the one being told, and from there into
\* the queue, where it stays until the client takes it.
LEMMA NoChangeLostKept == ASSUME StatusIInv, [StatusNext]_allVars PROVE NoChangeLost'
<1>0. /\ NewsInv /\ SessionIInv /\ StatusTypeOK /\ SessionTypeOK
      /\ \A c \in Clients : \A k \in news[c] : Pending(c, k)
  BY DEF StatusIInv, SessionIInv, NoChangeLost, Pending, Holds
<1>00. SUFFICES ASSUME NEW c \in Clients, NEW k \in news'[c] PROVE Pending(c, k)'
  BY DEF NoChangeLost, Pending, Holds
<1>1. CASE k \in news[c] /\ UNCHANGED <<down, dirty, pc, todo>> /\ queue'[c] = queue[c]
  BY <1>0, <1>1 DEF Pending
<1>2. CASE Prune \/ CheckInhibit \/ Looked \/ NextRound
  BY <1>0, <1>2 DEF Prune, CheckInhibit, Looked, NextRound, Pending, sessionVars
<1>3. CASE Look
  BY <1>0, <1>3 DEF Look, Pending, sessionVars
<1>4. CASE Tell
  <2>1. k \in news[c] /\ k \in Kinds /\ UNCHANGED <<down, dirty>> /\ queue[c] \in Seq(Commands)
        /\ adding = "none"
    BY <1>0, <1>4 DEF Tell, StatusTypeOK, SessionTypeOK
  <2>2. CASE down # "no" \/ k \in dirty
    BY <2>1, <2>2 DEF Pending
  <2>3. CASE down = "no" /\ k \notin dirty
    <3>1. queue'[c] = Append(queue[c], Change(Head(todo)))
      BY <1>4, <2>1, <2>3, ListenersListed DEF Tell
    <3>2. Change(k) \in Commands /\ Change(Head(todo)) \in Commands
      <4>1. todo # << >> /\ todo \in {SubSeq(KindOrder, i, Len(KindOrder)) : i \in 1..(Len(KindOrder) + 1)}
        BY <1>0, <1>4 DEF Tell, NewsInv, StatusTypeOK
      <4>2. Head(todo) \in Kinds
        BY <4>1, RestTypes
      <4> QED
        BY <2>1, <4>2, RequestTypes
    <3>3. CASE Head(todo) = k
      <4>1. Holds(queue'[c], Change(k))
        BY <2>1, <3>1, <3>2, <3>3, QueueLast
      <4> QED
        BY <4>1 DEF Pending
    <3>4. CASE Holds(queue[c], Change(k))
      <4>0. \A e \in Commands : Holds(Append(queue[c], e), Change(k))
        BY <2>1, <3>4, QueueKeeps
      <4>1. Holds(queue'[c], Change(k))
        BY <3>1, <3>2, <4>0
      <4> QED
        BY <4>1 DEF Pending
    <3> QED
      BY <1>0, <2>1, <2>3, <3>3, <3>4 DEF Pending
  <2> QED
    BY <2>2, <2>3
<1>5. ASSUME NEW d \in Clients, AddClient(d) \/ ClientAdded(d) \/ Dispose(d) \/ ClearOne(d)
      PROVE  Pending(c, k)'
  BY <1>1, <1>5 DEF AddClient, ClientAdded, Dispose, ClearOne, Construct, DestroyStop, Destroy,
     statusVars, sessionVars
<1>6. ASSUME NEW d \in Clients, Session(d) PROVE Pending(c, k)'
  <2>1. UNCHANGED <<down, dirty, pc, todo>> /\ news \in [Clients -> SUBSET Kinds]
    BY <1>0, <1>6 DEF Session, StatusTypeOK
  <2>2. k \in news[c] /\ k \in Kinds
    BY <1>6, <2>1 DEF Session
  <2>3. SUFFICES ASSUME ~(down # "no" \/ k \in dirty \/ (pc = "tell" /\ Head(todo) = k))
                 PROVE  Holds(queue'[c], Change(k))
    BY <1>0, <2>1, <2>2 DEF Pending
  <2>4. Holds(queue[c], Change(k))
    BY <1>0, <2>2, <2>3 DEF Pending
  <2>5. CASE queue'[c] = queue[c]
    BY <2>4, <2>5
  <2>6. queue[c] \in Seq(Commands) /\ Change(k) \in Commands
    BY <1>0, <2>2, RequestTypes DEF SessionTypeOK
  <2>11. /\ \A e \in Commands : Holds(Append(queue[c], e), Change(k))
         /\ Head(queue[c]) # Change(k) => Holds(Tail(queue[c]), Change(k))
    BY <2>4, <2>6, QueueKeeps
  <2>7. ASSUME NEW e \in Commands, queue'[c] = Append(queue[c], e)
        PROVE  Holds(queue'[c], Change(k))
    BY <2>7, <2>11
  <2>8. ASSUME queue'[c] = Tail(queue[c]), Head(queue[c]) # Change(k)
        PROVE  Holds(queue'[c], Change(k))
    BY <2>8, <2>11
  <2>9. CASE c # d
    <3>1. CASE DestroyStep(d)
      BY <1>0, <2>5, <3>1, DestroyFrame
    <3>2. CASE Others(d) /\ UNCHANGED sessionVars
      BY <2>5, <3>2 DEF sessionVars
    <3> QED
      BY <1>0, <1>6, <2>5, <2>9, <3>1, <3>2, SessionFrame DEF Session
  <2>10. CASE c = d
    <3>1. CASE SessionStep(c) /\ news' = [news EXCEPT ![c] = IF Listens(c)' THEN @ ELSE {}]
      <4>1. Listens(c)'
        BY <2>1, <3>1
      <4>2. CASE TakeRequest(c)
        <5>1. queue'[c] = Tail(queue[c]) /\ Head(queue[c]).id # 0
          BY <1>0, <4>2 DEF TakeRequest, Pop, SessionTypeOK
        <5>2. Change(k).id = 0
          BY DEF Change, Request
        <5> QED
          BY <2>8, <5>1, <5>2
      <4>3. ~TakeError(c)
        BY <1>0, <4>1 DEF TakeError, Listens, SessionTypeOK
      <4>4. CASE ~TakeRequest(c)
        BY <2>5, <3>1, <4>3, <4>4 DEF SessionStep, LoopCheck, Timeout, ScanGoesOn, EndStream,
           EndScan, EndSession, sessionVars
      <4> QED
        BY <4>2, <4>4
    <3>2. ASSUME NEW l \in Kinds, TakeChange(c, l), news' = [news EXCEPT ![c] = @ \ {l}]
          PROVE  Holds(queue'[c], Change(k))
      <4>1. queue'[c] = Tail(queue[c]) /\ Head(queue[c]) = Change(l) /\ k # l
        BY <1>0, <2>1, <3>2 DEF TakeChange, Pop, SessionTypeOK
      <4>2. Change(k).op = k /\ Change(l).op = l
        BY DEF Change, Request
      <4> QED
        BY <2>8, <4>1, <4>2
    <3>3. CASE PeerStep(c)
      BY <2>5, <3>3 DEF PeerStep, PeerSend, PeerClose
    <3>4. CASE ReaderStep(c)
      <4>1. CASE ReaderLoop(c)
        BY <2>5, <4>1 DEF ReaderLoop
      <4>2. CASE ReadRequest(c)
        <5>1. Head(wire[c]) \in Commands /\ queue'[c] = Append(queue[c], Head(wire[c]))
          BY <1>0, <4>2, RequestTypes DEF ReadRequest, Put, SessionTypeOK
        <5> QED
          BY <2>7, <5>1
      <4>3. CASE ReadError(c)
        <5>1. queue'[c] = Append(queue[c], Error)
          BY <1>0, <4>3 DEF ReadError, Put, SessionTypeOK
        <5> QED
          BY <2>7, <5>1, RequestTypes
      <4> QED
        BY <3>4, <4>1, <4>2, <4>3 DEF ReaderStep
    <3>5. CASE Others(c) /\ UNCHANGED sessionVars
      BY <2>5, <3>5 DEF sessionVars
    <3>6. CASE DestroyStep(c)
      BY <1>0, <2>5, <3>6, DestroyFrame
    <3> QED
      BY <1>6, <2>10, <3>1, <3>2, <3>3, <3>4, <3>5, <3>6 DEF Session
  <2> QED
    BY <2>9, <2>10
<1>7. ASSUME NEW l \in Kinds, ChangeList(l) PROVE Pending(c, k)'
  <2>1. k \in news[c] \/ k = l
    BY <1>0, <1>7 DEF ChangeList
  <2> QED
    BY <1>0, <1>7, <2>1 DEF ChangeList, Pending, sessionVars
<1>8. CASE CancelServer \/ Clear \/ Cleared
  BY <1>0, <1>8 DEF CancelServer, Clear, Cleared, Pending
<1>9. CASE UNCHANGED <<sessionVars, statusVars>>
  BY <1>1, <1>9 DEF statusVars, sessionVars
<1> QED
  BY <1>2, <1>3, <1>4, <1>5, <1>6, <1>7, <1>8, <1>9 DEF StatusNext, StatusStep, allVars

\* All steps of the server.
LEMMA StatusStepInv == StatusIInv /\ [StatusNext]_allVars => StatusIInv'
<1> SUFFICES ASSUME StatusIInv, [StatusNext]_allVars PROVE StatusIInv'
  OBVIOUS
<1>1. SessionIInv'
  BY StatusKeepsSessions
<1>2. StatusTypeOK'
  BY <1>1, StatusTypes
<1> QED
  BY <1>1, <1>2, KnownKept, NewsKept, NoChangeLostKept DEF StatusIInv

\* To the sessions all steps of the server are their own, but for the notices of the status thread.
LEMMA StatusIsSession == ASSUME [StatusNext]_allVars, ~Tell PROVE [SessionNext]_<<sessionVars, scanVars>>
<1>1. CASE StatusStep
  <2>1. CASE \E c \in Clients : Dispose(c)
    BY <2>1 DEF Dispose, SessionNext
  <2> QED
    BY <1>1, <2>1 DEF StatusStep, Prune, CheckInhibit, Look, Looked, NextRound
<1>2. ASSUME NEW c \in Clients, AddClient(c) \/ ClientAdded(c) \/ ClearOne(c)
      PROVE  [SessionNext]_<<sessionVars, scanVars>>
  BY <1>2 DEF AddClient, ClientAdded, ClearOne, SessionNext
<1>3. ASSUME NEW c \in Clients, Session(c) PROVE [SessionNext]_<<sessionVars, scanVars>>
  BY <1>3 DEF Session, SessionNext
<1>4. CASE CancelServer \/ Clear \/ Cleared \/ \E k \in Kinds : ChangeList(k)
  BY <1>4 DEF CancelServer, Clear, Cleared, ChangeList
<1>5. CASE PluginStops /\ UNCHANGED <<sessionVars, statusVars>>
  BY <1>5 DEF SessionNext
<1>6. CASE UNCHANGED allVars
  BY <1>6 DEF allVars
<1> QED
  BY <1>1, <1>2, <1>3, <1>4, <1>5, <1>6 DEF StatusNext

\* A notice is put into the queues of the clients in the list, which have an object.
LEMMA TellUnseen ==
  ASSUME StatusIInv, ServiceInv, Tell
  PROVE  ServiceInv' /\ \A x \in Clients : UNCHANGED Service(x)!serviceVars
<1>1. SessionTypeOK /\ Head(todo) \in Kinds
  BY RestTypes DEF Tell, NewsInv, StatusTypeOK, StatusIInv, SessionIInv
<1>2. Change(Head(todo)) \in Commands /\ Change(Head(todo)).id = 0
  BY <1>1, RequestTypes DEF Change, Request
<1>3. UNCHANGED <<peer, sent, reader, wire, thread, running, current, answered, life>>
  BY DEF Tell
<1>4. ASSUME NEW x \in Clients PROVE UNCHANGED Service(x)!serviceVars
  <2>1. CASE x \in list
    <3>1. queue'[x] = Append(queue[x], Change(Head(todo)))
      BY <2>1 DEF Tell
    <3> QED
      BY <1>1, <1>2, <1>3, <3>1, PutUnseen
  <2>2. CASE x \notin list
    <3>1. queue'[x] = queue[x]
      BY <2>2 DEF Tell
    <3> QED
      BY <1>3, <3>1, UnseenStutters DEF Seen
  <2> QED
    BY <2>1, <2>2
<1>5. ServiceInv'
  <2>1. \A x \in list : life[x] # "none"
    BY DEF StatusIInv, KnownInv
  <2>2. \A x \in Clients : x \notin list => queue'[x] = queue[x]
    BY DEF Tell
  <2> QED
    BY <1>3, <2>1, <2>2 DEF ServiceInv
<1> QED
  BY <1>4, <1>5

\* What the status thread knows of sessions and of VDR's lists is what they are: a change is on
\* its way to every client that asked for it until the client is notified (status.c:305), and
\* no client in the list is being destroyed (status.c:282).
THEOREM StatusIsSafe == StatusSpec => []StatusInv
<1>1. StatusIInv => StatusInv
  BY DEF StatusIInv, StatusInv, ListAlive, KnownInv
<1> QED
  BY <1>1, StatusInitInv, StatusStepInv, PTL DEF StatusSpec, StatusSafety

\* The server's threads keep the invariants of the sessions and of their scans.
THEOREM StatusKeepsSessionInv == StatusSpec => [](SessionInv /\ ScanInv)
<1>1. StatusIInv => SessionInv /\ ScanInv
  BY SessionIInvImplies, ScanIInvImplies DEF StatusIInv, SessionIInv
<1> QED
  BY <1>1, StatusInitInv, StatusStepInv, PTL DEF StatusSpec, StatusSafety

\* The status thread's notices, which go through the queue of the requests (status.c:305), and
\* the destructor, which other threads run, leave every client the service it was promised.
THEOREM StatusKeepsService == StatusSpec => ImplementsService
<1> DEFINE Step == [\A c \in Clients : [Service(c)!Next]_(Service(c)!serviceVars)]_<<sessionVars, scanVars>>
<1>1. StatusInit => StatusIInv /\ ServiceInv /\ \A c \in Clients : Service(c)!Init
  BY StatusInitInv, ServiceInitInv DEF StatusInit
<1>2. StatusIInv /\ ServiceInv /\ [StatusNext]_allVars => (StatusIInv /\ ServiceInv)' /\ Step
  <2> SUFFICES ASSUME StatusIInv, ServiceInv, [StatusNext]_allVars
               PROVE  (StatusIInv /\ ServiceInv)' /\ Step
    OBVIOUS
  <2>1. StatusIInv'
    BY StatusStepInv
  <2>2. SessionTypeOK /\ SessionTypeOK'
    BY <2>1 DEF StatusIInv, SessionIInv
  <2>3. CASE Tell
    <3>1. ServiceInv' /\ \A c \in Clients : [Service(c)!Next]_(Service(c)!serviceVars)
      BY <2>3, TellUnseen
    <3> QED
      BY <2>1, <3>1
  <2>4. CASE ~Tell
    <3>1. [SessionNext]_<<sessionVars, scanVars>>
      BY <2>4, StatusIsSession
    <3>2. ServiceInv' /\ \A c \in Clients : [Service(c)!Next]_(Service(c)!serviceVars)
      BY <2>2, <3>1, ServiceInvKept, SessionServes
    <3> QED
      BY <2>1, <3>2
  <2> QED
    BY <2>3, <2>4
<1> QED
  BY <1>1, <1>2, PTL DEF StatusSpec, StatusSafety, ImplementsService

=============================================================================
