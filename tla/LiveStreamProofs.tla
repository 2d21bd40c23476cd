--------------------------- MODULE LiveStreamProofs ---------------------------
(***************************************************************************)
(* Proofs about the live stream of module LiveStream, for any number of    *)
(* buffers, seeks and channel changes and for every choice of timeouts.    *)
(*                                                                         *)
(* The inductive invariant says which steps belong to which phase          *)
(* (PhaseInv), who may be at work at the same time (ClientInv), which      *)
(* buffer exists and who points to it (BufferInv), how far the input is    *)
(* set up and what VDR is doing to it (InputInv), what a status of CLOSE   *)
(* is worth afterwards (CloseInv), and what the serial is on its way       *)
(* through the exchange of the buffer (SerialInv).                         *)
(***************************************************************************)
EXTENDS LiveStream, TLAPS

Opening == {"detach", "clear", "drop", "device", "tune", "dummy", "attach", "input", "demux"}
Retuning == {"detach", "clear", "tune", "dummy", "attach", "input"}

\* The steps that belong to a phase.
PhaseInv ==
  /\ phase \in {"none", "failed"} => pc = "idle"
  /\ phase = "open" => pc \in Opening
  /\ phase = "run" => pc \in {"top", "wait", "read", "nodata", "eof", "done"} \cup Retuning
  /\ phase = "reopen" => pc \in Opening \cup {"serial"}
  /\ phase = "close" => pc \in {"detach", "clear", "drop"}

\* The client's thread uses the stream only while a streamer thread may run; it works
\* alone when it opens or closes one.
ClientInv ==
  /\ phase \in {"none", "failed"} => cpc = "idle"
  /\ phase = "open" => cpc = "open" /\ told = 0 /\ conn = "up"
  /\ phase = "close" => cpc = "stop"
  /\ phase = "reopen" => conn = "up"
  /\ phase = "run" /\ pc # "done" => conn = "up"
  /\ phase \in {"run", "reopen"} => cpc # "open"
  /\ streaming => phase \in {"run", "reopen"} /\ cpc # "stop"
  /\ cpc \in {"seek", "reply"} => streaming

\* There is one buffer, or none; whoever runs the stream has it, and the demuxer has the
\* same one.
BufferInv ==
  /\ alive = IF sBuf = NoBuffer THEN {} ELSE {sBuf}
  /\ phase = "none" => sBuf = NoBuffer /\ ~dev
  /\ pc = "device" => sBuf = NoBuffer
  /\ pc \in {"tune", "dummy", "attach", "input", "demux", "serial"} => sBuf # NoBuffer
  /\ phase = "run" /\ conn # "failed" => sBuf # NoBuffer /\ dBuf = sBuf
  /\ pc = "serial" => dBuf = sBuf

\* A receiver that is attached, or is about to be, belongs to a device that is set and
\* to the streamer's buffer, and no re-tune was requested since it was made.
InputInv ==
  /\ ~dev => receiver = "none" /\ dummy = "none"
  /\ pc \in {"drop", "device", "tune"} => ~dev
  /\ receiver = "attached" => iBuf = sBuf /\ sBuf # NoBuffer /\ chan /\ ~retuneReq
  /\ pc \in {"dummy", "attach", "input"} => dev /\ chan /\ iBuf = sBuf
  /\ pc \in {"dummy", "attach"} => receiver = "made" /\ ~retuneReq
  /\ pc = "dummy" => dummy = "none"
  /\ pc = "dummy" => dummy = "none"
  /\ pc = "clear" => receiver # "attached"
  /\ "live" \in detaching => receiver = "attached"
  /\ "dummy" \in detaching => dummy = "attached"
  /\ preempted => chan /\ dev /\ (dummy = "detached" \/ "dummy" \in detaching)

\* The input was closed by VDR and stays closed until the streamer acts on it.
CloseInv ==
  /\ phase = "run" /\ pc = "wait" => retuneReq
  /\ (phase = "run" /\ pc \in {"read", "nodata"} /\ retune = "CLOSE") =>
       /\ retuneReq
       /\ (pc = "nodata" /\ ~raced /\ kind = "live") => fill = 0

\* While the buffer is exchanged the serial is safe in Open's argument.
SerialInv ==
  (streaming /\ ~raced) =>
    /\ phase = "reopen" => told <= saved
    /\ pc # "serial" => told <= serial

\* The type invariant in two parts: the flags, and everything else.
FlagsOK ==
  /\ running \in BOOLEAN /\ chan \in BOOLEAN /\ dev \in BOOLEAN /\ retuneReq \in BOOLEAN
  /\ inputAttached \in BOOLEAN /\ ended \in BOOLEAN /\ checkEof \in BOOLEAN
  /\ camError \in BOOLEAN /\ streaming \in BOOLEAN /\ raced \in BOOLEAN
  /\ preempted \in BOOLEAN

ValuesOK ==
  /\ phase \in {"none", "open", "failed", "run", "reopen", "close"}
  /\ pc \in {"idle", "top", "wait", "read", "nodata", "eof", "detach", "clear", "drop",
             "device", "tune", "dummy", "attach", "input", "demux", "serial", "done"}
  /\ retune \in {"NORMAL", "RETUNE", "CLOSE"} /\ saved \in 0 .. MaxSeeks
  /\ receiver \in {"none", "made", "attached"} /\ dummy \in {"none", "attached", "detached"}
  /\ iBuf \in Pointers /\ sBuf \in Pointers /\ dBuf \in Pointers
  /\ tuned \in 0 .. MaxVersion /\ version \in 0 .. MaxVersion
  /\ alive \subseteq Buffers /\ kind \in {"live", "recording"} /\ fill \in 0 .. MaxFill
  /\ noData \in 0 .. LongTime /\ eof \in 0 .. EofTime
  /\ serial \in 0 .. MaxSeeks /\ told \in 0 .. MaxSeeks
  /\ cpc \in {"idle", "open", "stop", "seek", "reply"}
  /\ conn \in {"up", "preempted", "failed"}
  /\ detaching \subseteq {"live", "dummy"}

IInv ==
  /\ FlagsOK /\ ValuesOK
  /\ PhaseInv /\ ClientInv /\ BufferInv /\ InputInv /\ CloseInv /\ SerialInv

\* The two parts are the type invariant.
LEMMA TypeParts == TypeOK <=> FlagsOK /\ ValuesOK
BY DEF TypeOK, FlagsOK, ValuesOK

\* What the assumptions say of the constants.
LEMMA Constants ==
  /\ NoDataTime \in Nat /\ LongTime \in Nat /\ EofTime \in Nat
  /\ NoDataTime < EofTime /\ EofTime < LongTime
  /\ MaxFill \in Nat /\ MaxFill > 0 /\ MaxSeeks \in Nat /\ MaxVersion \in Nat
  /\ NoBuffer \notin Buffers
BY TimeAssumption, BoundAssumption

-----------------------------------------------------------------------------
\* The streamer thread.  Only ReceivingStatus relates what VDR does to what the loop
\* does next.
LEMMA StatusKeepsInv == ASSUME IInv, Status PROVE IInv'
<1> USE Constants DEF IInv, Status, At, Goto, Pointers, thread, input, buffer,
       timers, demuxer, client, vdr
<1>1. FlagsOK'
  BY DEF FlagsOK
<1>2. ValuesOK'
  BY DEF ValuesOK
<1>3. PhaseInv' /\ ClientInv' /\ BufferInv' /\ InputInv' /\ CloseInv' /\ SerialInv'
  BY DEF PhaseInv, ClientInv, BufferInv, InputInv, CloseInv, SerialInv, Opening,
         Retuning
<1>4. QED
  BY <1>1, <1>2, <1>3

LEMMA StatusLockedKeepsInv == ASSUME IInv, StatusLocked PROVE IInv'
<1> USE Constants DEF IInv, StatusLocked, At, Goto, MutexFree, Pointers, thread,
       input, buffer, timers, demuxer, client, vdr
<1>1. FlagsOK'
  BY DEF FlagsOK
<1>2. ValuesOK'
  BY DEF ValuesOK
<1>3. PhaseInv' /\ ClientInv' /\ BufferInv' /\ InputInv' /\ CloseInv' /\ SerialInv'
  BY DEF PhaseInv, ClientInv, BufferInv, InputInv, CloseInv, SerialInv, Opening,
         Retuning
<1>4. QED
  BY <1>1, <1>2, <1>3

LEMMA ReadPacketKeepsInv == ASSUME IInv, ReadPacket PROVE IInv'
<1> USE Constants DEF IInv, ReadPacket, At, Goto, Pointers, thread, input, buffer,
       timers, demuxer, client, vdr
<1>1. FlagsOK'
  BY DEF FlagsOK
<1>2. ValuesOK'
  <2>1. fill' \in 0 .. MaxFill
    BY DEF ValuesOK
  <2>2. noData' \in 0 .. LongTime
    <3>1. noData' = NoDataTime \/ noData' = noData
      BY Zenon
    <3>2. QED
      BY <3>1 DEF ValuesOK
  <2>3. QED
    BY <2>1, <2>2 DEF ValuesOK
<1>3. PhaseInv' /\ ClientInv' /\ BufferInv' /\ InputInv' /\ CloseInv' /\ SerialInv'
  BY DEF PhaseInv, ClientInv, BufferInv, InputInv, CloseInv, SerialInv, Opening,
         Retuning
<1>4. QED
  BY <1>1, <1>2, <1>3

LEMMA ReadNothingKeepsInv == ASSUME IInv, ReadNothing PROVE IInv'
<1> USE Constants DEF IInv, ReadNothing, At, Goto, Pointers, thread, input, buffer,
       timers, demuxer, client, vdr
<1>1. FlagsOK'
  BY DEF FlagsOK
<1>2. ValuesOK'
  BY DEF ValuesOK
<1>3. PhaseInv' /\ ClientInv' /\ BufferInv' /\ InputInv' /\ CloseInv' /\ SerialInv'
  BY DEF PhaseInv, ClientInv, BufferInv, InputInv, CloseInv, SerialInv, Opening,
         Retuning
<1>4. QED
  BY <1>1, <1>2, <1>3

LEMMA NoDataKeepsInv == ASSUME IInv, NoData PROVE IInv'
<1> USE Constants DEF IInv, NoData, At, Goto, Pointers, thread, input, buffer,
       timers, demuxer, client, vdr
<1>1. FlagsOK'
  BY DEF FlagsOK
<1>2. ValuesOK'
  BY DEF ValuesOK
<1>3. PhaseInv'
  BY DEF PhaseInv, Opening, Retuning
<1>4. BufferInv'
  BY DEF BufferInv, ClientInv, PhaseInv, Opening, Retuning
<1>5. ClientInv' /\ InputInv' /\ CloseInv' /\ SerialInv'
  BY DEF ClientInv, InputInv, CloseInv, SerialInv
<1>6. QED
  BY <1>1, <1>2, <1>3, <1>4, <1>5

LEMMA ReopenKeepsInv == ASSUME IInv, Reopen PROVE IInv'
<1> USE Constants DEF IInv, Reopen, At, Pointers, thread, input, buffer, timers,
       demuxer, client, vdr
<1>1. FlagsOK'
  BY DEF FlagsOK
<1>2. ValuesOK'
  BY DEF ValuesOK
<1>3. PhaseInv'
  BY DEF PhaseInv, Opening, Retuning
<1>4. ClientInv' /\ BufferInv' /\ InputInv' /\ CloseInv' /\ SerialInv'
  BY DEF ClientInv, BufferInv, InputInv, CloseInv, SerialInv
<1>5. QED
  BY <1>1, <1>2, <1>3, <1>4

-----------------------------------------------------------------------------
\* Closing.  Detaching comes before the buffer is deleted.
LEMMA DetachKeepsInv == ASSUME IInv, Detach PROVE IInv'
<1> USE Constants DEF IInv, Detach, Goto, MutexFree, Pointers, thread, input,
       buffer, timers, demuxer, client, vdr
<1>1. FlagsOK'
  BY DEF FlagsOK
<1>2. ValuesOK'
  BY DEF ValuesOK
<1>3. PhaseInv'
  BY DEF PhaseInv, Opening, Retuning
<1>4. ClientInv' /\ BufferInv' /\ InputInv' /\ CloseInv' /\ SerialInv'
  BY DEF ClientInv, BufferInv, InputInv, CloseInv, SerialInv
<1>5. QED
  BY <1>1, <1>2, <1>3, <1>4

LEMMA ClearKeepsInv == ASSUME IInv, Clear PROVE IInv'
<1> USE Constants DEF IInv, Clear, Goto, MutexFree, Pointers, thread, input, buffer,
       timers, demuxer, client, vdr
<1>1. FlagsOK'
  BY DEF FlagsOK
<1>2. ValuesOK'
  BY DEF ValuesOK
<1>3. PhaseInv'
  BY DEF PhaseInv, Opening, Retuning
<1>4. BufferInv'
  BY DEF BufferInv, ClientInv, PhaseInv, Opening, Retuning
<1>5. InputInv'
  BY DEF ValuesOK, InputInv
<1>6. ClientInv' /\ CloseInv' /\ SerialInv'
  BY DEF ClientInv, CloseInv, SerialInv
<1>7. QED
  BY <1>1, <1>2, <1>3, <1>4, <1>5, <1>6

LEMMA DropKeepsInv == ASSUME IInv, Drop PROVE IInv'
<1> USE Constants DEF IInv, Drop, Pointers, thread, input, buffer, timers, demuxer,
       client, vdr
<1>1. FlagsOK'
  BY DEF FlagsOK
<1>2. ValuesOK'
  BY DEF ValuesOK
<1>3. PhaseInv'
  BY DEF PhaseInv, Opening, Retuning
<1>4. BufferInv'
  BY DEF FlagsOK, ValuesOK, BufferInv, ClientInv, InputInv, PhaseInv, Opening,
         Retuning
<1>5. ClientInv' /\ InputInv' /\ CloseInv' /\ SerialInv'
  BY DEF ClientInv, InputInv, CloseInv, SerialInv
<1>6. QED
  BY <1>1, <1>2, <1>3, <1>4, <1>5

-----------------------------------------------------------------------------
\* Opening, on either thread.  Each failing path leaves a state that Close can handle.
LEMMA DeviceFailsKeepsInv == ASSUME IInv, DeviceFails PROVE IInv'
<1> USE Constants DEF IInv, DeviceFails, OpenFails, Pointers, thread, input, buffer,
       timers, demuxer, client, vdr
<1>1. FlagsOK'
  BY DEF FlagsOK
<1>2. ValuesOK'
  BY DEF ValuesOK
<1>3. ClientInv'
  BY DEF FlagsOK, ValuesOK, ClientInv, PhaseInv, Opening, Retuning
<1>4. PhaseInv' /\ BufferInv' /\ InputInv' /\ CloseInv' /\ SerialInv'
  BY DEF PhaseInv, BufferInv, InputInv, CloseInv, SerialInv, Opening, Retuning
<1>5. QED
  BY <1>1, <1>2, <1>3, <1>4

LEMMA CreateBufferKeepsInv == ASSUME IInv, CreateBuffer PROVE IInv'
<1> USE Constants DEF IInv, CreateBuffer, Goto, Pointers, thread, input, buffer,
       timers, demuxer, client, vdr
<1>1. FlagsOK'
  BY DEF FlagsOK
<1>2. ValuesOK'
  BY DEF ValuesOK
<1>3. PhaseInv'
  BY DEF PhaseInv, Opening, Retuning
<1>4. BufferInv'
  BY DEF BufferInv, PhaseInv
<1>5. ClientInv' /\ InputInv' /\ CloseInv' /\ SerialInv'
  BY DEF ClientInv, InputInv, CloseInv, SerialInv
<1>6. QED
  BY <1>1, <1>2, <1>3, <1>4, <1>5

LEMMA TuneKeepsInv == ASSUME IInv, NEW ok \in BOOLEAN, Tune(ok) PROVE IInv'
<1> USE Constants DEF IInv, Tune, Goto, InputFails, OpenFails, Pointers, thread,
       input, buffer, timers, demuxer, client, vdr
<1>1. FlagsOK'
  BY DEF FlagsOK
<1>2. ValuesOK'
  BY DEF ValuesOK
<1>3. PhaseInv'
  BY DEF PhaseInv, Opening, Retuning
<1>4. ClientInv'
  BY DEF FlagsOK, ValuesOK, ClientInv, PhaseInv, Opening, Retuning
<1>5. BufferInv' /\ InputInv' /\ CloseInv' /\ SerialInv'
  BY DEF BufferInv, InputInv, CloseInv, SerialInv
<1>6. QED
  BY <1>1, <1>2, <1>3, <1>4, <1>5

LEMMA AttachDummyKeepsInv == ASSUME IInv, NEW ok \in BOOLEAN, AttachDummy(ok) PROVE IInv'
<1> USE Constants DEF IInv, AttachDummy, Goto, InputFails, OpenFails, MutexFree,
       Pointers, thread, input, buffer, timers, demuxer, client, vdr
<1>1. FlagsOK'
  BY DEF FlagsOK
<1>2. ValuesOK'
  BY DEF ValuesOK
<1>3. PhaseInv'
  BY DEF PhaseInv, Opening, Retuning
<1>4. ClientInv'
  BY DEF FlagsOK, ValuesOK, ClientInv, PhaseInv, Opening, Retuning
<1>5. BufferInv' /\ InputInv' /\ CloseInv' /\ SerialInv'
  BY DEF BufferInv, InputInv, CloseInv, SerialInv
<1>6. QED
  BY <1>1, <1>2, <1>3, <1>4, <1>5

LEMMA AttachReceiverKeepsInv == ASSUME IInv, NEW ok \in BOOLEAN, AttachReceiver(ok) PROVE IInv'
<1> USE Constants DEF IInv, AttachReceiver, Goto, InputFails, OpenFails, MutexFree,
       Pointers, thread, input, buffer, timers, demuxer, client, vdr
<1>1. FlagsOK'
  BY DEF FlagsOK
<1>2. ValuesOK'
  BY DEF ValuesOK
<1>3. PhaseInv'
  BY DEF PhaseInv, Opening, Retuning
<1>4. ClientInv'
  BY DEF FlagsOK, ValuesOK, ClientInv, PhaseInv, Opening, Retuning
<1>5. InputInv'
  BY DEF InputInv, BufferInv
<1>6. BufferInv' /\ CloseInv' /\ SerialInv'
  BY DEF BufferInv, CloseInv, SerialInv
<1>7. QED
  BY <1>1, <1>2, <1>3, <1>4, <1>5, <1>6

LEMMA AttachInputKeepsInv == ASSUME IInv, AttachInput PROVE IInv'
<1> USE Constants DEF IInv, AttachInput, Goto, Pointers, thread, input, buffer,
       timers, demuxer, client, vdr
<1>1. FlagsOK'
  BY DEF FlagsOK
<1>2. ValuesOK'
  BY DEF ValuesOK
<1>3. PhaseInv'
  BY DEF PhaseInv, Opening, Retuning
<1>4. ClientInv' /\ BufferInv' /\ InputInv' /\ CloseInv' /\ SerialInv'
  BY DEF ClientInv, BufferInv, InputInv, CloseInv, SerialInv
<1>5. QED
  BY <1>1, <1>2, <1>3, <1>4

LEMMA DemuxOpenKeepsInv == ASSUME IInv, DemuxOpen PROVE IInv'
<1> USE Constants DEF IInv, DemuxOpen, Pointers, thread, input, buffer, timers,
       demuxer, client, vdr
<1>1. FlagsOK'
  BY DEF FlagsOK
<1>2. ValuesOK'
  BY DEF ValuesOK
<1>3. PhaseInv'
  BY DEF PhaseInv, Opening, Retuning
<1>4. SerialInv'
  <2>1. CASE phase = "open"
    BY <2>1 DEF ValuesOK, ClientInv, SerialInv
  <2>2. CASE phase # "open"
    BY <2>2 DEF ValuesOK, PhaseInv, SerialInv, Retuning
  <2>3. QED
    BY <2>1, <2>2
<1>5. ClientInv' /\ BufferInv' /\ InputInv' /\ CloseInv'
  BY DEF ClientInv, BufferInv, InputInv, CloseInv
<1>6. QED
  BY <1>1, <1>2, <1>3, <1>4, <1>5

LEMMA SetSerialKeepsInv == ASSUME IInv, SetSerial PROVE IInv'
<1> USE Constants DEF IInv, SetSerial, Pointers, thread, input, buffer, timers,
       demuxer, client, vdr
<1>1. FlagsOK'
  BY DEF FlagsOK
<1>2. ValuesOK'
  BY DEF ValuesOK
<1>3. ClientInv'
  BY DEF FlagsOK, ValuesOK, ClientInv, PhaseInv, Opening, Retuning
<1>4. SerialInv'
  BY DEF SerialInv, ClientInv, PhaseInv, Opening, Retuning
<1>5. PhaseInv' /\ BufferInv' /\ InputInv' /\ CloseInv'
  BY DEF PhaseInv, BufferInv, InputInv, CloseInv, Opening, Retuning
<1>6. QED
  BY <1>1, <1>2, <1>3, <1>4, <1>5

-----------------------------------------------------------------------------
\* The client's thread.
LEMMA ClientOpenKeepsInv == ASSUME IInv, ClientOpen PROVE IInv'
<1> USE Constants DEF IInv, ClientOpen, Pointers, thread, input, buffer, timers,
       demuxer, client, vdr
<1>1. FlagsOK'
  BY DEF FlagsOK
<1>2. ValuesOK'
  BY DEF ValuesOK
<1>3. PhaseInv'
  BY DEF PhaseInv, Opening, Retuning
<1>4. SerialInv'
  BY DEF SerialInv, ClientInv
<1>5. ClientInv' /\ BufferInv' /\ InputInv' /\ CloseInv'
  BY DEF ClientInv, BufferInv, InputInv, CloseInv
<1>6. QED
  BY <1>1, <1>2, <1>3, <1>4, <1>5

LEMMA ClientStopKeepsInv == ASSUME IInv, ClientStop PROVE IInv'
<1> USE Constants DEF IInv, ClientStop, Pointers, thread, input, buffer, timers,
       demuxer, client, vdr
<1>1. FlagsOK'
  BY DEF FlagsOK
<1>2. ValuesOK'
  BY DEF ValuesOK
<1>3. PhaseInv' /\ ClientInv' /\ BufferInv' /\ InputInv' /\ CloseInv' /\ SerialInv'
  BY DEF PhaseInv, ClientInv, BufferInv, InputInv, CloseInv, SerialInv, Opening,
         Retuning
<1>4. QED
  BY <1>1, <1>2, <1>3

LEMMA ClientJoinKeepsInv == ASSUME IInv, ClientJoin PROVE IInv'
<1> USE Constants DEF IInv, ClientJoin, At, Pointers, thread, input, buffer, timers,
       demuxer, client, vdr
<1>1. FlagsOK'
  BY DEF FlagsOK
<1>2. ValuesOK'
  BY DEF ValuesOK
<1>3. PhaseInv' /\ ClientInv' /\ BufferInv' /\ InputInv' /\ CloseInv' /\ SerialInv'
  BY DEF PhaseInv, ClientInv, BufferInv, InputInv, CloseInv, SerialInv, Opening,
         Retuning
<1>4. QED
  BY <1>1, <1>2, <1>3

LEMMA ClientDiscardKeepsInv == ASSUME IInv, ClientDiscard PROVE IInv'
<1> USE Constants DEF IInv, ClientDiscard, Pointers, thread, input, buffer, timers,
       demuxer, client, vdr
<1>1. FlagsOK'
  BY DEF FlagsOK
<1>2. ValuesOK'
  BY DEF ValuesOK
<1>3. SerialInv'
  BY DEF SerialInv, PhaseInv
<1>4. PhaseInv' /\ ClientInv' /\ BufferInv' /\ InputInv' /\ CloseInv'
  BY DEF PhaseInv, ClientInv, BufferInv, InputInv, CloseInv, Opening, Retuning
<1>5. QED
  BY <1>1, <1>2, <1>3, <1>4

LEMMA SeekHasBufferKeepsInv == ASSUME IInv, SeekHasBuffer PROVE IInv'
<1> USE Constants DEF IInv, SeekHasBuffer, Meets, Pointers, thread, input, buffer,
       timers, demuxer, client, vdr
<1>1. FlagsOK'
  BY DEF FlagsOK
<1>2. ValuesOK'
  BY DEF ValuesOK
<1>3. ClientInv'
  BY DEF ClientInv
<1>4. CloseInv'
  BY DEF CloseInv
<1>5. SerialInv'
  BY DEF SerialInv
<1>6. PhaseInv' /\ BufferInv' /\ InputInv'
  BY DEF PhaseInv, BufferInv, InputInv, Opening, Retuning
<1>7. QED
  BY <1>1, <1>2, <1>3, <1>4, <1>5, <1>6

LEMMA SeekDoneKeepsInv == ASSUME IInv, NEW found \in BOOLEAN, SeekDone(found) PROVE IInv'
<1> USE Constants DEF IInv, SeekDone, Meets, Pointers, thread, input, buffer,
       timers, demuxer, client, vdr
<1>1. FlagsOK'
  BY DEF FlagsOK
<1>2. ValuesOK'
  BY DEF ValuesOK
<1>3. SerialInv'
  BY DEF FlagsOK, ValuesOK, SerialInv, ClientInv, BufferInv, InputInv, PhaseInv,
         Opening, Retuning
<1>4. PhaseInv' /\ ClientInv' /\ BufferInv' /\ InputInv' /\ CloseInv'
  BY DEF PhaseInv, ClientInv, BufferInv, InputInv, CloseInv, Opening, Retuning
<1>5. QED
  BY <1>1, <1>2, <1>3, <1>4

LEMMA SeekReplyKeepsInv == ASSUME IInv, SeekReply PROVE IInv'
<1> USE Constants DEF IInv, SeekReply, Pointers, thread, input, buffer, timers,
       demuxer, client, vdr
<1>1. FlagsOK'
  BY DEF FlagsOK
<1>2. ValuesOK'
  BY DEF ValuesOK
<1>3. SerialInv'
  <2>1. CASE phase = "reopen"
    BY <2>1 DEF FlagsOK, SerialInv
  <2>2. CASE phase # "reopen"
    BY <2>2 DEF ValuesOK, SerialInv
  <2>3. QED
    BY <2>1, <2>2
<1>4. PhaseInv' /\ ClientInv' /\ BufferInv' /\ InputInv' /\ CloseInv'
  BY DEF PhaseInv, ClientInv, BufferInv, InputInv, CloseInv, Opening, Retuning
<1>5. QED
  BY <1>1, <1>2, <1>3, <1>4

LEMMA SendStatusKeepsInv == ASSUME IInv, SendStatus PROVE IInv'
<1> USE Constants DEF IInv, SendStatus, Meets, Pointers, thread, input, buffer,
       timers, demuxer, client, vdr
<1>1. FlagsOK'
  BY DEF FlagsOK
<1>2. ValuesOK'
  BY DEF ValuesOK
<1>3. CloseInv'
  BY DEF CloseInv
<1>4. SerialInv'
  BY DEF SerialInv
<1>5. PhaseInv' /\ ClientInv' /\ BufferInv' /\ InputInv'
  BY DEF PhaseInv, ClientInv, BufferInv, InputInv, Opening, Retuning
<1>6. QED
  BY <1>1, <1>2, <1>3, <1>4, <1>5

LEMMA ChannelChangeKeepsInv == ASSUME IInv, ChannelChange PROVE IInv'
<1> USE Constants DEF IInv, ChannelChange, RetuneChannel, Pointers, thread, input,
       buffer, timers, demuxer, client, vdr
<1>1. FlagsOK'
  BY DEF FlagsOK
<1>2. ValuesOK'
  BY DEF ValuesOK
<1>3. PhaseInv' /\ ClientInv' /\ BufferInv' /\ InputInv' /\ CloseInv' /\ SerialInv'
  BY DEF PhaseInv, ClientInv, BufferInv, InputInv, CloseInv, SerialInv, Opening,
         Retuning
<1>4. QED
  BY <1>1, <1>2, <1>3

-----------------------------------------------------------------------------
\* VDR.
LEMMA ReceiveKeepsInv == ASSUME IInv, Receive PROVE IInv'
<1> USE Constants DEF IInv, Receive, MutexFree, Pointers, thread, input, buffer,
       timers, demuxer, client, vdr
<1>1. FlagsOK'
  BY DEF FlagsOK
<1>2. ValuesOK'
  BY DEF ValuesOK
<1>3. CloseInv'
  BY DEF CloseInv, InputInv
<1>4. PhaseInv' /\ ClientInv' /\ BufferInv' /\ InputInv' /\ SerialInv'
  BY DEF PhaseInv, ClientInv, BufferInv, InputInv, SerialInv, Opening, Retuning
<1>5. QED
  BY <1>1, <1>2, <1>3, <1>4

LEMMA DetachAllKeepsInv == ASSUME IInv, DetachAll PROVE IInv'
<1> USE Constants DEF IInv, DetachAll, MutexFree, Pointers, thread, input, buffer,
       timers, demuxer, client, vdr
<1>1. FlagsOK'
  BY DEF FlagsOK
<1>2. ValuesOK'
  BY DEF ValuesOK
<1>3. PhaseInv' /\ ClientInv' /\ BufferInv' /\ InputInv' /\ CloseInv' /\ SerialInv'
  BY DEF PhaseInv, ClientInv, BufferInv, InputInv, CloseInv, SerialInv, Opening,
         Retuning
<1>4. QED
  BY <1>1, <1>2, <1>3

LEMMA DetachLiveKeepsInv == ASSUME IInv, DetachLive PROVE IInv'
<1> USE Constants DEF IInv, DetachLive, MutexFree, Pointers, thread, input, buffer,
       timers, demuxer, client, vdr
<1>1. FlagsOK'
  BY DEF FlagsOK
<1>2. ValuesOK'
  BY DEF ValuesOK
<1>3. PhaseInv' /\ ClientInv' /\ BufferInv' /\ InputInv' /\ CloseInv' /\ SerialInv'
  BY DEF PhaseInv, ClientInv, BufferInv, InputInv, CloseInv, SerialInv, Opening,
         Retuning
<1>4. QED
  BY <1>1, <1>2, <1>3

LEMMA DetachStepKeepsInv == ASSUME IInv, NEW r \in detaching, DetachStep(r) PROVE IInv'
<1> USE Constants DEF IInv, DetachStep, Pointers, thread, input, buffer, timers,
       demuxer, client, vdr
<1>1. FlagsOK'
  BY DEF FlagsOK
<1>2. ValuesOK'
  BY DEF ValuesOK
<1>3. InputInv'
  BY DEF ValuesOK, InputInv
<1>4. PhaseInv' /\ ClientInv' /\ BufferInv' /\ CloseInv' /\ SerialInv'
  BY DEF PhaseInv, ClientInv, BufferInv, CloseInv, SerialInv, Opening, Retuning
<1>5. QED
  BY <1>1, <1>2, <1>3, <1>4

LEMMA RecordingGrowsKeepsInv == ASSUME IInv, RecordingGrows PROVE IInv'
<1> USE Constants DEF IInv, RecordingGrows, Pointers, thread, input, buffer, timers,
       demuxer, client, vdr
<1>1. FlagsOK'
  BY DEF FlagsOK
<1>2. ValuesOK'
  BY DEF ValuesOK
<1>3. PhaseInv' /\ ClientInv' /\ BufferInv' /\ InputInv' /\ CloseInv' /\ SerialInv'
  BY DEF PhaseInv, ClientInv, BufferInv, InputInv, CloseInv, SerialInv, Opening,
         Retuning
<1>4. QED
  BY <1>1, <1>2, <1>3

LEMMA ChannelModifiedKeepsInv == ASSUME IInv, ChannelModified PROVE IInv'
<1> USE Constants DEF IInv, ChannelModified, Pointers, thread, input, buffer,
       timers, demuxer, client, vdr
<1>1. FlagsOK'
  BY DEF FlagsOK
<1>2. ValuesOK'
  BY DEF ValuesOK
<1>3. PhaseInv' /\ ClientInv' /\ BufferInv' /\ InputInv' /\ CloseInv' /\ SerialInv'
  BY DEF PhaseInv, ClientInv, BufferInv, InputInv, CloseInv, SerialInv, Opening,
         Retuning
<1>4. QED
  BY <1>1, <1>2, <1>3

LEMMA TickKeepsInv == ASSUME IInv, Tick PROVE IInv'
<1> USE Constants DEF IInv, Tick, Pointers, thread, input, buffer, timers, demuxer,
       client, vdr
<1>1. FlagsOK'
  BY DEF FlagsOK
<1>2. ValuesOK'
  BY DEF ValuesOK
<1>3. PhaseInv' /\ ClientInv' /\ BufferInv' /\ InputInv' /\ CloseInv' /\ SerialInv'
  BY DEF PhaseInv, ClientInv, BufferInv, InputInv, CloseInv, SerialInv, Opening,
         Retuning
<1>4. QED
  BY <1>1, <1>2, <1>3

-----------------------------------------------------------------------------
\* The initial state satisfies the invariant.
LEMMA InitInv == Init => IInv
<1> SUFFICES ASSUME Init PROVE IInv
  OBVIOUS
<1> USE Constants DEF Init, Pointers
<1>1. FlagsOK
  BY DEF FlagsOK
<1>2. ValuesOK
  BY DEF ValuesOK
<1>3. PhaseInv /\ ClientInv /\ BufferInv
  BY DEF PhaseInv, ClientInv, BufferInv
<1>4. InputInv /\ CloseInv /\ SerialInv
  BY DEF InputInv, CloseInv, SerialInv
<1>5. QED
  BY <1>1, <1>2, <1>3, <1>4 DEF IInv

\* A step that changes nothing changes none of the parts.
LEMMA StutterKeepsInv == ASSUME IInv, UNCHANGED vars PROVE IInv'
<1> USE DEF vars, thread, input, buffer, timers, demuxer, client, vdr, IInv
<1>1. FlagsOK' /\ ValuesOK'
  BY DEF FlagsOK, ValuesOK, Pointers
<1>2. PhaseInv' /\ ClientInv' /\ BufferInv'
  BY DEF PhaseInv, ClientInv, BufferInv, Opening, Retuning
<1>3. InputInv' /\ CloseInv' /\ SerialInv'
  BY DEF InputInv, CloseInv, SerialInv
<1>4. QED
  BY <1>1, <1>2, <1>3

\* Every step preserves the invariant.
LEMMA NextKeepsInv == ASSUME IInv, [Next]_vars PROVE IInv'
<1>1. ASSUME Action PROVE IInv'
  BY <1>1, StatusKeepsInv, StatusLockedKeepsInv, ReadPacketKeepsInv, ReadNothingKeepsInv,
     NoDataKeepsInv, ReopenKeepsInv DEF Action
<1>2. ASSUME Close PROVE IInv'
  BY <1>2, DetachKeepsInv, ClearKeepsInv, DropKeepsInv DEF Close
<1>3. ASSUME Open PROVE IInv'
  BY <1>3, DeviceFailsKeepsInv, CreateBufferKeepsInv, AttachInputKeepsInv,
     DemuxOpenKeepsInv, SetSerialKeepsInv, TuneKeepsInv, AttachDummyKeepsInv,
     AttachReceiverKeepsInv DEF Open
<1>4. ASSUME Client PROVE IInv'
  BY <1>4, ClientOpenKeepsInv, ClientStopKeepsInv, ClientJoinKeepsInv,
     ClientDiscardKeepsInv, SeekHasBufferKeepsInv, SeekDoneKeepsInv,
     SeekReplyKeepsInv, SendStatusKeepsInv, ChannelChangeKeepsInv DEF Client
<1>5. ASSUME VDR PROVE IInv'
  BY <1>5, ReceiveKeepsInv, DetachAllKeepsInv, DetachLiveKeepsInv, DetachStepKeepsInv,
     RecordingGrowsKeepsInv, ChannelModifiedKeepsInv, TickKeepsInv DEF VDR
<1>6. ASSUME UNCHANGED vars PROVE IInv'
  BY <1>6, StutterKeepsInv
<1>7. QED
  BY <1>1, <1>2, <1>3, <1>4, <1>5, <1>6 DEF Next, Stream

\* The invariant holds in every state of every behaviour.
THEOREM Invariance == Spec => []IInv
<1>1. Init => IInv
  BY InitInv
<1>2. IInv /\ [Next]_vars => IInv'
  BY NextKeepsInv
<1>3. QED
  BY <1>1, <1>2, PTL DEF Spec

-----------------------------------------------------------------------------
\* The variables keep their types: no timer runs on after its time, and no pointer but
\* that of a buffer is ever stored.
THEOREM TypeCorrect == Spec => []TypeOK
<1>1. IInv => TypeOK
  BY TypeParts DEF IInv
<1>2. QED
  BY <1>1, Invariance, PTL

\* The device thread never writes to a buffer that was deleted or replaced
\* (cVideoInput::Close detaches before cLiveStreamer::Close deletes).
THEOREM DeviceWritesToLiveBuffer == Spec => []ReceiverHasBuffer
<1>1. IInv => ReceiverHasBuffer
  BY DEF IInv, InputInv, BufferInv, ReceiverHasBuffer
<1>2. QED
  BY <1>1, Invariance, PTL

\* Whatever fails on the way, a stream's buffers and receivers go with it.
THEOREM StreamLeaksNothing == Spec => []NothingLeaks
<1>1. IInv => NothingLeaks
  BY DEF IInv, InputInv, BufferInv, NothingLeaks
<1>2. QED
  BY <1>1, Invariance, PTL

\* While a stream runs the demuxer reads the streamer's buffer, through all re-tuning.
THEOREM DemuxerReadsLiveBuffer == Spec => []DemuxerHasBuffer
<1>1. IInv => DemuxerHasBuffer
  BY DEF IInv, BufferInv, DemuxerHasBuffer
<1>2. QED
  BY <1>1, Invariance, PTL

\* The serial the client was told is never ahead of the packets that will come, also
\* across the exchange of the buffer, which sets the demuxer's serial back to zero.
THEOREM SerialNeverBehind == Spec => []SerialKept
<1>1. IInv => SerialKept
  <2> SUFFICES ASSUME IInv, streaming, ~raced, pc # "serial" PROVE told <= serial
    BY DEF SerialKept
  <2>1. QED
    BY DEF IInv, SerialInv
<1>2. QED
  BY <1>1, Invariance, PTL

\* A preemption, once both receivers' flags can be seen, is never answered by a new
\* attempt to tune.
THEOREM PreemptionIsSeen == Spec => PreemptionSeen
<1> DEFINE Asked == phase = "run" /\ pc \in {"top", "wait"} /\ pc' \in {"read", "nodata"}
                      /\ preempted /\ retuneReq
<1>1. ASSUME IInv, Next, Asked PROVE retune' = "CLOSE"
  <2>1. Status \/ StatusLocked
    BY <1>1 DEF Next, Stream, Action, Close, Open, Client, VDR, Status, StatusLocked, ReadPacket,
           ReadNothing, NoData, Reopen, Detach, Clear, Drop, DeviceFails,
           CreateBuffer, Tune, AttachDummy, AttachReceiver, AttachInput, DemuxOpen,
           SetSerial, ClientOpen, ClientStop, ClientJoin, ClientDiscard,
           SeekHasBuffer, SeekDone, SeekReply, SendStatus, ChannelChange, Receive,
           DetachAll, DetachLive, DetachStep, RecordingGrows, ChannelModified, Tick,
           At, Goto, OpenFails, InputFails, thread, input, buffer, timers, demuxer,
           client, vdr
  <2>2. ASSUME Status PROVE FALSE
    BY <1>1, <2>2 DEF IInv, InputInv, Status, At, Goto
  <2>3. ASSUME StatusLocked PROVE retune' = "CLOSE"
    BY <1>1, <2>3 DEF IInv, InputInv, StatusLocked, At, Goto, MutexFree
  <2>4. QED
    BY <2>1, <2>2, <2>3
<1>2. IInv /\ [Next]_vars => [Asked => retune' = "CLOSE"]_vars
  BY <1>1
<1>3. QED
  BY <1>2, Invariance, PTL DEF Spec, PreemptionSeen

\* When the streamer shuts the connection of a preempted live stream down, everything
\* that was buffered has been read and nothing more can come.
THEOREM BufferIsDrained == Spec => DrainedBeforeShutdown
<1> DEFINE Shut == conn = "up" /\ conn' = "preempted" /\ ~raced /\ kind = "live"
           Drained == fill = 0 /\ receiver # "attached"
<1>1. ASSUME IInv, Next, Shut PROVE Drained
  <2>1. NoData /\ retune = "CLOSE"
    BY <1>1 DEF Next, Stream, Action, Close, Open, Client, VDR, Status, StatusLocked, ReadPacket,
           ReadNothing, NoData, Reopen, Detach, Clear, Drop, DeviceFails,
           CreateBuffer, Tune, AttachDummy, AttachReceiver, AttachInput, DemuxOpen,
           SetSerial, ClientOpen, ClientStop, ClientJoin, ClientDiscard,
           SeekHasBuffer, SeekDone, SeekReply, SendStatus, ChannelChange, Receive,
           DetachAll, DetachLive, DetachStep, RecordingGrows, ChannelModified, Tick,
           At, Goto, OpenFails, InputFails, thread, input, buffer, timers, demuxer,
           client, vdr
  <2>2. QED
    BY <1>1, <2>1 DEF IInv, InputInv, CloseInv, NoData, At
<1>2. IInv /\ [Next]_vars => [Shut => Drained]_vars
  BY <1>1
<1>3. QED
  BY <1>2, Invariance, PTL DEF Spec, DrainedBeforeShutdown

=============================================================================
