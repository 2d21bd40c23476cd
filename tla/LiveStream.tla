------------------------------ MODULE LiveStream ------------------------------
(***************************************************************************)
(* One client's live stream (cLiveStreamer with its cVideoInput,           *)
(* cVNSIDemuxer and cVideoBuffer) and the threads that meet in it:         *)
(*                                                                         *)
(*   - the streamer thread, cLiveStreamer::Action: reads the demuxer,      *)
(*     re-tunes the input, and at the end of the input replaces it all;    *)
(*   - the client's thread: opens and closes the stream, seeks, asks for   *)
(*     the stream's times, and passes channel changes on;                  *)
(*   - VDR: the device thread delivers packets, and receivers are detached *)
(*     from a device one by one or, for a task of higher priority, all of  *)
(*     them under the device's receivers mutex.                            *)
(*                                                                         *)
(* Opening and closing run on the client's thread while there is no        *)
(* streamer thread, and again on the streamer thread at the end of the     *)
(* input: phase says on whose behalf, pc is the next step.  A packet is a  *)
(* unit of fill; buffers have identities, so that a pointer to a deleted   *)
(* buffer can be told from one to its successor.                           *)
(***************************************************************************)
EXTENDS Integers, FiniteSets

CONSTANTS
  Buffers,        \* the addresses of video buffers
  NoBuffer,       \* a null pointer
  PlayRecording,  \* setup option: start with the recording in progress
  MaxFill,        \* bound: packets in a buffer
  MaxSeeks,       \* bound: seeks per stream
  MaxVersion,     \* bound: changes of the channel
  NoDataTime,     \* 2500 ms, in units of half a second
  LongTime,       \* 60000 ms, cut to something longer than the other two
  EofTime         \* 3000 ms

ASSUME TimeAssumption ==
  /\ NoDataTime \in Nat /\ LongTime \in Nat /\ EofTime \in Nat
  /\ NoDataTime < EofTime /\ EofTime < LongTime

ASSUME BoundAssumption ==
  /\ MaxFill \in Nat \ {0} /\ MaxSeeks \in Nat /\ MaxVersion \in Nat
  /\ PlayRecording \in BOOLEAN
  /\ NoBuffer \notin Buffers

VARIABLES
  phase,         \* none, open, failed, run, reopen or close
  pc,            \* the next step of the thread that works for the phase
  running,       \* cThread's flag: Cancel clears it
  retune,        \* Action: retune
  saved,         \* Open: the argument serial
  chan,          \* m_VideoInput.m_Channel # nullptr
  dev,           \* m_VideoInput.m_Device # nullptr
  receiver,      \* m_Receiver: none, made or attached to the device
  dummy,         \* m_DummyReceiver: none, attached or detached (BeenDetached)
  retuneReq,     \* m_RetuneRequested
  iBuf,          \* m_VideoInput.m_VideoBuffer
  tuned,         \* the version of the channel m_PmtChannel is a copy of
  alive,         \* the buffers that are allocated
  sBuf,          \* cLiveStreamer::m_VideoBuffer
  dBuf,          \* m_Demuxer.m_VideoBuffer
  kind,          \* what sBuf is: live or recording
  inputAttached, \* sBuf->m_InputAttached
  fill,          \* packets there are to read in sBuf
  ended,         \* the recording that sBuf reads is finished
  checkEof,      \* sBuf->m_CheckEof
  noData, eof,   \* what is left of mNoDataTimeout and of sBuf->m_Timer
  camError,      \* ERROR_CAM_ERROR in m_Demuxer.m_Error
  serial,        \* m_Demuxer.m_MuxPacketSerial
  cpc,           \* the client's thread: idle, open, stop, seek or reply
  streaming,     \* m_isStreaming
  told,          \* the serial the client was told last
  conn,          \* up, or why the streamer shut the connection down
  raced,         \* history: a client's call met the end of the buffer's life
  detaching,     \* receivers VDR is detaching, its receivers mutex held
  version,       \* the version of the channel in VDR's list
  preempted      \* history: a task of higher priority took the device away

thread == <<phase, pc, running, retune, saved>>
input == <<chan, dev, receiver, dummy, retuneReq, iBuf, tuned>>
buffer == <<alive, sBuf, dBuf, kind, inputAttached, fill, ended, checkEof>>
timers == <<noData, eof>>
demuxer == <<serial, camError>>
client == <<cpc, streaming, told, conn, raced>>
vdr == <<detaching, version, preempted>>
vars == <<thread, input, buffer, timers, demuxer, client, vdr>>

MutexFree == detaching = {}

At(p, l) == phase \in p /\ pc = l
Goto(l) == pc' = l /\ UNCHANGED <<phase, running, saved>>

Init ==
  /\ phase = "none" /\ pc = "idle" /\ running = FALSE /\ retune = "NORMAL" /\ saved = 0
  /\ chan = FALSE /\ dev = FALSE /\ receiver = "none" /\ dummy = "none"
  /\ retuneReq = FALSE /\ iBuf = NoBuffer /\ tuned = 0
  /\ alive = {} /\ sBuf = NoBuffer /\ dBuf = NoBuffer /\ kind = "live"
  /\ inputAttached = FALSE /\ fill = 0 /\ ended = FALSE /\ checkEof = FALSE
  /\ noData = 0 /\ eof = 0 /\ serial = 0 /\ camError = FALSE
  /\ cpc = "idle" /\ streaming = FALSE /\ told = 0 /\ conn = "up" /\ raced = FALSE
  /\ detaching = {} /\ version = 0 /\ preempted = FALSE

-----------------------------------------------------------------------------
(* The streamer thread: cLiveStreamer::Action *)

\* ReceivingStatus up to the point where it waits for the receivers mutex.
Status ==
  /\ At({"run"}, "top")
  /\ \/ ~running /\ Goto("done") /\ UNCHANGED retune
     \/ running /\ (~chan \/ (dev /\ dummy # "none" /\ ~retuneReq))
          /\ retune' = "NORMAL" /\ Goto("read")
     \/ running /\ chan /\ (~dev \/ dummy = "none")
          /\ retune' = "RETUNE" /\ Goto("nodata")
     \/ running /\ chan /\ dev /\ dummy # "none" /\ retuneReq
          /\ Goto("wait") /\ UNCHANGED retune
  /\ UNCHANGED <<input, buffer, timers, demuxer, client, vdr>>

\* Faulty variant: the receivers mutex is not waited for.
StatusUnlocked ==
  /\ At({"run"}, "wait")
  /\ IF dummy = "detached"
     THEN retune' = "CLOSE" /\ Goto("read")
     ELSE retune' = "RETUNE" /\ Goto("nodata")
  /\ UNCHANGED <<input, buffer, timers, demuxer, client, vdr>>

\* Faulty variant: no data is read once the input is closed.
StatusFakesNoData ==
  /\ At({"run"}, "wait")
  /\ MutexFree
  /\ IF dummy = "detached"
     THEN retune' = "CLOSE" /\ Goto("nodata")
     ELSE retune' = "RETUNE" /\ Goto("nodata")
  /\ UNCHANGED <<input, buffer, timers, demuxer, client, vdr>>

\* Whoever was detaching receivers is done.  After a CLOSE what the buffer holds is
\* still played.
StatusLocked ==
  /\ At({"run"}, "wait")
  /\ MutexFree
  /\ IF dummy = "detached"
     THEN retune' = "CLOSE" /\ Goto("read")
     ELSE retune' = "RETUNE" /\ Goto("nodata")
  /\ UNCHANGED <<input, buffer, timers, demuxer, client, vdr>>

\* cVNSIDemuxer::Read: a packet, which need not complete a frame and may be scrambled.
ReadPacket ==
  /\ At({"run"}, "read")
  /\ fill > 0
  /\ fill' = fill - 1
  /\ checkEof' = FALSE
  /\ \/ noData' = NoDataTime /\ UNCHANGED camError
     \/ noData' = noData /\ camError' \in {camError, TRUE}
  /\ Goto("top")
  /\ UNCHANGED <<retune, alive, sBuf, dBuf, kind, inputAttached, ended, eof,
                 input, serial, client, vdr>>

\* No packet: with its input detached, a buffer that stays empty for three seconds is
\* at its end.
ReadNothing ==
  /\ At({"run"}, "read")
  /\ fill = 0
  /\ \/ inputAttached /\ checkEof' = FALSE /\ eof' = eof /\ Goto("nodata")
     \/ ~inputAttached /\ checkEof /\ eof = 0 /\ UNCHANGED <<checkEof, eof>> /\ Goto("eof")
     \/ ~inputAttached /\ checkEof /\ eof > 0 /\ UNCHANGED <<checkEof, eof>> /\ Goto("nodata")
     \/ ~inputAttached /\ ~checkEof /\ checkEof' = TRUE /\ eof' = EofTime /\ Goto("nodata")
  /\ UNCHANGED <<retune, alive, sBuf, dBuf, kind, inputAttached, fill, ended, noData,
                 input, demuxer, client, vdr>>

\* Faulty variant: the loop is not left when the connection is shut down.
NoDataGoesOn ==
  /\ At({"run"}, "nodata")
  /\ LET timedOut == noData = 0 /\ retune = "NORMAL"
     IN  /\ noData' = IF timedOut THEN LongTime ELSE noData
         /\ \/ /\ retune = "CLOSE"
               /\ conn' = "preempted" /\ Goto("top") /\ UNCHANGED camError
            \/ /\ retune # "CLOSE"
               /\ camError' = FALSE
               /\ IF timedOut \/ camError \/ retune = "RETUNE"
                  THEN Goto("detach") ELSE Goto("top")
               /\ UNCHANGED conn
  /\ UNCHANGED <<retune, eof, input, buffer, serial, cpc, streaming, told, raced, vdr>>

\* Faulty variant: only the timeout and the CAM lead to a new attempt to tune.
NoDataForgetsStatus ==
  /\ At({"run"}, "nodata")
  /\ LET timedOut == noData = 0 /\ retune = "NORMAL"
     IN  /\ noData' = IF timedOut THEN LongTime ELSE noData
         /\ \/ /\ retune = "CLOSE"
               /\ conn' = "preempted" /\ Goto("done") /\ UNCHANGED camError
            \/ /\ retune # "CLOSE"
               /\ camError' = FALSE
               /\ IF timedOut \/ camError
                  THEN Goto("detach") ELSE Goto("top")
               /\ UNCHANGED conn
  /\ UNCHANGED <<retune, eof, input, buffer, serial, cpc, streaming, told, raced, vdr>>

\* Action's branch for ret == -1.
NoData ==
  /\ At({"run"}, "nodata")
  /\ LET timedOut == noData = 0 /\ retune = "NORMAL"
     IN  /\ noData' = IF timedOut THEN LongTime ELSE noData
         /\ \/ /\ retune = "CLOSE"
               /\ conn' = "preempted" /\ Goto("done") /\ UNCHANGED camError
            \/ /\ retune # "CLOSE"
               /\ camError' = FALSE
               /\ IF timedOut \/ camError \/ retune = "RETUNE"
                  THEN Goto("detach") ELSE Goto("top")
               /\ UNCHANGED conn
  /\ UNCHANGED <<retune, eof, input, buffer, serial, cpc, streaming, told, raced, vdr>>

\* ret == -2: Open(m_Demuxer.GetSerial()) on the streamer thread.
Reopen ==
  /\ At({"run"}, "eof")
  /\ phase' = "reopen" /\ pc' = "detach" /\ saved' = serial
  /\ UNCHANGED <<running, retune, input, buffer, timers, demuxer, client, vdr>>

-----------------------------------------------------------------------------
(* Closing: cVideoInput::Close, cVNSIDemuxer::Close, the buffer's deletion *)

\* VDR's Detach calls the receiver's Activate(false), which requests a re-tune.
Detach ==
  /\ pc = "detach"
  /\ MutexFree
  /\ IF dev /\ receiver = "attached"
     THEN receiver' = "made" /\ retuneReq' = TRUE
     ELSE UNCHANGED <<receiver, retuneReq>>
  /\ Goto("clear")
  /\ UNCHANGED <<retune, chan, dev, dummy, iBuf, tuned, buffer, timers, demuxer, client, vdr>>

Clear ==
  /\ pc = "clear"
  /\ MutexFree
  /\ dev' = FALSE /\ chan' = FALSE /\ iBuf' = NoBuffer
  /\ IF dev THEN dummy' = "none" /\ receiver' = (IF receiver = "made" THEN "none" ELSE receiver)
            ELSE UNCHANGED <<dummy, receiver>>
  /\ inputAttached' = (inputAttached /\ iBuf = NoBuffer)
  /\ preempted' = FALSE
  /\ Goto(IF phase = "run" THEN "tune" ELSE "drop")
  /\ UNCHANGED <<retune, retuneReq, tuned, alive, sBuf, dBuf, kind, fill, ended, checkEof,
                 timers, demuxer, client, detaching, version>>

\* Faulty variant: the buffer is deleted only with the stream.
DropOnlyOnClose ==
  /\ pc = "drop"
  /\ alive' = IF phase = "close" THEN alive \ {sBuf} ELSE alive
  /\ sBuf' = NoBuffer
  /\ fill' = 0 /\ inputAttached' = FALSE
  /\ IF phase = "close"
     THEN phase' = "none" /\ pc' = "idle" /\ cpc' = "idle"
     ELSE phase' = phase /\ pc' = "device" /\ UNCHANGED cpc
  /\ UNCHANGED <<running, retune, saved, dBuf, kind, ended, checkEof, input, timers, demuxer,
                 streaming, told, conn, raced, vdr>>

Drop ==
  /\ pc = "drop"
  /\ alive' = alive \ {sBuf}
  /\ sBuf' = NoBuffer
  /\ fill' = 0 /\ inputAttached' = FALSE
  /\ IF phase = "close"
     THEN phase' = "none" /\ pc' = "idle" /\ cpc' = "idle"
     ELSE phase' = phase /\ pc' = "device" /\ UNCHANGED cpc
  /\ UNCHANGED <<running, retune, saved, dBuf, kind, ended, checkEof, input, timers, demuxer,
                 streaming, told, conn, raced, vdr>>

-----------------------------------------------------------------------------
(* Opening: cLiveStreamer::Open and cVideoInput::Open *)

\* The client is told that the stream is locked and keeps the streamer object; the
\* streamer thread shuts the connection down and ends.
OpenFails ==
  IF phase = "open"
  THEN /\ phase' = "failed" /\ pc' = "idle"
       /\ cpc' = "idle" /\ UNCHANGED <<conn, streaming>>
  ELSE /\ phase' = "run" /\ pc' = "done"
       /\ conn' = "failed" /\ UNCHANGED <<cpc, streaming>>

InputFails ==
  /\ IF phase = "run" THEN Goto("top") /\ UNCHANGED <<cpc, streaming, conn>>
                      ELSE OpenFails /\ UNCHANGED <<running, saved>>
  /\ UNCHANGED <<retune, told, raced>>

\* No device, the recording is not found, or the buffer cannot be created.
DeviceFails ==
  /\ pc = "device"
  /\ OpenFails
  /\ UNCHANGED <<running, retune, saved, input, buffer, timers, demuxer, told, raced, vdr>>

\* A recording in progress is played only when the stream is opened by the client.
CreateBuffer ==
  /\ pc = "device"
  /\ \E b \in Buffers \ alive, k \in {"live", "recording"} :
       /\ k = "recording" => PlayRecording /\ phase = "open"
       /\ alive' = alive \cup {b} /\ sBuf' = b /\ kind' = k
       /\ inputAttached' = (k = "live")
       /\ fill' = IF k = "live" THEN 0 ELSE 1
       /\ Goto(IF k = "live" THEN "tune" ELSE "demux")
  /\ ended' = FALSE /\ checkEof' = FALSE
  /\ UNCHANGED <<retune, dBuf, input, timers, demuxer, client, vdr>>

\* cVideoInput::Open up to the receivers; a device there may be none of.
Tune(ok) ==
  /\ pc = "tune"
  /\ chan' = TRUE /\ retuneReq' = FALSE /\ iBuf' = sBuf
  /\ IF ok
     THEN /\ dev' = TRUE /\ receiver' = "made" /\ tuned' = version
          /\ Goto("dummy") /\ UNCHANGED <<retune, client>>
     ELSE /\ dev' \in BOOLEAN /\ InputFails /\ UNCHANGED <<receiver, tuned>>
  /\ UNCHANGED <<dummy, buffer, timers, demuxer, vdr>>

AttachDummy(ok) ==
  /\ pc = "dummy"
  /\ MutexFree
  /\ IF ok THEN dummy' = "attached" /\ Goto("attach") /\ UNCHANGED <<retune, client>>
           ELSE InputFails /\ UNCHANGED dummy
  /\ UNCHANGED <<chan, dev, receiver, retuneReq, iBuf, tuned, buffer, timers, demuxer, vdr>>

AttachReceiver(ok) ==
  /\ pc = "attach"
  /\ MutexFree
  /\ IF ok THEN receiver' = "attached" /\ Goto("input") /\ UNCHANGED <<retune, client>>
           ELSE InputFails /\ UNCHANGED receiver
  /\ UNCHANGED <<chan, dev, dummy, retuneReq, iBuf, tuned, buffer, timers, demuxer, vdr>>

AttachInput ==
  /\ pc = "input"
  /\ inputAttached' = TRUE
  /\ Goto(IF phase = "run" THEN "top" ELSE "demux")
  /\ UNCHANGED <<retune, alive, sBuf, dBuf, kind, fill, ended, checkEof,
                 input, timers, demuxer, client, vdr>>

\* Faulty variant: the demuxer keeps its buffer when the stream is opened anew.
DemuxKeepsBuffer ==
  /\ pc = "demux"
  /\ dBuf' = IF phase = "open" THEN sBuf ELSE dBuf
  /\ serial' = 0 /\ camError' = FALSE
  /\ IF phase = "open"
     THEN /\ phase' = "run" /\ pc' = "top" /\ running' = TRUE /\ noData' = NoDataTime
          /\ streaming' = TRUE /\ cpc' = "idle"
     ELSE /\ pc' = "serial" /\ UNCHANGED <<phase, running, noData, streaming, cpc>>
  /\ UNCHANGED <<retune, saved, alive, sBuf, kind, inputAttached, fill, ended, checkEof,
                 input, eof, told, conn, raced, vdr>>

\* cVNSIDemuxer::Open.  When the client opens the stream, it is told so and the
\* streamer thread is started.
DemuxOpen ==
  /\ pc = "demux"
  /\ dBuf' = sBuf
  /\ serial' = 0 /\ camError' = FALSE
  /\ IF phase = "open"
     THEN /\ phase' = "run" /\ pc' = "top" /\ running' = TRUE /\ noData' = NoDataTime
          /\ streaming' = TRUE /\ cpc' = "idle"
     ELSE /\ pc' = "serial" /\ UNCHANGED <<phase, running, noData, streaming, cpc>>
  /\ UNCHANGED <<retune, saved, alive, sBuf, kind, inputAttached, fill, ended, checkEof,
                 input, eof, told, conn, raced, vdr>>

\* Faulty variant: the serial starts from zero when the stream is opened anew.
SetSerialForgotten ==
  /\ pc = "serial"
  /\ serial' = serial /\ UNCHANGED camError
  /\ phase' = "run" /\ pc' = "top"
  /\ UNCHANGED <<running, retune, saved, input, buffer, timers, client, vdr>>

SetSerial ==
  /\ pc = "serial"
  /\ serial' = saved /\ UNCHANGED camError
  /\ phase' = "run" /\ pc' = "top"
  /\ UNCHANGED <<running, retune, saved, input, buffer, timers, client, vdr>>

-----------------------------------------------------------------------------
(* The client's thread *)

\* An open stream is closed before another one is opened.
ClientOpen ==
  /\ cpc = "idle" /\ phase = "none"
  /\ cpc' = "open" /\ phase' = "open" /\ pc' = "detach" /\ running' = FALSE
  /\ told' = 0 /\ conn' = "up" /\ raced' = FALSE
  /\ UNCHANGED <<retune, saved, input, buffer, timers, demuxer, streaming, vdr>>

\* Faulty variant: the thread is not told to end.
ClientStopNoCancel ==
  /\ cpc = "idle" /\ streaming
  /\ streaming' = FALSE /\ running' = running /\ cpc' = "stop"
  /\ UNCHANGED <<phase, pc, retune, saved, input, buffer, timers, demuxer,
                 told, conn, raced, vdr>>

\* StopChannelStreaming: the destructor cancels the thread and waits for it.
ClientStop ==
  /\ cpc = "idle" /\ streaming
  /\ streaming' = FALSE /\ running' = FALSE /\ cpc' = "stop"
  /\ UNCHANGED <<phase, pc, retune, saved, input, buffer, timers, demuxer,
                 told, conn, raced, vdr>>

\* Faulty variant: the destructor leaves the receivers to the device.
ClientJoinNoDetach ==
  /\ cpc = "stop" /\ At({"run"}, "done")
  /\ phase' = "close" /\ pc' = "clear"
  /\ UNCHANGED <<running, retune, saved, input, buffer, timers, demuxer, client, vdr>>

ClientJoin ==
  /\ cpc = "stop" /\ At({"run"}, "done")
  /\ phase' = "close" /\ pc' = "detach"
  /\ UNCHANGED <<running, retune, saved, input, buffer, timers, demuxer, client, vdr>>

\* The object a failed open left behind is deleted by the next one, or with the client.
ClientDiscard ==
  /\ cpc = "idle" /\ phase = "failed"
  /\ phase' = "close" /\ pc' = "detach" /\ cpc' = "stop"
  /\ UNCHANGED <<running, retune, saved, input, buffer, timers, demuxer,
                 streaming, told, conn, raced, vdr>>

\* The demuxer's buffer is used, although the streamer thread may be replacing it, or
\* may have found it empty and be about to end the stream for that.
Meets ==
  raced' = (raced \/ dBuf \notin alive \/ phase = "reopen"
              \/ (pc = "nodata" /\ retune = "CLOSE"))

\* SeekTime asks the buffer before it takes the demuxer's mutex.
SeekHasBuffer ==
  /\ cpc = "idle" /\ streaming /\ serial < MaxSeeks
  /\ cpc' = "seek" /\ Meets
  /\ UNCHANGED <<thread, input, buffer, timers, demuxer, streaming, told, conn, vdr>>

SeekDone(found) ==
  /\ cpc = "seek"
  /\ found => serial < MaxSeeks
  /\ cpc' = "reply" /\ Meets
  /\ UNCHANGED camError
  /\ IF found THEN serial' = serial + 1 /\ (IF dBuf = sBuf THEN fill' \in 0 .. MaxFill
                                                            ELSE UNCHANGED fill)
              ELSE UNCHANGED <<serial, fill>>
  /\ UNCHANGED <<thread, input, alive, sBuf, dBuf, kind, inputAttached, ended, checkEof,
                 timers, streaming, told, conn, vdr>>

SeekReply ==
  /\ cpc = "reply"
  /\ told' = serial /\ cpc' = "idle"
  /\ raced' = (raced \/ phase = "reopen")
  /\ UNCHANGED <<thread, input, buffer, timers, demuxer, streaming, conn, vdr>>

\* BufferStatus on behalf of StatusRequest
SendStatus ==
  /\ cpc = "idle" /\ streaming
  /\ Meets
  /\ UNCHANGED <<thread, input, buffer, timers, demuxer, cpc, streaming, told, conn, vdr>>

\* cLiveStreamer::RetuneChannel compares pointers: inList says whether it is given the
\* channel of VDR's list.
RetuneChannel(inList) ==
  IF ~inList \/ ~chan THEN UNCHANGED retuneReq ELSE retuneReq' = TRUE

\* The command holds a copy of the channel, and passes a pointer to the copy.
ChannelChange ==
  /\ cpc = "idle" /\ streaming
  /\ tuned # version
  /\ RetuneChannel(FALSE)
  /\ UNCHANGED <<thread, chan, dev, receiver, dummy, iBuf, tuned, buffer, timers, demuxer,
                 client, vdr>>

-----------------------------------------------------------------------------
(* VDR *)

Receive ==
  /\ receiver = "attached" /\ MutexFree
  /\ fill' = IF kind = "live" /\ fill < MaxFill THEN fill + 1 ELSE fill
  /\ UNCHANGED <<thread, input, alive, sBuf, dBuf, kind, inputAttached, ended, checkEof,
                 timers, demuxer, client, vdr>>

\* DetachAllReceivers for a task of higher priority
DetachAll ==
  /\ MutexFree
  /\ dummy = "attached"
  /\ detaching' = {"dummy"} \cup (IF receiver = "attached" THEN {"live"} ELSE {})
  /\ preempted' = (receiver = "attached")
  /\ UNCHANGED <<thread, input, buffer, timers, demuxer, client, version>>

\* The receiver alone, because of its PIDs, its CAM or the scramble timeout
DetachLive ==
  /\ MutexFree
  /\ receiver = "attached"
  /\ detaching' = {"live"}
  /\ UNCHANGED <<thread, input, buffer, timers, demuxer, client, version, preempted>>

DetachStep(r) ==
  /\ r \in detaching
  /\ detaching' = detaching \ {r}
  /\ IF r = "live" THEN receiver' = "made" /\ retuneReq' = TRUE /\ UNCHANGED dummy
                   ELSE dummy' = "detached" /\ UNCHANGED <<receiver, retuneReq>>
  /\ UNCHANGED <<thread, chan, dev, iBuf, tuned, buffer, timers, demuxer, client,
                 version, preempted>>

RecordingGrows ==
  /\ kind = "recording" /\ sBuf # NoBuffer /\ ~ended
  /\ \/ fill < MaxFill /\ fill' = fill + 1 /\ UNCHANGED ended
     \/ ended' = TRUE /\ UNCHANGED fill
  /\ UNCHANGED <<thread, input, alive, sBuf, dBuf, kind, inputAttached, checkEof,
                 timers, demuxer, client, vdr>>

ChannelModified ==
  /\ version < MaxVersion
  /\ version' = version + 1
  /\ UNCHANGED <<thread, input, buffer, timers, demuxer, client, detaching, preempted>>

\* Faulty variant: a timer runs on after its time.
TickPastZero ==
  /\ noData > 0 \/ eof > 0
  /\ noData' = noData - 1
  /\ eof' = IF eof > 0 THEN eof - 1 ELSE 0
  /\ UNCHANGED <<thread, input, buffer, demuxer, client, vdr>>

Tick ==
  /\ noData > 0 \/ eof > 0
  /\ noData' = IF noData > 0 THEN noData - 1 ELSE 0
  /\ eof' = IF eof > 0 THEN eof - 1 ELSE 0
  /\ UNCHANGED <<thread, input, buffer, demuxer, client, vdr>>

-----------------------------------------------------------------------------
Action == Status \/ StatusLocked \/ ReadPacket \/ ReadNothing
            \/ NoData \/ Reopen
Close == Detach \/ Clear \/ Drop
Open == DeviceFails \/ CreateBuffer \/ AttachInput \/ DemuxOpen \/ SetSerial
          \/ \E ok \in BOOLEAN : Tune(ok) \/ AttachDummy(ok) \/ AttachReceiver(ok)
Stream == Action \/ Close \/ Open

Client == ClientOpen \/ ClientStop \/ ClientJoin \/ ClientDiscard \/ SeekHasBuffer
            \/ (\E found \in BOOLEAN : SeekDone(found)) \/ SeekReply \/ SendStatus
            \/ ChannelChange

VDR == Receive \/ DetachAll \/ DetachLive \/ (\E r \in detaching : DetachStep(r))
         \/ RecordingGrows \/ ChannelModified \/ Tick

Next == Stream \/ Client \/ VDR

Spec == Init /\ [][Next]_vars

\* Every thread goes on with what it has begun, time passes, and the client reads the
\* commands that are queued for it.  Nobody has to seek, to detach or to deliver.
Fairness ==
  /\ WF_vars(Stream)
  /\ WF_vars(ClientJoin) /\ WF_vars(SeekReply)
  /\ WF_vars(\E found \in BOOLEAN : SeekDone(found))
  /\ WF_vars(ChannelChange)
  /\ WF_vars(\E r \in detaching : DetachStep(r))
  /\ WF_vars(Tick)

FairSpec == Spec /\ Fairness

\* A device that is asked for again and again is given at last.
DeviceFairness ==
  /\ SF_vars(Tune(TRUE)) /\ SF_vars(AttachDummy(TRUE)) /\ SF_vars(AttachReceiver(TRUE))

FairDeviceSpec == FairSpec /\ DeviceFairness

-----------------------------------------------------------------------------
(* Properties *)

Pointers == Buffers \cup {NoBuffer}

\* The steps, statuses and pointers are those of the code, and timers stop at zero
\* (cTimeMs::TimedOut).
TypeOK ==
  /\ phase \in {"none", "open", "failed", "run", "reopen", "close"}
  /\ pc \in {"idle", "top", "wait", "read", "nodata", "eof", "detach", "clear", "drop",
             "device", "tune", "dummy", "attach", "input", "demux", "serial", "done"}
  /\ running \in BOOLEAN /\ retune \in {"NORMAL", "RETUNE", "CLOSE"}
  /\ saved \in 0 .. MaxSeeks
  /\ chan \in BOOLEAN /\ dev \in BOOLEAN
  /\ receiver \in {"none", "made", "attached"}
  /\ dummy \in {"none", "attached", "detached"}
  /\ retuneReq \in BOOLEAN
  /\ iBuf \in Pointers /\ sBuf \in Pointers /\ dBuf \in Pointers
  /\ tuned \in 0 .. MaxVersion /\ version \in 0 .. MaxVersion
  /\ alive \subseteq Buffers
  /\ kind \in {"live", "recording"}
  /\ inputAttached \in BOOLEAN /\ ended \in BOOLEAN /\ checkEof \in BOOLEAN
  /\ fill \in 0 .. MaxFill
  /\ camError \in BOOLEAN
  /\ noData \in 0 .. LongTime /\ eof \in 0 .. EofTime
  /\ serial \in 0 .. MaxSeeks /\ told \in 0 .. MaxSeeks
  /\ cpc \in {"idle", "open", "stop", "seek", "reply"}
  /\ streaming \in BOOLEAN /\ conn \in {"up", "preempted", "failed"} /\ raced \in BOOLEAN
  /\ detaching \subseteq {"live", "dummy"} /\ preempted \in BOOLEAN

\* The device thread writes into the buffer the streamer reads, and never into one
\* that was deleted: the receiver is detached before its buffer goes, whichever thread
\* closes the stream, whatever VDR is detaching at the time.
ReceiverHasBuffer == receiver = "attached" => iBuf = sBuf /\ sBuf \in alive

\* No buffer is leaked: what is allocated is the streamer's, and when the client has no
\* streamer object left nothing is allocated or attached any more.
NothingLeaks ==
  /\ alive \subseteq {sBuf}
  /\ phase = "none" => alive = {} /\ receiver = "none" /\ dummy = "none" /\ ~dev

\* The demuxer's pointer is good whenever a call of the client uses it, unless the
\* streamer thread is replacing the buffer or failed to: the demuxer's own mutex does
\* not cover that.
DemuxerHasBuffer ==
  (cpc \in {"idle", "seek", "reply"} /\ streaming /\ phase = "run" /\ conn # "failed")
    => dBuf = sBuf /\ dBuf \in alive

\* After a seek the client throws away the packets whose serial is not the one it was
\* told: the serial never falls behind it, not even when the stream is opened anew at the
\* end of the input, as long as no seek meets that.
SerialKept ==
  (streaming /\ ~raced /\ pc # "serial") => told <= serial

\* A live streamer whose device is taken away delivers all it has buffered before it shuts
\* the connection down, and its receiver is off the device by then; a seek back that
\* comes when the buffer was just found empty is too late.
DrainedBeforeShutdown ==
  [][ (conn = "up" /\ conn' = "preempted" /\ ~raced /\ kind = "live")
      => fill = 0 /\ receiver # "attached" ]_vars

\* When all receivers are detached, the streamer does not take it for a request to
\* tune again, although it may look between the two receivers' being detached.
PreemptionSeen ==
  [][ (phase = "run" /\ pc \in {"top", "wait"} /\ pc' \in {"read", "nodata"}
        /\ preempted /\ retuneReq)
      => retune' = "CLOSE" ]_vars

\* A client that closes a stream gets rid of it, whatever the streamer thread was doing.
StopEnds == (cpc = "stop") ~> (phase = "none")

\* A live stream whose device was taken away comes to an end.
PreemptedEnds ==
  (phase = "run" /\ kind = "live" /\ preempted /\ retuneReq)
    ~> (~preempted \/ pc = "done")

\* A live stream that lost its receiver, by a detach or by a failed attempt to tune, gets
\* it back, unless it is preempted or closed.
ReceiverComesBack ==
  (phase = "run" /\ kind = "live" /\ running /\ receiver # "attached")
    ~> (receiver = "attached" \/ dummy = "detached" \/ ~running \/ pc = "done")

\* "check for end of file" (videobuffer.c:933): when the recording a client watches
\* instead of live TV has ended, the stream goes on with another buffer.
RecordingEndSeen ==
  (phase = "run" /\ kind = "recording" /\ ended)
    ~> (phase # "run" \/ pc = "done")

\* "re-tune to channel" (streamer.c:909): when VDR reports that the channel a client
\* watches has changed, the stream is tuned to what it is now.
ChangeFollowed ==
  (phase = "run" /\ kind = "live" /\ tuned # version)
    ~> (tuned = version \/ phase # "run" \/ pc = "done")

=============================================================================
