------------------------------ MODULE RecordingBuffer ------------------------------
(***************************************************************************)
(* A recording that is played while it may still be written, as the streamer   *)
(* reads it (cVideoBufferRecording and cVideoBuffer::Read, videobuffer.c).      *)
(* There is no device: Read itself finds out that the end has been reached,     *)
(* when it has had nothing to give for three seconds.                           *)
(***************************************************************************)
EXTENDS Integers

CONSTANTS
  PacketLength,      \* TS_SIZE
  BlockMax,    \* m_ReadCacheMaxSize
  BackStep,    \* how far SeekTime steps back from the newest position
  MaxLength    \* bound: the length of the recording

BlockMargin == 2 * PacketLength    \* m_Margin

ASSUME RecordingBufferAssumption ==
  /\ PacketLength \in Nat \ {0} /\ MaxLength \in Nat /\ BackStep \in Nat
  /\ BlockMax \in Nat /\ BlockMargin <= BlockMax

VARIABLES
  length,      \* bytes on disk
  writing,     \* VDR's recording goes on
  known,       \* m_BufferSize, the length found by the last look
  scanDue,     \* m_ScanTimer has timed out
  playPtr, consumed, blockPtr, blockSize, \* as in FileBuffer
  eof,         \* "no", m_CheckEof "armed", or "due" once m_Timer has timed out
  got,         \* what Read returned last: "packet", "nothing", "end"
  held         \* history: positions <<from, to>> of the packet returned last; NoPacket after
               \* a seek, and when it was a packet left in the cache from before

recordingVars == <<length, writing, known, scanDue, playPtr, consumed, blockPtr, blockSize,
                   eof, got, held>>

NoPacket == <<0, 0>>

RecordingBufferTypeOK ==
  /\ length \in 0..MaxLength /\ writing \in BOOLEAN /\ known \in 0..length /\ scanDue \in BOOLEAN
  /\ playPtr \in (-BackStep)..known /\ consumed \in 0..BlockMax
  /\ blockPtr \in 0..BlockMax /\ blockSize \in 0..BlockMax
  /\ eof \in {"no", "armed", "due"} /\ got \in {"packet", "nothing", "end"}
  /\ held \in (0..MaxLength) \X (0..MaxLength)

RecordingInit ==
  /\ length \in 0..MaxLength /\ writing = TRUE /\ known = 0 /\ scanDue = TRUE
  /\ playPtr = 0 /\ consumed = 0 /\ blockPtr = 0 /\ blockSize = 0
  /\ eof = "no" /\ got = "nothing" /\ held = NoPacket

-----------------------------------------------------------------------------
(* VDR and time. *)

Grow ==
  /\ writing /\ \E n \in 1..PacketLength : length' = length + n
  /\ length' <= MaxLength
  /\ UNCHANGED <<writing, known, scanDue, playPtr, consumed, blockPtr, blockSize, eof, got, held>>

StopRecording ==
  /\ writing /\ writing' = FALSE
  /\ UNCHANGED <<length, known, scanDue, playPtr, consumed, blockPtr, blockSize, eof, got, held>>

\* A second, or three, have passed.
ScanTimer ==
  /\ ~scanDue /\ scanDue' = TRUE
  /\ UNCHANGED <<length, writing, known, playPtr, consumed, blockPtr, blockSize, eof, got, held>>

EofTimer ==
  /\ eof = "armed" /\ eof' = "due"
  /\ UNCHANGED <<length, writing, known, scanDue, playPtr, consumed, blockPtr, blockSize, got, held>>

-----------------------------------------------------------------------------
(* Read: what has been returned is given up; the cache is used as long as two packets  *)
(* are left in it, and then filled again when there is a whole block.                   *)

\* Faulty variant: every read that finds nothing starts the wait.
ToldRearmed(count) ==
  \/ count = "packet" /\ got' = "packet" /\ eof' = "no"
  \/ count = "nothing" /\ got' = "nothing" /\ eof' = "armed"

Told(count) ==
  \/ count = "packet" /\ got' = "packet" /\ eof' = "no"
  \/ count = "nothing" /\ eof = "due" /\ got' = "end" /\ UNCHANGED eof
  \/ count = "nothing" /\ eof = "armed" /\ got' = "nothing" /\ UNCHANGED eof
  \/ count = "nothing" /\ eof = "no" /\ got' = "nothing" /\ eof' = "armed"

\* The packet starts less than a packet's length ahead: the files of a recording are whole
\* packets, and so there is one in n bytes up to the end of a file.
GivePacket(ptr, n) ==
  \E k \in 0..(PacketLength - 1) :
    /\ k + PacketLength <= n
    /\ consumed' = k + PacketLength
    /\ held' = <<ptr + k, ptr + k + PacketLength>>
    /\ Told("packet")

Cached(ptr) == blockSize # 0 /\ ptr + BlockMargin <= blockSize

\* Faulty variant: what is left of the block is given up, too.
ConsumedBlock ==
  LET n == IF blockSize - blockPtr > consumed THEN blockSize - blockPtr ELSE consumed
  IN IF playPtr + n >= known THEN 0 ELSE playPtr + n

\* The read pointer runs over the length known only if less than two packets are left of
\* a block that ends there; the code starts again at the beginning then.
Consumed ==
  LET p == playPtr + consumed IN IF p >= known THEN p - known ELSE p

ReadCached ==
  LET ptr == blockPtr + consumed
      p == IF consumed = 0 THEN playPtr ELSE Consumed
  IN /\ got # "end"
     /\ Cached(ptr)
     /\ playPtr' = p /\ blockPtr' = ptr
     /\ GivePacket(p, blockSize - ptr)
     /\ UNCHANGED <<length, writing, known, scanDue, blockSize>>

\* getBlock ends at the end of a file, and finds nothing in one that cannot be opened, or
\* at a negative position: this is an unsigned number behind the end.
BlockAt(p) == IF p < 0 THEN {0} ELSE 0..BlockMax

\* Less than a packet was read: the byte that is looked at may be left from the block
\* before, and so may be the packet behind it.
GiveLeftOver ==
  \/ consumed' = PacketLength /\ held' = NoPacket /\ Told("packet")
  \/ consumed' = 0 /\ Told("nothing") /\ UNCHANGED held

\* Available() looks at the length again when its timer has timed out; getBlock does when
\* the position is behind the end.
ReadNew ==
  LET ptr == blockPtr + consumed
      p == IF consumed = 0 THEN playPtr ELSE Consumed
      size == IF scanDue THEN length ELSE known
      enough == size - p >= BlockMax
  IN /\ got # "end"
     /\ ~Cached(ptr)
     /\ playPtr' = p /\ scanDue' = FALSE
     /\ known' = IF enough /\ p < 0 THEN length ELSE size
     /\ \/ /\ enough /\ blockPtr' = 0
           /\ blockSize' \in BlockAt(p)
           /\ IF blockSize' >= PacketLength THEN GivePacket(p, blockSize') ELSE GiveLeftOver
        \/ /\ ~enough /\ blockPtr' = ptr
           /\ consumed' = 0 /\ Told("nothing") /\ UNCHANGED <<blockSize, held>>
     /\ UNCHANGED <<length, writing>>

\* A seek: it scans the recording, and then goes to where a packet was read, or back from
\* the last block without a look at how much there is (demuxer.c, SeekTime).
Seek ==
  /\ got # "end"
  /\ \E pos \in (-BackStep)..length : playPtr' = IF pos >= length THEN pos - length ELSE pos
  /\ known' = length /\ consumed' = 0 /\ blockSize' = 0 /\ held' = NoPacket
  /\ UNCHANGED <<length, writing, scanDue, blockPtr, eof, got>>

RecordingNext ==
  \/ Grow \/ StopRecording \/ ScanTimer \/ EofTimer
  \/ ReadCached \/ ReadNew \/ Seek
  \/ got = "end" /\ ~writing /\ UNCHANGED recordingVars

RecordingSpec == RecordingInit /\ [][RecordingNext]_recordingVars

\* The streamer's thread reads in a loop, and time passes.
RecordingFairSpec ==
  /\ RecordingSpec
  /\ WF_recordingVars(ReadCached \/ ReadNew)
  /\ WF_recordingVars(ScanTimer) /\ WF_recordingVars(EofTimer)

-----------------------------------------------------------------------------
(* Correctness.                                                                 *)

\* Packets come in the order of the recording, however it grows between two looks at its
\* length, until somebody seeks: none overlaps the one before, and between two there is no
\* more than the search for the next one's start passes over.  The end is reported only
\* when a look at the length has found less than a block, or a file less than a packet.
PlayedInOrder ==
  [][/\ held # NoPacket /\ held' # held /\ held' # NoPacket =>
          held'[1] \in held[2]..(held[2] + PacketLength - 1)
     /\ got' = "end" /\ got # "end" =>
          got = "nothing" /\ (known' - playPtr' < BlockMax \/ blockSize' < PacketLength)]_recordingVars

\* The player of a recording that is not written any more is told the end, unless somebody
\* seeks again and again.
EndReached == <>[](~writing) /\ <>[][~Seek]_recordingVars => <>(got = "end")

=============================================================================
