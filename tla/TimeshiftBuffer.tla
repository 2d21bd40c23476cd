--------------------------- MODULE TimeshiftBuffer ---------------------------
(***************************************************************************)
(* The timeshift ring buffer in memory (cVideoBufferRAM, videobuffer.c)    *)
(* with the three parties that touch it:                                   *)
(*                                                                         *)
(*   - the writer: VDR's device thread, cVideoInput::Receive -> Put;       *)
(*   - the reader: whoever holds the demuxer's mutex and calls ReadBlock   *)
(*     (the streamer thread in cVNSIDemuxer::Read, or a seeking client);   *)
(*   - the seeker: the client's thread in cVNSIDemuxer::SeekTime, which    *)
(*     takes a snapshot of the positions once and then probes positions    *)
(*     of that snapshot with SetPos and ReadBlock while the writer goes    *)
(*     on.  It holds the demuxer's mutex, so it is never concurrent with   *)
(*     a ReadBlock of the streamer.                                        *)
(*                                                                         *)
(* A byte is represented by its stamp: its index in the stream of bytes    *)
(* the buffer accepted.  SyncBytes are the stamps of the bytes whose value *)
(* is TS_SYNC_BYTE.  The buffer's own mutex makes each locked section one  *)
(* action; every memcpy is an action of its own.                           *)
(***************************************************************************)
EXTENDS Integers, FiniteSets

CONSTANTS
  BufferSize,    \* m_BufferSize
  TSSize,        \* TS_SIZE, the length of a transport stream packet
  Margin,        \* MARGIN, the distance kept between writer and reader
  Chunks,        \* the sizes Put is called with
  MaxChunk,      \* a bound of them
  SyncBytes,     \* the stamps of the bytes equal to TS_SYNC_BYTE
  EndStep,       \* the first step of SeekTime back from the end (1024)
  StreamLength   \* bound: the number of bytes the device delivers

ReadMargin == 2 * TSSize    \* m_Margin

ASSUME SizeAssumption ==
  /\ TSSize \in Nat \ {0}
  /\ Margin \in Nat /\ ReadMargin <= Margin
  /\ BufferSize \in Nat /\ 3 * Margin < BufferSize
  /\ EndStep \in Nat \ {0}
  /\ StreamLength \in Nat

\* The device delivers whole packets, a few at a time.
ASSUME ChunkAssumption ==
  /\ MaxChunk \in Nat \ {0} /\ 2 * MaxChunk <= Margin
  /\ Chunks \subseteq 1 .. MaxChunk

\* A transport stream: every TSSize consecutive bytes hold a packet start,
\* and a packet start is followed by the next one TSSize bytes later.
ASSUME SyncAssumption ==
  /\ SyncBytes \subseteq Nat
  /\ \A s \in 0 .. StreamLength : \E k \in 0 .. TSSize - 1 :
       s + k \in SyncBytes /\ s + k + TSSize \in SyncBytes

VARIABLES
  mem,            \* m_BufferPtr[0 .. m_BufferSize - 1], each cell a stamp
  writePtr,       \* m_WritePtr
  readPtr,        \* m_ReadPtr
  bufferFull,     \* m_BufferFull
  bytesConsumed,  \* m_BytesConsumed
  wpc, size,      \* Put: where the writer is, and the bytes it still has to copy
  rpc, readBytes, \* ReadBlock: where the reader is, and its local readBytes
  snap,           \* SeekTime: the positions it works with, or NoSnap
  written,        \* history: the number of bytes accepted so far
  readPos,        \* history: the stamp of the byte at readPtr
  strayed         \* history: a seek went outside its window or was too slow

writerVars == <<mem, writePtr, bufferFull, wpc, size, written>>
readerVars == <<readPtr, bytesConsumed, rpc, readBytes, snap, readPos, strayed>>
vars == <<writerVars, readerVars>>

Positions == [cur : Int, min : Int, max : Int, at : Int,
              stage : {"min", "cur", "last", "back", "bisect"}]

NoSnap == [cur |-> 0, min |-> 0, max |-> -1, at |-> -1, stage |-> "min"]

-----------------------------------------------------------------------------
(* Positions *)

Avail(r, w) == IF r <= w THEN w - r ELSE BufferSize - (r - w)
Available == Avail(readPtr, writePtr)

\* Faulty variant: a pointer is not brought back into the ring.
WrappedNever(p) == p

Wrapped(p) == IF p >= BufferSize THEN p - BufferSize ELSE p

\* Faulty variant: the oldest position is the byte the writer overwrites next.
GetPosMinNoMargin == IF ~bufferFull THEN 0 ELSE Wrapped(writePtr + 1)

GetPosMin == IF ~bufferFull THEN 0 ELSE Wrapped(writePtr + 2 * Margin)
GetPosMax == IF writePtr < GetPosMin THEN writePtr + BufferSize ELSE writePtr
GetPosCur == IF readPtr < GetPosMin THEN readPtr + BufferSize ELSE readPtr

\* Faulty variant: the tail is copied only for the ring's last packet.
NearEndOnePacket == readPtr > BufferSize - TSSize

\* The tail of the ring is copied in front of it when the reader is this close
\* to the end; then, and only then, a block may run over the end of the ring.
NearEnd == readPtr > BufferSize - ReadMargin

\* What the reader finds k bytes after readPtr: the cell's index in the ring, or
\* an index outside the ring when no copy of the tail covers it.
Addr(k) == IF NearEnd THEN Wrapped(readPtr + k) ELSE readPtr + k

InRing(a) == a \in 0 .. BufferSize - 1

-----------------------------------------------------------------------------
(* Put: the device thread *)

Init ==
  /\ mem = [i \in 0 .. BufferSize - 1 |-> i - BufferSize]
  /\ writePtr = 0 /\ readPtr = 0
  /\ bufferFull = FALSE
  /\ bytesConsumed = 0
  /\ wpc = "idle" /\ size = 0
  /\ rpc = "idle" /\ readBytes = 0
  /\ snap = NoSnap
  /\ written = 0 /\ readPos = 0
  /\ strayed = FALSE

\* The chunk is dropped when the buffer is full, whatever its size.
PutDrop ==
  /\ wpc = "idle"
  /\ Available + Margin >= BufferSize
  /\ UNCHANGED vars

\* Faulty variant: no margin is kept between the writer and the reader.
PutStartNoMargin(n) ==
  /\ wpc = "idle"
  /\ written + n <= StreamLength
  /\ Available < BufferSize
  /\ size' = n
  /\ wpc' = IF BufferSize - writePtr <= n THEN "tail" ELSE "copy"
  /\ UNCHANGED <<mem, writePtr, bufferFull, written, readerVars>>

PutStart(n) ==
  /\ wpc = "idle"
  /\ written + n <= StreamLength
  /\ Available + Margin < BufferSize
  /\ size' = n
  /\ wpc' = IF BufferSize - writePtr <= n THEN "tail" ELSE "copy"
  /\ UNCHANGED <<mem, writePtr, bufferFull, written, readerVars>>

Filled(first, n) ==
  [i \in 0 .. BufferSize - 1 |->
     IF first <= i /\ i < first + n THEN written + (i - first) ELSE mem[i]]

\* memcpy up to the end of the ring
PutCopyTail ==
  /\ wpc = "tail"
  /\ mem' = Filled(writePtr, BufferSize - writePtr)
  /\ wpc' = "wrap"
  /\ UNCHANGED <<writePtr, bufferFull, size, written, readerVars>>

\* m_WritePtr = 0, published under the lock before the rest is copied
PutWrap ==
  /\ wpc = "wrap"
  /\ size' = size - (BufferSize - writePtr)
  /\ written' = written + (BufferSize - writePtr)
  /\ writePtr' = 0
  /\ wpc' = "copy"
  /\ UNCHANGED <<mem, bufferFull, readerVars>>

PutCopy ==
  /\ wpc = "copy"
  /\ mem' = Filled(writePtr, size)
  /\ wpc' = "publish"
  /\ UNCHANGED <<writePtr, bufferFull, size, written, readerVars>>

PutPublish ==
  /\ wpc = "publish"
  /\ writePtr' = writePtr + size
  /\ written' = written + size
  /\ bufferFull' = (bufferFull \/ writePtr + size + 2 * Margin > BufferSize)
  /\ size' = 0
  /\ wpc' = "idle"
  /\ UNCHANGED <<mem, readerVars>>

-----------------------------------------------------------------------------
(* ReadBlock: the holder of the demuxer's mutex *)

\* Faulty variant: the bytes given up are read again.
ReadConsumeForgets ==
  /\ rpc = "idle"
  /\ bytesConsumed' = 0
  /\ rpc' = "avail"
  /\ UNCHANGED <<readPtr, readPos, readBytes, snap, strayed, writerVars>>

\* The bytes of the block returned last are only given up here.
ReadConsume ==
  /\ rpc = "idle"
  /\ readPtr' = Wrapped(readPtr + bytesConsumed)
  /\ readPos' = readPos + bytesConsumed
  /\ bytesConsumed' = 0
  /\ rpc' = "avail"
  /\ UNCHANGED <<readBytes, snap, strayed, writerVars>>

\* Faulty variant: the reader waits for the writer's margin, too.
ReadCheckTooMuch ==
  /\ rpc = "avail"
  /\ IF Available < ReadMargin + Margin
     THEN rpc' = "idle" /\ UNCHANGED readBytes
     ELSE rpc' = "scan" /\ readBytes' = Available
  /\ UNCHANGED <<readPtr, bytesConsumed, snap, readPos, strayed, writerVars>>

ReadCheck ==
  /\ rpc = "avail"
  /\ IF Available < ReadMargin
     THEN rpc' = "idle" /\ UNCHANGED readBytes
     ELSE rpc' = "scan" /\ readBytes' = Available
  /\ UNCHANGED <<readPtr, bytesConsumed, snap, readPos, strayed, writerVars>>

\* A byte outside the ring reads as whatever the memory holds there: junk says
\* whether it looks like a sync byte.
IsSync(k, junk) ==
  IF InRing(Addr(k)) THEN mem[Addr(k)] \in SyncBytes ELSE junk

SyncAt(k, junk) == IsSync(k, junk) /\ IsSync(k + TSSize, junk)

\* The sync search: the first k with a sync byte at k and at k + TSSize, or, when
\* there is none, the last position with a whole packet.
Skip(k, junk) ==
  /\ k \in 0 .. readBytes - TSSize
  /\ \A j \in 0 .. k - 1 : ~SyncAt(j, junk)
  /\ k = readBytes - TSSize \/ SyncAt(k, junk)

ReadScan ==
  /\ rpc = "scan"
  /\ \E k \in 0 .. readBytes - TSSize, junk \in BOOLEAN :
       /\ Skip(k, junk)
       /\ IF IsSync(k, junk)
          THEN bytesConsumed' = k + TSSize /\ rpc' = "hold"
          ELSE bytesConsumed' = k /\ rpc' = "idle"
  /\ readBytes' = 0
  /\ UNCHANGED <<readPtr, snap, readPos, strayed, writerVars>>

\* The demuxer is done with the block it was handed.
Process ==
  /\ rpc = "hold"
  /\ rpc' = "idle"
  /\ UNCHANGED <<readPtr, bytesConsumed, readBytes, snap, readPos, strayed, writerVars>>

-----------------------------------------------------------------------------
(* SeekTime: a client's thread, inside the demuxer's mutex *)

SeekBegin ==
  /\ rpc = "idle"
  /\ snap = NoSnap
  /\ snap' = [cur |-> GetPosCur, min |-> GetPosMin, max |-> GetPosMax,
               at |-> written, stage |-> "min"]
  /\ UNCHANGED <<readPtr, bytesConsumed, rpc, readBytes, readPos, strayed, writerVars>>

\* The order in which SeekTime visits the oldest position, the current one, the
\* end, and positions in between.  From the end it steps back in doubling steps until
\* it finds a time stamp: the first step is taken without a look at the position, so
\* it may be negative; the later ones look only at zero, so they may leave the window
\* at its old end.  GetPosCur is where the last probe was left.
Probes ==
  [min    |-> {snap.min},
   cur    |-> {snap.cur},
   last   |-> {snap.max - EndStep},
   back   |-> {p \in 0 .. snap.max :
                 \E k \in 2 .. 20 : p = snap.max - EndStep * (2 ^ k - 1)},
   bisect |-> snap.min .. snap.max \cup {GetPosCur}][snap.stage]

NextStages ==
  [min    |-> {"min", "cur"},
   cur    |-> {"last"},
   last   |-> {"back", "bisect"},
   back   |-> {"back", "bisect"},
   bisect |-> {"bisect"}][snap.stage]

\* The writer may have moved this far since the snapshot for its positions to be
\* sound.
OnTime == written - snap.at + 2 * MaxChunk <= Margin

\* Faulty variant: the bytes of the block returned last are skipped at the new position.
SetPosKeepsConsumed(pos) ==
  /\ rpc = "idle"
  /\ snap # NoSnap
  /\ snap.stage \in {"cur", "bisect"} => bytesConsumed > 0
  /\ readPtr' = Wrapped(pos)
  /\ readPos' = written - Avail(Wrapped(pos), writePtr)
  /\ \E s \in NextStages : snap' = [snap EXCEPT !.stage = s]
  /\ strayed' = (strayed \/ ~OnTime \/ pos < snap.min)
  /\ UNCHANGED <<bytesConsumed, rpc, readBytes, writerVars>>

\* A probe reads blocks until one of them has a time stamp; unless that succeeded at
\* the oldest position, at the end and at the last position tried, SeekTime gives up.
\* Which packet carries a time stamp is left open.
SetPos(pos) ==
  /\ rpc = "idle"
  /\ snap # NoSnap
  /\ snap.stage \in {"cur", "bisect"} => bytesConsumed > 0
  /\ readPtr' = Wrapped(pos)
  /\ readPos' = written - Avail(Wrapped(pos), writePtr)
  /\ bytesConsumed' = 0
  /\ \E s \in NextStages : snap' = [snap EXCEPT !.stage = s]
  /\ strayed' = (strayed \/ ~OnTime \/ pos < snap.min)
  /\ UNCHANGED <<rpc, readBytes, writerVars>>

\* SeekTime gives up or is done, but never between the current position and the end.
SeekEnd ==
  /\ rpc = "idle"
  /\ snap # NoSnap
  /\ snap.stage \in {"min", "back", "bisect"}
  /\ snap' = NoSnap
  /\ UNCHANGED <<readPtr, bytesConsumed, rpc, readBytes, readPos, strayed, writerVars>>

-----------------------------------------------------------------------------
Put == PutDrop \/ (\E n \in Chunks : PutStart(n))
         \/ PutCopyTail \/ PutWrap \/ PutCopy \/ PutPublish
ReadBlock == ReadConsume \/ ReadCheck \/ ReadScan
SeekTime == SeekBegin \/ (\E pos \in Probes : SetPos(pos)) \/ SeekEnd

Next == Put \/ ReadBlock \/ Process \/ SeekTime

Spec == Init /\ [][Next]_vars

\* The streamer thread calls Read in a loop and returns to it from each block.  Nothing is
\* assumed of the device.
Fairness == WF_vars(ReadBlock) /\ WF_vars(Process)

FairSpec == Spec /\ Fairness

\* The packet the demuxer holds, as the memory shows it.
Block ==
  IF rpc # "hold" THEN [j \in {} |-> 0]
  ELSE [j \in 1 .. TSSize |->
          LET a == Addr(bytesConsumed - TSSize + j - 1)
          IN  IF InRing(a) THEN mem[a] ELSE -1]

Stream == INSTANCE TimeshiftStream WITH
  Capacity <- BufferSize, PacketSize <- TSSize, MaxAppend <- MaxChunk,
  taken <- bytesConsumed, block <- Block, lost <- strayed

-----------------------------------------------------------------------------
(* Properties *)

\* The pointers stay inside the ring, whatever Put, ReadBlock and a seek add to them; a
\* seek may leave m_ReadPtr below it.
TypeOK ==
  /\ mem \in [0 .. BufferSize - 1 -> Int]
  /\ writePtr \in 0 .. BufferSize - 1
  /\ readPtr \in Int /\ readPtr < BufferSize
  /\ bufferFull \in BOOLEAN
  /\ bytesConsumed \in Nat
  /\ wpc \in {"idle", "tail", "wrap", "copy", "publish"}
  /\ size \in Nat
  /\ rpc \in {"idle", "avail", "scan", "hold"}
  /\ readBytes \in Nat
  /\ snap \in Positions
  /\ written \in Nat
  /\ readPos \in Int
  /\ strayed \in BOOLEAN

\* The distance of two pointers modulo the size of the ring tells how much there is
\* to read only as long as the writer never reaches the reader from behind: a full
\* ring must never look like an empty one, through every interleaving of the two
\* steps in which Put publishes a chunk that wraps.  Put's check looks at neither
\* the chunk's size nor at what a seek does after it: MARGIN has to cover both.
NeverLapped ==
  ~strayed => /\ readPos + Available = written
              /\ Available + size < BufferSize

\* The block handed to the demuxer stays what it was when it was received, byte by
\* byte, until the demuxer is done with it, although Put goes on writing and
\* ReadBlock hands out a pointer into the ring.
BlockIntact ==
  (~strayed /\ rpc = "hold") =>
    \A k \in bytesConsumed - TSSize .. bytesConsumed - 1 :
      InRing(Addr(k)) /\ mem[Addr(k)] = readPos + k

\* Every position GetPositions offers to a seek, from the oldest to the newest, holds
\* the byte that belongs there: the writer has not come round to it yet.
WindowIntact ==
  \A p \in GetPosMin .. GetPosMax - 1 :
    mem[Wrapped(p)] = written - (GetPosMax - p)

\* The sync search and the packet it finds stay inside the ring: m_Margin, two
\* packets, is enough both for the copy of the tail and for the look ahead.
SearchInRing ==
  (~strayed /\ rpc = "scan") =>
    \A k \in 0 .. readBytes - TSSize, junk \in BOOLEAN :
      Skip(k, junk) => \A j \in 0 .. k + TSSize : j < readBytes => InRing(Addr(j))

\* "check if we have anything to read" (videobuffer.c:296): what ReadBlock finds to be
\* readable was put into the buffer at some time.
AnythingToRead == rpc = "scan" => readBytes <= written

\* When m_Margin bytes are there to be read, ReadBlock finds a packet among them: an
\* empty answer always means that the reader has caught up with the writer.
ScanSucceeds ==
  [][ (rpc = "scan" /\ rpc' # "scan" /\ ~strayed) => rpc' = "hold" ]_vars

\* The ring implements the window on a stream that TimeshiftStream promises: every
\* step of Put, of ReadBlock and of a seek is a step of it or changes nothing there,
\* as long as seeks use positions of their snapshot's window while it is fresh.  So
\* the demuxer gets every packet, in order and once, until somebody seeks.
ImplementsStream == Stream!Spec

\* A reader that has m_Margin bytes in front of it, behind the block it was given
\* last, is given another one: it never starves on data that is there.
ReaderProgress ==
  (Available - bytesConsumed >= ReadMargin /\ snap = NoSnap /\ ~strayed)
    ~> (rpc = "hold" \/ snap # NoSnap)

\* A full buffer, which makes Put drop what the device delivers, does not stay full
\* while the reader reads.
WriterProgress ==
  (Available + Margin >= BufferSize /\ snap = NoSnap /\ ~strayed)
    ~> (Available + Margin < BufferSize \/ snap # NoSnap)

=============================================================================
