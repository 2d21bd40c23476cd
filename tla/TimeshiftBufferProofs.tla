------------------------ MODULE TimeshiftBufferProofs ------------------------
(***************************************************************************)
(* Proofs about the ring buffer of module TimeshiftBuffer, for every size  *)
(* of the ring, of the packets and of the chunks.                          *)
(*                                                                         *)
(* The inductive invariant has four parts: what the writer's steps mean    *)
(* for its pointers (WriterInv), what every cell of the ring holds outside *)
(* the chunk being copied (MemInv), what the snapshot of a seek is worth   *)
(* as the writer moves on (SnapInv), and where the reader stands           *)
(* (ReaderInv).                                                            *)
(***************************************************************************)
EXTENDS TimeshiftBuffer, TLAPS

\* Put has room for its chunk: either up to the end of the ring and beyond it, or
\* below it.  The buffer is called full before the pointer can wrap.
WriterInv ==
  /\ size <= MaxChunk
  /\ written + size <= StreamLength
  /\ wpc = "idle" => size = 0
  /\ wpc \in {"tail", "wrap"} => BufferSize - writePtr <= size
  /\ wpc \in {"copy", "publish"} => writePtr + size < BufferSize
  /\ ~bufferFull => written = writePtr /\ writePtr + 2 * Margin <= BufferSize
  /\ bufferFull => BufferSize < written + 2 * Margin

\* Below writePtr the ring holds this lap's bytes, from writePtr on the last lap's.
\* The cells of the chunk being copied hold the new bytes once they are copied.
MemInv ==
  \A i \in 0 .. BufferSize - 1 :
    /\ i < writePtr => mem[i] = written - writePtr + i
    /\ i >= writePtr + size => mem[i] = written - writePtr + i - BufferSize
    /\ wpc = "wrap" /\ i >= writePtr => mem[i] = written - writePtr + i
    /\ wpc = "publish" /\ i >= writePtr /\ i < writePtr + size =>
         mem[i] = written - writePtr + i

\* The bytes that can have been accepted since the snapshot.
Age == written - snap.at

\* A position of the snapshot's window is as far behind the writer as it was then,
\* and the writer's progress on top of it; so is the position that was current.
SnapInv ==
  snap # NoSnap =>
    /\ 0 <= snap.at /\ snap.at <= written
    /\ 0 <= snap.min /\ snap.min <= snap.max /\ snap.max < 2 * BufferSize
    /\ snap.max - snap.min <= BufferSize - 2 * Margin
    /\ snap.max - snap.min <= snap.at
    /\ Age <= Margin => \/ writePtr = snap.max + Age
                        \/ writePtr = snap.max + Age - BufferSize
                        \/ writePtr = snap.max + Age - 2 * BufferSize
    /\ snap.cur < 2 * BufferSize
    /\ (~strayed /\ snap.stage \in {"min", "cur"} /\ OnTime) =>
         /\ 0 <= snap.cur
         /\ Avail(Wrapped(snap.cur), writePtr) < BufferSize - Margin + MaxChunk + Age
         /\ Avail(Wrapped(snap.cur), writePtr) <= written

\* Only between the current position and the end does a seek leave the reader closer
\* to the writer's back than Put itself would have let it come.
AtCur == snap # NoSnap /\ snap.stage = "last"

ReaderInv ==
  ~strayed =>
    /\ 0 <= readPtr
    /\ readPos + Available = written
    /\ 0 <= readPos
    /\ Available + size < BufferSize
    /\ ~AtCur => Available + size < BufferSize - Margin + MaxChunk
    /\ bytesConsumed <= Available
    /\ rpc \in {"avail", "scan"} => bytesConsumed = 0
    /\ rpc = "scan" => ReadMargin <= readBytes /\ readBytes <= Available
    /\ rpc = "hold" => TSSize <= bytesConsumed /\ bytesConsumed < ReadMargin

\* What keeps the pointers in range even after a stray seek.
RangeInv ==
  /\ readPtr + bytesConsumed < 2 * BufferSize
  /\ rpc = "scan" => TSSize <= readBytes /\ readPtr + readBytes < 2 * BufferSize

IInv == TypeOK /\ WriterInv /\ MemInv /\ SnapInv /\ ReaderInv /\ RangeInv

LEMMA Constants ==
  /\ TSSize \in Nat /\ TSSize > 0
  /\ ReadMargin = 2 * TSSize
  /\ Margin \in Nat /\ ReadMargin <= Margin
  /\ BufferSize \in Nat /\ 3 * Margin < BufferSize
  /\ EndStep \in Nat /\ EndStep > 0
  /\ StreamLength \in Nat
  /\ MaxChunk \in Nat /\ MaxChunk > 0 /\ 2 * MaxChunk <= Margin
BY SizeAssumption, ChunkAssumption DEF ReadMargin

\* A snapshot's fields.
LEMMA SnapFields ==
  ASSUME snap \in Positions
  PROVE  /\ snap.cur \in Int /\ snap.min \in Int /\ snap.max \in Int /\ snap.at \in Int
         /\ snap.stage \in {"min", "cur", "last", "back", "bisect"}
BY DEF Positions

LEMMA NoSnapType == NoSnap \in Positions
BY DEF NoSnap, Positions

\* A pointer w that is age bytes past the position max still is when both move by d.
LEMMA Follows ==
  ASSUME NEW w \in 0 .. BufferSize - 1, NEW max \in Int, NEW age \in Nat, NEW d \in Nat,
         NEW w2 \in 0 .. BufferSize - 1,
         0 <= max, max < 2 * BufferSize,
         w2 = w + d \/ w2 = w + d - BufferSize,
         age + d <= Margin,
         w = max + age \/ w = max + age - BufferSize \/ w = max + age - 2 * BufferSize
  PROVE  \/ w2 = max + (age + d)
         \/ w2 = max + (age + d) - BufferSize
         \/ w2 = max + (age + d) - 2 * BufferSize
BY Constants

\* The initial state satisfies the invariant.
LEMMA InitInv == Init => IInv
<1> SUFFICES ASSUME Init PROVE IInv
  OBVIOUS
<1> USE Constants DEF Init
<1>1. TypeOK
  <2>1. mem \in [0 .. BufferSize - 1 -> Int]
    OBVIOUS
  <2>2. snap \in Positions
    BY NoSnapType
  <2>3. writePtr \in 0 .. BufferSize - 1 /\ readPtr < BufferSize
    OBVIOUS
  <2>4. /\ bytesConsumed \in Nat /\ size \in Nat /\ readBytes \in Nat /\ written \in Nat
        /\ readPtr \in Int /\ readPos \in Int
    OBVIOUS
  <2>5. bufferFull \in BOOLEAN /\ strayed \in BOOLEAN /\ wpc = "idle" /\ rpc = "idle"
    BY Zenon
  <2>6. QED
    BY <2>1, <2>2, <2>3, <2>4, <2>5, Zenon DEF TypeOK
<1>2. WriterInv
  BY DEF WriterInv
<1>3. MemInv
  BY DEF MemInv
<1>4. SnapInv
  BY DEF SnapInv
<1>5. ReaderInv /\ RangeInv
  BY DEF ReaderInv, RangeInv, Available, Avail, AtCur, NoSnap
<1>6. QED
  BY <1>1, <1>2, <1>3, <1>4, <1>5 DEF IInv

LEMMA PutStartInv ==
  ASSUME IInv, NEW n \in Chunks, PutStart(n)
  PROVE  IInv'
<1> USE Constants DEF PutStart, writerVars, readerVars, IInv, TypeOK
<1>1. TypeOK'
  BY ChunkAssumption DEF WriterInv
<1>2. WriterInv'
  BY ChunkAssumption DEF WriterInv, Available, Avail
<1>3. MemInv'
  <2>1. size = 0 /\ n \in Nat /\ wpc' \in {"tail", "copy"} /\ size' = n
    BY ChunkAssumption DEF WriterInv
  <2>2. QED
    BY <2>1 DEF MemInv
<1>4. SnapInv'
  BY DEF SnapInv, Age, OnTime
<1>5. ReaderInv'
  <2>1. n \in Nat /\ n <= MaxChunk
    BY ChunkAssumption
  <2>2. QED
    BY <2>1 DEF WriterInv, ReaderInv, Available, Avail, AtCur
<1>6. RangeInv'
  BY DEF RangeInv
<1>7. QED
  BY <1>1, <1>2, <1>3, <1>4, <1>5, <1>6

LEMMA PutCopyTailInv ==
  ASSUME IInv, PutCopyTail
  PROVE  IInv'
<1> USE Constants DEF PutCopyTail, writerVars, readerVars, IInv, TypeOK
<1>1. TypeOK'
  BY DEF Filled
<1>2. WriterInv'
  BY DEF WriterInv
<1>3. MemInv'
  BY DEF MemInv, WriterInv, Filled
<1>4. SnapInv'
  BY DEF SnapInv, Age, OnTime
<1>5. ReaderInv'
  BY DEF ReaderInv, Available, AtCur
<1>6. RangeInv'
  BY DEF RangeInv
<1>7. QED
  BY <1>1, <1>2, <1>3, <1>4, <1>5, <1>6

LEMMA PutWrapInv ==
  ASSUME IInv, PutWrap
  PROVE  IInv'
<1> USE Constants DEF PutWrap, writerVars, readerVars, IInv, TypeOK
<1>1. TypeOK'
  BY DEF WriterInv
<1>2. WriterInv'
  BY DEF WriterInv
<1>3. MemInv'
  BY DEF MemInv, WriterInv
<1>4. SnapInv'
  <2> SUFFICES ASSUME snap # NoSnap
               PROVE  SnapInv'
    BY DEF SnapInv
  <2>1. /\ snap.cur \in Int /\ snap.min \in Int /\ snap.max \in Int /\ snap.at \in Int
    BY SnapFields
  <2>2. /\ Age' = Age + (BufferSize - writePtr)
        /\ Age \in Int /\ 0 <= Age
    BY <2>1 DEF Age, SnapInv, WriterInv
  <2>3. /\ snap.at <= written'
        /\ Age' <= Margin => \/ writePtr' = snap.max + Age'
                             \/ writePtr' = snap.max + Age' - BufferSize
                             \/ writePtr' = snap.max + Age' - 2 * BufferSize
    <3>1. /\ 0 <= snap.max /\ snap.max < 2 * BufferSize /\ snap.at <= written
          /\ Age <= Margin => \/ writePtr = snap.max + Age
                              \/ writePtr = snap.max + Age - BufferSize
                              \/ writePtr = snap.max + Age - 2 * BufferSize
      BY <2>1, SMT DEF SnapInv
    <3>2. snap.at <= written'
      BY <2>1, <3>1
    <3>3. Age' \in Int /\ (BufferSize - writePtr) \in Nat
      BY <2>2
    <3>4. /\ writePtr' \in 0 .. BufferSize - 1
          /\ writePtr' = writePtr + BufferSize - writePtr \/ writePtr' = writePtr + BufferSize - writePtr - BufferSize
      BY <1>1 DEF WriterInv
    <3>5. ASSUME Age' <= Margin
          PROVE  \/ writePtr' = snap.max + (Age + (BufferSize - writePtr))
                 \/ writePtr' = snap.max + (Age + (BufferSize - writePtr)) - BufferSize
                 \/ writePtr' = snap.max + (Age + (BufferSize - writePtr)) - 2 * BufferSize
      <4> DEFINE d == BufferSize - writePtr
      <4>1. d \in Nat /\ Age \in Nat /\ Age + d <= Margin /\ Age <= Margin
        BY <2>2, <3>3, <3>5
      <4>2. writePtr' = writePtr + d \/ writePtr' = writePtr + d - BufferSize
        BY <3>4
      <4> HIDE DEF d, PutWrap, PutPublish, TypeOK, IInv
      <4>3. writePtr \in 0 .. BufferSize - 1
        BY DEF IInv, TypeOK
      <4>4. \/ writePtr' = snap.max + (Age + d)
            \/ writePtr' = snap.max + (Age + d) - BufferSize
            \/ writePtr' = snap.max + (Age + d) - 2 * BufferSize
        BY <2>1, <3>1, <3>4, <4>1, <4>2, <4>3, Follows
      <4>5. QED
        BY <4>4 DEF d
    <3>6. QED
      BY <2>2, <3>2, <3>5
  <2>4. ASSUME ~strayed, snap.stage \in {"min", "cur"}, OnTime'
        PROVE  LET c == Wrapped(snap.cur)
               IN  /\ 0 <= snap.cur
                   /\ Avail(c, writePtr') < BufferSize - Margin + MaxChunk + Age'
                   /\ Avail(c, writePtr') <= written'
    <3> DEFINE c == Wrapped(snap.cur)
    <3>1. OnTime
      BY <2>1, <2>2, <2>4 DEF OnTime, Age
    <3>2. /\ 0 <= snap.cur /\ c \in 0 .. BufferSize - 1
          /\ Avail(c, writePtr) < BufferSize - Margin + MaxChunk + Age
          /\ Avail(c, writePtr) <= written
      <4> HIDE DEF PutWrap, PutPublish, TypeOK
      <4>1. snap.cur \in Int /\ snap.cur < 2 * BufferSize
        BY <2>1, SnapFields DEF SnapInv, TypeOK
      <4>2. /\ 0 <= snap.cur
            /\ Avail(c, writePtr) < BufferSize - Margin + MaxChunk + Age
            /\ Avail(c, writePtr) <= written
        BY <2>1, <2>4, <3>1 DEF SnapInv
      <4>3. c \in 0 .. BufferSize - 1
        BY <4>1, <4>2 DEF Wrapped
      <4>4. QED
        BY <4>2, <4>3
    <3>3. Age' + 2 * MaxChunk <= Margin
      BY <2>4 DEF OnTime, Age
    <3> HIDE DEF c
    <3>4. Avail(c, writePtr') = Avail(c, writePtr) + (BufferSize - writePtr)
      BY <2>2, <3>2, <3>3 DEF Avail, WriterInv
    <3>5. QED
      BY <3>2, <3>4, <2>2 DEF c, Avail
  <2>5. QED
    BY <2>1, <2>2, <2>3, <2>4 DEF SnapInv
<1>5. ReaderInv'
  BY DEF ReaderInv, WriterInv, Available, Avail, AtCur
<1>6. RangeInv'
  BY DEF RangeInv
<1>7. QED
  BY <1>1, <1>2, <1>3, <1>4, <1>5, <1>6

LEMMA PutCopyInv ==
  ASSUME IInv, PutCopy
  PROVE  IInv'
<1> USE Constants DEF PutCopy, writerVars, readerVars, IInv, TypeOK
<1>1. TypeOK'
  BY DEF Filled
<1>2. WriterInv'
  BY DEF WriterInv
<1>3. MemInv'
  BY DEF MemInv, WriterInv, Filled
<1>4. SnapInv'
  BY DEF SnapInv, Age, OnTime
<1>5. ReaderInv'
  BY DEF ReaderInv, Available, AtCur
<1>6. RangeInv'
  BY DEF RangeInv
<1>7. QED
  BY <1>1, <1>2, <1>3, <1>4, <1>5, <1>6

LEMMA PutPublishInv ==
  ASSUME IInv, PutPublish
  PROVE  IInv'
<1> USE Constants DEF PutPublish, writerVars, readerVars, IInv, TypeOK
<1>1. TypeOK'
  BY DEF WriterInv
<1>2. WriterInv'
  <2>1. size' = 0 /\ writePtr' = writePtr + size /\ written' = written + size
    OBVIOUS
  <2>2. CASE bufferFull
    <3>1. bufferFull'
      BY <2>2
    <3>2. QED
      BY <2>1, <2>2, <3>1 DEF WriterInv
  <2>3. CASE ~bufferFull
    <3>1. bufferFull' <=> writePtr + size + 2 * Margin > BufferSize
      BY <2>3
    <3>2. QED
      BY <2>1, <2>3, <3>1 DEF WriterInv
  <2>4. QED
    BY <2>2, <2>3
<1>3. MemInv'
  BY DEF MemInv, WriterInv
<1>4. SnapInv'
  <2> SUFFICES ASSUME snap # NoSnap
               PROVE  SnapInv'
    BY DEF SnapInv
  <2>1. /\ snap.cur \in Int /\ snap.min \in Int /\ snap.max \in Int /\ snap.at \in Int
    BY SnapFields
  <2>2. /\ Age' = Age + size
        /\ Age \in Int /\ 0 <= Age
    BY <2>1 DEF Age, SnapInv, WriterInv
  <2>3. /\ snap.at <= written'
        /\ Age' <= Margin => \/ writePtr' = snap.max + Age'
                             \/ writePtr' = snap.max + Age' - BufferSize
                             \/ writePtr' = snap.max + Age' - 2 * BufferSize
    <3>1. /\ 0 <= snap.max /\ snap.max < 2 * BufferSize /\ snap.at <= written
          /\ Age <= Margin => \/ writePtr = snap.max + Age
                              \/ writePtr = snap.max + Age - BufferSize
                              \/ writePtr = snap.max + Age - 2 * BufferSize
      BY <2>1, SMT DEF SnapInv
    <3>2. snap.at <= written'
      BY <2>1, <3>1
    <3>3. Age' \in Int /\ size \in Nat
      BY <2>2
    <3>4. /\ writePtr' \in 0 .. BufferSize - 1
          /\ writePtr' = writePtr + size \/ writePtr' = writePtr + size - BufferSize
      BY <1>1 DEF WriterInv
    <3>5. ASSUME Age' <= Margin
          PROVE  \/ writePtr' = snap.max + (Age + (size))
                 \/ writePtr' = snap.max + (Age + (size)) - BufferSize
                 \/ writePtr' = snap.max + (Age + (size)) - 2 * BufferSize
      <4> DEFINE d == size
      <4>1. d \in Nat /\ Age \in Nat /\ Age + d <= Margin /\ Age <= Margin
        BY <2>2, <3>3, <3>5
      <4>2. writePtr' = writePtr + d \/ writePtr' = writePtr + d - BufferSize
        BY <3>4
      <4> HIDE DEF d, PutWrap, PutPublish, TypeOK, IInv
      <4>3. writePtr \in 0 .. BufferSize - 1
        BY DEF IInv, TypeOK
      <4>4. \/ writePtr' = snap.max + (Age + d)
            \/ writePtr' = snap.max + (Age + d) - BufferSize
            \/ writePtr' = snap.max + (Age + d) - 2 * BufferSize
        BY <2>1, <3>1, <3>4, <4>1, <4>2, <4>3, Follows
      <4>5. QED
        BY <4>4 DEF d
    <3>6. QED
      BY <2>2, <3>2, <3>5
  <2>4. ASSUME ~strayed, snap.stage \in {"min", "cur"}, OnTime'
        PROVE  LET c == Wrapped(snap.cur)
               IN  /\ 0 <= snap.cur
                   /\ Avail(c, writePtr') < BufferSize - Margin + MaxChunk + Age'
                   /\ Avail(c, writePtr') <= written'
    <3> DEFINE c == Wrapped(snap.cur)
    <3>1. OnTime
      BY <2>1, <2>2, <2>4 DEF OnTime, Age
    <3>2. /\ 0 <= snap.cur /\ c \in 0 .. BufferSize - 1
          /\ Avail(c, writePtr) < BufferSize - Margin + MaxChunk + Age
          /\ Avail(c, writePtr) <= written
      <4> HIDE DEF PutWrap, PutPublish, TypeOK
      <4>1. snap.cur \in Int /\ snap.cur < 2 * BufferSize
        BY <2>1, SnapFields DEF SnapInv, TypeOK
      <4>2. /\ 0 <= snap.cur
            /\ Avail(c, writePtr) < BufferSize - Margin + MaxChunk + Age
            /\ Avail(c, writePtr) <= written
        BY <2>1, <2>4, <3>1 DEF SnapInv
      <4>3. c \in 0 .. BufferSize - 1
        BY <4>1, <4>2 DEF Wrapped
      <4>4. QED
        BY <4>2, <4>3
    <3>3. Age' + 2 * MaxChunk <= Margin
      BY <2>4 DEF OnTime, Age
    <3> HIDE DEF c
    <3>4. Avail(c, writePtr') = Avail(c, writePtr) + size
      BY <2>2, <3>2, <3>3 DEF Avail, WriterInv
    <3>5. QED
      BY <3>2, <3>4, <2>2 DEF c, Avail
  <2>5. QED
    BY <2>1, <2>2, <2>3, <2>4 DEF SnapInv
<1>5. ReaderInv'
  BY DEF ReaderInv, WriterInv, Available, Avail, AtCur
<1>6. RangeInv'
  BY DEF RangeInv
<1>7. QED
  BY <1>1, <1>2, <1>3, <1>4, <1>5, <1>6

LEMMA ReadConsumeInv ==
  ASSUME IInv, ReadConsume
  PROVE  IInv'
<1> USE Constants DEF ReadConsume, writerVars, readerVars, IInv, TypeOK
<1>1. TypeOK'
  BY DEF RangeInv, Wrapped
<1>2. WriterInv'
  BY DEF WriterInv
<1>3. MemInv'
  BY DEF MemInv
<1>4. SnapInv'
  BY DEF SnapInv, Age, OnTime
<1>5. ReaderInv'
  BY DEF ReaderInv, Available, Avail, AtCur, Wrapped
<1>6. RangeInv'
  BY DEF RangeInv, Wrapped
<1>7. QED
  BY <1>1, <1>2, <1>3, <1>4, <1>5, <1>6

LEMMA ReadCheckInv ==
  ASSUME IInv, ReadCheck
  PROVE  IInv'
<1> USE Constants DEF ReadCheck, writerVars, readerVars, IInv, TypeOK
<1>1. TypeOK'
  BY DEF Available, Avail, RangeInv
<1>2. WriterInv'
  BY DEF WriterInv
<1>3. MemInv'
  BY DEF MemInv
<1>4. SnapInv'
  BY DEF SnapInv, Age, OnTime
<1>5. ReaderInv'
  BY DEF ReaderInv, Available, Avail, AtCur
<1>6. RangeInv'
  BY DEF RangeInv, Available, Avail
<1>7. QED
  BY <1>1, <1>2, <1>3, <1>4, <1>5, <1>6

LEMMA ProcessInv ==
  ASSUME IInv, Process
  PROVE  IInv'
<1> USE Constants DEF Process, writerVars, readerVars, IInv, TypeOK
<1>1. TypeOK'
  OBVIOUS
<1>2. WriterInv'
  BY DEF WriterInv
<1>3. MemInv'
  BY DEF MemInv
<1>4. SnapInv'
  BY DEF SnapInv, Age, OnTime
<1>5. ReaderInv'
  BY DEF ReaderInv, Available, AtCur
<1>6. RangeInv'
  BY DEF RangeInv
<1>7. QED
  BY <1>1, <1>2, <1>3, <1>4, <1>5, <1>6

LEMMA SeekBeginInv ==
  ASSUME IInv, SeekBegin
  PROVE  IInv'
<1> USE Constants DEF SeekBegin, writerVars, readerVars, IInv, TypeOK
<1>1. TypeOK'
  BY DEF Positions, GetPosCur, GetPosMin, GetPosMax, Wrapped
<1>2. WriterInv'
  BY DEF WriterInv
<1>3. MemInv'
  BY DEF MemInv
<1>4. SnapInv'
  <2>1. /\ snap'.cur = GetPosCur /\ snap'.min = GetPosMin /\ snap'.max = GetPosMax
        /\ snap'.at = written
    OBVIOUS
  <2>2. Age' = 0
    BY <2>1 DEF Age
  <2>3. /\ 0 <= GetPosMin /\ GetPosMin <= GetPosMax /\ GetPosMax < 2 * BufferSize
        /\ GetPosMax - GetPosMin <= BufferSize - 2 * Margin
        /\ GetPosMax - GetPosMin <= written
        /\ writePtr = GetPosMax \/ writePtr = GetPosMax - BufferSize
        /\ GetPosMin \in Int /\ GetPosMax \in Int
    BY DEF GetPosMin, GetPosMax, Wrapped, WriterInv
  <2>4. GetPosCur \in Int /\ GetPosCur < 2 * BufferSize
    BY <2>3 DEF GetPosCur
  <2>5. ~strayed => 0 <= GetPosCur /\ Wrapped(GetPosCur) = readPtr
    BY <2>3 DEF GetPosCur, ReaderInv, Wrapped
  <2>6. ~strayed => /\ Available < BufferSize - Margin + MaxChunk
                    /\ Available <= written
    BY DEF ReaderInv, AtCur, Available, Avail
  <2>7. QED
    BY <2>1, <2>2, <2>3, <2>4, <2>5, <2>6 DEF SnapInv, Available
<1>5. ReaderInv'
  BY DEF ReaderInv, Available, AtCur
<1>6. RangeInv'
  BY DEF RangeInv
<1>7. QED
  BY <1>1, <1>2, <1>3, <1>4, <1>5, <1>6

LEMMA SeekEndInv ==
  ASSUME IInv, SeekEnd
  PROVE  IInv'
<1> USE Constants DEF SeekEnd, writerVars, readerVars, IInv, TypeOK
<1>1. TypeOK'
  BY NoSnapType
<1>2. WriterInv'
  BY DEF WriterInv
<1>3. MemInv'
  BY DEF MemInv
<1>4. SnapInv'
  BY DEF SnapInv, Age, OnTime
<1>5. ReaderInv'
  BY DEF ReaderInv, Available, AtCur
<1>6. RangeInv'
  BY DEF RangeInv
<1>7. QED
  BY <1>1, <1>2, <1>3, <1>4, <1>5, <1>6

\* What the reader has in front of it is there, byte by byte, and not being written.
LEMMA RingCell ==
  ASSUME IInv, ~strayed, NEW k \in Nat, k < Available, NEW i \in 0 .. BufferSize - 1,
         i = readPtr + k \/ i = readPtr + k - BufferSize
  PROVE  mem[i] = readPos + k
<1> USE Constants DEF IInv, TypeOK
<1>1. /\ readPtr \in 0 .. BufferSize - 1
      /\ readPos = written - Available
      /\ Available + size < BufferSize
      /\ Available \in Int
  BY DEF ReaderInv, Available, Avail
<1>2. CASE i < writePtr
  BY <1>1, <1>2 DEF MemInv, Available, Avail
<1>3. CASE writePtr <= i
  <2>1. readPtr > writePtr /\ i = readPtr + k /\ Available = BufferSize - (readPtr - writePtr)
    BY <1>1, <1>3 DEF Available, Avail
  <2>2. i >= writePtr + size
    BY <1>1, <2>1
  <2>3. QED
    BY <1>1, <2>1, <2>2 DEF MemInv
<1>4. QED
  BY <1>2, <1>3

\* The same through the reader's eyes, near the end of the ring or not.
LEMMA Intact ==
  ASSUME IInv, ~strayed, NEW k \in Nat, k < Available, InRing(Addr(k))
  PROVE  mem[Addr(k)] = readPos + k
<1>1. Addr(k) = readPtr + k \/ Addr(k) = readPtr + k - BufferSize
  BY Constants DEF IInv, TypeOK, Addr, Wrapped
<1>2. QED
  BY <1>1, RingCell DEF InRing

\* Two packets' length ahead of the reader is either in the ring or covered by the
\* copy of the ring's tail.
LEMMA LookAhead ==
  ASSUME IInv, ~strayed, NEW k \in Nat, k < Available, NearEnd \/ k < ReadMargin
  PROVE  InRing(Addr(k))
BY Constants DEF IInv, TypeOK, ReaderInv, Available, Avail, InRing, Addr, Wrapped, NearEnd

\* With two packets to read, the search finds a packet in the first packet's length.
LEMMA FirstPacket ==
  ASSUME IInv, ~strayed, rpc = "scan", NEW junk \in BOOLEAN,
         NEW k \in 0 .. readBytes - TSSize, Skip(k, junk)
  PROVE  k < TSSize /\ IsSync(k, junk)
<1> USE Constants
<1>1. /\ readPos \in 0 .. StreamLength /\ readBytes \in Nat
      /\ ReadMargin <= readBytes /\ readBytes <= Available
      /\ Available \in Int
  BY DEF IInv, TypeOK, ReaderInv, WriterInv, Available, Avail
<1>2. PICK k0 \in 0 .. TSSize - 1 : /\ readPos + k0 \in SyncBytes
                                   /\ readPos + k0 + TSSize \in SyncBytes
  BY <1>1, SyncAssumption
<1>3. \A j \in 0 .. ReadMargin - 1 : InRing(Addr(j)) /\ mem[Addr(j)] = readPos + j
  BY <1>1, LookAhead, Intact
<1>4. SyncAt(k0, junk)
  <2>1. k0 \in 0 .. ReadMargin - 1 /\ k0 + TSSize \in 0 .. ReadMargin - 1
    OBVIOUS
  <2>2. IsSync(k0, junk)
    BY <1>2, <1>3, <2>1 DEF IsSync
  <2>3. IsSync(k0 + TSSize, junk)
    <3>1. mem[Addr(k0 + TSSize)] = readPos + (k0 + TSSize) /\ InRing(Addr(k0 + TSSize))
      BY <1>3, <2>1
    <3>2. readPos + (k0 + TSSize) = readPos + k0 + TSSize
      BY <1>1
    <3>3. QED
      BY <1>2, <3>1, <3>2 DEF IsSync
  <2>4. QED
    BY <2>2, <2>3 DEF SyncAt
<1>5. k <= k0
  BY <1>1, <1>2, <1>4 DEF Skip
<1>6. SyncAt(k, junk)
  BY <1>1, <1>2, <1>5 DEF Skip
<1>7. QED
  BY <1>2, <1>5, <1>6 DEF SyncAt

LEMMA ReadScanInv ==
  ASSUME IInv, ReadScan
  PROVE  IInv'
<1> USE Constants DEF writerVars, IInv, TypeOK
<1>1. PICK k \in 0 .. readBytes - TSSize, junk \in BOOLEAN :
        /\ Skip(k, junk)
        /\ IF IsSync(k, junk)
           THEN bytesConsumed' = k + TSSize /\ rpc' = "hold"
           ELSE bytesConsumed' = k /\ rpc' = "idle"
  BY DEF ReadScan
<1>2. /\ rpc = "scan" /\ readBytes' = 0
      /\ UNCHANGED <<readPtr, snap, readPos, strayed, writerVars>>
  BY DEF ReadScan
<1>3. /\ bytesConsumed' \in Nat /\ bytesConsumed' <= readBytes
      /\ rpc' \in {"hold", "idle"}
  BY <1>1
<1>4. ~strayed => rpc' = "hold" /\ TSSize <= bytesConsumed' /\ bytesConsumed' < ReadMargin
  BY <1>1, <1>2, FirstPacket
<1>5. TypeOK' /\ WriterInv' /\ MemInv'
  BY <1>2, <1>3 DEF WriterInv, MemInv
<1>6. SnapInv'
  BY <1>2 DEF SnapInv, Age, OnTime
<1>7. ReaderInv'
  BY <1>2, <1>3, <1>4 DEF ReaderInv, Available, Avail, AtCur
<1>8. RangeInv'
  <2>1. readPtr + readBytes < 2 * BufferSize
    BY <1>2 DEF RangeInv
  <2>2. readPtr \in Int /\ readBytes \in Nat /\ readPtr' = readPtr
    BY <1>2
  <2> HIDE DEF IInv, TypeOK
  <2>3. ASSUME NEW r \in Int, NEW b \in Nat, NEW c \in Nat, c <= b, r + b < 2 * BufferSize
        PROVE  r + c < 2 * BufferSize
    BY <2>3
  <2>4. readPtr' + bytesConsumed' < 2 * BufferSize
    BY <1>3, <2>1, <2>2, <2>3
  <2>5. rpc' # "scan"
    BY <1>3
  <2>6. QED
    BY <2>4, <2>5 DEF RangeInv
<1>9. QED
  BY <1>5, <1>6, <1>7, <1>8

\* The positions a seek visits, and what a visit of one in the window leads to.
LEMMA ProbeTypes ==
  ASSUME IInv, snap # NoSnap, NEW pos \in Probes
  PROVE  /\ pos \in Int /\ pos < 2 * BufferSize
         /\ snap.stage = "min" => pos = snap.min
         /\ snap.stage = "cur" => pos = snap.cur
         /\ snap.stage = "last" => pos = snap.max - EndStep
         /\ snap.stage = "back" => pos \in Int /\ pos <= snap.max
         /\ snap.stage = "bisect" => pos \in snap.min .. snap.max \/ pos = GetPosCur
<1> USE Constants DEF IInv, TypeOK
<1>1. /\ snap.cur \in Int /\ snap.min \in Int /\ snap.max \in Int /\ snap.at \in Int
      /\ snap.stage \in {"min", "cur", "last", "back", "bisect"}
  BY SnapFields
<1>2. snap.min <= snap.max /\ snap.max < 2 * BufferSize /\ snap.cur < 2 * BufferSize
  BY DEF SnapInv
<1>3. GetPosCur \in Int /\ GetPosCur < 2 * BufferSize
  BY DEF GetPosCur, GetPosMin, Wrapped
<1>4. CASE snap.stage = "min"
  BY <1>1, <1>2, <1>4 DEF Probes
<1>5. CASE snap.stage = "cur"
  BY <1>1, <1>2, <1>5 DEF Probes
<1>6. CASE snap.stage = "last"
  BY <1>1, <1>2, <1>6 DEF Probes
<1>7. CASE snap.stage = "back"
  BY <1>1, <1>2, <1>7 DEF Probes
<1>8. CASE snap.stage = "bisect"
  BY <1>1, <1>2, <1>3, <1>8 DEF Probes
<1>9. QED
  BY <1>1, <1>4, <1>5, <1>6, <1>7, <1>8

LEMMA SetPosInv ==
  ASSUME IInv, NEW pos \in Probes, SetPos(pos)
  PROVE  IInv'
<1> USE Constants DEF IInv, TypeOK, writerVars
<1>1. /\ rpc = "idle" /\ snap # NoSnap
      /\ readPtr' = Wrapped(pos)
      /\ readPos' = written - Avail(Wrapped(pos), writePtr)
      /\ bytesConsumed' = 0
      /\ strayed' = (strayed \/ ~OnTime \/ pos < snap.min)
      /\ UNCHANGED <<rpc, readBytes, writerVars>>
  BY DEF SetPos
<1>2. PICK s \in NextStages : snap' = [snap EXCEPT !.stage = s]
  BY DEF SetPos
<1>3. /\ snap.cur \in Int /\ snap.min \in Int /\ snap.max \in Int /\ snap.at \in Int
      /\ snap.stage \in {"min", "cur", "last", "back", "bisect"}
  BY SnapFields
<1>4. /\ s \in {"min", "cur", "last", "back", "bisect"}
      /\ s \in {"min", "cur"} => snap.stage = "min"
      /\ s = "last" <=> snap.stage = "cur"
  <2> HIDE DEF IInv, TypeOK
  <2>1. snap.stage = "min" => s \in {"min", "cur"}
    BY <1>2 DEF NextStages
  <2>2. snap.stage = "cur" => s = "last"
    BY <1>2 DEF NextStages
  <2>3. snap.stage \in {"last", "back"} => s \in {"back", "bisect"}
    BY <1>2 DEF NextStages
  <2>4. snap.stage = "bisect" => s = "bisect"
    BY <1>2 DEF NextStages
  <2>5. QED
    BY <1>3, <2>1, <2>2, <2>3, <2>4
<1>5. /\ snap' \in Positions
      /\ snap'.cur = snap.cur /\ snap'.min = snap.min /\ snap'.max = snap.max
      /\ snap'.at = snap.at /\ snap'.stage = s
  BY <1>2, <1>4 DEF Positions
<1>6. snap' # NoSnap
  BY <1>1, <1>3, <1>5 DEF SnapInv, NoSnap
<1>7. /\ pos \in Int /\ pos < 2 * BufferSize
  BY <1>1, ProbeTypes
<1>8. Wrapped(pos) \in Int /\ Wrapped(pos) < BufferSize
  BY <1>7 DEF Wrapped
<1>9. TypeOK'
  <2>1. readPos' \in Int
    BY <1>1, <1>8 DEF Avail
  <2>2. strayed' \in BOOLEAN
    BY <1>1, Zenon
  <2>3. QED
    BY <1>1, <1>5, <1>8, <2>1, <2>2
<1>10. WriterInv' /\ MemInv' /\ RangeInv'
  BY <1>1, <1>8 DEF WriterInv, MemInv, RangeInv
<1>11. Age' = Age /\ (OnTime' <=> OnTime)
  BY <1>1, <1>5 DEF Age, OnTime
<1>12. SnapInv'
  <2>1. /\ 0 <= snap.at /\ snap.at <= written
        /\ 0 <= snap.min /\ snap.min <= snap.max /\ snap.max < 2 * BufferSize
        /\ snap.max - snap.min <= BufferSize - 2 * Margin
        /\ snap.max - snap.min <= snap.at
        /\ Age <= Margin => \/ writePtr = snap.max + Age
                            \/ writePtr = snap.max + Age - BufferSize
                            \/ writePtr = snap.max + Age - 2 * BufferSize
        /\ snap.cur < 2 * BufferSize
    BY <1>1 DEF SnapInv
  <2>2. ASSUME ~strayed', snap'.stage \in {"min", "cur"}, OnTime'
        PROVE  /\ 0 <= snap.cur
               /\ Avail(Wrapped(snap.cur), writePtr) < BufferSize - Margin + MaxChunk + Age
               /\ Avail(Wrapped(snap.cur), writePtr) <= written
    BY <1>1, <1>4, <1>5, <1>11, <2>2 DEF SnapInv
  <2>3. QED
    BY <1>1, <1>5, <1>11, <2>1, <2>2 DEF SnapInv
<1>13. ReaderInv'
  <2> SUFFICES ASSUME ~strayed'
               PROVE  ReaderInv'
    BY DEF ReaderInv
  <2>1. ~strayed /\ OnTime /\ snap.min <= pos
    <3>1. ~strayed /\ OnTime /\ ~(pos < snap.min)
      BY <1>1, Zenon
    <3>2. QED
      BY <1>3, <1>7, <3>1
  <2>2. Age \in Nat /\ Age + 2 * MaxChunk <= Margin /\ Age = written - snap.at
    <3>1. written \in Int /\ snap.at <= written
      BY <1>1 DEF SnapInv
    <3>2. written - snap.at + 2 * MaxChunk <= Margin
      BY <2>1 DEF OnTime
    <3>3. QED
      BY <1>3, <3>1, <3>2 DEF Age
  <2>3. size \in Nat /\ size <= MaxChunk
    BY DEF WriterInv
  <2> DEFINE U == Avail(Wrapped(pos), writePtr)
  <2>4. ASSUME 0 <= Wrapped(pos), U \in Int, 0 <= U, U <= written, U + size < BufferSize,
               snap.stage # "cur" => U + size < BufferSize - Margin + MaxChunk
        PROVE  ReaderInv'
    <3>1. Available' = U
      BY <1>1 DEF Available
    <3>2. AtCur' <=> snap.stage = "cur"
      BY <1>4, <1>5, <1>6 DEF AtCur
    <3> HIDE DEF U
    <3>3. readPos' = written - U
      BY <1>1 DEF U
    <3>4. /\ Wrapped(pos) \in Int /\ written \in Int /\ bytesConsumed' = 0
          /\ rpc' = "idle" /\ written' = written /\ size' = size
      BY <1>1, <1>8
    <3> HIDE DEF IInv, TypeOK
    <3>5. QED
      BY <1>1, <2>3, <2>4, <3>1, <3>2, <3>3, <3>4 DEF ReaderInv
  <2>5. CASE pos <= snap.max
    <3>1. /\ 0 <= snap.min /\ snap.min <= snap.max /\ snap.max < 2 * BufferSize
          /\ snap.max - snap.min <= BufferSize - 2 * Margin
          /\ snap.max - snap.min <= snap.at
          /\ \/ writePtr = snap.max + Age
             \/ writePtr = snap.max + Age - BufferSize
             \/ writePtr = snap.max + Age - 2 * BufferSize
      BY <1>1, <1>3, <2>2 DEF SnapInv
    <3>2. Wrapped(pos) \in 0 .. BufferSize - 1 /\ U = (snap.max - pos) + Age
      <4>1. writePtr \in 0 .. BufferSize - 1
        OBVIOUS
      <4> DEFINE max == snap.max
                 min == snap.min
      <4>2. /\ max \in Int /\ min \in Int /\ pos \in Int
            /\ 0 <= min /\ min <= pos /\ pos <= max /\ max < 2 * BufferSize
            /\ max - min <= BufferSize - 2 * Margin
            /\ writePtr = max + Age \/ writePtr = max + Age - BufferSize
                 \/ writePtr = max + Age - 2 * BufferSize
        BY <1>3, <1>7, <2>1, <2>5, <3>1
      <4> HIDE DEF IInv, TypeOK, max, min
      <4>3. (max - pos) + Age < BufferSize /\ 0 <= pos
        BY <2>2, <4>2
      <4>4. Wrapped(pos) \in 0 .. BufferSize - 1 /\ U = (max - pos) + Age
        <5> DEFINE Claim(w, m, q, a) ==
              (/\ 0 <= q /\ q <= m /\ m < 2 * BufferSize /\ (m - q) + a < BufferSize
               /\ w = m + a \/ w = m + a - BufferSize \/ w = m + a - 2 * BufferSize)
              => Wrapped(q) \in 0 .. BufferSize - 1 /\ Avail(Wrapped(q), w) = (m - q) + a
        <5>1. \A w \in 0 .. BufferSize - 1, m \in Int, q \in Int, a \in Nat : Claim(w, m, q, a)
          BY DEF Wrapped, Avail
        <5>2. max \in Int /\ pos \in Int /\ Age \in Nat
          BY <2>2, <4>2
        <5> HIDE DEF Claim
        <5>3. Claim(writePtr, max, pos, Age)
          BY <4>1, <5>1, <5>2
        <5>4. QED
          BY <4>2, <4>3, <5>3 DEF Claim
      <4>5. QED
        BY <4>4 DEF max
    <3>3. U \in Int /\ 0 <= U /\ U <= written /\ U + size < BufferSize - Margin + MaxChunk
      <4>1. written \in Int
        OBVIOUS
      <4> HIDE DEF U, IInv, TypeOK
      <4>2. QED
        BY <1>3, <1>7, <2>1, <2>2, <2>3, <2>5, <3>1, <3>2, <4>1
    <3> HIDE DEF U, IInv, TypeOK
    <3>4. QED
      BY <2>3, <2>4, <3>2, <3>3
  <2>6. CASE snap.stage = "cur"
    <3>1. pos = snap.cur
      BY <1>1, <2>6, ProbeTypes
    <3>2. /\ 0 <= pos
          /\ U < BufferSize - Margin + MaxChunk + Age
          /\ U <= written
      BY <1>1, <2>1, <2>6, <3>1 DEF SnapInv
    <3>3. 0 <= Wrapped(pos) /\ U \in Int /\ 0 <= U
      BY <1>7, <1>8, <3>2 DEF Wrapped, Avail
    <3> HIDE DEF U
    <3>4. QED
      BY <2>2, <2>3, <2>4, <2>6, <3>2, <3>3
  <2>7. CASE snap.stage = "bisect" /\ pos = GetPosCur
    <3>1. Wrapped(pos) = readPtr
      BY <2>1, <2>7 DEF GetPosCur, GetPosMin, Wrapped, ReaderInv
    <3>2. ~AtCur
      BY <2>7 DEF AtCur
    <3>3. U = Available
      BY <3>1 DEF Available
    <3>4. QED
      BY <2>1, <2>3, <2>4, <3>1, <3>2, <3>3 DEF ReaderInv, Available, Avail
  <2>8. QED
    <3>1. pos <= snap.max \/ snap.stage = "cur" \/ (snap.stage = "bisect" /\ pos = GetPosCur)
      <4>1. snap.min <= snap.max
        BY <1>1 DEF SnapInv
      <4>2. QED
        BY <1>1, <1>3, <4>1, ProbeTypes
    <3>2. QED
      BY <2>5, <2>6, <2>7, <3>1
<1>14. QED
  BY <1>9, <1>10, <1>12, <1>13

\* A byte of the packet in the demuxer's hands.
LEMMA HeldCell ==
  ASSUME IInv, ~strayed, rpc = "hold", NEW k \in bytesConsumed - TSSize .. bytesConsumed - 1
  PROVE  InRing(Addr(k)) /\ mem[Addr(k)] = readPos + k
<1>1. k \in Nat /\ k < Available /\ k < ReadMargin
  BY Constants DEF IInv, TypeOK, ReaderInv, Available, Avail
<1>2. QED
  BY <1>1, LookAhead, Intact

\* Every step preserves the invariant.
LEMMA StepInv == IInv /\ [Next]_vars => IInv'
<1> SUFFICES ASSUME IInv, [Next]_vars
             PROVE  IInv'
  OBVIOUS
<1>1. CASE PutDrop \/ UNCHANGED vars
  <2>1. UNCHANGED vars
    BY <1>1 DEF PutDrop
  <2>2. QED
    BY <2>1 DEF vars, writerVars, readerVars, IInv, TypeOK, WriterInv, MemInv, SnapInv,
                Age, OnTime, ReaderInv, AtCur, Available, RangeInv
<1>2. ASSUME NEW n \in Chunks, PutStart(n)
      PROVE  IInv'
  BY <1>2, PutStartInv
<1>3. CASE PutCopyTail
  BY <1>3, PutCopyTailInv
<1>4. CASE PutWrap
  BY <1>4, PutWrapInv
<1>5. CASE PutCopy
  BY <1>5, PutCopyInv
<1>6. CASE PutPublish
  BY <1>6, PutPublishInv
<1>7. CASE ReadConsume
  BY <1>7, ReadConsumeInv
<1>8. CASE ReadCheck
  BY <1>8, ReadCheckInv
<1>9. CASE ReadScan
  BY <1>9, ReadScanInv
<1>10. CASE Process
  BY <1>10, ProcessInv
<1>11. CASE SeekBegin
  BY <1>11, SeekBeginInv
<1>12. ASSUME NEW pos \in Probes, SetPos(pos)
       PROVE  IInv'
  BY <1>12, SetPosInv
<1>13. CASE SeekEnd
  BY <1>13, SeekEndInv
<1>14. QED
  BY <1>1, <1>2, <1>3, <1>4, <1>5, <1>6, <1>7, <1>8, <1>9, <1>10, <1>11, <1>12, <1>13
     DEF Next, Put, ReadBlock, SeekTime

LEMMA Invariance == Spec => []IInv
BY InitInv, StepInv, PTL DEF Spec

\* The values of the variables stay in their ranges: in particular both pointers
\* stay below the end of the ring after every sequence of Put, Read and seek.
THEOREM TypeCorrect == Spec => []TypeOK
<1>1. IInv => TypeOK
  BY DEF IInv
<1>2. QED
  BY <1>1, Invariance, PTL

\* A full ring never looks empty: as long as seeks use fresh positions, the writer
\* never laps the reader.
THEOREM WriterNeverLapsReader == Spec => []NeverLapped
<1>1. IInv => NeverLapped
  BY DEF IInv, ReaderInv, NeverLapped
<1>2. QED
  BY <1>1, Invariance, PTL

\* The packet in the demuxer's hands is not written to.
THEOREM HeldBlockIntact == Spec => []BlockIntact
<1>1. IInv => BlockIntact
  BY HeldCell DEF BlockIntact
<1>2. QED
  BY <1>1, Invariance, PTL

\* Whatever the reader does, the positions offered to a seek hold their bytes.
THEOREM SeekWindowIntact == Spec => []WindowIntact
<1>1. ASSUME IInv, NEW p \in GetPosMin .. GetPosMax - 1
      PROVE  mem[Wrapped(p)] = written - (GetPosMax - p)
  <2> USE Constants DEF IInv, TypeOK
  <2>1. GetPosMin \in Int /\ GetPosMax \in Int /\ p \in Int
    BY <1>1 DEF GetPosMin, GetPosMax, Wrapped
  <2> DEFINE i == Wrapped(p)
  <2>2. /\ i \in 0 .. BufferSize - 1
        /\ \/ i < writePtr /\ GetPosMax - p = writePtr - i
           \/ i >= writePtr + size /\ GetPosMax - p = writePtr + BufferSize - i
    <3>1. size <= MaxChunk /\ (~bufferFull => writePtr + 2 * Margin <= BufferSize)
      BY <1>1 DEF WriterInv
    <3>2. CASE ~bufferFull
      BY <1>1, <2>1, <3>1, <3>2 DEF GetPosMin, GetPosMax, Wrapped
    <3>3. CASE bufferFull /\ writePtr + 2 * Margin < BufferSize
      BY <1>1, <2>1, <3>1, <3>3 DEF GetPosMin, GetPosMax, Wrapped
    <3>4. CASE bufferFull /\ ~(writePtr + 2 * Margin < BufferSize)
      BY <1>1, <2>1, <3>1, <3>4 DEF GetPosMin, GetPosMax, Wrapped
    <3>5. QED
      BY <3>2, <3>3, <3>4
  <2> HIDE DEF i
  <2>3. mem[i] = written - (GetPosMax - p)
    BY <1>1, <2>1, <2>2 DEF MemInv
  <2>4. QED
    BY <2>3 DEF i
<1>2. IInv => WindowIntact
  BY <1>1 DEF WindowIntact
<1>3. QED
  BY <1>2, Invariance, PTL

\* The sync search never leaves the ring.
THEOREM SearchStaysInRing == Spec => []SearchInRing
<1>1. ASSUME IInv, ~strayed, rpc = "scan", NEW k \in 0 .. readBytes - TSSize,
             NEW junk \in BOOLEAN, Skip(k, junk),
             NEW j \in 0 .. k + TSSize, j < readBytes
      PROVE  InRing(Addr(j))
  <2>1. k < TSSize
    BY <1>1, FirstPacket
  <2>2. j \in Nat /\ j < Available /\ j < ReadMargin
    BY <1>1, <2>1, Constants DEF IInv, TypeOK, ReaderInv, Available, Avail
  <2>3. QED
    BY <1>1, <2>2, LookAhead
<1>2. IInv => SearchInRing
  BY <1>1 DEF SearchInRing
<1>3. QED
  BY <1>2, Invariance, PTL

\* A reader with two packets in front of it is given one.
THEOREM ScanAlwaysSucceeds == Spec => ScanSucceeds
<1>1. ASSUME IInv, [Next]_vars, rpc = "scan", rpc' # "scan", ~strayed
      PROVE  rpc' = "hold"
  <2>1. CASE ReadScan
    BY <1>1, <2>1, FirstPacket DEF ReadScan
  <2>2. CASE ~ReadScan
    BY <1>1, <2>2 DEF Next, Put, PutDrop, PutStart, PutCopyTail, PutWrap, PutCopy, PutPublish,
       ReadBlock, ReadConsume, ReadCheck, Process, SeekTime, SeekBegin, SetPos, SeekEnd,
       vars, readerVars
  <2>3. QED
    BY <2>1, <2>2
<1>2. IInv /\ [Next]_vars =>
        [(rpc = "scan" /\ rpc' # "scan" /\ ~strayed) => rpc' = "hold"]_vars
  BY <1>1
<1>3. QED
  BY <1>2, Invariance, PTL DEF Spec, ScanSucceeds

-----------------------------------------------------------------------------
(* The ring implements the stream *)

\* The packet in the demuxer's hands is a stretch of the stream.
LEMMA BlockValue ==
  ASSUME IInv, ~strayed
  PROVE  /\ rpc = "hold" => Block = Stream!BlockAt(readPos + (bytesConsumed - TSSize))
         /\ rpc # "hold" => Block = Stream!NoBlock
<1>1. CASE rpc = "hold"
  <2>1. readPos \in Int /\ bytesConsumed \in Nat /\ TSSize \in Nat
    BY Constants DEF IInv, TypeOK
  <2>2. ASSUME NEW j \in 1 .. TSSize
        PROVE  LET a == Addr(bytesConsumed - TSSize + j - 1)
               IN  InRing(a) /\ mem[a] = readPos + (bytesConsumed - TSSize) + j - 1
    <3> DEFINE k == bytesConsumed - TSSize + j - 1
    <3>1. k \in bytesConsumed - TSSize .. bytesConsumed - 1
      BY <2>1
    <3>2. readPos + k = readPos + (bytesConsumed - TSSize) + j - 1
      BY <2>1
    <3> HIDE DEF k
    <3>3. InRing(Addr(k)) /\ mem[Addr(k)] = readPos + k
      BY <1>1, <3>1, HeldCell
    <3>4. QED
      BY <3>2, <3>3 DEF k
  <2>3. QED
    BY <1>1, <2>2 DEF Block, Stream!BlockAt
<1>2. CASE rpc # "hold"
  BY <1>2 DEF Block, Stream!NoBlock
<1>3. QED
  BY <1>1, <1>2

\* How far the reader is behind the writer.
LEMMA Distance ==
  ASSUME IInv, ~strayed
  PROVE  /\ readPos \in 0 .. written
         /\ written - readPos < BufferSize
<1>1. /\ readPos + Available = written /\ Available + size < BufferSize /\ 0 <= readPos
      /\ size \in Nat /\ Available \in Int /\ 0 <= Available
      /\ written \in Int /\ readPos \in Int
  BY Constants DEF IInv, TypeOK, ReaderInv, Available, Avail
<1>2. QED
  BY <1>1, Constants

\* A step of the device's thread leaves the packet as it is, and appends to the
\* stream what it publishes.
LEMMA PutStream ==
  ASSUME IInv, IInv', ~strayed, Put
  PROVE  Stream!Append \/ UNCHANGED Stream!vars
<1>1. UNCHANGED readerVars
  <2>1. CASE PutDrop
    BY <2>1 DEF PutDrop, vars
  <2>2. CASE \E n \in Chunks : PutStart(n)
    BY <2>2 DEF PutStart
  <2>3. CASE PutCopyTail
    BY <2>3 DEF PutCopyTail
  <2>4. CASE PutWrap
    BY <2>4 DEF PutWrap
  <2>5. CASE PutCopy
    BY <2>5 DEF PutCopy
  <2>6. CASE PutPublish
    BY <2>6 DEF PutPublish
  <2>7. QED
    BY <2>1, <2>2, <2>3, <2>4, <2>5, <2>6 DEF Put
<1>2. /\ readPos' = readPos /\ bytesConsumed' = bytesConsumed
      /\ rpc' = rpc /\ strayed' = strayed
  BY <1>1 DEF readerVars
<1>3. Block' = Block
  <2>1. CASE rpc = "hold"
    <3>1. Block = Stream!BlockAt(readPos + (bytesConsumed - TSSize))
      BY <2>1, BlockValue
    <3>2. (IInv /\ ~strayed /\ rpc = "hold" =>
             Block = Stream!BlockAt(readPos + (bytesConsumed - TSSize)))'
      BY BlockValue, PTL
    <3>3. Block' = Stream!BlockAt(readPos + (bytesConsumed - TSSize))'
      BY <1>2, <2>1, <3>2
    <3>4. QED
      BY <1>2, <3>1, <3>3 DEF Stream!BlockAt
  <2>2. CASE rpc # "hold"
    BY <1>2, <2>2 DEF Block
  <2>3. QED
    BY <2>1, <2>2
<1>4. \/ written' = written
      \/ \E n \in 1 .. MaxChunk : written' = written + n
  <2> USE Constants DEF IInv, TypeOK, WriterInv
  <2>1. CASE PutDrop
    BY <2>1 DEF PutDrop, vars, writerVars
  <2>2. CASE \E n \in Chunks : PutStart(n)
    BY <2>2 DEF PutStart
  <2>3. CASE PutCopyTail
    BY <2>3 DEF PutCopyTail
  <2>4. CASE PutWrap
    BY <2>4 DEF PutWrap
  <2>5. CASE PutCopy
    BY <2>5 DEF PutCopy
  <2>6. CASE PutPublish
    <3>1. size \in 0 .. MaxChunk /\ written' = written + size
      BY <2>6 DEF PutPublish
    <3>2. size = 0 \/ size \in 1 .. MaxChunk
      BY <3>1
    <3>3. QED
      BY <3>1, <3>2
  <2>7. QED
    BY <2>1, <2>2, <2>3, <2>4, <2>5, <2>6 DEF Put
<1>5. written' - readPos < BufferSize
  <2>1. (IInv /\ ~strayed => written - readPos < BufferSize)'
    BY Distance, PTL
  <2>2. QED
    BY <1>2, <2>1
<1>6. CASE written' = written
  BY <1>2, <1>3, <1>6 DEF Stream!vars
<1>7. ASSUME NEW n \in 1 .. MaxChunk, written' = written + n
      PROVE  Stream!Append
  BY <1>2, <1>3, <1>5, <1>7, Zenon DEF Stream!Append
<1>8. QED
  BY <1>4, <1>6, <1>7

\* A step of ReadBlock gives the last packet up, hands out the next one, or is none of
\* the stream's business.
LEMMA ReadStream ==
  ASSUME IInv, IInv', ~strayed, ReadBlock
  PROVE  Stream!Advance \/ Stream!Deliver \/ UNCHANGED Stream!vars
<1>1. CASE ReadConsume
  <2>1. /\ rpc = "idle" /\ rpc' = "avail" /\ readPos' = readPos + bytesConsumed
        /\ bytesConsumed' = 0 /\ written' = written /\ strayed' = strayed
    BY <1>1 DEF ReadConsume, writerVars
  <2>2. Block = Stream!NoBlock /\ Block' = Stream!NoBlock
    BY <2>1 DEF Block, Stream!NoBlock
  <2>3. QED
    BY <2>1, <2>2 DEF Stream!Advance
<1>2. CASE ReadCheck
  <2>1. /\ rpc = "avail" /\ rpc' \in {"idle", "scan"}
        /\ UNCHANGED <<written, readPos, bytesConsumed, strayed>>
    BY <1>2 DEF ReadCheck, writerVars
  <2>2. Block' = Block
    BY <2>1 DEF Block
  <2>3. QED
    BY <2>1, <2>2 DEF Stream!vars
<1>3. CASE ReadScan
  <2>1. PICK k \in 0 .. readBytes - TSSize, junk \in BOOLEAN :
          /\ Skip(k, junk)
          /\ IF IsSync(k, junk)
             THEN bytesConsumed' = k + TSSize /\ rpc' = "hold"
             ELSE bytesConsumed' = k /\ rpc' = "idle"
    BY <1>3 DEF ReadScan
  <2>2. rpc = "scan" /\ UNCHANGED <<written, readPos, strayed>>
    BY <1>3 DEF ReadScan, writerVars
  <2>3. k < TSSize /\ IsSync(k, junk)
    BY <2>1, <2>2, FirstPacket
  <2>4. bytesConsumed' = k + TSSize /\ rpc' = "hold"
    BY <2>1, <2>3
  <2>5. /\ bytesConsumed = 0 /\ readPos \in Int /\ k \in 0 .. TSSize - 1
        /\ readPos + k + TSSize <= written
    <3>1. /\ bytesConsumed = 0 /\ readBytes <= Available /\ readPos + Available = written
          /\ readBytes \in Nat /\ Available \in Int /\ readPos \in Int /\ written \in Int
      BY <2>2, Constants DEF IInv, TypeOK, ReaderInv, Available, Avail
    <3>2. QED
      BY <2>3, <3>1, Constants
  <2>6. Block' = Stream!BlockAt(readPos + k)
    <3>1. (IInv /\ ~strayed /\ rpc = "hold" =>
             Block = Stream!BlockAt(readPos + (bytesConsumed - TSSize)))'
      BY BlockValue, PTL
    <3>2. Block' = Stream!BlockAt(readPos + (bytesConsumed - TSSize))'
      BY <2>2, <2>4, <3>1
    <3>3. bytesConsumed' - TSSize = k
      BY <2>4, Constants
    <3>4. QED
      BY <2>2, <3>2, <3>3 DEF Stream!BlockAt
  <2>7. Block = Stream!NoBlock
    BY <2>2 DEF Block, Stream!NoBlock
  <2>8. QED
    BY <2>2, <2>4, <2>5, <2>6, <2>7 DEF Stream!Deliver
<1>4. QED
  BY <1>1, <1>2, <1>3 DEF ReadBlock

\* A packet is not an empty function.
LEMMA BlockNotEmpty ==
  ASSUME IInv, rpc = "hold"
  PROVE  Block # Stream!NoBlock
<1>1. DOMAIN Block = 1 .. TSSize /\ DOMAIN Stream!NoBlock = {}
  BY DEF Block, Stream!NoBlock
<1>2. 1 \in 1 .. TSSize
  BY Constants
<1>3. QED
  BY <1>1, <1>2

\* Every step of the ring is a step of the stream, or changes nothing there.
LEMMA StepStream ==
  ASSUME IInv, IInv', [Next]_vars
  PROVE  [Stream!Next]_(Stream!vars)
<1>1. CASE strayed
  <2>1. strayed' \/ UNCHANGED vars
    BY <1>1 DEF Next, Put, PutDrop, PutStart, PutCopyTail, PutWrap, PutCopy, PutPublish,
       ReadBlock, ReadConsume, ReadCheck, ReadScan, Process, SeekTime, SeekBegin, SetPos,
       SeekEnd, readerVars, vars
  <2>2. CASE strayed'
    BY <2>2 DEF Stream!Next, Stream!Lose
  <2>3. CASE UNCHANGED vars
    BY <1>1, <2>3 DEF vars, readerVars, Stream!Next, Stream!Lose
  <2>4. QED
    BY <2>1, <2>2, <2>3
<1>2. CASE ~strayed /\ Put
  BY <1>2, PutStream DEF Stream!Next
<1>3. CASE ~strayed /\ ReadBlock
  BY <1>3, ReadStream DEF Stream!Next
<1>4. CASE ~strayed /\ Process
  <2>1. /\ rpc = "hold" /\ rpc' = "idle"
        /\ UNCHANGED <<written, readPos, bytesConsumed, strayed>>
    BY <1>4 DEF Process, writerVars
  <2>2. Block # Stream!NoBlock /\ Block' = Stream!NoBlock
    BY <2>1, BlockNotEmpty DEF Block, Stream!NoBlock
  <2>3. QED
    BY <1>4, <2>1, <2>2 DEF Stream!Next, Stream!Release
<1>5. CASE ~strayed /\ (SeekBegin \/ SeekEnd)
  <2>1. rpc = "idle" /\ UNCHANGED <<rpc, written, readPos, bytesConsumed, strayed>>
    BY <1>5 DEF SeekBegin, SeekEnd, writerVars
  <2>2. Block' = Block
    BY <2>1 DEF Block
  <2>3. QED
    BY <2>1, <2>2 DEF Stream!vars
<1>6. CASE ~strayed /\ \E pos \in Probes : SetPos(pos)
  <2>1. /\ rpc = "idle" /\ rpc' = rpc /\ bytesConsumed' = 0 /\ written' = written
    BY <1>6 DEF SetPos, writerVars
  <2>2. Block = Stream!NoBlock /\ Block' = Stream!NoBlock
    BY <2>1 DEF Block, Stream!NoBlock
  <2>3. CASE strayed'
    BY <2>3 DEF Stream!Next, Stream!Lose
  <2>4. CASE ~strayed'
    <3>1. (IInv /\ ~strayed => readPos \in 0 .. written /\ written - readPos < BufferSize)'
      BY Distance, PTL
    <3>4. readPos' \in 0 .. written /\ written - readPos' < BufferSize
      BY <2>1, <2>4, <3>1
    <3>5. strayed' = strayed
      <4>1. strayed = FALSE /\ strayed' = FALSE
        BY <1>6, <2>4 DEF IInv, TypeOK
      <4>2. QED
        BY <4>1
    <3>6. QED
      BY <1>6, <2>1, <2>2, <3>4, <3>5 DEF Stream!Next, Stream!Seek
  <2>5. QED
    BY <2>3, <2>4
<1>7. CASE UNCHANGED vars
  BY <1>7 DEF vars, writerVars, readerVars, Stream!vars, Block, Addr, NearEnd
<1>8. QED
  BY <1>1, <1>2, <1>3, <1>4, <1>5, <1>6, <1>7 DEF Next, SeekTime

\* The ring with its pointers, its margins and its published halves of a chunk is a
\* faithful window on the stream, whatever the sizes of the ring and of the packets.
THEOREM RingImplementsStream == Spec => ImplementsStream
<1>1. Init => Stream!Init
  BY DEF Init, Stream!Init, Block, Stream!NoBlock
<1>2. IInv /\ IInv' /\ [Next]_vars => [Stream!Next]_(Stream!vars)
  BY StepStream
<1>3. QED
  BY <1>1, <1>2, Invariance, PTL DEF Spec, ImplementsStream, Stream!Spec

=============================================================================
