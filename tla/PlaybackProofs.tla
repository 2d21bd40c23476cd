------------------------------ MODULE PlaybackProofs ------------------------------
(***************************************************************************)
(* Proofs about what a client plays (module MCPlayback): the timeshift     *)
(* buffer in a file, for every size of the ring, of the cache, of the      *)
(* packets and of the chunks, with the window on a stream that it          *)
(* implements (module TimeshiftStream); the buffer of a recording in       *)
(* progress, for every length; and the recording player, for any number of *)
(* files, sizes and requests.                                              *)
(*                                                                         *)
(* The first inductive invariant, FileIInv, has a part for the writer's    *)
(* pointers (FileWriterInv), one for what the cells of the file hold while a chunk  *)
(* is written and after a write was given up (FileMemInv), one for where   *)
(* ReadBlock is (FileCallInv) and, until something is lost, one for the    *)
(* reader's distance (FileReaderInv) and two for the cache (FileCacheInv,  *)
(* CacheCoherent).                                                         *)
(***************************************************************************)
EXTENDS MCPlayback, DataLemmas, SequenceTheorems

\* Where Put is, and what that says of its chunk and of the ring's first lap.
FileWriterInv ==
  /\ wpc = "idle" => size = 0
  /\ wpc # "idle" => size <= MaxChunk
  /\ wpc \in {"tail", "wrap"} => writePtr + size >= BufferSize /\ bufferFull
  /\ wpc \in {"rest", "publish"} => writePtr + size < BufferSize
  /\ ~bufferFull => written = writePtr /\ writePtr + 2 * Margin <= BufferSize
  /\ bufferFull => BufferSize < written + 2 * Margin

\* The stamp a cell has in the lap the writer is in.
Stamp(i) == written - writePtr + i

\* Behind the writer the file holds this lap, before it the last one, and over the length
\* of a chunk either, as a write that was given up leaves it.
FileMemInv ==
  \A i \in 0..(BufferSize - 1) :
    /\ i < writePtr => file[i] = Stamp(i)
    /\ file[i] \in {Stamp(i), Stamp(i) - BufferSize}
    /\ i >= writePtr + MaxChunk => file[i] = Stamp(i) - BufferSize
    /\ wpc = "wrap" => file[i] = Stamp(i)
    /\ wpc = "publish" /\ i < writePtr + size => file[i] = Stamp(i)

\* Where ReadBlock is.
FileCallInv ==
  /\ bytesConsumed < ReadMargin
  /\ rpc \in {"check", "load", "load2", "scan"} => bytesConsumed = 0
  /\ rpc = "hold" => bytesConsumed >= TSSize
  /\ rpc = "load2" => /\ readPtr + CacheMax > BufferSize
                      /\ cacheSize = BufferSize - readPtr /\ Len(cache) = cacheSize

\* The distance between the pointers is the number of bytes not consumed, and leaves room
\* for the chunk being written and for another one.
FileReaderInv ==
  /\ readPtr >= 0 /\ readPos = written - Available
  /\ Available + size + MaxChunk < BufferSize

\* The cache is the stream from the read pointer on, all of it unconsumed, and holds what
\* the call takes from it.
FileCacheInv ==
  /\ rpc \in {"load", "load2"} => Available >= CacheMax
  /\ rpc # "load2" => /\ cacheSize # 0 => /\ cacheSize = Len(cache)
                                          /\ cachePtr + bytesConsumed <= cacheSize
                                          /\ cacheSize - cachePtr <= Available
                      /\ cacheSize = 0 => bytesConsumed = 0
  /\ rpc = "load2" => \A i \in 1..cacheSize : cache[i] = readPos + i - 1
  /\ rpc = "scan" => cacheSize # 0 /\ cachePtr + ReadMargin <= cacheSize
  /\ rpc = "hold" => cacheSize # 0

FileIInv ==
  /\ FileTypeOK /\ FileWriterInv /\ FileMemInv /\ FileCallInv
  /\ ~lost => FileReaderInv /\ FileCacheInv /\ CacheCoherent

-----------------------------------------------------------------------------
(* The constants, and distances in the ring.                                    *)

\* What the code's numbers assume of each other, collected.
LEMMA FileConstants ==
  /\ TSSize \in Nat /\ TSSize > 0 /\ ReadMargin = 2 * TSSize
  /\ CacheMax \in Nat /\ ReadMargin <= CacheMax
  /\ Margin \in Nat /\ CacheMax < Margin
  /\ BufferSize \in Nat /\ 3 * Margin < BufferSize
  /\ MaxChunk \in Nat /\ 2 * MaxChunk <= Margin /\ Chunks \subseteq 1..MaxChunk
  /\ EndStep \in Nat
  /\ Huge \in Nat /\ Huge > 0
<1>1. Huge \in Nat /\ Huge > 0
  BY DEF Huge
<1> QED
  BY <1>1, FileBufferAssumption DEF ReadMargin

\* The distance from one cell to another is less than the ring.
LEMMA AvailRange ==
  ASSUME NEW r \in 0..(BufferSize - 1), NEW w \in 0..(BufferSize - 1)
  PROVE  Avail(r, w) \in 0..(BufferSize - 1)
BY FileConstants DEF Avail

\* What the reader may read is less than the ring, unless a seek went below its start.
LEMMA AvailableRange ==
  ASSUME FileTypeOK, readPtr >= 0
  PROVE  Available \in Nat /\ Available < BufferSize
<1>1. readPtr \in 0..(BufferSize - 1) /\ writePtr \in 0..(BufferSize - 1)
  BY FileConstants DEF FileTypeOK
<1>2. Avail(readPtr, writePtr) \in 0..(BufferSize - 1)
  BY <1>1, AvailRange
<1> QED
  BY <1>2, FileConstants DEF Available

\* It is a number in any case.
LEMMA AvailableIsInt == FileTypeOK => Available \in Int
BY FileConstants DEF FileTypeOK, Available, Avail

\* The writer goes on by n.
LEMMA AvailWritten ==
  ASSUME NEW r \in 0..(BufferSize - 1), NEW w \in 0..(BufferSize - 1),
         NEW w2 \in 0..(BufferSize - 1), NEW n \in Nat,
         w2 = w + n \/ w2 = w + n - BufferSize, Avail(r, w) + n < BufferSize
  PROVE  Avail(r, w2) = Avail(r, w) + n
BY FileConstants DEF Avail

\* The reader goes on by n.
LEMMA AvailRead ==
  ASSUME NEW r \in 0..(BufferSize - 1), NEW w \in 0..(BufferSize - 1),
         NEW n \in Nat, n <= Avail(r, w)
  PROVE  /\ Wrapped(r + n) \in 0..(BufferSize - 1)
         /\ Avail(Wrapped(r + n), w) = Avail(r, w) - n
BY FileConstants DEF Avail, Wrapped

\* A position that is offered is a cell of the ring, at least two margins in front of the writer
\* and not before the start of the stream.
LEMMA SeekRange ==
  ASSUME FileTypeOK, FileWriterInv, NEW pos, Offered(pos)
  PROVE  /\ Wrapped(pos) \in 0..(BufferSize - 1)
         /\ Avail(Wrapped(pos), writePtr) <= BufferSize - 2 * Margin
         /\ Avail(Wrapped(pos), writePtr) <= written
<1>1. PICK p \in PosMin..PosEnd : Wrapped(p) = Wrapped(pos)
  BY DEF Offered
<1>2. /\ Wrapped(p) \in 0..(BufferSize - 1)
      /\ Avail(Wrapped(p), writePtr) <= BufferSize - 2 * Margin
      /\ Avail(Wrapped(p), writePtr) <= written
  BY FileConstants DEF FileTypeOK, FileWriterInv, PosMin, PosEnd, Wrapped, Avail
<1> QED
  BY <1>1, <1>2

\* Wherever a seek goes, it is not further below the ring's start than the step back.
LEMMA SoughtRange ==
  ASSUME FileTypeOK, NEW pos \in Sought
  PROVE  Wrapped(pos) \in (-EndStep)..(BufferSize - 1)
<1>1. PosMin \in 0..(BufferSize - 1)
  BY FileConstants DEF FileTypeOK, PosMin, Wrapped
<1>2. PosEnd \in 0..(2 * BufferSize - 1) /\ PosMax \in 0..(2 * BufferSize - 1)
  BY <1>1, FileConstants DEF FileTypeOK, PosEnd, PosMax
<1>3. PosCur \in (-EndStep)..(2 * BufferSize - 1)
  BY <1>1, FileConstants DEF FileTypeOK, PosCur
<1>4. pos \in (-EndStep)..(2 * BufferSize - 1)
  BY <1>1, <1>2, <1>3, FileConstants DEF FileTypeOK, Sought
<1> QED
  BY <1>4, FileConstants DEF Wrapped

\* What GetPositions offers last is a block away from the writer.
LEMMA NewestReadable == FileTypeOK /\ FileWriterInv => SeekReadable
BY FileConstants DEF FileTypeOK, FileWriterInv, SeekReadable, PosMin, PosEnd, PosMax, Wrapped, Avail

-----------------------------------------------------------------------------
(* The bytes of a block.                                                        *)

\* A read of n bytes gives the n cells from its position on.
LEMMA ReadBytes ==
  ASSUME FileTypeOK, NEW pos \in Nat, NEW n \in Nat, pos + n <= BufferSize
  PROVE  /\ Read(pos, n) \in Seq(Int) /\ Len(Read(pos, n)) = n
         /\ \A i \in 1..n : Read(pos, n)[i] = file[pos + i - 1]
<1>1. Read(pos, n) \in [1..n -> Int]
  BY FileConstants DEF Read, FileTypeOK
<1>2. Read(pos, n) \in Seq(Int)
  BY <1>1
<1>3. Len(Read(pos, n)) = n
  BY <1>1, <1>2
<1> QED
  BY <1>2, <1>3 DEF Read

\* What lies between the reader and the writer is the stream from the reader on, to the end
\* of the ring ...
LEMMA ReadStream ==
  ASSUME FileTypeOK, FileMemInv, FileReaderInv,
         NEW i \in 0..(BufferSize - 1), readPtr <= i, i - readPtr < Available
  PROVE  file[i] = readPos + i - readPtr
<1> USE FileConstants DEF FileTypeOK, FileReaderInv, Available, Avail, Stamp
<1>1. CASE readPtr <= writePtr
  BY <1>1 DEF FileMemInv
<1>2. CASE writePtr < readPtr
  <2>1. i >= writePtr + MaxChunk
    BY <1>2
  <2> QED
    BY <1>2, <2>1 DEF FileMemInv
<1> QED
  BY <1>1, <1>2

\* ... and behind it, from the start of the ring on.
LEMMA ReadStreamFront ==
  ASSUME FileTypeOK, FileMemInv, FileReaderInv,
         NEW i \in 0..(BufferSize - 1), i < readPtr, BufferSize - readPtr + i < Available
  PROVE  file[i] = readPos + (BufferSize - readPtr) + i
<1>1. writePtr < readPtr /\ i < writePtr
  BY FileConstants DEF FileTypeOK, Available, Avail
<1>2. file[i] = written - writePtr + i
  BY <1>1 DEF FileMemInv, Stamp
<1>3. readPos = written - (BufferSize - (readPtr - writePtr))
  BY <1>1 DEF FileTypeOK, FileReaderInv, Available, Avail
<1> QED
  BY <1>2, <1>3, FileConstants DEF FileTypeOK

-----------------------------------------------------------------------------

\* Before the first step nothing is written and nothing cached.
LEMMA FileInitInv == FileInit => FileIInv
<1> SUFFICES ASSUME FileInit PROVE FileIInv
  OBVIOUS
<1> USE FileConstants DEF FileInit
<1>1. FileTypeOK
  <2>1. file \in [0..(BufferSize - 1) -> Int]
    OBVIOUS
  <2>2. cache \in Seq(Int)
    OBVIOUS
  <2>3. 0 \in 0..(BufferSize - 1)
    OBVIOUS
  <2>4. /\ wpc \in {"idle", "tail", "wrap", "rest", "publish"} 
        /\ rpc \in {"idle", "check", "load", "load2", "scan", "hold"}
    OBVIOUS
  <2>7. bufferFull \in BOOLEAN /\ lost \in BOOLEAN
    OBVIOUS
  <2>5. /\ size \in Nat /\ bytesConsumed \in Nat /\ cachePtr \in Nat /\ cacheSize \in Nat
        /\ readBytes \in Nat /\ written \in Nat /\ readPos \in Int
    OBVIOUS
  <2>6. writePtr \in 0..(BufferSize - 1) /\ readPtr \in 0..(BufferSize - 1)
    BY <2>3
  <2> QED
    BY <2>1, <2>2, <2>4, <2>5, <2>6, <2>7 DEF FileTypeOK
<1>2. FileWriterInv
  BY DEF FileWriterInv
<1>3. FileMemInv
  BY DEF FileMemInv, Stamp
<1>4. FileCallInv
  BY DEF FileCallInv
<1>5. FileReaderInv
  BY DEF FileReaderInv, Available, Avail
<1>6. FileCacheInv
  BY DEF FileCacheInv
<1>7. CacheCoherent
  BY DEF CacheCoherent
<1> QED
  BY <1>1, <1>2, <1>3, <1>4, <1>5, <1>6, <1>7 DEF FileIInv

-----------------------------------------------------------------------------
(* Put.                                                                         *)

\* The reader's part stays true as the writer goes on, as long as it keeps its distance.
LEMMA ReaderUnmoved ==
  ASSUME FileIInv, FileTypeOK', UNCHANGED readerVars, ~lost, ~lost', NEW n \in Nat,
         written' = written + n,
         writePtr' = writePtr + n \/ writePtr' = writePtr + n - BufferSize,
         NEW rest \in Nat, size' = rest, Available + n + rest + MaxChunk < BufferSize
  PROVE  FileReaderInv' /\ FileCacheInv' /\ CacheCoherent'
<1> USE DEF FileIInv
<1>0. /\ Available \in Nat /\ written \in Nat /\ cachePtr \in Nat /\ cacheSize \in Nat
      /\ readPtr \in 0..(BufferSize - 1) /\ writePtr \in 0..(BufferSize - 1)
      /\ writePtr' \in 0..(BufferSize - 1)
  <2>1. readPtr >= 0 /\ FileTypeOK
    BY DEF FileReaderInv
  <2>2. /\ readPtr \in 0..(BufferSize - 1) /\ writePtr \in 0..(BufferSize - 1)
        /\ writePtr' \in 0..(BufferSize - 1)
    BY <2>1, FileConstants DEF FileTypeOK
  <2>3. written \in Nat /\ cachePtr \in Nat /\ cacheSize \in Nat
    BY DEF FileTypeOK
  <2> QED
    BY <2>1, <2>2, <2>3, AvailableRange
<1>2. Available + n < BufferSize
  BY <1>0, FileConstants
<1>1. Available' = Available + n
  <2>1. Avail(readPtr, writePtr') = Avail(readPtr, writePtr) + n
    BY <1>0, <1>2, AvailWritten DEF Available
  <2> QED
    BY <2>1 DEF Available, readerVars
<1>3. FileReaderInv'
  <2>1. readPos' = written' - Available'
    BY <1>0, <1>1 DEF FileReaderInv, readerVars
  <2>2. Available' + size' + MaxChunk < BufferSize
    BY <1>0, <1>1
  <2>3. readPtr' >= 0
    BY DEF FileReaderInv, readerVars
  <2> QED
    BY <2>1, <2>2, <2>3 DEF FileReaderInv
<1>4. FileCacheInv'
  <2>1. rpc \in {"load", "load2"} => Available' >= CacheMax
    BY <1>0, <1>1, FileConstants DEF FileCacheInv
  <2>2. cacheSize # 0 /\ rpc # "load2" => cacheSize - cachePtr <= Available'
    BY <1>0, <1>1 DEF FileCacheInv
  <2> QED
    BY <2>1, <2>2 DEF FileCacheInv, readerVars
<1>5. CacheCoherent'
  BY DEF CacheCoherent, readerVars
<1> QED
  BY <1>3, <1>4, <1>5

\* The writer does not touch what the reader's call knows.
LEMMA CallUnmoved == FileCallInv /\ UNCHANGED readerVars => FileCallInv'
BY DEF FileCallInv, readerVars

\* A write of n bytes at the writer's place: they have this lap's stamps, and the rest stays.
LEMMA WriteBytes ==
  ASSUME FileTypeOK, FileMemInv, NEW n \in 0..MaxChunk, writePtr + n <= BufferSize
  PROVE  /\ Filled(n) \in [0..(BufferSize - 1) -> Int]
         /\ \A i \in 0..(BufferSize - 1) :
              /\ i < writePtr + n => Filled(n)[i] = Stamp(i)
              /\ i >= writePtr + n => Filled(n)[i] = file[i]
BY FileConstants DEF FileTypeOK, FileMemInv, Filled, Stamp

\* Put is called with a chunk; nothing is written yet.
LEMMA PutStartInv ==
  ASSUME FileIInv, NEW n \in Chunks, PutStart(n)
  PROVE  FileIInv'
<1> USE FileConstants DEF FileIInv, PutStart
<1>0. n \in 1..MaxChunk
  OBVIOUS
<1>1. FileTypeOK'
  BY <1>0 DEF FileTypeOK, readerVars
<1>2. FileWriterInv'
  BY <1>0 DEF FileTypeOK, FileWriterInv
<1>3. FileMemInv'
  BY DEF FileMemInv, Stamp
<1>4. FileCallInv'
  BY CallUnmoved
<1>5. ASSUME ~lost' PROVE FileReaderInv' /\ FileCacheInv' /\ CacheCoherent'
  <2>1. Available \in Nat
    BY <1>5, AvailableRange DEF FileReaderInv
  <2>2. size' = n /\ n \in Nat /\ Available + 0 + n + MaxChunk < BufferSize
    BY <1>0, <2>1
  <2>3. written' = written + 0 /\ writePtr' = writePtr + 0
    BY DEF FileTypeOK
  <2> QED
    BY <1>1, <1>5, <2>2, <2>3, ReaderUnmoved
<1> QED
  BY <1>1, <1>2, <1>3, <1>4, <1>5

\* A chunk that does not fit is written up to the end of the file first.
LEMMA PutTailInv ==
  ASSUME FileIInv, PutTail
  PROVE  FileIInv'
<1> USE FileConstants DEF FileIInv, PutTail
<1> DEFINE n == BufferSize - writePtr
<1>0. n \in 0..MaxChunk /\ writePtr + n = BufferSize
  BY DEF FileTypeOK, FileWriterInv
<1>1. FileTypeOK'
  <2>1. file' \in [0..(BufferSize - 1) -> Int]
    BY <1>0, WriteBytes
  <2> QED
    BY <2>1 DEF FileTypeOK, readerVars
<1>2. FileWriterInv'
  BY DEF FileWriterInv
<1>3. FileMemInv'
  <2>1. \A i \in 0..(BufferSize - 1) : file'[i] = Stamp(i)
    BY <1>0, WriteBytes
  <2>2. \A i \in 0..(BufferSize - 1) : i < writePtr + MaxChunk
    BY <1>0 DEF FileTypeOK
  <2>3. \A i : Stamp(i)' = Stamp(i)
    BY DEF Stamp
  <2>4. wpc' = "wrap" /\ writePtr' = writePtr
    OBVIOUS
  <2>5. \A i \in 0..(BufferSize - 1) : ~(i >= writePtr + MaxChunk)
    <3>1. writePtr \in Nat
      BY DEF FileTypeOK
    <3> QED
      BY <2>2, <3>1
  <2> QED
    BY <2>1, <2>3, <2>4, <2>5 DEF FileMemInv
<1>4. FileCallInv'
  BY CallUnmoved
<1>5. ASSUME ~lost' PROVE FileReaderInv' /\ FileCacheInv' /\ CacheCoherent'
  <2>1. Available \in Nat
    BY <1>5, AvailableRange DEF FileReaderInv
  <2>2. size' = size /\ size \in Nat /\ Available + 0 + size + MaxChunk < BufferSize
    BY <1>5, <2>1 DEF FileReaderInv, FileTypeOK
  <2>3. written' = written + 0 /\ writePtr' = writePtr + 0
    BY DEF FileTypeOK
  <2> QED
    BY <1>1, <1>5, <2>2, <2>3, ReaderUnmoved
<1> QED
  BY <1>1, <1>2, <1>3, <1>4, <1>5

\* The writer goes on at the start of the file and publishes what it wrote at the end.
LEMMA PutWrapInv ==
  ASSUME FileIInv, PutWrap
  PROVE  FileIInv'
<1> USE FileConstants DEF FileIInv, PutWrap
<1> DEFINE n == BufferSize - writePtr
<1>0. n \in 1..size /\ size <= MaxChunk /\ size' = size - n /\ written' = written + n
  BY DEF FileTypeOK, FileWriterInv
<1>1. FileTypeOK'
  BY <1>0 DEF FileTypeOK, readerVars
<1>2. FileWriterInv'
  BY <1>0 DEF FileTypeOK, FileWriterInv
<1>3. FileMemInv'
  BY <1>0 DEF FileTypeOK, FileMemInv, Stamp
<1>4. FileCallInv'
  BY CallUnmoved
<1>5. ASSUME ~lost' PROVE FileReaderInv' /\ FileCacheInv' /\ CacheCoherent'
  <2>1. Available \in Nat
    BY <1>5, AvailableRange DEF FileReaderInv
  <2>2. size - n \in Nat /\ Available + n + (size - n) + MaxChunk < BufferSize
    BY <1>0, <1>5, <2>1 DEF FileReaderInv, FileTypeOK
  <2>3. writePtr' = writePtr + n - BufferSize
    BY DEF FileTypeOK
  <2> QED
    BY <1>0, <1>1, <1>5, <2>2, <2>3, ReaderUnmoved
<1> QED
  BY <1>1, <1>2, <1>3, <1>4, <1>5

\* The rest of the chunk is written, not yet published.
LEMMA PutRestInv ==
  ASSUME FileIInv, PutRest
  PROVE  FileIInv'
<1> USE FileConstants DEF FileIInv, PutRest
<1>0. size \in 0..MaxChunk /\ writePtr + size < BufferSize
  BY DEF FileTypeOK, FileWriterInv
<1>1. FileTypeOK'
  <2>1. file' \in [0..(BufferSize - 1) -> Int]
    BY <1>0, WriteBytes DEF FileTypeOK
  <2> QED
    BY <2>1 DEF FileTypeOK, readerVars
<1>2. FileWriterInv'
  BY DEF FileWriterInv
<1>3. FileMemInv'
  <2>1. \A i \in 0..(BufferSize - 1) : /\ i < writePtr + size => file'[i] = Stamp(i)
                                       /\ i >= writePtr + size => file'[i] = file[i]
    <3>1. writePtr + size <= BufferSize /\ file' = Filled(size)
      BY <1>0 DEF FileTypeOK
    <3> QED
      BY <1>0, <3>1, WriteBytes
  <2>2. \A i : Stamp(i)' = Stamp(i)
    BY DEF Stamp
  <2> QED
    BY <1>0, <2>1, <2>2 DEF FileMemInv, FileTypeOK
<1>4. FileCallInv'
  BY CallUnmoved
<1>5. ASSUME ~lost' PROVE FileReaderInv' /\ FileCacheInv' /\ CacheCoherent'
  <2>1. Available \in Nat
    BY <1>5, AvailableRange DEF FileReaderInv
  <2>2. size' = size /\ size \in Nat /\ Available + 0 + size + MaxChunk < BufferSize
    BY <1>5, <2>1 DEF FileReaderInv, FileTypeOK
  <2>3. written' = written + 0 /\ writePtr' = writePtr + 0
    BY DEF FileTypeOK
  <2> QED
    BY <1>1, <1>5, <2>2, <2>3, ReaderUnmoved
<1> QED
  BY <1>1, <1>2, <1>3, <1>4, <1>5

\* A write that is given up leaves cells of both laps within a chunk's length.
LEMMA PutFailsInv ==
  ASSUME FileIInv, PutFails
  PROVE  FileIInv'
<1> USE FileConstants DEF FileIInv
<1>0. PICK n \in 0..(size - 1) : /\ wpc = "tail" => n < BufferSize - writePtr
                                 /\ file' = Filled(n)
  BY DEF PutFails
<1>1. n \in 0..MaxChunk /\ writePtr + n < BufferSize
  BY <1>0 DEF PutFails, FileTypeOK, FileWriterInv
<1>2. FileTypeOK'
  <2>1. file' \in [0..(BufferSize - 1) -> Int]
    BY <1>0, <1>1, WriteBytes DEF FileTypeOK
  <2>2. lost' \in BOOLEAN
    BY DEF PutFails
  <2> QED
    BY <2>1, <2>2 DEF PutFails, FileTypeOK, readerVars
<1>3. FileWriterInv'
  BY DEF PutFails, FileWriterInv
<1>4. FileMemInv'
  <2>1. \A i \in 0..(BufferSize - 1) : /\ i < writePtr + n => file'[i] = Stamp(i)
                                       /\ i >= writePtr + n => file'[i] = file[i]
    BY <1>0, <1>1, WriteBytes DEF FileTypeOK
  <2>2. \A i : Stamp(i)' = Stamp(i)
    BY DEF PutFails, Stamp
  <2> QED
    BY <1>1, <2>1, <2>2 DEF PutFails, FileMemInv, FileTypeOK
<1>5. FileCallInv'
  BY CallUnmoved DEF PutFails
<1>6. ASSUME ~lost' PROVE FileReaderInv' /\ FileCacheInv' /\ CacheCoherent'
  <2>2. ~lost
    BY <1>6 DEF PutFails
  <2>1. Available \in Nat
    BY <2>2, AvailableRange DEF FileReaderInv
  <2>3. size' = 0 /\ Available + 0 + 0 + MaxChunk < BufferSize
    BY <2>1, <2>2 DEF PutFails, FileReaderInv, FileTypeOK
  <2>4. UNCHANGED readerVars /\ written' = written + 0 /\ writePtr' = writePtr + 0
    BY DEF PutFails, FileTypeOK
  <2> QED
    BY <1>2, <1>6, <2>2, <2>3, <2>4, ReaderUnmoved
<1> QED
  BY <1>2, <1>3, <1>4, <1>5, <1>6

\* The write pointer moves: the reader can read the chunk, and it may have been lapped.
LEMMA PutPublishInv ==
  ASSUME FileIInv, PutPublish
  PROVE  FileIInv'
<1> USE FileConstants DEF FileIInv, PutPublish
<1>0. size \in 0..MaxChunk /\ writePtr + size < BufferSize
  BY DEF FileTypeOK, FileWriterInv
<1>1. FileTypeOK'
  BY <1>0 DEF FileTypeOK, readerVars
<1>2. FileWriterInv'
  <2>1. CASE bufferFull
    <3>1. bufferFull' /\ BufferSize < written + 2 * Margin
      BY <2>1 DEF FileWriterInv
    <3>2. written \in Nat /\ written' = written + size
      BY DEF FileTypeOK
    <3>3. BufferSize < written' + 2 * Margin
      BY <1>0, <3>1, <3>2
    <3> QED
      BY <1>0, <3>1, <3>3 DEF FileWriterInv
  <2>2. CASE ~bufferFull /\ writePtr + size + 2 * Margin > BufferSize
    BY <1>0, <2>2 DEF FileWriterInv
  <2>3. CASE ~bufferFull /\ ~(writePtr + size + 2 * Margin > BufferSize)
    BY <1>0, <2>3 DEF FileTypeOK, FileWriterInv
  <2> QED
    BY <2>1, <2>2, <2>3
<1>3. FileMemInv'
  <2>1. \A i \in Int : Stamp(i)' = Stamp(i)
    BY DEF Stamp, FileTypeOK
  <2> QED
    BY <1>0, <2>1 DEF FileMemInv, FileTypeOK
<1>4. FileCallInv'
  BY CallUnmoved
<1>5. ASSUME ~lost' PROVE FileReaderInv' /\ FileCacheInv' /\ CacheCoherent'
  <2>1. Available \in Nat
    BY <1>5, AvailableRange DEF FileReaderInv
  <2>2. size' = 0 /\ Available + size + 0 + MaxChunk < BufferSize
    BY <1>5, <2>1 DEF FileReaderInv, FileTypeOK
  <2> QED
    BY <1>0, <1>1, <1>5, <2>2, ReaderUnmoved
<1> QED
  BY <1>1, <1>2, <1>3, <1>4, <1>5

-----------------------------------------------------------------------------
(* ReadBlock, Process and SetPos.                                               *)

\* The writer's part has nothing to do with the reader's.
LEMMA WriterUnmoved ==
  ASSUME FileWriterInv, FileMemInv, UNCHANGED writerVars
  PROVE  FileWriterInv' /\ FileMemInv'
<1>1. FileWriterInv'
  BY DEF FileWriterInv, writerVars
<1>2. FileMemInv'
  BY DEF FileMemInv, Stamp, writerVars
<1> QED
  BY <1>1, <1>2

\* The reader takes account of the packet it gave out before.
LEMMA ReadConsumeInv ==
  ASSUME FileIInv, ReadConsume
  PROVE  FileIInv'
<1> USE DEF FileIInv, ReadConsume
<1>0. bytesConsumed \in Nat /\ bytesConsumed < BufferSize /\ readPtr \in (-EndStep)..(BufferSize - 1)
  BY FileConstants DEF FileTypeOK, FileCallInv
<1>1. FileTypeOK'
  <2>1. readPtr' \in (-EndStep)..(BufferSize - 1)
    BY <1>0, FileConstants DEF Wrapped
  <2> QED
    BY <2>1 DEF FileTypeOK, writerVars
<1>2. FileWriterInv' /\ FileMemInv'
  BY WriterUnmoved
<1>3. FileCallInv'
  BY FileConstants DEF FileCallInv
<1>4. ASSUME ~lost' PROVE FileReaderInv' /\ FileCacheInv' /\ CacheCoherent'
  <2>1. FileReaderInv /\ FileCacheInv /\ CacheCoherent
    BY <1>4
  <2>0. Available \in Nat /\ Available < BufferSize /\ readPtr \in 0..(BufferSize - 1)
    BY <1>0, <2>1, AvailableRange, FileConstants DEF FileReaderInv
  <2>2. bytesConsumed <= Available /\ (cacheSize # 0 => cacheSize = Len(cache))
    BY <2>0, <2>1 DEF FileCacheInv, FileTypeOK
  <2>3. Available' = Available - bytesConsumed
    <3>1. Avail(Wrapped(readPtr + bytesConsumed), writePtr) = Avail(readPtr, writePtr) - bytesConsumed
      BY <1>0, <2>0, <2>2, AvailRead DEF Available, FileTypeOK
    <3> QED
      BY <3>1 DEF Available, writerVars
  <2>4. FileReaderInv'
    <3>1. readPos' = written - Available'
      BY <1>0, <2>0, <2>1, <2>3, SMTT(30) DEF FileReaderInv, FileTypeOK
    <3>2. Available' + size + MaxChunk < BufferSize
      <4>1. size \in Nat /\ Available \in Nat /\ Available + size + MaxChunk < BufferSize
        BY <2>0, <2>1 DEF FileReaderInv, FileTypeOK
      <4> QED
        BY <1>0, <2>3, <4>1, FileConstants
    <3>3. readPtr' >= 0
      BY <1>0, <2>0, FileConstants DEF Wrapped
    <3> QED
      BY <3>1, <3>2, <3>3 DEF FileReaderInv, writerVars
  <2>5. FileCacheInv'
    <3>1. cacheSize # 0 => cachePtr' <= cacheSize /\ cacheSize - cachePtr' <= Available'
      BY <1>0, <2>0, <2>1, <2>3 DEF FileCacheInv, FileTypeOK
    <3> QED
      BY <2>2, <3>1 DEF FileCacheInv
  <2>6. CacheCoherent'
    BY <1>0, <2>1 DEF CacheCoherent, FileTypeOK
  <2> QED
    BY <2>4, <2>5, <2>6
<1> QED
  BY <1>1, <1>2, <1>3, <1>4

\* The reader looks whether the cache still holds enough, and otherwise for a block to load.
LEMMA ReadCheckInv ==
  ASSUME FileIInv, ReadCheck
  PROVE  FileIInv'
<1> USE DEF FileIInv, ReadCheck
<1>1. FileTypeOK'
  <2>1. readBytes' \in Nat
    BY FileConstants DEF FileTypeOK
  <2>2. rpc' \in {"scan", "load", "idle"}
    OBVIOUS
  <2> QED
    BY <2>1, <2>2 DEF FileTypeOK, writerVars
<1>2. FileWriterInv' /\ FileMemInv'
  BY WriterUnmoved
<1>3. FileCallInv'
  BY DEF FileCallInv
<1>4. ASSUME ~lost' PROVE FileReaderInv' /\ FileCacheInv' /\ CacheCoherent'
  <2>1. FileReaderInv /\ FileCacheInv /\ CacheCoherent
    BY <1>4
  <2>2. Available' = Available
    BY DEF Available, writerVars
  <2>3. FileReaderInv'
    BY <2>1, <2>2 DEF FileReaderInv, writerVars
  <2>4. FileCacheInv'
    BY <2>1, <2>2 DEF FileCacheInv
  <2>5. CacheCoherent'
    BY <2>1 DEF CacheCoherent
  <2> QED
    BY <2>3, <2>4, <2>5
<1> QED
  BY <1>1, <1>2, <1>3, <1>4

\* A block that is complete in the cache.
LEMMA BlockLoaded ==
  ASSUME FileIInv, FileTypeOK', UNCHANGED <<readPtr, bytesConsumed, readPos, writerVars>>,
         ~lost', FileReaderInv, rpc \in {"load", "load2"}, CacheMax <= Available,
         cachePtr' = 0, cacheSize' = CacheMax, Len(cache') = CacheMax, rpc' = "scan",
         \A i \in 1..CacheMax : cache'[i] = readPos + i - 1
  PROVE  FileReaderInv' /\ FileCacheInv' /\ CacheCoherent'
<1>1. Available' = Available
  BY DEF Available, writerVars
<1>2. FileReaderInv'
  BY <1>1 DEF FileReaderInv, writerVars
<1>3. FileCacheInv'
  BY <1>1, FileConstants DEF FileIInv, FileCallInv, FileCacheInv
<1>4. CacheCoherent'
  BY DEF CacheCoherent
<1> QED
  BY <1>2, <1>3, <1>4

\* The cache is loaded, up to the end of the file.
LEMMA LoadInv ==
  ASSUME FileIInv, Load
  PROVE  FileIInv'
<1> USE DEF FileIInv, Load
<1>0. /\ readPtr \in 0..(BufferSize - 1) /\ UNCHANGED <<readPtr, bytesConsumed, readPos, writerVars, lost>>
      /\ rpc = "load"
  BY DEF FileTypeOK
<1>2. FileWriterInv' /\ FileMemInv'
  BY WriterUnmoved
<1>3. ~lost => FileReaderInv /\ CacheMax <= Available
  BY DEF FileCacheInv
<1>4. CASE readPtr + CacheMax <= BufferSize
  <2>1. Loaded(Read(readPtr, CacheMax))
    BY <1>4
  <2>2. /\ Read(readPtr, CacheMax) \in Seq(Int) /\ Len(Read(readPtr, CacheMax)) = CacheMax
        /\ \A i \in 1..CacheMax : Read(readPtr, CacheMax)[i] = file[readPtr + i - 1]
    BY <1>0, <1>4, ReadBytes, FileConstants
  <2>3. FileTypeOK'
    <3>1. cache' \in Seq(Int) /\ cacheSize' = CacheMax /\ cachePtr' = 0 /\ readBytes' = CacheMax
      BY <2>1, <2>2 DEF Loaded
    <3> QED
      BY <1>0, <2>1, <3>1, FileConstants DEF FileTypeOK, writerVars, Loaded
  <2>4. FileCallInv'
    BY <1>0, <2>1 DEF FileCallInv, Loaded
  <2>5. ASSUME ~lost' PROVE FileReaderInv' /\ FileCacheInv' /\ CacheCoherent'
    <3>1. FileReaderInv /\ CacheMax <= Available
      BY <1>0, <1>3, <2>5
    <3>2. ASSUME NEW i \in 1..CacheMax PROVE cache'[i] = readPos + i - 1
      <4>1. cache'[i] = file[readPtr + i - 1]
        BY <2>1, <2>2 DEF Loaded
      <4>2. readPtr + i - 1 \in 0..(BufferSize - 1) /\ (readPtr + i - 1) - readPtr < Available
        BY <1>0, <1>4, <3>1, FileConstants, AvailableRange
      <4>3. file[readPtr + i - 1] = readPos + (readPtr + i - 1) - readPtr
        BY <1>0, <3>1, <4>2, ReadStream
      <4> QED
        BY <1>0, <4>1, <4>3
    <3> QED
      BY <1>0, <2>1, <2>2, <2>3, <2>5, <3>1, <3>2, BlockLoaded DEF Loaded
  <2> QED
    BY <1>2, <2>3, <2>4, <2>5
<1>5. CASE ~(readPtr + CacheMax <= BufferSize)
  <2> DEFINE n == BufferSize - readPtr
  <2>1. n \in Nat /\ n > 0 /\ n < CacheMax /\ readPtr + n = BufferSize
    BY <1>0, <1>5, FileConstants
  <2>2. cache' = Read(readPtr, n) /\ cacheSize' = n /\ rpc' = "load2" /\ UNCHANGED <<cachePtr, readBytes>>
    BY <1>5
  <2>3. /\ Read(readPtr, n) \in Seq(Int) /\ Len(Read(readPtr, n)) = n
        /\ \A i \in 1..n : Read(readPtr, n)[i] = file[readPtr + i - 1]
    <3>1. readPtr \in Nat /\ readPtr + n <= BufferSize
      BY <1>0, <2>1
    <3> HIDE DEF n
    <3> QED
      BY <2>1, <3>1, ReadBytes
  <2>4. FileTypeOK'
    BY <1>0, <2>1, <2>2, <2>3 DEF FileTypeOK, writerVars
  <2>5. FileCallInv'
    BY <1>0, <1>5, <2>2, <2>3, FileConstants DEF FileCallInv
  <2>6. ASSUME ~lost' PROVE FileReaderInv' /\ FileCacheInv' /\ CacheCoherent'
    <3>1. FileReaderInv /\ CacheMax <= Available
      BY <1>0, <1>3, <2>6
    <3>2. Available' = Available
      BY <1>0 DEF Available, writerVars
    <3>3. ASSUME NEW i \in 1..n PROVE cache'[i] = readPos + i - 1
      <4>1. cache'[i] = file[readPtr + i - 1]
        BY <2>2, <2>3
      <4>2. readPtr + i - 1 \in 0..(BufferSize - 1) /\ (readPtr + i - 1) - readPtr < Available
        BY <1>0, <2>1, <3>1, FileConstants, AvailableRange
      <4>3. file[readPtr + i - 1] = readPos + (readPtr + i - 1) - readPtr
        BY <1>0, <3>1, <4>2, ReadStream
      <4> QED
        BY <1>0, <2>1, <4>1, <4>3
    <3>4. FileReaderInv'
      BY <1>0, <3>1, <3>2 DEF FileReaderInv, writerVars
    <3>5. FileCacheInv'
      <4>1. \A i \in 1..cacheSize' : cache'[i] = readPos' + i - 1
        BY <1>0, <2>2, <3>3
      <4> QED
        BY <2>2, <3>1, <3>2, <4>1 DEF FileCacheInv
    <3>6. CacheCoherent'
      BY <2>2 DEF CacheCoherent
    <3> QED
      BY <3>4, <3>5, <3>6
  <2> QED
    BY <1>2, <2>4, <2>5, <2>6
<1> QED
  BY <1>4, <1>5

\* What the end of the file did not hold is loaded from its start.
LEMMA LoadFrontInv ==
  ASSUME FileIInv, LoadFront
  PROVE  FileIInv'
<1> USE DEF FileIInv, LoadFront
<1>0. /\ readPtr \in 0..(BufferSize - 1) /\ cacheSize \in Nat /\ readPos \in Int /\ cache \in Seq(Int)
      /\ rpc = "load2"
      /\ UNCHANGED <<readPtr, bytesConsumed, readPos, writerVars, lost>>
  BY FileConstants DEF FileTypeOK, FileCallInv
<1>1. FileWriterInv' /\ FileMemInv'
  BY WriterUnmoved
<1>2. ~lost => FileReaderInv /\ CacheMax <= Available
  BY DEF FileCacheInv
<1>3. Len(cache) = cacheSize /\ cacheSize = BufferSize - readPtr /\ readPtr + CacheMax > BufferSize
  BY DEF FileCallInv
<1> DEFINE n == CacheMax - cacheSize
           front == Read(0, n)
<1>4. n \in Nat /\ n < BufferSize /\ cacheSize + n = CacheMax /\ n <= readPtr
  BY <1>0, <1>3, FileConstants
<1>5. /\ front \in Seq(Int) /\ Len(front) = n
      /\ \A i \in 1..n : front[i] = file[0 + i - 1]
  <2>1. 0 \in Nat /\ 0 + n <= BufferSize
    BY <1>4, FileConstants
  <2> HIDE DEF n
  <2> QED
    BY <1>4, <2>1, ReadBytes
<1> HIDE DEF front
<1>6. /\ cache \o front \in Seq(Int) /\ Len(cache \o front) = CacheMax
      /\ \A i \in 1..CacheMax : (cache \o front)[i] = IF i <= cacheSize THEN cache[i]
                                                      ELSE front[i - cacheSize]
  <2>1. /\ cache \o front \in Seq(Int) /\ Len(cache \o front) = Len(cache) + Len(front)
        /\ \A i \in 1..(Len(cache) + Len(front)) :
             (cache \o front)[i] = IF i <= Len(cache) THEN cache[i] ELSE front[i - Len(cache)]
    BY <1>0, <1>5
  <2>2. Len(cache) + Len(front) = CacheMax
    BY <1>3, <1>4, <1>5
  <2> HIDE DEF n
  <2> QED
    BY <1>3, <2>1, <2>2
<1>7. cache' = cache \o front /\ cacheSize' = CacheMax /\ cachePtr' = 0 /\ readBytes' = CacheMax
      /\ rpc' = "scan"
  BY <1>6 DEF Loaded, front
<1>8. FileTypeOK'
  BY <1>0, <1>6, <1>7 DEF FileTypeOK, writerVars
<1>9. FileCallInv'
  BY <1>0, <1>7 DEF FileCallInv
<1>10. ASSUME ~lost' PROVE FileReaderInv' /\ FileCacheInv' /\ CacheCoherent'
  <2>1. FileReaderInv /\ CacheMax <= Available
    BY <1>0, <1>2, <1>10
  <2>2. \A i \in 1..cacheSize : cache[i] = readPos + i - 1
    BY <1>0, <1>10 DEF FileCacheInv
  <2>3. ASSUME NEW i \in 1..CacheMax PROVE cache'[i] = readPos + i - 1
    <3>1. CASE i <= cacheSize
      BY <1>0, <1>6, <1>7, <2>2, <3>1
    <3>2. CASE ~(i <= cacheSize)
      <4> DEFINE j == i - cacheSize - 1
      <4>1. j \in 0..(BufferSize - 1) /\ j < readPtr /\ BufferSize - readPtr + j < Available
            /\ i - cacheSize \in 1..n
        BY <1>0, <1>3, <1>4, <2>1, <3>2, FileConstants, AvailableRange
      <4>2. cache'[i] = file[j]
        BY <1>0, <1>4, <1>5, <1>6, <1>7, <3>2, <4>1
      <4>3. file[j] = readPos + (BufferSize - readPtr) + j
        BY <2>1, <4>1, ReadStreamFront
      <4> QED
        BY <1>0, <1>3, <4>2, <4>3
    <3> QED
      BY <3>1, <3>2
  <2> QED
    BY <1>0, <1>6, <1>7, <1>8, <1>10, <2>1, <2>3, BlockLoaded
<1> QED
  BY <1>1, <1>8, <1>9, <1>10

\* Once a read has failed, nothing is said of the cache any more.
LEMMA LoadFailsInv ==
  ASSUME FileIInv, LoadFails \/ LoadFrontFails
  PROVE  FileIInv'
<1> USE DEF FileIInv
<1>1. FileTypeOK'
  <2>1. CASE LoadFails
    BY <2>1, FileConstants DEF LoadFails, FileTypeOK, writerVars
  <2>2. CASE LoadFrontFails
    BY <2>2 DEF LoadFrontFails, FileTypeOK, writerVars
  <2> QED
    BY <2>1, <2>2
<1>2. FileWriterInv' /\ FileMemInv'
  BY WriterUnmoved DEF LoadFails, LoadFrontFails
<1>3. FileCallInv'
  BY DEF LoadFails, LoadFrontFails, FileCallInv
<1>4. lost'
  BY DEF LoadFails, LoadFrontFails
<1> QED
  BY <1>1, <1>2, <1>3, <1>4

\* The packet's start is looked for in the cache.
LEMMA ReadScanInv ==
  ASSUME FileIInv, ReadScan
  PROVE  FileIInv'
<1> USE DEF FileIInv, ReadScan
<1>0. PICK k \in 0..(TSSize - 1) : bytesConsumed' = k + TSSize
  OBVIOUS
<1>1. FileTypeOK'
  BY <1>0, FileConstants DEF FileTypeOK, writerVars
<1>2. FileWriterInv' /\ FileMemInv'
  BY WriterUnmoved
<1>3. FileCallInv'
  BY <1>0, FileConstants DEF FileCallInv
<1>4. ASSUME ~lost' PROVE FileReaderInv' /\ FileCacheInv' /\ CacheCoherent'
  <2>1. FileReaderInv /\ FileCacheInv /\ CacheCoherent
    BY <1>4
  <2>2. Available' = Available
    BY DEF Available, writerVars
  <2>3. FileReaderInv'
    BY <2>1, <2>2 DEF FileReaderInv, writerVars
  <2>4. FileCacheInv'
    <3>1. cacheSize # 0 /\ cachePtr + bytesConsumed' <= cacheSize
      BY <1>0, <2>1, FileConstants DEF FileCacheInv, FileTypeOK
    <3> QED
      BY <2>1, <2>2, <3>1 DEF FileCacheInv
  <2>5. CacheCoherent'
    BY <2>1 DEF CacheCoherent
  <2> QED
    BY <2>3, <2>4, <2>5
<1> QED
  BY <1>1, <1>2, <1>3, <1>4

\* The streamer is done with the packet.
LEMMA ProcessInv ==
  ASSUME FileIInv, Process
  PROVE  FileIInv'
<1> USE DEF FileIInv, Process
<1>1. FileTypeOK'
  BY DEF FileTypeOK, writerVars
<1>2. FileWriterInv' /\ FileMemInv'
  BY WriterUnmoved
<1>3. FileCallInv'
  BY DEF FileCallInv
<1>4. ASSUME ~lost' PROVE FileReaderInv' /\ FileCacheInv' /\ CacheCoherent'
  BY <1>4 DEF FileReaderInv, FileCacheInv, CacheCoherent, Available, writerVars
<1> QED
  BY <1>1, <1>2, <1>3, <1>4

\* The client seeks: the cache is dropped, and if the seek left the window nothing more is said.
LEMMA SetPosInv ==
  ASSUME FileIInv, NEW pos \in Sought, SetPos(pos)
  PROVE  FileIInv'
<1> USE DEF FileIInv, SetPos
<1>1. readPtr' \in (-EndStep)..(BufferSize - 1)
  BY SoughtRange
<1>2. FileTypeOK'
  <2>1. readPos' \in Int
    BY <1>1, FileConstants DEF FileTypeOK, Avail
  <2>2. lost' \in BOOLEAN
    BY DEF FileTypeOK
  <2> QED
    BY <1>1, <2>1, <2>2 DEF FileTypeOK, writerVars
<1>3. FileWriterInv' /\ FileMemInv'
  BY WriterUnmoved
<1>4. FileCallInv'
  BY FileConstants DEF FileCallInv
<1>5. ASSUME ~lost' PROVE FileReaderInv' /\ FileCacheInv' /\ CacheCoherent'
  <2>1. ~lost /\ Offered(pos)
    BY <1>5
  <2>2. /\ Wrapped(pos) \in 0..(BufferSize - 1)
        /\ Avail(Wrapped(pos), writePtr) <= BufferSize - 2 * Margin
    BY <2>1, SeekRange
  <2>3. Available' = Avail(Wrapped(pos), writePtr) /\ Available' \in Nat
    <3>1. Avail(Wrapped(pos), writePtr) \in 0..(BufferSize - 1)
      BY <2>2, AvailRange DEF FileTypeOK
    <3> QED
      BY <3>1 DEF Available, writerVars
  <2>4. FileReaderInv'
    <3>1. size \in Nat /\ size <= MaxChunk
      BY FileConstants DEF FileWriterInv, FileTypeOK
    <3>2. Available' + size + MaxChunk < BufferSize
      BY <2>2, <2>3, <3>1, FileConstants
    <3>3. readPtr' >= 0
      BY <2>2
    <3> QED
      BY <2>3, <3>2, <3>3 DEF FileReaderInv, writerVars
  <2>5. FileCacheInv'
    BY DEF FileCacheInv
  <2>6. CacheCoherent'
    BY DEF CacheCoherent, FileTypeOK
  <2> QED
    BY <2>4, <2>5, <2>6
<1> QED
  BY <1>2, <1>3, <1>4, <1>5

-----------------------------------------------------------------------------

\* All steps of the writer and of the reader.
LEMMA FileStep == FileIInv /\ [FileNext]_fileVars => FileIInv'
<1> SUFFICES ASSUME FileIInv, [FileNext]_fileVars PROVE FileIInv'
  OBVIOUS
<1>1. CASE FilePut
  BY <1>1, PutStartInv, PutTailInv, PutWrapInv, PutRestInv, PutFailsInv, PutPublishInv DEF FilePut
<1>2. CASE FileReadBlock
  BY <1>2, ReadConsumeInv, ReadCheckInv, LoadInv, LoadFrontInv, LoadFailsInv, ReadScanInv
     DEF FileReadBlock
<1>3. CASE Process
  BY <1>3, ProcessInv
<1>4. ASSUME NEW pos \in Sought, SetPos(pos) PROVE FileIInv'
  BY <1>4, SetPosInv
<1>5. CASE UNCHANGED fileVars
  <2>1. UNCHANGED <<file, writePtr, bufferFull, wpc, size, written>>
    BY <1>5 DEF fileVars, writerVars
  <2>2. UNCHANGED <<readPtr, bytesConsumed, cache, cachePtr, cacheSize, rpc, readBytes, readPos, lost>>
    BY <1>5 DEF fileVars, readerVars
  <2>3. FileTypeOK'
    BY <2>1, <2>2 DEF FileIInv, FileTypeOK
  <2>4. FileWriterInv' /\ FileMemInv'
    BY <2>1, WriterUnmoved DEF FileIInv, writerVars
  <2>5. FileCallInv'
    BY <2>2, CallUnmoved DEF FileIInv, readerVars
  <2>6. ASSUME ~lost' PROVE FileReaderInv' /\ FileCacheInv' /\ CacheCoherent'
    BY <2>1, <2>2, <2>6 DEF FileIInv, FileReaderInv, FileCacheInv, CacheCoherent, Available
  <2> QED
    BY <2>3, <2>4, <2>5, <2>6 DEF FileIInv
<1> QED
  BY <1>1, <1>2, <1>3, <1>4, <1>5 DEF FileNext

\* The inductive invariant: what each of the writer and the reader may rely on between any two
\* reads and writes of Put and ReadBlock (videobuffer.c, cVideoBufferFile), for every size of
\* the file, of the cache and of the margin.
THEOREM FileInvariant == FileSpec => []FileIInv
BY FileInitInv, FileStep, PTL DEF FileSpec

\* What is checked on small files is part of it.
LEMMA FileIInvImplies == FileIInv => FileInv
BY NewestReadable DEF FileIInv, FileInv, CacheCoherent

\* Pointers, cache and file agree: after every step of Put and of ReadBlock, between any two
\* of its reads and writes, what is left in the cache is the stream from the read pointer on,
\* and the newest position a seek is offered has a block in front of it.
THEOREM FileSafety == FileSpec => []FileInv
BY FileIInvImplies, FileInvariant, PTL

-----------------------------------------------------------------------------
(* The file implements the window on a stream.                                  *)

\* The packet a reader holds depends on the reader alone.
LEMMA BlockUnmoved ==
  UNCHANGED <<rpc, cachePtr, bytesConsumed, cache>> => FileBlock' = FileBlock
BY DEF FileBlock

\* Outside of a call there is no packet.
LEMMA NoBlockOutside == rpc # "hold" => FileBlock = Stream!NoBlock
BY DEF FileBlock, Stream!NoBlock

\* In it there is one.
LEMMA BlockHeld == rpc = "hold" => FileBlock # Stream!NoBlock
<1> SUFFICES ASSUME rpc = "hold" PROVE DOMAIN FileBlock # DOMAIN Stream!NoBlock
  OBVIOUS
<1>1. DOMAIN FileBlock = 1..TSSize
  BY DEF FileBlock
<1>2. 1 \in 1..TSSize
  BY FileConstants
<1>3. DOMAIN Stream!NoBlock = {}
  BY DEF Stream!NoBlock
<1> QED
  BY <1>1, <1>2, <1>3

\* The empty file is the empty stream.
LEMMA FileStreamInit == FileInit => Stream!Init
BY DEF FileInit, Stream!Init, FileBlock, Stream!NoBlock

\* The device's part of the stream: PutWrap and PutPublish append, the other steps of Put stutter.
LEMMA AppendStep ==
  ASSUME FileIInv, FileIInv', FilePut, ~lost'
  PROVE  Stream!Append \/ UNCHANGED Stream!vars
<1>1. UNCHANGED readerVars
  BY DEF FilePut, PutStart, PutTail, PutWrap, PutRest, PutFails, PutPublish
<1>2. UNCHANGED <<readPos, bytesConsumed, FileBlock>>
  BY <1>1, BlockUnmoved DEF readerVars
<1>3. ~lost
  BY DEF FilePut, PutStart, PutTail, PutWrap, PutRest, PutFails, PutPublish
<1>4. written' - readPos' < BufferSize
  <2>1. Avail(readPtr', writePtr') \in 0..(BufferSize - 1)
    <3>1. readPtr' \in 0..(BufferSize - 1) /\ writePtr' \in 0..(BufferSize - 1)
      BY FileConstants DEF FileIInv, FileTypeOK, FileReaderInv
    <3> QED
      BY <3>1, AvailRange
  <2>2. written' \in Nat /\ readPos' = written' - Avail(readPtr', writePtr')
    BY DEF FileIInv, FileTypeOK, FileReaderInv, Available
  <2> QED
    BY <2>1, <2>2, FileConstants
<1>5. UNCHANGED lost
  BY <1>3 DEF FileIInv, FileTypeOK
<1>6. ASSUME NEW n \in 1..MaxChunk, written' = written + n PROVE Stream!Append
  BY <1>2, <1>4, <1>5, <1>6 DEF Stream!Append
<1>7. CASE PutWrap
  BY <1>6, <1>7, FileConstants DEF PutWrap, FileIInv, FileTypeOK, FileWriterInv
<1>8. CASE PutPublish
  <2>1. size \in 0..MaxChunk /\ written' = written + size
    BY <1>8 DEF PutPublish, FileIInv, FileTypeOK, FileWriterInv
  <2>2. CASE size = 0
    <3>1. written' = written
      BY <2>1, <2>2 DEF FileIInv, FileTypeOK
    <3> QED
      BY <1>2, <1>5, <3>1 DEF Stream!vars
  <2>3. CASE size # 0
    BY <1>6, <2>1, <2>3
  <2> QED
    BY <2>2, <2>3
<1>9. CASE ~PutWrap /\ ~PutPublish
  <2>1. written' = written
    BY <1>9 DEF FilePut, PutStart, PutTail, PutRest, PutFails
  <2> QED
    BY <1>2, <1>5, <2>1 DEF Stream!vars
<1> QED
  BY <1>7, <1>8, <1>9

\* The reader's accounting is the stream's Advance.
LEMMA AdvanceStep == ASSUME ReadConsume PROVE Stream!Advance
<1>1. FileBlock = Stream!NoBlock /\ FileBlock' = Stream!NoBlock
  BY DEF ReadConsume, FileBlock, Stream!NoBlock
<1> QED
  BY <1>1 DEF ReadConsume, Stream!Advance, writerVars

\* What ReadBlock does between looking at its cache and looking for a packet in it.
LEMMA FillStep ==
  ASSUME FileIInv, ReadCheck \/ Load \/ LoadFront PROVE UNCHANGED Stream!vars
<1>1. rpc # "hold" /\ rpc' # "hold"
  BY DEF ReadCheck, Load, LoadFront, Loaded
<1>2. FileBlock = Stream!NoBlock /\ FileBlock' = Stream!NoBlock
  BY <1>1 DEF FileBlock, Stream!NoBlock
<1>3. UNCHANGED <<written, readPos, bytesConsumed, lost>>
  BY DEF ReadCheck, Load, LoadFront, writerVars
<1> QED
  BY <1>2, <1>3 DEF Stream!vars

\* The packet found is the stream's, from less than a packet behind the read pointer.
LEMMA DeliverStep == ASSUME FileIInv, ReadScan, ~lost' PROVE Stream!Deliver
<1>1. FileBlock = Stream!NoBlock
  BY DEF ReadScan, FileBlock, Stream!NoBlock
<1>2. PICK k \in 0..(TSSize - 1) : bytesConsumed' = k + TSSize
  BY DEF ReadScan
<1>3. /\ rpc = "scan" /\ rpc' = "hold" /\ UNCHANGED <<written, readPos, cache, cachePtr, cacheSize, lost>>
      /\ ~lost
  BY DEF ReadScan, writerVars
<1>4. /\ FileReaderInv /\ FileCacheInv /\ CacheCoherent /\ FileTypeOK /\ FileCallInv
  BY <1>3 DEF FileIInv
<1>5. /\ cacheSize = Len(cache) /\ cachePtr + ReadMargin <= cacheSize
      /\ cacheSize - cachePtr <= Available /\ bytesConsumed = 0
      /\ cachePtr \in Nat /\ cacheSize \in Nat /\ readPos \in Int /\ written \in Nat
      /\ cache \in Seq(Int)
  BY <1>3, <1>4 DEF FileCacheInv, FileCallInv, FileTypeOK
<1>6. readPos + k + TSSize <= written
  BY <1>4, <1>5, AvailableRange, FileConstants DEF FileReaderInv
<1>7. FileBlock' = Stream!BlockAt(readPos + k)
  <2>1. FileBlock' = [j \in 1..TSSize |->
          LET i == cachePtr + bytesConsumed' - TSSize + j
          IN IF i \in DOMAIN cache THEN cache[i] ELSE -1]
    BY <1>3 DEF FileBlock
  <2>2. ASSUME NEW j \in 1..TSSize
        PROVE  /\ cachePtr + bytesConsumed' - TSSize + j \in DOMAIN cache
               /\ cache[cachePtr + bytesConsumed' - TSSize + j] = readPos + k + j - 1
    <3> DEFINE i == cachePtr + bytesConsumed' - TSSize + j
    <3>1. i = cachePtr + k + j /\ i \in (cachePtr + 1)..cacheSize
      BY <1>2, <1>5, FileConstants
    <3>2. i \in 1..Len(cache)
      BY <1>5, <3>1
    <3>3. cache[i] = readPos + i - cachePtr - 1
      BY <1>3, <1>4, <3>1 DEF CacheCoherent
    <3> QED
      BY <1>5, <3>1, <3>2, <3>3
  <2> QED
    BY <2>1, <2>2 DEF Stream!BlockAt
<1> QED
  BY <1>1, <1>2, <1>3, <1>5, <1>6, <1>7 DEF Stream!Deliver

\* The packet is let go.
LEMMA ReleaseStep == ASSUME Process PROVE Stream!Release
<1>1. FileBlock # Stream!NoBlock
  BY BlockHeld DEF Process
<1>2. FileBlock' = Stream!NoBlock
  BY DEF Process, FileBlock, Stream!NoBlock
<1> QED
  BY <1>1, <1>2 DEF Process, Stream!Release, writerVars

\* A seek within what is offered is a seek within the stream's window.
LEMMA SeekStep ==
  ASSUME FileIInv, NEW pos \in Sought, SetPos(pos), ~lost' PROVE Stream!Seek
<1>1. FileBlock = Stream!NoBlock /\ FileBlock' = Stream!NoBlock
  BY DEF SetPos, FileBlock, Stream!NoBlock
<1> DEFINE d == Avail(Wrapped(pos), writePtr)
<1>2. d \in Nat /\ d <= written /\ d < BufferSize
  <2>1. Wrapped(pos) \in 0..(BufferSize - 1) /\ d <= written
    BY SeekRange DEF FileIInv, SetPos
  <2>2. d \in 0..(BufferSize - 1)
    BY <2>1, AvailRange DEF FileIInv, FileTypeOK
  <2> QED
    BY <2>1, <2>2, FileConstants
<1>3. written \in Nat /\ readPos' = written - d /\ written' = written
  BY DEF FileIInv, FileTypeOK, SetPos, writerVars
<1> HIDE DEF d
<1>4. readPos' \in 0..written /\ written - readPos' < BufferSize
  BY <1>2, <1>3
<1>5. lost' = lost
  BY DEF FileIInv, FileTypeOK, SetPos
<1> QED
  BY <1>1, <1>3, <1>4, <1>5 DEF SetPos, Stream!Seek

\* All steps of the file are steps of the stream or stutter.
LEMMA FileStreamStep ==
  ASSUME FileIInv, FileIInv', [FileNext]_fileVars
  PROVE  [Stream!Next]_Stream!vars
<1>1. CASE lost'
  BY <1>1 DEF Stream!Next, Stream!Lose
<1>2. CASE UNCHANGED fileVars
  <2>1. UNCHANGED <<written, readPos, bytesConsumed, lost, rpc, cachePtr, cache>>
    BY <1>2 DEF fileVars, writerVars, readerVars
  <2> QED
    BY <2>1, BlockUnmoved DEF Stream!vars
<1>3. CASE ~lost' /\ FileNext
  <2>1. ~lost
    BY <1>3 DEF FileNext, FilePut, FileReadBlock, PutStart, PutTail, PutWrap, PutRest, PutFails,
       PutPublish, ReadConsume, ReadCheck, Load, LoadFront, LoadFails, LoadFrontFails, ReadScan,
       Process, SetPos
  <2>2. CASE FilePut
    BY <1>3, <2>1, <2>2, AppendStep DEF Stream!Next
  <2>3. CASE FileReadBlock
    <3>1. ~LoadFails /\ ~LoadFrontFails
      BY <1>3 DEF LoadFails, LoadFrontFails
    <3> QED
      BY <1>3, <2>1, <2>3, <3>1, AdvanceStep, FillStep, DeliverStep DEF FileReadBlock, Stream!Next
  <2>4. CASE Process
    BY <2>1, <2>4, ReleaseStep DEF Stream!Next
  <2>5. ASSUME NEW pos \in Sought, SetPos(pos) PROVE Stream!Next
    BY <1>3, <2>1, <2>5, SeekStep DEF Stream!Next
  <2> QED
    BY <1>3, <2>2, <2>3, <2>4, <2>5 DEF FileNext
<1> QED
  BY <1>1, <1>2, <1>3

\* As long as no pread or pwrite fails, the buffer in the file is the window on a stream that
\* the demuxer was promised: every packet in order, once and whole, and the writer never more
\* than the ring's length ahead of the reader.
THEOREM FileRefinesStream == FileSpec => FileImplementsStream
<1>1. FileIInv /\ FileIInv' /\ [FileNext]_fileVars => [Stream!Next]_Stream!vars
  BY FileStreamStep
<1> QED
  BY <1>1, FileInvariant, FileStreamInit, PTL DEF FileSpec, FileImplementsStream, Stream!Spec

-----------------------------------------------------------------------------
(* A recording in progress.                                                     *)

\* Where the reader is in the block it has, and the block in the recording: what is left of it
\* lies within the length known, and so does what is given up.  The packet returned last ends
\* where the next read begins.
RecordingIInv ==
  /\ RecordingBufferTypeOK
  /\ blockPtr + consumed <= BlockMax
  /\ consumed # 0 => playPtr + consumed < known
  /\ blockSize # 0 => playPtr >= 0 /\ playPtr + (blockSize - blockPtr) <= known
  /\ held # NoPacket => held[2] = playPtr + consumed
  /\ eof # "no" => got # "packet"

USE RecordingBufferAssumption DEF BlockMargin

\* What the code's numbers assume of each other, collected.
LEMMA RecordingNumbers ==
  /\ PacketLength \in Nat /\ PacketLength > 0 /\ BlockMax \in Nat /\ 2 * PacketLength <= BlockMax
  /\ MaxLength \in Nat /\ BackStep \in Nat
OBVIOUS

\* What has been consumed never runs over the length known.
LEMMA RecordingPosition ==
  ASSUME RecordingIInv
  PROVE  LET p == IF consumed = 0 THEN playPtr ELSE Consumed
         IN p = playPtr + consumed /\ p \in (-BackStep)..known
BY DEF RecordingIInv, RecordingBufferTypeOK, Consumed

\* At first there is neither block nor packet.
LEMMA RecordingInitInv == RecordingInit => RecordingIInv
BY DEF RecordingInit, RecordingIInv, RecordingBufferTypeOK, NoPacket

\* VDR writes on, and time passes.
LEMMA RecordingTimeKeeps ==
  ASSUME RecordingIInv, Grow \/ StopRecording \/ ScanTimer \/ EofTimer \/ UNCHANGED recordingVars
  PROVE  RecordingIInv'
<1> USE DEF RecordingIInv, RecordingBufferTypeOK
<1>1. CASE Grow
  BY <1>1 DEF Grow
<1>2. CASE StopRecording
  BY <1>2 DEF StopRecording
<1>3. CASE ScanTimer
  BY <1>3 DEF ScanTimer
<1>4. CASE EofTimer
  BY <1>4 DEF EofTimer
<1>5. CASE UNCHANGED recordingVars
  BY <1>5 DEF recordingVars
<1> QED
  BY <1>1, <1>2, <1>3, <1>4, <1>5

\* A packet of the block that is there.
LEMMA ReadCachedKeeps == ASSUME RecordingIInv, ReadCached PROVE RecordingIInv'
<1> DEFINE p == IF consumed = 0 THEN playPtr ELSE Consumed
<1>1. p = playPtr + consumed /\ p \in (-BackStep)..known
  BY RecordingPosition
<1> HIDE DEF p
<1>2. /\ playPtr' = p /\ blockPtr' = blockPtr + consumed /\ GivePacket(p, blockSize - (blockPtr + consumed))
      /\ blockSize # 0 /\ blockPtr + consumed + BlockMargin <= blockSize
      /\ UNCHANGED <<length, writing, known, scanDue, blockSize>>
  BY DEF ReadCached, Cached, p
<1>3. PICK k \in 0..(PacketLength - 1) :
        /\ consumed' = k + PacketLength
        /\ held' = <<p + k, p + k + PacketLength>>
        /\ Told("packet")
  BY <1>2 DEF GivePacket
<1>4. eof' = "no" /\ got' = "packet"
  BY <1>3 DEF Told
<1> DEFINE a == blockPtr + consumed
<1>5. /\ a \in 0..BlockMax /\ a + 2 * PacketLength <= blockSize /\ p + (blockSize - a) <= known
      /\ blockSize \in 0..BlockMax /\ known \in 0..length /\ length \in 0..MaxLength
  BY <1>1, <1>2 DEF RecordingIInv, RecordingBufferTypeOK
<1>6. p >= 0
  BY <1>1, <1>2 DEF RecordingIInv, RecordingBufferTypeOK
<1> HIDE DEF a
<1>7. /\ consumed' \in 0..BlockMax /\ a + consumed' <= BlockMax /\ p + consumed' < known
      /\ held' \in (0..MaxLength) \X (0..MaxLength) /\ held'[2] = p + consumed'
  BY <1>1, <1>3, <1>5, <1>6
<1>8. /\ playPtr' \in (-BackStep)..known' /\ held' \in (0..MaxLength) \X (0..MaxLength)
      /\ consumed' \in 0..BlockMax /\ blockPtr' \in 0..BlockMax
  BY <1>1, <1>2, <1>5, <1>7 DEF a
<1>9. RecordingBufferTypeOK'
  BY <1>2, <1>4, <1>8 DEF RecordingIInv, RecordingBufferTypeOK
<1>10. /\ blockPtr' + consumed' <= BlockMax
       /\ playPtr' + consumed' < known'
       /\ playPtr' >= 0 /\ playPtr' + (blockSize' - blockPtr') <= known'
       /\ held'[2] = playPtr' + consumed'
  BY <1>2, <1>5, <1>6, <1>7 DEF a
<1> QED
  BY <1>4, <1>9, <1>10 DEF RecordingIInv

\* What a read of too little returns.
LEMMA LeftOver ==
  ASSUME RecordingIInv, GiveLeftOver
  PROVE  /\ consumed' \in {0, PacketLength} /\ held' \in {held, NoPacket}
         /\ consumed' # 0 => held' = NoPacket
         /\ eof' \in {"no", "armed", "due"} /\ got' \in {"packet", "nothing", "end"}
         /\ eof' # "no" => got' # "packet"
         /\ got' = "end" => eof = "due"
BY DEF GiveLeftOver, Told, RecordingIInv, RecordingBufferTypeOK

\* A packet of a new block, or one that was left over, or nothing.
LEMMA ReadNewKeeps == ASSUME RecordingIInv, ReadNew PROVE RecordingIInv'
<1> DEFINE p == IF consumed = 0 THEN playPtr ELSE Consumed
           z == IF scanDue THEN length ELSE known
<1>1. p = playPtr + consumed /\ p \in (-BackStep)..known
  BY RecordingPosition
<1>2. z \in known..length
  BY DEF RecordingIInv, RecordingBufferTypeOK
<1> HIDE DEF p
<1>3. /\ playPtr' = p /\ scanDue' = FALSE
      /\ known' = IF z - p >= BlockMax /\ p < 0 THEN length ELSE z
      /\ UNCHANGED <<length, writing>>
  BY DEF ReadNew, p
<1>4. /\ playPtr' \in (-BackStep)..known' /\ known' \in z..length'
      /\ writing' \in BOOLEAN /\ scanDue' \in BOOLEAN /\ length' \in 0..MaxLength
      /\ known' \in 0..length'
  <2> HIDE DEF z
  <2>1. /\ known \in 0..length /\ length \in 0..MaxLength /\ writing \in BOOLEAN
        /\ z \in Int /\ known <= z /\ z <= length
    BY <1>2 DEF RecordingIInv, RecordingBufferTypeOK
  <2>2. known' \in z..length
    BY <1>3, <2>1
  <2>3. known' \in Int /\ z <= known' /\ known' <= length /\ 0 <= z
    BY <2>1, <2>2
  <2>4. p \in Int /\ -BackStep <= p /\ p <= known'
    BY <1>1, <2>1, <2>3, RecordingNumbers
  <2>5. playPtr' \in (-BackStep)..known' /\ known' \in 0..length' /\ length' \in 0..MaxLength
    BY <1>3, <2>1, <2>3, <2>4, RecordingNumbers
  <2> QED
    BY <1>3, <2>1, <2>2, <2>5
<1>5. CASE z - p >= BlockMax
  <2>1. /\ blockPtr' = 0 /\ blockSize' \in BlockAt(p)
        /\ IF blockSize' >= PacketLength THEN GivePacket(p, blockSize') ELSE GiveLeftOver
    BY <1>5 DEF ReadNew, p
  <2>2. blockSize' \in 0..BlockMax /\ (p < 0 => blockSize' = 0)
    BY <2>1 DEF BlockAt
  <2>3. z \in Nat /\ z <= MaxLength /\ p \in Int /\ p + BlockMax <= known' /\ known' \in Nat
        /\ p >= -BackStep
    BY <1>1, <1>2, <1>4, <1>5 DEF RecordingIInv, RecordingBufferTypeOK
  <2> HIDE DEF z
  <2>4. CASE blockSize' >= PacketLength
    <3>1. PICK k \in 0..(PacketLength - 1) :
            /\ k + PacketLength <= blockSize'
            /\ consumed' = k + PacketLength
            /\ held' = <<p + k, p + k + PacketLength>>
            /\ Told("packet")
      BY <2>1, <2>4 DEF GivePacket
    <3>2. eof' = "no" /\ got' = "packet"
      BY <3>1 DEF Told
    <3>3. p >= 0 /\ consumed' \in PacketLength..(2 * PacketLength - 1) /\ consumed' <= blockSize'
      <4>1. blockSize' # 0 /\ blockSize' \in Nat
        BY <2>2, <2>4, RecordingNumbers
      <4>2. p >= 0
        BY <2>2, <2>3, <4>1
      <4> QED
        BY <3>1, <4>2, RecordingNumbers
    <3>5. 0 + consumed' <= BlockMax /\ p + consumed' < known' /\ p + (blockSize' - 0) <= known'
      <4> SUFFICES ASSUME NEW c \in PacketLength..(2 * PacketLength - 1),
                          NEW b \in 0..BlockMax, NEW y \in Nat, p + BlockMax <= y
                   PROVE  0 + c <= BlockMax /\ p + c < y /\ p + (b - 0) <= y
        BY <2>2, <2>3, <3>3
      <4> QED
        BY <2>3, RecordingNumbers
    <3>4. held' \in (0..MaxLength) \X (0..MaxLength) /\ held'[2] = p + consumed'
      <4>1. held'[1] = p + k /\ held'[2] = p + k + PacketLength /\ p + k + PacketLength = p + consumed'
        BY <2>3, <3>1, RecordingNumbers
      <4>2. known' <= MaxLength /\ p + k + PacketLength < known'
        BY <1>4, <2>3, <3>5, <4>1
      <4>3. p + k \in 0..MaxLength /\ p + k + PacketLength \in 0..MaxLength
        BY <2>3, <3>3, <4>2, RecordingNumbers
      <4> QED
        BY <3>1, <4>1, <4>3
    <3>6. RecordingBufferTypeOK'
      BY <1>4, <2>1, <2>2, <3>2, <3>3, <3>4, <3>5 DEF RecordingBufferTypeOK
    <3> QED
      BY <1>3, <2>1, <3>2, <3>3, <3>4, <3>5, <3>6 DEF RecordingIInv
  <2>5. CASE ~(blockSize' >= PacketLength)
    <3>1. GiveLeftOver
      BY <2>1, <2>5
    <3>2. /\ consumed' \in {0, PacketLength} /\ held' \in {held, NoPacket}
          /\ consumed' # 0 => held' = NoPacket
          /\ eof' \in {"no", "armed", "due"} /\ got' \in {"packet", "nothing", "end"}
          /\ eof' # "no" => got' # "packet"
      BY <3>1, LeftOver
    <3>3. consumed' # 0 => p + consumed' < known'
      <4> SUFFICES ASSUME consumed' = PacketLength PROVE p + PacketLength < known'
        BY <3>2
      <4> QED
        BY <2>3, RecordingNumbers
    <3>4. consumed' \in 0..BlockMax /\ 0 + consumed' <= BlockMax
      <4>1. 0 \in 0..BlockMax /\ PacketLength \in 0..BlockMax
        BY RecordingNumbers
      <4>2. consumed' \in 0..BlockMax
        BY <3>2, <4>1
      <4>3. ASSUME NEW c \in 0..BlockMax PROVE 0 + c <= BlockMax
        BY RecordingNumbers
      <4> QED
        BY <4>2, <4>3
    <3>5. held' \in (0..MaxLength) \X (0..MaxLength)
      BY <3>2 DEF NoPacket, RecordingIInv, RecordingBufferTypeOK
    <3>6. held' # NoPacket => held'[2] = p + consumed'
      <4> SUFFICES ASSUME held' # NoPacket PROVE held'[2] = p + consumed'
        OBVIOUS
      <4>1. consumed' = 0 /\ held' = held
        BY <3>2
      <4> QED
        BY <1>1, <4>1 DEF RecordingIInv, RecordingBufferTypeOK
    <3>7. blockSize' # 0 => p >= 0 /\ p + (blockSize' - 0) <= known'
      <4>1. blockSize' # 0 => p >= 0
        BY <2>2, <2>3
      <4>2. ASSUME NEW b \in 0..BlockMax, NEW y \in Nat, p + BlockMax <= y PROVE p + (b - 0) <= y
        BY <2>3, <4>2, RecordingNumbers
      <4> QED
        BY <2>2, <2>3, <4>1, <4>2
    <3>8. RecordingBufferTypeOK'
      BY <1>4, <2>1, <2>2, <3>2, <3>4, <3>5 DEF RecordingBufferTypeOK
    <3> QED
      BY <1>3, <2>1, <3>2, <3>3, <3>4, <3>6, <3>7, <3>8 DEF RecordingIInv
  <2> QED
    BY <2>4, <2>5
<1>6. CASE ~(z - p >= BlockMax)
  <2>1. /\ blockPtr' = blockPtr + consumed /\ consumed' = 0 /\ Told("nothing")
        /\ UNCHANGED <<blockSize, held>>
    BY <1>6 DEF ReadNew, p
  <2>2. eof' \in {"no", "armed", "due"} /\ got' \in {"nothing", "end"}
    BY <2>1 DEF Told, RecordingIInv, RecordingBufferTypeOK
  <2>3. known' = z
    BY <1>3, <1>6
  <2> HIDE DEF z
  <2>4. RecordingBufferTypeOK'
    <3>1. blockPtr + consumed \in 0..BlockMax
      BY DEF RecordingIInv, RecordingBufferTypeOK
    <3> QED
      BY <1>4, <2>1, <2>2, <3>1 DEF RecordingIInv, RecordingBufferTypeOK
  <2>5. blockSize # 0 => p + (blockSize - (blockPtr + consumed)) = playPtr + (blockSize - blockPtr)
    BY <1>1 DEF RecordingIInv, RecordingBufferTypeOK
  <2>6. /\ blockPtr + consumed + 0 <= BlockMax
        /\ known <= z
        /\ held # NoPacket => held[2] = p + 0
        /\ blockSize # 0 => p >= 0
    BY <1>1, <1>2 DEF RecordingIInv, RecordingBufferTypeOK
  <2> QED
    BY <1>1, <1>2, <1>3, <2>1, <2>2, <2>3, <2>4, <2>5, <2>6 DEF RecordingIInv, RecordingBufferTypeOK
<1> QED
  BY <1>5, <1>6

\* After a seek there is no block and no packet.
LEMMA SeekKeeps == ASSUME RecordingIInv, Seek PROVE RecordingIInv'
BY DEF Seek, RecordingIInv, RecordingBufferTypeOK, NoPacket

\* All steps of reading a recording in progress.
LEMMA RecordingNextKeeps == RecordingIInv /\ [RecordingNext]_recordingVars => RecordingIInv'
<1> SUFFICES ASSUME RecordingIInv, [RecordingNext]_recordingVars PROVE RecordingIInv'
  OBVIOUS
<1> QED
  BY RecordingTimeKeeps, ReadCachedKeeps, ReadNewKeeps, SeekKeeps DEF RecordingNext

\* The pointers of the buffer of a recording in progress stay within the block and the length
\* that is known (videobuffer.c, cVideoBufferRecording), however the recording grows.
THEOREM RecordingTypesRight == RecordingSpec => []RecordingBufferTypeOK
<1>1. RecordingIInv => RecordingBufferTypeOK
  BY DEF RecordingIInv
<1> QED
  BY <1>1, RecordingInitInv, RecordingNextKeeps, PTL DEF RecordingSpec

\* What a step returns follows what was returned before.
LEMMA StepInOrder ==
  ASSUME RecordingIInv, [RecordingNext]_recordingVars
  PROVE  /\ held # NoPacket /\ held' # held /\ held' # NoPacket =>
              held'[1] \in held[2]..(held[2] + PacketLength - 1)
         /\ got' = "end" /\ got # "end" =>
              got = "nothing" /\ (known' - playPtr' < BlockMax \/ blockSize' < PacketLength)
<1> DEFINE p == IF consumed = 0 THEN playPtr ELSE Consumed
<1>1. p = playPtr + consumed /\ p \in (-BackStep)..known
  BY RecordingPosition
<1> HIDE DEF p
<1>2. ASSUME NEW n, GivePacket(p, n)
      PROVE  /\ held # NoPacket => held'[1] \in held[2]..(held[2] + PacketLength - 1)
             /\ got' # "end"
  <2>1. PICK k \in 0..(PacketLength - 1) : held' = <<p + k, p + k + PacketLength>> /\ Told("packet")
    BY <1>2 DEF GivePacket
  <2> QED
    BY <1>1, <2>1 DEF RecordingIInv, RecordingBufferTypeOK, Told
<1>3. CASE ReadCached
  BY <1>2, <1>3 DEF ReadCached, p
<1>4. CASE ReadNew
  <2> DEFINE z == IF scanDue THEN length ELSE known
  <2>1. CASE z - p >= BlockMax
    <3>1. CASE blockSize' >= PacketLength
      BY <1>2, <1>4, <2>1, <3>1 DEF ReadNew, p
    <3>2. CASE ~(blockSize' >= PacketLength)
      <4>1. GiveLeftOver /\ blockSize' \in Int
        BY <1>4, <2>1, <3>2 DEF ReadNew, BlockAt, p
      <4>2. held' \in {held, NoPacket} /\ (got' = "end" => eof = "due")
        BY <4>1, LeftOver
      <4>3. eof = "due" /\ got # "end" => got = "nothing"
        BY DEF RecordingIInv, RecordingBufferTypeOK
      <4> QED
        BY <3>2, <4>1, <4>2, <4>3
    <3> QED
      BY <3>1, <3>2
  <2>2. CASE ~(z - p >= BlockMax)
    <3>1. Told("nothing") /\ held' = held /\ known' = z /\ playPtr' = p
      BY <1>4, <2>2 DEF ReadNew, p
    <3>2. z \in Int /\ p \in Int
      BY <1>1 DEF RecordingIInv, RecordingBufferTypeOK
    <3>3. got' = "end" /\ got # "end" => got = "nothing"
      BY <3>1 DEF Told, RecordingIInv, RecordingBufferTypeOK
    <3> QED
      BY <2>2, <3>1, <3>2, <3>3
  <2> QED
    BY <2>1, <2>2
<1>5. CASE Grow \/ StopRecording \/ ScanTimer \/ EofTimer \/ Seek \/ UNCHANGED recordingVars
  BY <1>5 DEF Grow, StopRecording, ScanTimer, EofTimer, Seek, recordingVars
<1> QED
  BY <1>3, <1>4, <1>5 DEF RecordingNext

\* What is played is the recording in its order, whenever its length is looked at: no packet
\* overlaps the one before, and the end is reported only where less than a block is left, or
\* less than a packet of a file (videobuffer.c, cVideoBuffer::Read).
THEOREM RecordingInOrder == RecordingSpec => PlayedInOrder
<1>1. RecordingIInv /\ [RecordingNext]_recordingVars =>
        [/\ held # NoPacket /\ held' # held /\ held' # NoPacket =>
              held'[1] \in held[2]..(held[2] + PacketLength - 1)
         /\ got' = "end" /\ got # "end" =>
              got = "nothing" /\ (known' - playPtr' < BlockMax \/ blockSize' < PacketLength)]_recordingVars
  BY StepInOrder
<1> QED
  BY <1>1, RecordingInitInv, RecordingNextKeeps, PTL DEF RecordingSpec, PlayedInOrder

HIDE RecordingBufferAssumption DEF BlockMargin

-----------------------------------------------------------------------------
(* Where the files of a recording start in it.                                  *)

\* The offsets are what their recursive definition says.
LEMMA OffsetsOf ==
  ASSUME NEW f \in Seq(Nat)
  PROVE  /\ Offsets(f) \in [0..Len(f) -> Nat] /\ Offsets(f)[0] = 0
         /\ \A i \in 1..Len(f) : Offsets(f)[i] = Offsets(f)[i - 1] + f[i]
<1> DEFINE n == Len(f)
           step == [i \in 1..n |-> [x \in Nat |-> x + f[i]]]
           IsSum(g) == g = [i \in 0..n |-> IF i = 0 THEN 0 ELSE g[i - 1] + f[i]]
<1>1. n \in Nat /\ step \in [1..n -> [Nat -> Nat]]
  OBVIOUS
<1>2. Recursive(n, Nat, 0, step) # {}
  <2>1. 0 \in Nat
    OBVIOUS
  <2> HIDE DEF n, step
  <2> QED
    BY <1>1, <2>1, Recursion
<1> DEFINE g == CHOOSE g \in Recursive(n, Nat, 0, step) : TRUE
<1>a. g \in [0..n -> Nat] /\ g[0] = 0 /\ \A i \in 1..n : g[i] = step[i][g[i - 1]]
  <2>1. g \in Recursive(n, Nat, 0, step)
    BY <1>2
  <2> HIDE DEF g, n, step
  <2> QED
    BY <2>1 DEF Recursive
<1> HIDE DEF g
<1>3. IsSum(g)
  <2>1. ASSUME NEW i \in 1..n PROVE step[i][g[i - 1]] = g[i - 1] + f[i]
    <3>1. g[i - 1] \in Nat
      <4>1. i - 1 \in 0..n
        BY <1>1
      <4> HIDE DEF n, step
      <4> QED
        BY <1>a, <4>1
    <3> HIDE DEF n
    <3> QED
      BY <3>1
  <2>2. g = [i \in 0..n |-> g[i]]
    BY <1>a
  <2>3. ASSUME NEW i \in 0..n PROVE g[i] = IF i = 0 THEN 0 ELSE g[i - 1] + f[i]
    <3>2. i # 0 => i \in 1..n
      BY <1>1
    <3> HIDE DEF n, step
    <3> QED
      BY <1>a, <2>1, <3>2
  <2> HIDE DEF n, step
  <2> QED
    BY <2>2, <2>3
<1>4. IsSum(Offsets(f))
  <2>1. Offsets(f) = CHOOSE h : IsSum(h)
    BY DEF Offsets
  <2> HIDE DEF IsSum
  <2> QED
    BY <1>3, <2>1
<1>5. /\ Offsets(f) = [i \in 0..n |-> Offsets(f)[i]]
      /\ Offsets(f)[0] = 0
      /\ \A i \in 1..n : Offsets(f)[i] = Offsets(f)[i - 1] + f[i]
  BY <1>4
<1> DEFINE T == {i \in Nat : i <= n => Offsets(f)[i] \in Nat}
<1>6. 0 \in T
  BY <1>5
<1>7. ASSUME NEW k \in Nat, k \in T PROVE k + 1 \in T
  <2> SUFFICES ASSUME k + 1 <= n PROVE Offsets(f)[k + 1] \in Nat
    OBVIOUS
  <2>1. k + 1 \in 1..Len(f) /\ (k + 1) - 1 = k /\ f[k + 1] \in Nat
    OBVIOUS
  <2>2. Offsets(f)[k + 1] = Offsets(f)[(k + 1) - 1] + f[k + 1]
    BY <1>5, <2>1
  <2>3. Offsets(f)[k] \in Nat
    BY <1>7
  <2> QED
    BY <2>1, <2>2, <2>3
<1>8. Nat \subseteq T
  <2> HIDE DEF T
  <2> QED
    BY <1>6, <1>7, NatInd
<1>9. \A i \in 0..n : Offsets(f)[i] \in Nat
  BY <1>8
<1>10. Offsets(f) \in [0..n -> Nat]
  <2> HIDE DEF n
  <2> QED
    BY <1>5, <1>9
<1> QED
  BY <1>5, <1>10

\* Where a file starts depends on those before it.
LEMMA OffsetsAgree ==
  ASSUME NEW f \in Seq(Nat), NEW g \in Seq(Nat), NEW n \in Nat, n <= Len(f), n <= Len(g),
         \A i \in 1..n : f[i] = g[i]
  PROVE  \A i \in 0..n : Offsets(f)[i] = Offsets(g)[i]
<1> DEFINE T == {i \in Nat : i <= n => Offsets(f)[i] = Offsets(g)[i]}
<1>1. 0 \in T
  BY OffsetsOf
<1>2. ASSUME NEW k \in Nat, k \in T PROVE k + 1 \in T
  <2> SUFFICES ASSUME k + 1 <= n PROVE Offsets(f)[k + 1] = Offsets(g)[k + 1]
    OBVIOUS
  <2>1. Offsets(f)[k + 1] = Offsets(f)[k] + f[k + 1]
    BY OffsetsOf
  <2>2. Offsets(g)[k + 1] = Offsets(g)[k] + g[k + 1]
    BY OffsetsOf
  <2> QED
    BY <1>2, <2>1, <2>2
<1>3. Nat \subseteq T
  <2> HIDE DEF T
  <2> QED
    BY <1>1, <1>2, NatInd
<1> QED
  BY <1>3

\* A number of files has so many bytes at most.
LEMMA Product ==
  ASSUME NEW k \in Nat, NEW m \in Nat, NEW s \in Nat, k <= m
  PROVE  k * s <= m * s /\ k * s \in Nat /\ m * s \in Nat /\ (k + 1) * s = k * s + s
OBVIOUS

\* No offset is longer than so many files of the largest size.
LEMMA OffsetsBound ==
  ASSUME NEW m \in Nat, NEW f \in Seq(0..m)
  PROVE  \A i \in 0..Len(f) : Offsets(f)[i] <= i * m
<1>1. f \in Seq(Nat)
  OBVIOUS
<1> DEFINE T == {i \in Nat : i <= Len(f) => Offsets(f)[i] <= i * m}
<1>2. 0 \in T
  BY <1>1, OffsetsOf
<1>3. ASSUME NEW k \in Nat, k \in T PROVE k + 1 \in T
  <2> SUFFICES ASSUME k + 1 <= Len(f) PROVE Offsets(f)[k + 1] <= (k + 1) * m
    OBVIOUS
  <2>1. Offsets(f)[k + 1] = Offsets(f)[k] + f[k + 1] /\ Offsets(f)[k] \in Nat
    <3>1. k + 1 \in 1..Len(f) /\ k \in 0..Len(f) /\ (k + 1) - 1 = k
      BY <1>1
    <3> QED
      BY <1>1, <3>1, OffsetsOf
  <2>2. f[k + 1] \in 0..m
    OBVIOUS
  <2>3. (k + 1) * m = k * m + m /\ k * m \in Nat
    BY Product
  <2>4. Offsets(f)[k] <= k * m
    BY <1>3
  <2> DEFINE o == Offsets(f)[k]
             q == k * m
             r == (k + 1) * m
  <2> HIDE DEF o, q, r
  <2> QED
    BY <2>1, <2>2, <2>3, <2>4 DEF o, q, r
<1>4. Nat \subseteq T
  <2> HIDE DEF T
  <2> QED
    BY <1>2, <1>3, NatInd
<1> QED
  BY <1>4

-----------------------------------------------------------------------------
(* The player.                                                                  *)

\* How far a scan has come.  No file is left out.
ScanTotalInv ==
  /\ Len(files) \in 1..MaxFiles /\ Len(segs) <= Len(files)
  /\ at \in {"scan", "rescan"} =>
       next <= Len(files) + 1 /\ next <= Len(segs) + 1 /\ total <= (next - 1) * MaxSize
  /\ at = "closed" => segs = << >> /\ block.len = 0

\* The segments start where their files do, and those a scan has passed meet.
StartsInv ==
  ~torn => \A i \in DOMAIN segs : segs[i].start = Offsets(files)[i - 1]

LookedInv ==
  ~torn /\ at \in {"scan", "rescan"} =>
    /\ \A i \in 1..(next - 1) : segs[i].end = IF i = next - 1 THEN total ELSE segs[i + 1].start
    /\ next <= Len(files) => total = Offsets(files)[next - 1]

\* The first m segments are all that the client was told of.
ToldOf(m) ==
  /\ m = 0 => total = 0
  /\ m > 0 => segs[1].start = 0 /\ segs[m].end = total
  /\ \A i \in 1..(m - 1) : segs[i].end = segs[i + 1].start

IdleInv ==
  ~torn /\ at = "idle" => \E m \in 0..Len(segs) : ToldOf(m) /\ (~gone => m = Len(segs))

\* The files before the one a block came from do not change any more.
BlockInv ==
  ~torn /\ block.len > 0 =>
    block.file \in 1..Len(files) /\ Offsets(files)[block.file - 1] + block.off = block.pos

PlayerIInv ==
  PlayerTypeOK /\ ScanTotalInv /\ StartsInv /\ LookedInv /\ IdleInv /\ BlockInv

Segments == [start : 0..MaxTotal, end : 0..(2 * MaxTotal)]

\* Sizes are numbers.
LEMMA SizesAreNumbers == ASSUME NEW f \in Seq(0..MaxSize) PROVE f \in Seq(Nat) /\ Len(f) \in Nat
<1>1. 0..MaxSize \subseteq Nat
  BY PlayerAssumption
<1> QED
  BY <1>1, SeqMonotonic, LenProperties

-----------------------------------------------------------------------------
(* Steps of VDR. *)

\* Nothing changes but the disk, and the files before the last one do not.
LEMMA DiskKeeps ==
  ASSUME PlayerIInv, files' \in Seq(0..MaxSize), Len(files') \in Len(files)..MaxFiles,
         \A i \in 0..(Len(files) - 1) : Offsets(files')[i] = Offsets(files)[i],
         ~torn' => ~torn, growing' \in BOOLEAN, gone' \in BOOLEAN, torn' \in BOOLEAN, gone => gone',
         ~torn' /\ at \in {"scan", "rescan"} /\ next <= Len(files') =>
           total = Offsets(files')[next - 1],
         UNCHANGED <<segs, total, totalFrames, open, at, next, asked, block, requests>>
  PROVE  PlayerIInv'
<1> USE DEF PlayerIInv
<1>1. PlayerTypeOK'
  BY DEF PlayerTypeOK
<1>2. ScanTotalInv'
  <2>1. Len(files) \in 1..MaxFiles /\ Len(segs) \in Nat /\ next \in Nat /\ MaxFiles \in Nat
    <3>1. segs \in Seq(Segments)
      BY DEF PlayerTypeOK, Segments
    <3>2. Len(segs) \in Nat
      BY <3>1, LenProperties
    <3> QED
      BY <3>2, PlayerAssumption DEF ScanTotalInv, PlayerTypeOK
  <2>2. ASSUME NEW m \in Len(files)..MaxFiles
        PROVE  /\ m \in 1..MaxFiles /\ Len(segs) <= m
               /\ at \in {"scan", "rescan"} =>
                    next <= m + 1 /\ next <= Len(segs) + 1 /\ total <= (next - 1) * MaxSize
    BY <2>1 DEF ScanTotalInv
  <2>3. at = "closed" => segs = << >> /\ block.len = 0
    BY DEF ScanTotalInv
  <2> QED
    BY <2>2, <2>3 DEF ScanTotalInv
<1>3. StartsInv'
  <2> SUFFICES ASSUME ~torn', NEW i \in DOMAIN segs PROVE segs[i].start = Offsets(files')[i - 1]
    BY DEF StartsInv
  <2>1. i \in 1..Len(segs) /\ Len(segs) \in Nat /\ Len(files) \in Nat
    <3>1. segs \in Seq([start : 0..MaxTotal, end : 0..(2 * MaxTotal)]) /\ files \in Seq(0..MaxSize)
      BY DEF PlayerTypeOK
    <3> QED
      BY <3>1
  <2>2. i - 1 \in 0..(Len(files) - 1)
    BY <2>1 DEF ScanTotalInv
  <2> QED
    BY <2>2 DEF StartsInv
<1>4. LookedInv'
  BY DEF LookedInv
<1>5. IdleInv'
  BY DEF IdleInv, ToldOf
<1>6. BlockInv'
  <2> SUFFICES ASSUME ~torn', block.len > 0
               PROVE  /\ block.file \in 1..Len(files')
                      /\ Offsets(files')[block.file - 1] + block.off = block.pos
    BY DEF BlockInv
  <2>1. block.file \in 1..Len(files) /\ Offsets(files)[block.file - 1] + block.off = block.pos
    BY DEF BlockInv
  <2>2. block.file - 1 \in 0..(Len(files) - 1) /\ block.file \in 1..Len(files')
    <3> SUFFICES ASSUME NEW m \in Len(files)..MaxFiles, Len(files') = m, Len(files) \in Nat,
                        NEW b \in 1..Len(files), b = block.file
                 PROVE  b - 1 \in 0..(Len(files) - 1) /\ b \in 1..m
      <4>1. Len(files) \in Nat /\ Len(files') \in Len(files)..MaxFiles
        BY DEF PlayerTypeOK
      <4> QED
        BY <2>1, <4>1
    <3> QED
      BY PlayerAssumption
  <2> QED
    BY <2>1, <2>2
<1> QED
  BY <1>1, <1>2, <1>3, <1>4, <1>5, <1>6

\* The last file grows.
LEMMA WriteKeeps == ASSUME PlayerIInv, Write PROVE PlayerIInv'
<1> DEFINE n == Len(files)
           g == [files EXCEPT ![n] = @ + 1]
<1>1. files \in Seq(0..MaxSize) /\ n \in 1..MaxFiles /\ files[n] < MaxSize /\ MaxSize \in Nat
  BY PlayerAssumption DEF Write, Last, PlayerIInv, PlayerTypeOK, ScanTotalInv
<1>2. g \in Seq(0..MaxSize) /\ Len(g) = n /\ \A i \in 1..(n - 1) : g[i] = files[i]
  BY <1>1
<1>3. files \in Seq(Nat) /\ g \in Seq(Nat)
  BY <1>1, <1>2, SizesAreNumbers
<1>4. n - 1 \in Nat /\ n - 1 <= Len(files) /\ n - 1 <= Len(g)
  <2> HIDE DEF g
  <2> QED
    BY <1>1, <1>2, PlayerAssumption
<1>5. files' = g /\ UNCHANGED <<growing, gone, segs, total, totalFrames, open, at, next, asked, block, requests, torn>>
  BY DEF Write
<1> HIDE DEF g
<1>6. \A i \in 0..(n - 1) : Offsets(g)[i] = Offsets(files)[i]
  BY <1>2, <1>3, <1>4, OffsetsAgree
<1>7. ~torn' /\ at \in {"scan", "rescan"} /\ next <= Len(g) => total = Offsets(g)[next - 1]
  <2> SUFFICES ASSUME ~torn', at \in {"scan", "rescan"}, next <= Len(g) PROVE total = Offsets(g)[next - 1]
    OBVIOUS
  <2>1. next - 1 \in 0..(n - 1)
    BY <1>1, <1>2 DEF PlayerIInv, PlayerTypeOK
  <2> QED
    BY <1>2, <1>5, <1>6, <2>1 DEF PlayerIInv, LookedInv
<1>8. growing' \in BOOLEAN /\ gone' \in BOOLEAN /\ torn' \in BOOLEAN
  BY <1>5 DEF PlayerIInv, PlayerTypeOK
<1> QED
  BY <1>1, <1>2, <1>5, <1>6, <1>7, <1>8, DiskKeeps

\* If the file before grew after a scan had seen it, and nothing else, the history variable
\* says so.
LEMMA NewFileKeeps == ASSUME PlayerIInv, NewFile PROVE PlayerIInv'
<1> DEFINE n == Len(files)
           g == Append(files, 0)
<1>1. files \in Seq(0..MaxSize) /\ n \in 1..MaxFiles /\ n < MaxFiles /\ MaxSize \in Nat
  BY PlayerAssumption DEF NewFile, PlayerIInv, PlayerTypeOK, ScanTotalInv
<1>2. g \in Seq(0..MaxSize) /\ Len(g) = n + 1 /\ \A i \in 1..n : g[i] = files[i]
  BY <1>1
<1>3. files \in Seq(Nat) /\ g \in Seq(Nat)
  BY <1>1, <1>2, SizesAreNumbers
<1>5. /\ files' = g
      /\ torn' = (torn \/ (at \in {"scan", "rescan"} /\ next = n + 1
                              /\ segs[n].end # segs[n].start + files[n]))
      /\ UNCHANGED <<growing, gone, segs, total, totalFrames, open, at, next, asked, block, requests>>
  BY DEF NewFile, Last
<1>4. n \in Nat /\ n <= Len(files) /\ n <= Len(g)
  BY <1>1, <1>2
<1> HIDE DEF g
<1>6. \A i \in 0..n : Offsets(g)[i] = Offsets(files)[i]
  BY <1>2, <1>3, <1>4, OffsetsAgree
<1>7. ~torn' /\ at \in {"scan", "rescan"} /\ next <= Len(g) => total = Offsets(g)[next - 1]
  <2> SUFFICES ASSUME ~torn', at \in {"scan", "rescan"}, next <= Len(g) PROVE total = Offsets(g)[next - 1]
    OBVIOUS
  <2>1. next \in Nat /\ next >= 1 /\ ~torn
    BY <1>5 DEF PlayerIInv, PlayerTypeOK
  <2>2. CASE next <= n
    <3>1. next - 1 \in 0..n
      BY <1>1, <2>1, <2>2
    <3> QED
      BY <1>6, <2>1, <2>2, <3>1 DEF PlayerIInv, LookedInv
  <2>3. CASE next = n + 1
    <3>1. segs[n].end = segs[n].start + files[n]
      BY <1>5, <2>3
    <3>6. n \in DOMAIN segs
      <4>1. segs \in Seq([start : 0..MaxTotal, end : 0..(2 * MaxTotal)]) /\ Len(segs) \in Nat
        BY DEF PlayerIInv, PlayerTypeOK
      <4>2. n \in 1..Len(segs)
        BY <1>1, <2>3, <4>1 DEF PlayerIInv, ScanTotalInv
      <4> QED
        BY <4>1, <4>2
    <3>2. n \in 1..(next - 1) /\ n = next - 1
      BY <1>1, <2>3
    <3>3. segs[n].end = total
      BY <2>1, <3>2 DEF PlayerIInv, LookedInv
    <3>4. segs[n].start = Offsets(files)[n - 1]
      BY <2>1, <3>6 DEF PlayerIInv, StartsInv
    <3>5. Offsets(files)[n] = Offsets(files)[n - 1] + files[n]
      BY <1>1, <1>3, OffsetsOf
    <3> QED
      BY <1>1, <1>6, <2>3, <3>1, <3>2, <3>3, <3>4, <3>5
  <2> QED
    BY <1>1, <1>2, <2>1, <2>2, <2>3
<1>8. growing' \in BOOLEAN /\ gone' \in BOOLEAN /\ torn' \in BOOLEAN /\ (~torn' => ~torn)
  BY <1>5 DEF PlayerIInv, PlayerTypeOK
<1>9. Len(g) \in Len(files)..MaxFiles /\ \A i \in 0..(n - 1) : i \in 0..n
  BY <1>1, <1>2, PlayerAssumption
<1> QED
  BY <1>2, <1>5, <1>6, <1>7, <1>8, <1>9, DiskKeeps

\* The recording ends, or is deleted.
LEMMA EndKeeps ==
  ASSUME PlayerIInv, StopWriting \/ RemoveRecording \/ UNCHANGED playerVars PROVE PlayerIInv'
<1>1. /\ files' = files /\ growing' \in BOOLEAN /\ gone' \in BOOLEAN /\ (gone => gone')
      /\ UNCHANGED <<segs, total, totalFrames, open, at, next, asked, block, requests, torn>>
  BY DEF StopWriting, RemoveRecording, playerVars, PlayerIInv, PlayerTypeOK
<1>2. files \in Seq(0..MaxSize) /\ Len(files) \in Len(files)..MaxFiles
  BY DEF PlayerIInv, PlayerTypeOK, ScanTotalInv
<1>3. torn' \in BOOLEAN
  BY <1>1 DEF PlayerIInv, PlayerTypeOK
<1>4. ~torn /\ at \in {"scan", "rescan"} /\ next <= Len(files) => total = Offsets(files)[next - 1]
  BY DEF PlayerIInv, LookedInv
<1> QED
  BY <1>1, <1>2, <1>3, <1>4, DiskKeeps

-----------------------------------------------------------------------------
(* Steps of the player. *)

\* What is known of the state's numbers.
LEMMA PlayerNumbers ==
  ASSUME PlayerIInv
  PROVE  /\ MaxTotal \in Nat /\ MaxSize \in Nat \ {0} /\ MaxFiles \in Nat \ {0} /\ MaxRequests \in Nat
         /\ MaxSize <= MaxTotal
         /\ files \in Seq(0..MaxSize) /\ files \in Seq(Nat) /\ Len(files) \in 1..MaxFiles
         /\ DOMAIN files = 1..Len(files)
         /\ segs \in Seq(Segments) /\ Len(segs) \in Nat /\ Len(segs) <= Len(files)
         /\ DOMAIN segs = 1..Len(segs)
<1>1. MaxTotal \in Nat /\ MaxSize <= MaxTotal
  <2>1. 1 * MaxSize <= MaxFiles * MaxSize /\ MaxFiles * MaxSize \in Nat /\ 1 * MaxSize = MaxSize
    <3>1. 1 <= MaxFiles /\ MaxFiles \in Nat /\ MaxSize \in Nat
      BY PlayerAssumption
    <3> QED
      BY <3>1, Product
  <2> QED
    BY <2>1 DEF MaxTotal
<1>2. files \in Seq(0..MaxSize) /\ segs \in Seq(Segments)
  BY DEF PlayerIInv, PlayerTypeOK, Segments
<1> QED
  BY <1>1, <1>2, PlayerAssumption, SizesAreNumbers, LenProperties DEF PlayerIInv, ScanTotalInv

\* The player forgets what it knew.
LEMMA OpenPlayerKeeps == ASSUME PlayerIInv, OpenPlayer PROVE PlayerIInv'
<1> USE PlayerNumbers DEF PlayerIInv, OpenPlayer, disk
<1>1. Len(<< >>) = 0 /\ << >> \in Seq(Segments) /\ DOMAIN << >> = {}
  BY EmptySeq
<1>2. files' = files /\ gone' = gone /\ block' = block /\ block.len = 0
  BY DEF ScanTotalInv
<1>3. PlayerTypeOK'
  <2>1. 1 \in 1..(MaxFiles + 1) /\ 0 \in 0..MaxTotal /\ 0 \in -1..MaxTotal /\ 0 \in 0..MaxFiles
    OBVIOUS
  <2>2. torn' \in BOOLEAN /\ at' \in {"closed", "idle", "scan", "rescan"} /\ segs' \in Seq(Segments)
    BY <1>1
  <2> QED
    BY <2>1, <2>2 DEF PlayerTypeOK, Segments
<1>4. ScanTotalInv'
  BY <1>1, <1>2 DEF ScanTotalInv
<1>5. StartsInv' /\ IdleInv' /\ BlockInv'
  BY <1>1, <1>2 DEF StartsInv, IdleInv, BlockInv
<1>6. LookedInv'
  <2>1. Offsets(files)[0] = 0
    BY OffsetsOf
  <2> QED
    BY <1>2, <2>1 DEF LookedInv
<1> QED
  BY <1>3, <1>4, <1>5, <1>6

\* A scan begins again; the segments keep what they were.
LEMMA ReScanKeeps ==
  ASSUME PlayerIInv, NEW b \in [pos : 0..MaxTotal, len : 0..MaxTotal], ReScan(b),
         requests' \in 0..MaxRequests
  PROVE  PlayerIInv'
<1> USE PlayerNumbers DEF PlayerIInv, ReScan, disk
<1>1. PlayerTypeOK'
  <2>1. 1 \in 1..(MaxFiles + 1) /\ 0 \in 0..MaxTotal
    OBVIOUS
  <2>2. at' \in {"closed", "idle", "scan", "rescan"} /\ torn' \in BOOLEAN
    BY DEF PlayerTypeOK
  <2> QED
    BY <2>1, <2>2 DEF PlayerTypeOK
<1>2. ScanTotalInv'
  BY DEF ScanTotalInv
<1>3. StartsInv' /\ IdleInv' /\ BlockInv'
  BY DEF StartsInv, IdleInv, BlockInv
<1>4. LookedInv'
  <2>1. Offsets(files)[0] = 0
    BY OffsetsOf
  <2> QED
    BY <2>1 DEF LookedInv
<1> QED
  BY <1>1, <1>2, <1>3, <1>4

\* The client closes the recording.
LEMMA ClosePlayerKeeps == ASSUME PlayerIInv, ClosePlayer PROVE PlayerIInv'
<1> USE PlayerNumbers DEF PlayerIInv, ClosePlayer, disk, NoData
<1>1. Len(<< >>) = 0 /\ << >> \in Seq(Segments) /\ DOMAIN << >> = {}
  BY EmptySeq
<1>2. PlayerTypeOK'
  BY <1>1 DEF PlayerTypeOK, Segments
<1>3. ScanTotalInv'
  BY <1>1 DEF ScanTotalInv
<1>4. StartsInv' /\ IdleInv' /\ BlockInv' /\ LookedInv'
  BY <1>1 DEF StartsInv, IdleInv, BlockInv, LookedInv
<1> QED
  BY <1>2, <1>3, <1>4

\* The next file of a scan: its segment ends where the file does now, and the length counts
\* all files up to it.
LEMMA ScanFileKeeps == ASSUME PlayerIInv, ScanFile PROVE PlayerIInv'
<1> DEFINE bytes == files[next]
           s == segs'
<1>1. /\ MaxTotal \in Nat /\ MaxSize \in Nat \ {0} /\ MaxFiles \in Nat \ {0}
      /\ files \in Seq(Nat) /\ files \in Seq(0..MaxSize) /\ Len(files) \in 1..MaxFiles
      /\ segs \in Seq(Segments) /\ Len(segs) \in Nat /\ Len(segs) <= Len(files)
      /\ MaxSize <= MaxTotal /\ DOMAIN segs = 1..Len(segs)
  BY PlayerNumbers
<1>2. /\ at \in {"scan", "rescan"} /\ next \in 1..Len(files) /\ next <= Len(segs) + 1
      /\ total \in Nat /\ total <= (next - 1) * MaxSize
  BY <1>1 DEF ScanFile, Exists, PlayerIInv, PlayerTypeOK, ScanTotalInv
<1>3. bytes \in 0..MaxSize
  BY <1>1, <1>2, ElementOfSeq
<1>4. total + bytes \in 0..MaxTotal /\ total + bytes <= ((next + 1) - 1) * MaxSize
  <2> DEFINE k == next - 1
             x == k * MaxSize
             y == (k + 1) * MaxSize
  <2>1. k \in Nat /\ k + 1 \in Nat /\ k + 1 <= MaxFiles /\ (next + 1) - 1 = k + 1
    BY <1>1, <1>2
  <2>2. x \in Nat /\ y = x + MaxSize /\ y <= MaxTotal
    <3>1. (k + 1) * MaxSize <= MaxFiles * MaxSize
      BY <1>1, <2>1, Product
    <3>2. k * MaxSize \in Nat /\ (k + 1) * MaxSize = k * MaxSize + MaxSize
      <4>1. k \in Nat /\ k <= k /\ MaxSize \in Nat
        BY <1>1, <2>1
      <4> HIDE DEF k
      <4> QED
        BY <4>1, Product
    <3> QED
      BY <3>1, <3>2 DEF MaxTotal
  <2>3. total + bytes \in Nat /\ total + bytes <= y
    <3>1. total <= x
      BY <1>2
    <3> HIDE DEF x, y, bytes
    <3> QED
      BY <1>1, <1>2, <1>3, <2>2, <3>1
  <2>4. ((next + 1) - 1) * MaxSize = y
    BY <2>1
  <2> HIDE DEF y, x, bytes, k
  <2> QED
    BY <1>1, <2>2, <2>3, <2>4
<1>5. /\ total' = total + bytes /\ next' = next + 1 /\ files' = files /\ gone' = gone
      /\ UNCHANGED <<growing, totalFrames, open, at, asked, block, requests, torn>>
  BY DEF ScanFile, disk
\* The new segments are the old ones and that of the file.
<1>6. /\ s \in Seq(Segments) /\ Len(s) \in Nat /\ next <= Len(s) /\ Len(segs) <= Len(s)
      /\ Len(s) <= Len(files) /\ DOMAIN s = 1..Len(s)
      /\ \A i \in 1..Len(s) : i # next => i \in 1..Len(segs) /\ s[i] = segs[i]
      /\ s[next].end = s[next].start + bytes
      /\ s[next].start = IF next <= Len(segs) THEN segs[next].start ELSE total
  <2>1. CASE next <= Len(segs)
    <3> DEFINE e == [segs[next] EXCEPT !.end = segs[next].start + bytes]
    <3>1. segs[next] \in Segments
      BY <1>1, <1>2, <2>1, ElementOfSeq
    <3>2. e \in Segments /\ e.start = segs[next].start /\ e.end = e.start + bytes
      <4>1. segs[next].start \in 0..MaxTotal
        BY <3>1 DEF Segments
      <4>2. segs[next].start + bytes \in 0..(2 * MaxTotal)
        <5> SUFFICES ASSUME NEW x \in 0..MaxTotal, NEW y \in 0..MaxSize PROVE x + y \in 0..(2 * MaxTotal)
          BY <1>3, <4>1
        <5> QED
          BY <1>1
      <4> QED
        BY <3>1, <4>1, <4>2 DEF Segments
    <3>3. s = [segs EXCEPT ![next] = e]
      BY <2>1 DEF ScanFile
    <3> HIDE DEF e, bytes
    <3>4. next \in 1..Len(segs)
      BY <1>1, <1>2, <2>1
    <3> QED
      BY <1>1, <2>1, <3>2, <3>3, <3>4, ExceptSeq, LenProperties
  <2>2. CASE ~(next <= Len(segs))
    <3> DEFINE e == [start |-> total, end |-> total + bytes]
    <3>1. next = Len(segs) + 1
      BY <1>1, <1>2, <2>2
    <3>2. e \in Segments /\ e.start = total /\ e.end = total + bytes
      <4>1. total \in 0..MaxTotal /\ total + bytes \in 0..(2 * MaxTotal)
        <5>1. total \in 0..MaxTotal
          BY DEF PlayerIInv, PlayerTypeOK
        <5>2. 0..MaxTotal \subseteq 0..(2 * MaxTotal)
          BY <1>1
        <5> HIDE DEF bytes
        <5> QED
          BY <1>4, <5>1, <5>2
      <4> QED
        BY <4>1 DEF Segments
    <3>3. s = Append(segs, e)
      BY <2>2 DEF ScanFile
    <3> HIDE DEF e, bytes, s
    <3>4. /\ s \in Seq(Segments) /\ Len(s) = Len(segs) + 1
          /\ \A i \in 1..Len(segs) : s[i] = segs[i]
          /\ s[Len(segs) + 1] = e
      BY <1>1, <3>2, <3>3, AppendProperties
    <3>5. DOMAIN s = 1..Len(s)
      BY <3>4, LenProperties
    <3>6. Len(s) \in Nat /\ next <= Len(s) /\ Len(segs) <= Len(s) /\ Len(s) <= Len(files)
      BY <1>1, <1>2, <3>1, <3>4
    <3>7. \A i \in 1..Len(s) : i # next => i \in 1..Len(segs) /\ s[i] = segs[i]
      BY <1>1, <3>1, <3>4
    <3>8. s[next].end = s[next].start + bytes /\ s[next].start = total
      BY <3>1, <3>2, <3>4
    <3> QED
      BY <2>2, <3>4, <3>5, <3>6, <3>7, <3>8
  <2> QED
    BY <2>1, <2>2
<1> HIDE DEF s
<1>7. PlayerTypeOK'
  <2>1. next' \in 1..(MaxFiles + 1)
    BY <1>1, <1>2, <1>5
  <2> HIDE DEF bytes
  <2>2. total' \in 0..MaxTotal
    BY <1>4, <1>5
  <2>3. segs' \in Seq(Segments)
    BY <1>6 DEF s
  <2> QED
    BY <1>5, <2>1, <2>2, <2>3 DEF PlayerIInv, PlayerTypeOK, Segments
<1>8. ScanTotalInv'
  <2>1. Len(segs') \in Nat /\ next <= Len(segs') /\ Len(segs') <= Len(files)
    BY <1>6 DEF s
  <2> HIDE DEF bytes
  <2>2. next' <= Len(files') + 1 /\ next' <= Len(segs') + 1
    BY <1>1, <1>2, <1>5, <2>1
  <2>3. total' <= (next' - 1) * MaxSize
    BY <1>4, <1>5
  <2>4. at' # "closed" /\ Len(segs') <= Len(files') /\ Len(files') \in 1..MaxFiles
    BY <1>1, <1>2, <1>5, <2>1
  <2> QED
    BY <2>2, <2>3, <2>4 DEF ScanTotalInv
<1>9. ASSUME ~torn PROVE s[next].start = total /\ total = Offsets(files)[next - 1]
  <2>1. total = Offsets(files)[next - 1]
    BY <1>2, <1>9 DEF PlayerIInv, LookedInv
  <2>2. next <= Len(segs) => segs[next].start = Offsets(files)[next - 1]
    BY <1>1, <1>2, <1>9 DEF PlayerIInv, StartsInv
  <2> QED
    BY <1>6, <2>1, <2>2
<1>10. StartsInv'
  <2> SUFFICES ASSUME ~torn, NEW i \in DOMAIN s PROVE s[i].start = Offsets(files)[i - 1]
    BY <1>5 DEF StartsInv, s
  <2>1. CASE i = next
    BY <1>9, <2>1
  <2>2. CASE i # next
    BY <1>1, <1>6, <2>2 DEF PlayerIInv, StartsInv
  <2> QED
    BY <2>1, <2>2
<1>11. LookedInv'
  <2> SUFFICES ASSUME ~torn
               PROVE  /\ \A i \in 1..next : s[i].end = IF i = next THEN total + bytes ELSE s[i + 1].start
                      /\ next + 1 <= Len(files) => total + bytes = Offsets(files)[next]
    <3>1. (next + 1) - 1 = next
      BY <1>1, <1>2
    <3> QED
      BY <1>5, <3>1 DEF LookedInv, s
  <2>1. Offsets(files)[next] = Offsets(files)[next - 1] + bytes
    BY <1>1, <1>2, OffsetsOf
  <2>2. s[next].end = total + bytes
    BY <1>6, <1>9
  <2>3. ASSUME NEW i \in 1..next, i # next PROVE s[i].end = s[i + 1].start
    <3>1. i \in 1..(next - 1) /\ i \in 1..Len(s) /\ i + 1 \in 1..Len(s) /\ i + 1 \in 1..next
      BY <1>1, <1>2, <1>6, <2>3
    <3>2. s[i] = segs[i] /\ segs[i].end = IF i = next - 1 THEN total ELSE segs[i + 1].start
      BY <1>2, <1>6, <2>3, <3>1 DEF PlayerIInv, LookedInv
    <3>3. CASE i = next - 1
      <4>1. i + 1 = next
        BY <1>1, <1>2, <3>3
      <4> QED
        BY <1>9, <3>2, <3>3, <4>1
    <3>4. CASE i # next - 1
      <4>1. i + 1 # next
        BY <1>1, <1>2, <3>4
      <4> QED
        BY <1>6, <3>1, <3>2, <3>4, <4>1
    <3> QED
      BY <3>3, <3>4
  <2> QED
    BY <1>9, <2>1, <2>2, <2>3
<1>12. IdleInv' /\ BlockInv'
  BY <1>2, <1>5 DEF PlayerIInv, IdleInv, BlockInv
<1> QED
  BY <1>7, <1>8, <1>10, <1>11, <1>12 DEF PlayerIInv

\* The segment of a position holds it.
LEMMA SegOfHolds ==
  ASSUME PlayerIInv, NEW p \in Nat
  PROVE  /\ SegOf(p) \in 0..Len(segs)
         /\ SegOf(p) # 0 => segs[SegOf(p)].start <= p /\ p < segs[SegOf(p)].end
         /\ SegOf(p) = 0 => \A i \in 1..Len(segs) : ~(segs[i].start <= p /\ p < segs[i].end)
<1> DEFINE S == {i \in DOMAIN segs : segs[i].start <= p /\ p < segs[i].end}
<1>1. DOMAIN segs = 1..Len(segs) /\ Len(segs) \in Nat
  BY PlayerNumbers
<1>2. SegOf(p) = IF S = {} THEN 0 ELSE Min(S)
  BY DEF SegOf
<1>3. S \in SUBSET Nat
  BY <1>1
<1>4. S # {} => Min(S) \in S
  <2> HIDE DEF S
  <2> QED
    BY <1>3, MinOf
<1>5. CASE S = {}
  BY <1>1, <1>2, <1>5
<1>6. CASE S # {}
  <2>1. SegOf(p) \in S
    BY <1>2, <1>4, <1>6
  <2> QED
    BY <1>1, <2>1
<1> QED
  BY <1>5, <1>6

\* A block is read from the file of its segment, from the place its position has there.
LEMMA ReadAtRight ==
  ASSUME PlayerIInv, NEW p \in 0..MaxTotal, NEW n \in 0..MaxTotal, ReadAt(p, n)
  PROVE  /\ open' \in 0..MaxFiles
         /\ block' \in [pos : 0..MaxTotal, file : 0..MaxFiles, off : 0..MaxTotal, len : 0..MaxTotal]
         /\ ~torn /\ block'.len > 0 =>
              /\ block'.file \in 1..Len(files)
              /\ Offsets(files)[block'.file - 1] + block'.off = block'.pos
<1> DEFINE i == SegOf(p)
           off == p - segs[i].start
           room == Max({files[i] - off, 0})
           len == Min({n, room})
<1>1. /\ MaxTotal \in Nat /\ MaxFiles \in Nat \ {0} /\ Len(files) \in 1..MaxFiles
      /\ files \in Seq(Nat) /\ DOMAIN files = 1..Len(files)
      /\ segs \in Seq(Segments) /\ Len(segs) \in Nat /\ Len(segs) <= Len(files)
      /\ DOMAIN segs = 1..Len(segs)
  BY PlayerNumbers
<1>2. i \in 0..Len(segs) /\ (i # 0 => segs[i].start <= p)
  <2>1. p \in Nat
    BY <1>1
  <2> QED
    BY <2>1, SegOfHolds
<1>3. /\ open' = IF i = 0 THEN open ELSE IF open = i \/ Exists(i) THEN i ELSE 0
      /\ block' = IF i = 0 THEN NoData ELSE IF open' = 0 THEN NoData
                  ELSE [pos |-> p, file |-> i, off |-> off, len |-> len]
  BY DEF ReadAt
<1>4. open' \in 0..MaxFiles
  <2>1. i \in 0..MaxFiles /\ open \in 0..MaxFiles
    BY <1>1, <1>2 DEF PlayerIInv, PlayerTypeOK
  <2> QED
    BY <1>1, <1>3, <2>1
<1>5. NoData \in [pos : 0..MaxTotal, file : 0..MaxFiles, off : 0..MaxTotal, len : 0..MaxTotal]
      /\ ~(NoData.len > 0)
  BY <1>1 DEF NoData
<1>6. CASE block' = NoData
  BY <1>4, <1>5, <1>6
<1>7. CASE block' # NoData
  <2>1. i \in 1..Len(segs) /\ i \in 1..Len(files) /\ i \in 0..MaxFiles
    BY <1>1, <1>2, <1>3, <1>7
  <2>2. segs[i].start \in 0..MaxTotal
    <3>1. segs[i] \in Segments
      BY <1>1, <2>1, ElementOfSeq
    <3> QED
      BY <3>1 DEF Segments
  <2>3. files[i] \in Nat
    BY <1>1, <2>1, ElementOfSeq
  <2>4. off \in 0..MaxTotal
    BY <1>1, <1>2, <2>1, <2>2, SMTT(30)
  <2>5. room \in Nat
    <3> DEFINE x == files[i] - off
    <3>1. x \in Int /\ room = Max({x, 0})
      BY <1>1, <2>3, <2>4, SMTT(30)
    <3> HIDE DEF x, room
    <3>2. Max({x, 0}) = IF x >= 0 THEN x ELSE 0
      BY <3>1, MinMaxOfTwo, SMTT(30)
    <3> QED
      BY <3>1, <3>2
  <2>6. len \in 0..MaxTotal
    <3> HIDE DEF room
    <3> QED
      BY <1>1, <2>5, MinMaxOfTwo, SMTT(30)
  <2>7. block' = [pos |-> p, file |-> i, off |-> off, len |-> len]
    BY <1>3, <1>7
  <2>8. ~torn => Offsets(files)[i - 1] + off = p
    <3> SUFFICES ASSUME ~torn PROVE Offsets(files)[i - 1] + off = p
      OBVIOUS
    <3>1. segs[i].start = Offsets(files)[i - 1]
      BY <1>1, <2>1 DEF PlayerIInv, StartsInv
    <3> QED
      BY <2>2, <3>1
  <2> HIDE DEF i, off, room, len
  <2> QED
    BY <1>4, <2>1, <2>4, <2>6, <2>7, <2>8
<1> QED
  BY <1>6, <1>7

\* A step that reads a block, or none, at the end of a scan or by request.
LEMMA BlockKeeps ==
  ASSUME PlayerIInv, open' \in 0..MaxFiles,
         block' \in [pos : 0..MaxTotal, file : 0..MaxFiles, off : 0..MaxTotal, len : 0..MaxTotal],
         ~torn /\ block'.len > 0 =>
           /\ block'.file \in 1..Len(files)
           /\ Offsets(files)[block'.file - 1] + block'.off = block'.pos,
         at' = "idle", next' \in 1..(MaxFiles + 1), totalFrames' \in -1..MaxTotal,
         asked' \in [pos : 0..MaxTotal, len : 0..MaxTotal], requests' \in 0..MaxRequests,
         ~torn => \E m \in 0..Len(segs) : ToldOf(m) /\ (~gone => m = Len(segs)),
         UNCHANGED <<files, growing, gone, segs, total, torn>>
  PROVE  PlayerIInv'
<1> USE DEF PlayerIInv
<1>1. PlayerTypeOK'
  BY DEF PlayerTypeOK
<1>2. ScanTotalInv' /\ StartsInv' /\ LookedInv' /\ BlockInv'
  BY DEF ScanTotalInv, StartsInv, LookedInv, BlockInv
<1>3. IdleInv'
  BY DEF IdleInv, ToldOf
<1> QED
  BY <1>1, <1>2, <1>3

\* The index has no more frames than the files may have bytes.
LEMMA FramesRange == ASSUME PlayerIInv PROVE frames - 1 \in -1..MaxTotal
<1>0. /\ MaxTotal \in Nat /\ MaxFiles \in Nat \ {0} /\ Len(files) \in 1..MaxFiles
      /\ files \in Seq(Nat) /\ files \in Seq(0..MaxSize) /\ MaxSize \in Nat
  BY PlayerNumbers
<1>1. Offsets(files)[Len(files)] \in Nat
  <2>1. Len(files) \in 0..Len(files) /\ Offsets(files) \in [0..Len(files) -> Nat]
    BY <1>0, OffsetsOf
  <2> QED
    BY <2>1
<1>2. Offsets(files)[Len(files)] <= Len(files) * MaxSize
  BY <1>0, OffsetsBound
<1>3. Len(files) * MaxSize <= MaxFiles * MaxSize /\ Len(files) * MaxSize \in Nat
  <2>1. Len(files) \in Nat /\ MaxFiles \in Nat /\ MaxSize \in Nat /\ Len(files) <= MaxFiles
    BY <1>0
  <2> QED
    BY <2>1, Product
<1> DEFINE x == Offsets(files)[Len(files)]
           y == Len(files) * MaxSize
<1>4. x \in Nat /\ y \in Nat /\ x <= y /\ y <= MaxTotal /\ frames = x
  BY <1>1, <1>2, <1>3 DEF frames, MaxTotal
<1> HIDE DEF x, y
<1> QED
  BY <1>0, <1>4

\* When the amount was cut to nothing, the scan begins again.
LEMMA LookAgainKeeps == ASSUME PlayerIInv, LookAgain PROVE PlayerIInv'
<1> USE PlayerNumbers DEF PlayerIInv, LookAgain, disk
<1>1. total \in 0..MaxTotal /\ asked.pos \in Nat /\ asked.pos < total
  BY DEF PlayerTypeOK, ReadsOn
<1>2. totalFrames' \in -1..MaxTotal
  BY FramesRange
<1>3. open' \in 0..MaxFiles
  <2>1. total - 1 \in Nat
    BY <1>1
  <2>2. SegOf(total - 1) \in 0..Len(segs)
    BY <2>1, SegOfHolds
  <2> QED
    BY <2>2 DEF ScanTotalInv
<1>4. PlayerTypeOK'
  <2>1. next' \in 1..(MaxFiles + 1) /\ total' \in 0..MaxTotal
    OBVIOUS
  <2>2. asked' \in [pos : 0..MaxTotal, len : 0..MaxTotal]
    BY <1>1
  <2>3. at' \in {"closed", "idle", "scan", "rescan"} /\ torn' \in BOOLEAN
    BY DEF PlayerTypeOK
  <2> QED
    BY <1>2, <1>3, <2>1, <2>2, <2>3 DEF PlayerTypeOK
<1>5. ScanTotalInv'
  BY DEF ScanTotalInv
<1>6. StartsInv' /\ IdleInv' /\ BlockInv'
  BY DEF StartsInv, IdleInv, BlockInv
<1>7. LookedInv'
  <2>1. Offsets(files)[0] = 0
    BY OffsetsOf
  <2> QED
    BY <2>1 DEF LookedInv
<1> QED
  BY <1>4, <1>5, <1>6, <1>7

\* What a scan has passed is what the client is told of.
LEMMA ScanEndKeeps == ASSUME PlayerIInv, ScanEnd PROVE PlayerIInv'
<1>1. /\ MaxTotal \in Nat /\ MaxFiles \in Nat \ {0} /\ Len(files) \in 1..MaxFiles
      /\ files \in Seq(Nat) /\ files \in Seq(0..MaxSize) /\ MaxSize \in Nat /\ MaxRequests \in Nat
      /\ Len(segs) \in Nat /\ Len(segs) <= Len(files)
  BY PlayerNumbers
<1>2. /\ at \in {"scan", "rescan"} /\ next \in Nat /\ next >= 1 /\ next <= Len(segs) + 1
      /\ (~gone => next > Len(files))
      /\ total \in 0..MaxTotal /\ asked \in [pos : 0..MaxTotal, len : 0..MaxTotal]
  BY <1>1 DEF ScanEnd, Exists, PlayerIInv, PlayerTypeOK, ScanTotalInv
<1>3. /\ totalFrames' = frames - 1 /\ at' = "idle" /\ next' = 1 /\ asked' = NoBlock
      /\ UNCHANGED <<files, growing, gone, segs, total, requests, torn>>
  BY DEF ScanEnd, disk
<1>4. totalFrames' \in -1..MaxTotal
  BY <1>3, FramesRange
<1>5. /\ open' \in 0..MaxFiles
      /\ block' \in [pos : 0..MaxTotal, file : 0..MaxFiles, off : 0..MaxTotal, len : 0..MaxTotal]
      /\ ~torn /\ block'.len > 0 =>
           /\ block'.file \in 1..Len(files)
           /\ Offsets(files)[block'.file - 1] + block'.off = block'.pos
  <2>1. CASE asked.pos < total
    <3> DEFINE n == Min({asked.len, total - asked.pos})
    <3>1. asked.len \in 0..MaxTotal /\ asked.pos \in 0..MaxTotal /\ total - asked.pos \in 0..MaxTotal
      BY <1>1, <1>2, <2>1
    <3>2. n \in 0..MaxTotal
      <4> SUFFICES ASSUME NEW x \in 0..MaxTotal, NEW y \in 0..MaxTotal PROVE Min({x, y}) \in 0..MaxTotal
        BY <3>1
      <4>1. x \in Int /\ y \in Int
        BY <1>1
      <4>2. Min({x, y}) = IF x <= y THEN x ELSE y
        BY <4>1, MinMaxOfTwo
      <4> QED
        BY <4>2
    <3>3. ReadAt(asked.pos, n)
      BY <2>1 DEF ScanEnd
    <3> HIDE DEF n
    <3> QED
      BY <3>1, <3>2, <3>3, ReadAtRight
  <2>2. CASE ~(asked.pos < total)
    <3>1. open' = open /\ block' = NoData
      BY <2>2 DEF ScanEnd
    <3> QED
      BY <1>1, <3>1 DEF NoData, PlayerIInv, PlayerTypeOK
  <2> QED
    BY <2>1, <2>2
<1>6. ASSUME ~torn
      PROVE  \E m \in 0..Len(segs) : ToldOf(m) /\ (~gone => m = Len(segs))
  <2> DEFINE m == next - 1
  <2>1. m \in 0..Len(segs) /\ (~gone => m = Len(segs))
    BY <1>1, <1>2
  <2>2. \A i \in 1..m : segs[i].end = IF i = m THEN total ELSE segs[i + 1].start
    BY <1>2, <1>6 DEF PlayerIInv, LookedInv
  <2>3. m = 0 => total = 0
    <3> SUFFICES ASSUME m = 0 PROVE total = 0
      OBVIOUS
    <3>1. next <= Len(files) /\ next - 1 = 0
      BY <1>1, <1>2
    <3>2. total = Offsets(files)[next - 1]
      BY <1>2, <1>6, <3>1 DEF PlayerIInv, LookedInv
    <3> QED
      BY <1>1, <3>1, <3>2, OffsetsOf
  <2>4. m > 0 => segs[1].start = 0
    <3> SUFFICES ASSUME m > 0 PROVE segs[1].start = 0
      OBVIOUS
    <3>1. 1 \in DOMAIN segs
      BY <1>1, <2>1, PlayerNumbers
    <3>2. segs[1].start = Offsets(files)[1 - 1]
      BY <1>6, <3>1 DEF PlayerIInv, StartsInv
    <3> QED
      BY <1>1, <3>2, OffsetsOf
  <2>5. \A i \in 1..(m - 1) : i \in 1..m /\ i # m
    BY <2>1
  <2>6. m > 0 => m \in 1..m
    BY <2>1
  <2> HIDE DEF m
  <2>7. ToldOf(m)
    BY <2>2, <2>3, <2>4, <2>5, <2>6 DEF ToldOf
  <2> QED
    BY <2>1, <2>7
<1>7. /\ next' \in 1..(MaxFiles + 1) /\ requests' \in 0..MaxRequests
      /\ asked' \in [pos : 0..MaxTotal, len : 0..MaxTotal]
  BY <1>1, <1>3 DEF NoBlock, PlayerIInv, PlayerTypeOK
<1> QED
  BY <1>3, <1>4, <1>5, <1>6, <1>7, BlockKeeps

\* A block is read at once if it is within the length known, otherwise after another scan.
LEMMA GetBlockKeeps == ASSUME PlayerIInv, GetBlock PROVE PlayerIInv'
<1>1. /\ MaxTotal \in Nat /\ MaxSize \in Nat \ {0} /\ MaxFiles \in Nat \ {0}
      /\ MaxSize <= MaxTotal /\ MaxRequests \in Nat
  BY PlayerNumbers
<1>2. at = "idle" /\ requests' \in 0..MaxRequests
  BY <1>1 DEF GetBlock, PlayerRequest, PlayerIInv, PlayerTypeOK
<1>3. PICK p \in 0..(MaxTotal - 1), n \in 1..MaxSize :
        IF p >= total
          THEN ReScan([pos |-> p, len |-> Min({n, total})])
          ELSE /\ ReadAt(p, Min({Min({n, total}), total - p}))
               /\ UNCHANGED <<disk, segs, total, totalFrames, at, next, asked, torn>>
  BY DEF GetBlock
<1>4. total \in 0..MaxTotal /\ p \in 0..MaxTotal /\ n \in 0..MaxTotal
  BY <1>1, <1>3 DEF PlayerIInv, PlayerTypeOK
<1> DEFINE clipped == Min({n, total})
<1>5. clipped \in 0..MaxTotal
  BY <1>1, <1>4, MinMaxOfTwo
<1>6. CASE p >= total
  <2>1. [pos |-> p, len |-> clipped] \in [pos : 0..MaxTotal, len : 0..MaxTotal]
    BY <1>4, <1>5
  <2> QED
    BY <1>2, <1>3, <1>6, <2>1, ReScanKeeps
<1>7. CASE ~(p >= total)
  <2> DEFINE m == Min({clipped, total - p})
  <2>1. total - p \in 0..MaxTotal
    BY <1>1, <1>4, <1>7
  <2>2. m \in 0..MaxTotal
    <3> HIDE DEF clipped
    <3> QED
      BY <1>1, <1>5, <2>1, MinMaxOfTwo
  <2>3. ReadAt(p, m) /\ UNCHANGED <<disk, segs, total, totalFrames, at, next, asked, torn>>
    BY <1>3, <1>7
  <2> HIDE DEF m
  <2>4. /\ open' \in 0..MaxFiles
        /\ block' \in [pos : 0..MaxTotal, file : 0..MaxFiles, off : 0..MaxTotal, len : 0..MaxTotal]
        /\ ~torn /\ block'.len > 0 =>
             /\ block'.file \in 1..Len(files)
             /\ Offsets(files)[block'.file - 1] + block'.off = block'.pos
    BY <1>4, <2>2, <2>3, ReadAtRight
  <2>5. ~torn => \E k \in 0..Len(segs) : ToldOf(k) /\ (~gone => k = Len(segs))
    BY <1>2 DEF PlayerIInv, IdleInv
  <2>6. /\ UNCHANGED <<files, growing, gone, segs, total, torn>> /\ at' = "idle"
        /\ next' \in 1..(MaxFiles + 1) /\ totalFrames' \in -1..MaxTotal
        /\ asked' \in [pos : 0..MaxTotal, len : 0..MaxTotal]
    BY <1>2, <2>3 DEF disk, PlayerIInv, PlayerTypeOK
  <2> QED
    BY <1>2, <2>4, <2>5, <2>6, BlockKeeps
<1> QED
  BY <1>6, <1>7

\* The length is asked for, which scans again.
LEMMA GetLengthKeeps == ASSUME PlayerIInv, GetLength PROVE PlayerIInv'
<1>1. NoBlock \in [pos : 0..MaxTotal, len : 0..MaxTotal] /\ requests' \in 0..MaxRequests
  <2>1. 0 \in 0..MaxTotal /\ MaxTotal \in 0..MaxTotal
    BY PlayerNumbers
  <2>2. requests' \in 0..MaxRequests
    <3>1. requests \in 0..MaxRequests
      BY DEF PlayerIInv, PlayerTypeOK
    <3>2. requests < MaxRequests /\ requests' = requests + 1
      BY DEF GetLength, PlayerRequest
    <3> QED
      BY <3>1, <3>2, PlayerNumbers
  <2> QED
    BY <2>1, <2>2 DEF NoBlock
<1> QED
  BY <1>1, ReScanKeeps DEF GetLength

\* At first no recording is open, and its first file is empty.
LEMMA PlayerInitInv == PlayerInit => PlayerIInv
<1> SUFFICES ASSUME PlayerInit PROVE PlayerIInv
  OBVIOUS
<1>1. MaxTotal \in Nat /\ MaxSize \in Nat \ {0} /\ MaxFiles \in Nat \ {0} /\ MaxRequests \in Nat
  <2>1. MaxFiles * MaxSize \in Nat
    BY PlayerAssumption
  <2> QED
    BY <2>1, PlayerAssumption DEF MaxTotal
<1>2. Len(<< >>) = 0 /\ << >> \in Seq(Segments) /\ DOMAIN << >> = {}
  BY EmptySeq
<1>3. <<0>> \in Seq(0..MaxSize) /\ Len(<<0>>) = 1
  BY <1>1
<1> USE DEF PlayerInit
<1>4. PlayerTypeOK
  <2>1. growing \in BOOLEAN /\ gone \in BOOLEAN /\ torn \in BOOLEAN /\ files \in Seq(0..MaxSize)
        /\ segs \in Seq(Segments) /\ at \in {"closed", "idle", "scan", "rescan"}
    BY <1>2, <1>3
  <2>2. /\ 1 \in 1..(MaxFiles + 1) /\ 0 \in 0..MaxTotal /\ 0 \in -1..MaxTotal /\ 0 \in 0..MaxFiles
        /\ 0 \in 0..MaxRequests /\ MaxTotal \in 0..MaxTotal
    BY <1>1
  <2> QED
    BY <2>1, <2>2 DEF PlayerTypeOK, Segments, NoBlock, NoData
<1>5. ScanTotalInv /\ StartsInv /\ LookedInv /\ IdleInv /\ BlockInv
  BY <1>1, <1>2, <1>3 DEF ScanTotalInv, StartsInv, LookedInv, IdleInv, BlockInv, NoData
<1> QED
  BY <1>4, <1>5 DEF PlayerIInv

\* All steps of the player and of VDR.
LEMMA PlayerNextKeeps == PlayerIInv /\ [PlayerNext]_playerVars => PlayerIInv'
BY WriteKeeps, NewFileKeeps, EndKeeps, OpenPlayerKeeps, ScanFileKeeps, LookAgainKeeps, ScanEndKeeps,
   GetBlockKeeps, GetLengthKeeps, ClosePlayerKeeps DEF PlayerNext

\* Segments that meet leave no position out.
LEMMA PlayerIInvImplies == PlayerIInv => PlayerInv
<1> SUFFICES ASSUME PlayerIInv PROVE PlayerInv
  OBVIOUS
<1>1. PlayerTypeOK
  BY DEF PlayerIInv
<1>2. BlocksRight
  BY DEF PlayerIInv, BlockInv, BlocksRight, TruePosition
<1>3. SegmentsMeet
  <2> SUFFICES ASSUME at = "idle", ~torn, ~gone, total # 0
               PROVE  /\ \A i \in 1..(Len(segs) - 1) : segs[i].end = segs[i + 1].start
                      /\ Last(segs).end = total
    BY DEF SegmentsMeet
  <2>1. ToldOf(Len(segs))
    BY DEF PlayerIInv, IdleInv
  <2>2. Len(segs) \in Nat
    BY PlayerNumbers
  <2> QED
    BY <2>1, <2>2 DEF ToldOf, Last
<1>4. AllReadable
  <2> SUFFICES ASSUME at = "idle", ~torn, NEW p \in 0..(total - 1) PROVE SegOf(p) # 0
    BY DEF AllReadable
  <2>1. PICK m \in 0..Len(segs) : ToldOf(m)
    BY DEF PlayerIInv, IdleInv
  <2>2. total \in Nat /\ p \in Nat /\ p < total /\ Len(segs) \in Nat /\ segs \in Seq(Segments)
    BY PlayerNumbers DEF PlayerIInv, PlayerTypeOK
  <2>3. m > 0 /\ segs[1].start = 0 /\ segs[m].end = total
        /\ \A i \in 1..(m - 1) : segs[i].end = segs[i + 1].start
    BY <2>1, <2>2 DEF ToldOf
  <2> DEFINE S == {i \in 1..m : p < segs[i].end}
  <2>4. S \in SUBSET Nat /\ m \in S
    BY <2>2, <2>3
  <2>5. PICK k \in S : \A j \in S : k <= j
    <3> HIDE DEF S
    <3> QED
      BY <2>4, NatMin
  <2>6. k \in 1..Len(segs) /\ p < segs[k].end
    BY <2>2, <2>5
  <2>7. segs[k].start <= p
    <3>1. CASE k = 1
      BY <2>2, <2>3, <3>1
    <3>2. CASE k # 1
      <4>1. k - 1 \in 1..(m - 1) /\ k - 1 \notin S /\ k - 1 \in 1..m /\ (k - 1) + 1 = k
            /\ k - 1 \in 1..Len(segs)
        BY <2>2, <2>5, <3>2
      <4>2. segs[k - 1].end = segs[k].start
        BY <2>3, <4>1
      <4>3. ~(p < segs[k - 1].end)
        BY <4>1
      <4>4. segs[k - 1].end \in Int
        <5>1. segs[k - 1] \in Segments
          BY <2>2, <4>1, ElementOfSeq
        <5> QED
          BY <5>1 DEF Segments
      <4> QED
        BY <2>2, <4>2, <4>3, <4>4
    <3> QED
      BY <3>1, <3>2
  <2> QED
    BY <2>2, <2>6, <2>7, SegOfHolds
<1> QED
  BY <1>1, <1>2, <1>3, <1>4 DEF PlayerInv

\* A block has the bytes of the position it was asked for and the client can read all of the
\* length it was told, whatever VDR writes meanwhile (recplayer.c, getBlock and reScan),
\* unless VDR goes on to another file between the looks at two files.
THEOREM PlayerIsSafe == PlayerSpec => []PlayerInv
BY PlayerInitInv, PlayerNextKeeps, PlayerIInvImplies, PTL DEF PlayerSpec

-----------------------------------------------------------------------------
(* What is played.                                                              *)

\* Of all that is played, one kind at a time, every invariant holds.
PlaybackIInv == FileIInv /\ RecordingIInv /\ PlayerIInv

\* Whatever a client plays, a timeshift file, a recording in progress or the blocks of a
\* recording, all its invariants hold at every step.
THEOREM PlaybackIsSafe == PlaybackSpec => []PlaybackInv
<1>1. PlaybackInit => PlaybackIInv
  BY FileInitInv, RecordingInitInv, PlayerInitInv DEF PlaybackInit, PlaybackIInv
<1>2. PlaybackIInv /\ [PlaybackNext]_playbackVars => PlaybackIInv'
  <2> SUFFICES ASSUME PlaybackIInv, [PlaybackNext]_playbackVars
               PROVE  /\ [FileNext]_fileVars /\ [RecordingNext]_recordingVars
                      /\ [PlayerNext]_playerVars
    BY FileStep, RecordingNextKeeps, PlayerNextKeeps DEF PlaybackIInv
  <2> QED
    BY DEF PlaybackNext, FilePart, RecordingPart, PlayerPart, playbackVars
<1>3. PlaybackIInv => PlaybackInv
  BY FileIInvImplies, PlayerIInvImplies DEF PlaybackIInv, PlaybackInv, RecordingIInv
<1> QED
  BY <1>1, <1>2, <1>3, PTL DEF PlaybackSpec

=============================================================================
