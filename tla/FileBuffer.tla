-------------------------------- MODULE FileBuffer --------------------------------
(***************************************************************************)
(* The timeshift buffer in a file (cVideoBufferFile, videobuffer.c).  Put runs *)
(* in VDR's device thread and writes a ring of bytes with pwrite; ReadBlock    *)
(* runs in the streamer's thread, reads a block of CacheMax bytes with pread   *)
(* and hands out packets of this cache until less than m_Margin bytes are left *)
(* in it.  Every pwrite and every pread is an action, and so is every section  *)
(* under the buffer's mutex.                                                   *)
(*                                                                         *)
(* As in TimeshiftBuffer a byte is its stamp, the index in the stream of bytes *)
(* accepted.  Which bytes look like the start of a packet is left open, but    *)
(* for the distance to the next one.                                           *)
(***************************************************************************)
EXTENDS Integers, Sequences

CONSTANTS
  BufferSize,    \* m_BufferSize
  TSSize,        \* TS_SIZE
  Margin,        \* MARGIN
  CacheMax,      \* m_ReadCacheMaxSize
  Chunks,        \* the sizes Put is called with
  MaxChunk,      \* a bound of them
  EndStep,       \* how far SeekTime steps back from the newest position
  ReadsFail,     \* pread may fail
  StreamLength   \* bound: the bytes the device delivers

ReadMargin == 2 * TSSize    \* m_Margin
Huge == 2 ^ 30              \* for 2^32 - 1, which -1 is in the unsigned m_ReadCacheSize

ASSUME FileBufferAssumption ==
  /\ TSSize \in Nat \ {0} /\ ReadsFail \in BOOLEAN /\ StreamLength \in Nat
  /\ EndStep \in Nat /\ CacheMax \in Nat /\ Margin \in Nat /\ BufferSize \in Nat
  /\ ReadMargin <= CacheMax /\ CacheMax < Margin /\ 3 * Margin < BufferSize
  /\ MaxChunk \in Nat /\ 2 * MaxChunk <= Margin /\ Chunks \subseteq 1..MaxChunk

VARIABLES
  file,                 \* the bytes of the file
  writePtr, bufferFull, \* m_WritePtr, m_BufferFull
  wpc, size,            \* Put: where it is, and the bytes it has yet to write
  readPtr, bytesConsumed, \* m_ReadPtr, m_BytesConsumed
  cache,                \* m_ReadCache as far as something was read into it
  cachePtr, cacheSize,  \* m_ReadCachePtr, m_ReadCacheSize
  rpc, readBytes,       \* ReadBlock: where it is, and its local readBytes
  written,              \* history: bytes accepted
  readPos,              \* history: the stamp of the byte at readPtr
  lost                  \* history: a chunk was written in part, a read failed, or a seek
                        \* left what the buffer offered

writerVars == <<file, writePtr, bufferFull, wpc, size, written>>
readerVars == <<readPtr, bytesConsumed, cache, cachePtr, cacheSize, rpc, readBytes, readPos>>
fileVars == <<writerVars, readerVars, lost>>

-----------------------------------------------------------------------------
(* Positions.                                                                  *)

Avail(r, w) == IF r <= w THEN w - r ELSE BufferSize - (r - w)
Available == Avail(readPtr, writePtr)

Wrapped(p) == IF p >= BufferSize THEN p - BufferSize ELSE p

PosMin == IF ~bufferFull THEN 0 ELSE Wrapped(writePtr + 2 * Margin)
PosCur == IF readPtr < PosMin THEN readPtr + BufferSize ELSE readPtr

PosEnd == IF writePtr < PosMin THEN writePtr + BufferSize ELSE writePtr

\* A block is kept between the newest position and the writer.
PosMax == IF PosEnd >= CacheMax THEN PosEnd - CacheMax ELSE 0

\* The positions SeekTime may come to: it reads the window once, goes on with what it has
\* read while the writer does, and steps back from its end without a look at its start.
\* Bound: once something is lost, it comes to what the buffer offers.
Sought ==
  IF lost THEN PosMin..PosMax
  ELSE (-EndStep)..(IF bufferFull THEN 2 * BufferSize - 1 ELSE writePtr) \cup {PosCur}

Offered(pos) == \E p \in PosMin..PosEnd : Wrapped(p) = Wrapped(pos)

-----------------------------------------------------------------------------

FileInit ==
  /\ file = [i \in 0..(BufferSize - 1) |-> i - BufferSize]
  /\ writePtr = 0 /\ bufferFull = FALSE /\ wpc = "idle" /\ size = 0
  /\ readPtr = 0 /\ bytesConsumed = 0
  /\ cache = << >> /\ cachePtr = 0 /\ cacheSize = 0 /\ rpc = "idle" /\ readBytes = 0
  /\ written = 0 /\ readPos = 0 /\ lost = FALSE

(* Put. *)

\* A chunk that comes when the buffer is full is dropped.  Bound: no chunk comes any more once
\* something is lost.
PutStart(n) ==
  /\ ~lost /\ wpc = "idle" /\ written + n <= StreamLength /\ Available + Margin < BufferSize
  /\ size' = n
  /\ wpc' = IF BufferSize - writePtr <= n THEN "tail" ELSE "rest"
  /\ UNCHANGED <<file, writePtr, bufferFull, written, readerVars, lost>>

Filled(n) == [i \in DOMAIN file |-> IF i \in writePtr..(writePtr + n - 1)
                                    THEN written + (i - writePtr) ELSE file[i]]

PutTail ==
  /\ wpc = "tail"
  /\ file' = Filled(BufferSize - writePtr) /\ wpc' = "wrap"
  /\ UNCHANGED <<writePtr, bufferFull, size, written, readerVars, lost>>

PutWrap ==
  /\ wpc = "wrap"
  /\ LET n == BufferSize - writePtr IN size' = size - n /\ written' = written + n
  /\ writePtr' = 0 /\ wpc' = "rest"
  /\ UNCHANGED <<file, bufferFull, readerVars, lost>>

PutRest ==
  /\ wpc = "rest"
  /\ file' = Filled(size) /\ wpc' = "publish"
  /\ UNCHANGED <<writePtr, bufferFull, size, written, readerVars, lost>>

\* pwrite fails, at the start or after some bytes: what has not been published of the chunk
\* is dropped.  If its first part has been published, a packet is cut.
PutFails ==
  /\ wpc \in {"tail", "rest"}
  /\ \E n \in 0..(size - 1) : /\ wpc = "tail" => n < BufferSize - writePtr
                             /\ file' = Filled(n)
  /\ wpc' = "idle" /\ size' = 0
  /\ lost' = (lost \/ (wpc = "rest" /\ writePtr = 0 /\ written > 0))
  /\ UNCHANGED <<writePtr, bufferFull, written, readerVars>>

PutPublish ==
  /\ wpc = "publish"
  /\ writePtr' = writePtr + size /\ written' = written + size
  /\ bufferFull' = (bufferFull \/ writePtr + size + 2 * Margin > BufferSize)
  /\ size' = 0 /\ wpc' = "idle"
  /\ UNCHANGED <<file, readerVars, lost>>

-----------------------------------------------------------------------------
(* ReadBlock. *)

\* Bound: how far a reader goes on behind the end of the cache once a read has failed.
ReadConsume ==
  /\ rpc = "idle" /\ (lost => cachePtr <= CacheMax)
  /\ readPtr' = Wrapped(readPtr + bytesConsumed) /\ readPos' = readPos + bytesConsumed
  /\ cachePtr' = cachePtr + bytesConsumed /\ bytesConsumed' = 0
  /\ rpc' = "check"
  /\ UNCHANGED <<cache, cacheSize, readBytes, writerVars, lost>>

\* Faulty variant: the whole cache is used up before it is filled again.
ReadCheckToEnd ==
  /\ rpc = "check"
  /\ IF cacheSize # 0 /\ cachePtr < cacheSize
       THEN rpc' = "scan" /\ readBytes' = cacheSize - cachePtr
       ELSE rpc' = (IF Available >= CacheMax THEN "load" ELSE "idle") /\ UNCHANGED readBytes
  /\ UNCHANGED <<readPtr, bytesConsumed, cache, cachePtr, cacheSize, readPos, writerVars, lost>>

\* Faulty variant: the reader waits for the writer's margin, too.
ReadCheckTooMuch ==
  /\ rpc = "check"
  /\ IF cacheSize # 0 /\ cachePtr + ReadMargin <= cacheSize
       THEN rpc' = "scan" /\ readBytes' = cacheSize - cachePtr
       ELSE /\ rpc' = (IF Available >= CacheMax + Margin THEN "load" ELSE "idle")
            /\ UNCHANGED readBytes
  /\ UNCHANGED <<readPtr, bytesConsumed, cache, cachePtr, cacheSize, readPos, writerVars, lost>>

ReadCheck ==
  /\ rpc = "check"
  /\ IF cacheSize # 0 /\ cachePtr + ReadMargin <= cacheSize
       THEN rpc' = "scan" /\ readBytes' = cacheSize - cachePtr
       ELSE rpc' = (IF Available >= CacheMax THEN "load" ELSE "idle") /\ UNCHANGED readBytes
  /\ UNCHANGED <<readPtr, bytesConsumed, cache, cachePtr, cacheSize, readPos, writerVars, lost>>

Read(pos, n) == [i \in 1..n |-> file[pos + i - 1]]

Loaded(bytes) ==
  /\ cache' = bytes /\ cacheSize' = Len(bytes) /\ cachePtr' = 0
  /\ readBytes' = Len(bytes) /\ rpc' = "scan"

\* One pread, or the first one of two when the block runs over the end of the ring.
Load ==
  /\ rpc = "load" /\ readPtr >= 0
  /\ LET n == BufferSize - readPtr
     IN IF readPtr + CacheMax <= BufferSize THEN Loaded(Read(readPtr, CacheMax))
        ELSE /\ cache' = Read(readPtr, n) /\ cacheSize' = n /\ rpc' = "load2"
             /\ UNCHANGED <<cachePtr, readBytes>>
  /\ UNCHANGED <<readPtr, bytesConsumed, readPos, writerVars, lost>>

LoadFront ==
  /\ rpc = "load2"
  /\ Loaded(cache \o Read(0, CacheMax - cacheSize))
  /\ UNCHANGED <<readPtr, bytesConsumed, readPos, writerVars, lost>>

\* A pread that fails, as it does at a negative position: the size is unsigned, so that it
\* is never found to be negative and the cache counts as full of what was in it before.
LoadFails ==
  /\ ReadsFail \/ readPtr < 0
  /\ rpc = "load" /\ readPtr + CacheMax <= BufferSize
  /\ cacheSize' = Huge /\ cachePtr' = 0 /\ readBytes' = Huge /\ rpc' = "scan" /\ lost' = TRUE
  /\ UNCHANGED <<readPtr, bytesConsumed, cache, readPos, writerVars>>

\* The second pread fails: the cache is emptied, and the block is read again.
LoadFrontFails ==
  /\ ReadsFail /\ rpc = "load2"
  /\ cacheSize' = 0 /\ rpc' = "idle" /\ lost' = TRUE
  /\ UNCHANGED <<readPtr, bytesConsumed, cache, cachePtr, readBytes, readPos, writerVars>>

\* The search for a packet looks at the cache from cachePtr on.
ReadScan ==
  /\ rpc = "scan"
  /\ \E k \in 0..(TSSize - 1) : bytesConsumed' = k + TSSize
  /\ rpc' = "hold" /\ readBytes' = 0
  /\ UNCHANGED <<readPtr, cache, cachePtr, cacheSize, readPos, writerVars, lost>>

Process ==
  /\ rpc = "hold" /\ rpc' = "idle"
  /\ UNCHANGED <<readPtr, bytesConsumed, cache, cachePtr, cacheSize, readBytes, readPos, writerVars, lost>>

\* SetPos.  The writer cannot know where the reader goes: nothing is promised behind a seek
\* that leaves the window.
SetPos(pos) ==
  /\ rpc = "idle"
  /\ readPtr' = Wrapped(pos) /\ readPos' = written - Avail(Wrapped(pos), writePtr)
  /\ bytesConsumed' = 0 /\ cacheSize' = 0
  /\ lost' = (lost \/ ~Offered(pos))
  /\ UNCHANGED <<cache, cachePtr, rpc, readBytes, writerVars>>

-----------------------------------------------------------------------------

FilePut == (\E n \in Chunks : PutStart(n)) \/ PutTail \/ PutWrap \/ PutRest \/ PutFails \/ PutPublish
FileReadBlock == ReadConsume \/ ReadCheck \/ Load \/ LoadFront \/ LoadFails \/ LoadFrontFails \/ ReadScan

FileNext ==
  \/ FilePut \/ FileReadBlock \/ Process
  \/ \E pos \in Sought : SetPos(pos)

FileSpec == FileInit /\ [][FileNext]_fileVars

\* The streamer's thread calls ReadBlock over and over; a seek is the client's business.
FileFairSpec == FileSpec /\ WF_fileVars(FileReadBlock) /\ WF_fileVars(Process)

\* The packet handed out, in the cache.
FileBlock ==
  IF rpc # "hold" THEN [j \in {} |-> 0]
  ELSE [j \in 1..TSSize |->
          LET i == cachePtr + bytesConsumed - TSSize + j
          IN IF i \in DOMAIN cache THEN cache[i] ELSE -1]

Stream == INSTANCE TimeshiftStream WITH
  Capacity <- BufferSize, PacketSize <- TSSize, MaxAppend <- MaxChunk,
  taken <- bytesConsumed, block <- FileBlock

-----------------------------------------------------------------------------
(* Correctness.                                                                 *)

FileTypeOK ==
  /\ file \in [0..(BufferSize - 1) -> Int] /\ writePtr \in 0..(BufferSize - 1)
  /\ bufferFull \in BOOLEAN /\ wpc \in {"idle", "tail", "wrap", "rest", "publish"} /\ size \in Nat
  /\ readPtr \in (-EndStep)..(BufferSize - 1) /\ bytesConsumed \in Nat
  /\ cache \in Seq(Int) /\ cachePtr \in Nat /\ cacheSize \in Nat
  /\ rpc \in {"idle", "check", "load", "load2", "scan", "hold"} /\ readBytes \in Nat
  /\ written \in Nat /\ readPos \in Int /\ lost \in BOOLEAN

\* What is left in the cache is the stream from the read pointer on, whatever was written
\* into the ring while the cache was filled and since, and wherever in the window a seek went.
CacheCoherent ==
  ~lost /\ rpc # "load2" => \A i \in (cachePtr + 1)..cacheSize : cache[i] = readPos + i - cachePtr - 1

\* As long as no pread or pwrite fails and seeks stay in the window, the file implements the
\* window on a stream that a timeshift buffer promises: packets in order, each once, whole,
\* while the writer stays behind the reader in the ring.
FileImplementsStream == Stream!Spec

\* The newest position a seek is offered leaves a block to be read: after the seek the
\* reader finds a packet without waiting for the device.
SeekReadable ==
  ~lost /\ written >= CacheMax => Avail(Wrapped(PosMax), writePtr) >= CacheMax

\* The reader that has a block in front of it gets a packet, unless a seek leads to where
\* there is less.
FileReaderProgress ==
  Available - bytesConsumed >= CacheMax ~> (rpc = "hold" \/ lost \/ Available < CacheMax)

\* Pointers, cache and file agree.
FileInv == FileTypeOK /\ CacheCoherent /\ SeekReadable

=============================================================================
