-------------------------------- MODULE RecPlayer --------------------------------
(***************************************************************************)
(* Playing a recording that may still be written (recplayer.c, the RECSTREAM  *)
(* requests of vnsiclient.c).  VDR writes a recording into numbered files and  *)
(* an index; the player maps the positions of the client to files by the sizes *)
(* it found when it scanned them, one file after another.                      *)
(*                                                                         *)
(* A byte is <<file, offset>>.  torn is a history variable: VDR went on to     *)
(* another file between the player's look at the one before and at that one.   *)
(***************************************************************************)
EXTENDS Naturals, Integers, Sequences, SequencesExt, FiniteSetsExt

CONSTANTS
  MaxFiles, MaxSize,   \* bounds: files of a recording, bytes of a file
  MaxRequests          \* bound: requests of the client

ASSUME PlayerAssumption == MaxFiles \in Nat \ {0} /\ MaxSize \in Nat \ {0} /\ MaxRequests \in Nat

VARIABLES
  files,       \* sizes of the files on disk
  growing,     \* VDR's recording goes on
  gone,        \* the recording was deleted, its directory renamed
  segs,        \* m_segments; a record [start, end] each
  total,       \* m_totalLength
  totalFrames, \* m_totalFrames; -1 is 2^32 - 1
  open,        \* m_fileOpen + 1, 0 if no file is open
  at,          \* what the player is doing: "closed", "idle", "scan", "rescan"
  next,        \* the file it looks at next
  asked,       \* the block asked for, or NoBlock
  block,       \* the last block answered: [pos, file, off, len]
  requests,
  torn

playerVars == <<files, growing, gone, segs, total, totalFrames, open, at, next, asked,
                block, requests, torn>>

disk == <<files, growing, gone>>

MaxTotal == MaxFiles * MaxSize

NoBlock == [pos |-> MaxTotal, len |-> 0]
NoData == [pos |-> 0, file |-> 0, off |-> 0, len |-> 0]

PlayerTypeOK ==
  /\ files \in Seq(0..MaxSize) /\ growing \in BOOLEAN /\ gone \in BOOLEAN
  /\ segs \in Seq([start : 0..MaxTotal, end : 0..(2 * MaxTotal)]) /\ total \in 0..MaxTotal
  /\ totalFrames \in -1..MaxTotal
  /\ open \in 0..MaxFiles
  /\ at \in {"closed", "idle", "scan", "rescan"} /\ next \in 1..(MaxFiles + 1)
  /\ asked \in [pos : 0..MaxTotal, len : 0..MaxTotal]
  /\ block \in [pos : 0..MaxTotal, file : 0..MaxFiles, off : 0..MaxTotal, len : 0..MaxTotal]
  /\ requests \in 0..MaxRequests /\ torn \in BOOLEAN

PlayerInit ==
  /\ files = <<0>> /\ growing = TRUE /\ gone = FALSE
  /\ segs = << >> /\ total = 0 /\ totalFrames = 0 /\ open = 0 /\ at = "closed" /\ next = 1
  /\ asked = NoBlock /\ block = NoData /\ requests = 0 /\ torn = FALSE

-----------------------------------------------------------------------------
(* VDR.  A frame is a byte long, so the index has as many frames as there are bytes.  *)

\* How many bytes of the recording the first files have, for each number of them.
Offsets(sizes) ==
  LET sum[i \in 0..Len(sizes)] == IF i = 0 THEN 0 ELSE sum[i - 1] + sizes[i] IN sum

frames == Offsets(files)[Len(files)]

Write ==
  /\ growing /\ Last(files) < MaxSize
  /\ files' = [files EXCEPT ![Len(files)] = @ + 1]
  /\ UNCHANGED <<growing, gone, segs, total, totalFrames, open, at, next, asked, block, requests, torn>>

\* The recording goes on in another file.
NewFile ==
  /\ growing /\ Last(files) > 0 /\ Len(files) < MaxFiles
  /\ files' = Append(files, 0)
  /\ torn' = (torn \/ (at \in {"scan", "rescan"} /\ next = Len(files) + 1
                         /\ segs[Len(files)].end # segs[Len(files)].start + Last(files)))
  /\ UNCHANGED <<growing, gone, segs, total, totalFrames, open, at, next, asked, block, requests>>

StopWriting ==
  /\ growing /\ growing' = FALSE
  /\ UNCHANGED <<files, gone, segs, total, totalFrames, open, at, next, asked, block, requests, torn>>

RemoveRecording ==
  /\ ~growing /\ ~gone /\ gone' = TRUE
  /\ UNCHANGED <<files, growing, segs, total, totalFrames, open, at, next, asked, block, requests, torn>>

-----------------------------------------------------------------------------
(* Scanning: scan() forgets what it knew, reScan() updates the ends of the         *)
(* segments and adds new ones.                                                   *)

Exists(n) == ~gone /\ n <= Len(files)

OpenPlayer ==
  /\ at = "closed" /\ ~gone
  /\ at' = "scan" /\ next' = 1
  /\ segs' = << >> /\ total' = 0 /\ totalFrames' = 0 /\ open' = 0 /\ torn' = FALSE
  /\ UNCHANGED <<disk, asked, block, requests>>

ReScan(b) ==
  /\ at' = "rescan" /\ next' = 1 /\ total' = 0 /\ asked' = b
  /\ UNCHANGED <<disk, segs, totalFrames, open, block, torn>>

ScanFile ==
  /\ at \in {"scan", "rescan"} /\ Exists(next)
  /\ segs' = IF next <= Len(segs)
               THEN [segs EXCEPT ![next].end = segs[next].start + files[next]]
               ELSE Append(segs, [start |-> total, end |-> total + files[next]])
  /\ total' = total + files[next]
  /\ next' = next + 1
  /\ UNCHANGED <<disk, totalFrames, open, at, asked, block, requests, torn>>

\* The bytes of a block: the first segment that holds the position, its file from there
\* on, as much as the file has.  Files do not shrink: that is nothing only if nothing was
\* asked for.
SegOf(p) ==
  LET S == {i \in DOMAIN segs : segs[i].start <= p /\ p < segs[i].end}
  IN IF S = {} THEN 0 ELSE Min(S)

\* Faulty variant: the offset is not relative to the segment.
ReadAtAbsolute(p, n) ==
  LET i == SegOf(p)
  IN /\ open' = IF i = 0 THEN open ELSE IF open = i \/ Exists(i) THEN i ELSE 0
     /\ block' = IF i = 0 THEN NoData
                 ELSE IF open' = 0 THEN NoData
                 ELSE [pos |-> p, file |-> i, off |-> p, len |-> Min({n, Max({files[i] - p, 0})})]

ReadAt(p, n) ==
  LET i == SegOf(p)
      off == p - segs[i].start
  IN /\ open' = IF i = 0 THEN open ELSE IF open = i \/ Exists(i) THEN i ELSE 0
     /\ block' = IF i = 0 THEN NoData
                 ELSE IF open' = 0 THEN NoData
                 ELSE [pos |-> p, file |-> i, off |-> off, len |-> Min({n, Max({files[i] - off, 0})})]

\* The amount was cut to nothing by the length known before the scan, which has found more:
\* the player reads nothing at one position after the other, each call inside the last.
ReadsOn ==
  /\ asked.len = 0 /\ asked.pos < total
  /\ \A p \in asked.pos..(total - 1) : SegOf(p) # 0 /\ (open = SegOf(p) \/ Exists(SegOf(p)))

\* Behind the end it scans again.
LookAgain ==
  /\ at = "rescan" /\ ~Exists(next) /\ ReadsOn
  /\ totalFrames' = frames - 1 /\ open' = SegOf(total - 1)
  /\ next' = 1 /\ total' = 0 /\ asked' = [pos |-> total, len |-> 0]
  /\ UNCHANGED <<disk, segs, at, block, requests, torn>>

\* The end of a scan; a block that waited for it is read if there is something now.
ScanEnd ==
  /\ at \in {"scan", "rescan"} /\ ~Exists(next) /\ ~ReadsOn
  /\ totalFrames' = frames - 1
  /\ at' = "idle" /\ next' = 1 /\ asked' = NoBlock
  /\ IF asked.pos < total
       THEN ReadAt(asked.pos, Min({asked.len, total - asked.pos}))
       ELSE UNCHANGED open /\ block' = NoData
  /\ UNCHANGED <<disk, segs, total, requests, torn>>

-----------------------------------------------------------------------------
(* Requests. *)

PlayerRequest == at = "idle" /\ requests < MaxRequests /\ requests' = requests + 1

\* getBlock.  The amount is cut to the length known before the player scans again.
GetBlock ==
  /\ PlayerRequest
  /\ \E p \in 0..(MaxTotal - 1), n \in 1..MaxSize :
       LET clipped == Min({n, total})
       IN IF p >= total
            THEN ReScan([pos |-> p, len |-> clipped])
            ELSE /\ ReadAt(p, Min({clipped, total - p}))
                 /\ UNCHANGED <<disk, segs, total, totalFrames, at, next, asked, torn>>

\* GETLENGTH scans again, too.
GetLength == PlayerRequest /\ ReScan(NoBlock)

ClosePlayer ==
  /\ at = "idle" /\ at' = "closed"
  /\ segs' = << >> /\ total' = 0 /\ open' = 0 /\ block' = NoData
  /\ UNCHANGED <<disk, totalFrames, next, asked, requests, torn>>

PlayerNext ==
  \/ Write \/ NewFile \/ StopWriting \/ RemoveRecording
  \/ OpenPlayer \/ ScanFile \/ LookAgain \/ ScanEnd
  \/ GetBlock \/ GetLength \/ ClosePlayer
  \/ at = "closed" /\ gone /\ UNCHANGED playerVars

PlayerSpec == PlayerInit /\ [][PlayerNext]_playerVars

-----------------------------------------------------------------------------
(* Correctness.                                                                 *)

\* Where a byte is in the whole recording.
TruePosition(file, off) == Offsets(files)[file - 1] + off

\* A block holds the bytes of the recording at the position asked for, whatever was
\* written since the player was opened, unless VDR changed files under a scan.
BlocksRight == ~torn /\ block.len > 0 => TruePosition(block.file, block.off) = block.pos

\* The segments follow each other without gaps or overlaps, and end where the length the
\* client was told ends, unless VDR changed files under a scan.
SegmentsMeet ==
  at = "idle" /\ ~torn /\ ~gone /\ total # 0 =>
    /\ \A i \in 1..(Len(segs) - 1) : segs[i].end = segs[i + 1].start
    /\ Last(segs).end = total

\* A client can read all of what it was told the length of.
AllReadable ==
  at = "idle" /\ ~torn => \A p \in 0..(total - 1) : SegOf(p) # 0

\* Segments, length and files agree.
PlayerInv == PlayerTypeOK /\ BlocksRight /\ SegmentsMeet /\ AllReadable

=============================================================================
