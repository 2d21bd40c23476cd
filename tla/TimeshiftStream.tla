--------------------------- MODULE TimeshiftStream ---------------------------
(***************************************************************************)
(* What a timeshift buffer promises to the demuxer: a window on a stream   *)
(* of bytes.  The device appends to it and never runs Capacity bytes ahead *)
(* of the reader; the reader is handed packets that start less than a      *)
(* packet's length ahead of its position, a packet it holds does not       *)
(* change, and the next one is looked for right behind it; a seek moves    *)
(* the reader within the stream.  Once lost is set, nothing is promised    *)
(* any more.                                                               *)
(***************************************************************************)
EXTENDS Integers

CONSTANTS
  Capacity,    \* the reader is never this far behind
  PacketSize,  \* the length of a packet
  MaxAppend    \* the most bytes that are appended at once

VARIABLES
  written,  \* the number of bytes appended
  readPos,  \* the position the reader goes on from
  taken,    \* the bytes from there to the end of the packet delivered last
  block,    \* the bytes of the packet the reader holds, a function of 1 .. PacketSize
  lost

vars == <<written, readPos, taken, block, lost>>

NoBlock == [j \in {} |-> 0]
BlockAt(pos) == [j \in 1 .. PacketSize |-> pos + j - 1]

Init ==
  /\ written = 0
  /\ readPos = 0
  /\ taken = 0
  /\ block = NoBlock
  /\ lost = FALSE

Append ==
  /\ \E n \in 1 .. MaxAppend : written' = written + n
  /\ written' - readPos < Capacity
  /\ UNCHANGED <<readPos, taken, block, lost>>

Advance ==
  /\ block = NoBlock
  /\ readPos' = readPos + taken
  /\ taken' = 0
  /\ UNCHANGED <<written, block, lost>>

Deliver ==
  /\ block = NoBlock
  /\ taken = 0
  /\ \E k \in 0 .. PacketSize - 1 :
       /\ readPos + k + PacketSize <= written
       /\ block' = BlockAt(readPos + k)
       /\ taken' = k + PacketSize
  /\ UNCHANGED <<written, readPos, lost>>

Release ==
  /\ block # NoBlock
  /\ block' = NoBlock
  /\ UNCHANGED <<written, readPos, taken, lost>>

Seek ==
  /\ block = NoBlock
  /\ readPos' \in 0 .. written
  /\ written - readPos' < Capacity
  /\ taken' = 0
  /\ UNCHANGED <<written, block, lost>>

Lose == lost'

Next ==
  \/ ~lost /\ (Append \/ Advance \/ Deliver \/ Release \/ Seek)
  \/ Lose

Spec == Init /\ [][Next]_vars

=============================================================================
