-------------------------- MODULE MCTimeshiftBuffer --------------------------
(* A small instance of TimeshiftBuffer: packets of two bytes in a ring of an odd *)
(* number of bytes, so that packets straddle the end of the ring as they do with *)
(* packets of 188 bytes in a ring of a multiple of 100,000,000.                  *)
EXTENDS TimeshiftBuffer

\* Every packet's first byte, and some bytes of the payload that look like one.
MCSyncBytes == {s \in 0 .. 200 : s % TSSize = 0 \/ s % 7 = 3}

=============================================================================
