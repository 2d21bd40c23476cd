----------------------------- MODULE MCLiveStream -----------------------------
(* A small instance of LiveStream: two buffers, the current one and its successor, *)
(* which may be exchanged for each other.                                         *)
EXTENDS LiveStream, TLC

Symmetry == Permutations(Buffers)

=============================================================================
