---------------------------------- MODULE Lists ----------------------------------
(* What the modules of the channels and of the sessions need of sequences.            *)
EXTENDS Integers, Sequences

\* The elements of l that are in S, in their order (SelectSeq, for a set).
Kept(l, S) ==
  LET kept[i \in 0..Len(l)] ==
        IF i = 0 THEN << >> ELSE IF l[i] \in S THEN Append(kept[i - 1], l[i]) ELSE kept[i - 1]
  IN kept[Len(l)]

=============================================================================
