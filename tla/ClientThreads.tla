----------------------------- MODULE ClientThreads -----------------------------
(***************************************************************************)
(* The threads of the connected clients, which share what the whole server has  *)
(* one of, and the holder of a lock that is free.                                *)
(***************************************************************************)

CONSTANTS Client, Nobody

ASSUME ClientAssumption == Nobody \notin Client

=============================================================================
