---------------------------- MODULE MCClientSession ----------------------------
(* One client that sends two requests of any kind, well formed or not, and a message *)
(* of VDR between them.                                                           *)
EXTENDS ClientSession

=============================================================================
