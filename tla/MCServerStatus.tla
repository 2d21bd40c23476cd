----------------------------- MODULE MCServerStatus -----------------------------
(* One client and one of VDR's lists, looked at every few seconds only.  The client logs  *)
(* in, asks for changes and starts a scan, in this order, so that a change comes before    *)
(* the scan, while it is being started, and while it holds changes back.                 *)
EXTENDS ServerStatus

List == <<"channels">>

Steps == <<"Login", "EnableStatus", "ScanStart">>

InOrder ==
  \A c \in Clients : sent'[c] > sent[c] =>
    wire'[c][Len(wire'[c])] = Request(sent'[c], Steps[sent'[c]], TRUE)

MCStatusSpec == StatusInit /\ [][StatusNext /\ InOrder]_allVars /\ StatusFairness

=============================================================================
