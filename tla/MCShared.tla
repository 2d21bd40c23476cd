------------------------------- MODULE MCShared -------------------------------
(* What the threads of all clients share: the OSD provider, the recordings, the search  *)
(* timers and the channel filter.  The parts are modelled with variables of their own, so *)
(* a behaviour has one of them, part; the others stay as they are.  In the code two locks  *)
(* are taken by more than one part: cVNSIClient::m_timerLock by the requests for timers     *)
(* and for the list of recordings, VDR's lock on the recordings by these and by the scan.   *)
EXTENDS Osd, Recordings, SearchTimers, ChannelFilter

VARIABLE part

sharedVars == <<part, osdAllVars, recVars, vars, channelVars>>

\* Recordings: the number of a file is of no importance, so any four will do.
CONSTANTS n1, n2

MCHash == [f \in {n1, n2} \X {"rec", "del"} |->
             (IF f[1] = n1 THEN 1 ELSE 3) + (IF f[2] = "rec" THEN 0 ELSE 1)]

\* Search timers: one event, on the one channel there is.
MCEvents == {"news"}
MCChannelOf == "news" :> 1
MCFound == "all" :> MCEvents @@ "other" :> {}
MCFields ==
  {[ch |-> 1, text |-> "all", on |-> TRUE, plain |-> TRUE],
   [ch |-> 1, text |-> "all", on |-> FALSE, plain |-> FALSE],
   [ch |-> 1, text |-> "other", on |-> TRUE, plain |-> TRUE]}

\* The filter: a channel with two CA ids and a radio channel before a separator.
Station(radio, prov, caids) ==
  [sep |-> FALSE, name |-> "", radio |-> radio, prov |-> prov, caids |-> caids,
   obsolete |-> FALSE, invalid |-> FALSE]
Separator(name) ==
  [sep |-> TRUE, name |-> name, radio |-> FALSE, prov |-> "", caids |-> {},
   obsolete |-> FALSE, invalid |-> TRUE]

MCChannel == {"coded", "radio", "first"}
MCInfo ==
  "coded" :> Station(FALSE, "p", {1, 2}) @@
  "radio" :> Station(TRUE, "p", {}) @@
  "first" :> Separator("one")
MCStartList == <<"coded", "radio", "first">>
\* The line of a provider "p|2" with the CA id 0 is read as that of "p" with 2.
MCEntry == {<<"p", 2>>, <<"p|2", 0>>}
MCParsed == [e \in MCEntry |-> IF e[1] = "p|2" THEN {<<"p", 2>>} ELSE {e}]
MCWhite == FALSE :> {{}, {<<"p|2", 0>>}} @@ TRUE :> {{}}
MCBlack == FALSE :> {{}} @@ TRUE :> {{}, {"radio"}}

SharedInit ==
  /\ part \in {"osd", "recordings", "timers", "filter"}
  /\ OsdInit /\ TimersInit /\ FilterInit /\ RecordingsInit
  /\ part # "recordings" => disk = {}

SharedNext ==
  /\ UNCHANGED part
  /\ \/ part = "osd" /\ OsdNext /\ UNCHANGED <<recVars, vars, channelVars>>
     \/ part = "recordings" /\ RecordingsNext /\ UNCHANGED <<osdAllVars, vars, channelVars>>
     \/ part = "timers" /\ TimersNext /\ UNCHANGED <<osdAllVars, recVars, channelVars>>
     \/ part = "filter" /\ FilterNext /\ UNCHANGED <<osdAllVars, recVars, vars>>

SharedSpec == SharedInit /\ [][SharedNext]_sharedVars

\* Nothing tells the clients apart.
MCSymmetry == Permutations(Client)

=============================================================================
