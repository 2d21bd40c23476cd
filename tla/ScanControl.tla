------------------------------ MODULE ScanControl ------------------------------
(***************************************************************************)
(* The channel scan (channelscancontrol.c and the SCAN requests of           *)
(* vnsiclient.c).  Every client owns a CScanControl; all of them drive the   *)
(* one wirbelscan plugin, and one static flag of cVNSIClient keeps the       *)
(* status thread from announcing changes while a scan runs.                  *)
(*                                                                         *)
(* A request or the end of a session runs in the caller's thread (call),     *)
(* the polling thread of CScanControl beside it (poll).  told is a history   *)
(* variable: what the client was last told of the scan it started.           *)
(***************************************************************************)
EXTENDS Naturals

CONSTANTS
  Clients,
  ScannerOK,   \* the wirbelscan plugin is there and recent enough
  Leftover,    \* the values an uninitialised flag may have
  MaxStarts    \* bound: scans started in a behaviour

ASSUME ScanAssumption == ScannerOK \in BOOLEAN /\ Leftover \subseteq BOOLEAN /\ MaxStarts \in Nat

VARIABLES
  plugin,      \* wirbelscan: "stopped", "scanning" or "stopping"
  inhibit,     \* cVNSIClient::m_inhibidDataUpdates
  supported,   \* per client: ~m_isNotSupported
  finished,    \* per client: m_finishReported
  status,      \* per client: m_scanStatus.status is StatusStopped
  poll,        \* per client: the polling thread
  call,        \* per client: where the caller's thread is
  told,
  starts

scanVars == <<plugin, inhibit, supported, finished, status, poll, call, told, starts>>

Calls == {"none", "starting", "stop", "stopping", "reporting", "leaving", "lastReport", "gone"}

ScanTypeOK ==
  /\ plugin \in {"stopped", "scanning", "stopping"}
  /\ inhibit \in BOOLEAN
  /\ supported \in [Clients -> BOOLEAN]
  /\ finished \in [Clients -> BOOLEAN]
  /\ status \in [Clients -> BOOLEAN]
  /\ poll \in [Clients -> {"off", "sleep", "report"}]
  /\ call \in [Clients -> Calls]
  /\ told \in [Clients -> {"nothing", "started", "finished"}]
  /\ starts \in 0..MaxStarts

\* m_finishReported and m_scanStatus are not initialised by the constructor.
ScanInit ==
  /\ plugin = "stopped"
  /\ inhibit = FALSE
  /\ supported = [c \in Clients |-> FALSE]
  /\ finished \in [Clients -> Leftover]
  /\ status \in [Clients -> Leftover]
  /\ poll = [c \in Clients |-> "off"]
  /\ call = [c \in Clients |-> "none"]
  /\ told = [c \in Clients |-> "nothing"]
  /\ starts = 0

-----------------------------------------------------------------------------
(* The requests.  m_isChecked is never set, so that every question whether     *)
(* scans are supported loads the scanner again.                                *)

IsSupported(c) == supported' = [supported EXCEPT ![c] = ScannerOK]

\* VNSI_SCAN_SUPPORTED and VNSI_SCAN_SUPPORTED_TYPES.
ScanQuery(c) ==
  /\ call[c] = "none"
  /\ IF inhibit THEN UNCHANGED supported ELSE IsSupported(c)
  /\ UNCHANGED <<plugin, inhibit, finished, status, poll, call, told, starts>>

ScanTypes(c) ==
  /\ call[c] = "none"
  /\ IsSupported(c)
  /\ UNCHANGED <<plugin, inhibit, finished, status, poll, call, told, starts>>

\* CScanControl::StartScan.  The plugin may find nothing to do and stay stopped.  A
\* polling thread that still runs for an earlier scan goes on for this one.
StartScan(c) ==
  /\ finished' = [finished EXCEPT ![c] = FALSE]
  /\ \E s \in {"scanning", plugin} : plugin' = s
  /\ poll' = [poll EXCEPT ![c] = IF @ = "off" THEN "sleep" ELSE @]
  /\ told' = [told EXCEPT ![c] = "started"]

ScanRefused(c) ==
  /\ call[c] = "none"
  /\ inhibit \/ ~ScannerOK
  /\ IF inhibit THEN UNCHANGED supported ELSE IsSupported(c)
  /\ UNCHANGED <<plugin, inhibit, finished, status, poll, call, told, starts>>

ScanStart(c) ==
  /\ call[c] = "none"
  /\ ~inhibit /\ ScannerOK
  /\ starts < MaxStarts /\ starts' = starts + 1
  /\ IsSupported(c)
  /\ StartScan(c)
  /\ call' = [call EXCEPT ![c] = "starting"]
  /\ UNCHANGED <<inhibit, status>>

\* Faulty variant: the flag is not set.
ScanStartedNoFlag(c) ==
  /\ call[c] = "starting"
  /\ call' = [call EXCEPT ![c] = "none"]
  /\ UNCHANGED <<plugin, inhibit, supported, finished, status, poll, told, starts>>

\* The flag is set when the scan has been started, and then the answer is written.
ScanStarted(c) ==
  /\ call[c] = "starting"
  /\ inhibit' = TRUE
  /\ call' = [call EXCEPT ![c] = "none"]
  /\ UNCHANGED <<plugin, supported, finished, status, poll, told, starts>>

-----------------------------------------------------------------------------
(* CScanControl::StopScan: the stop command, which is not addressed to a       *)
(* particular scan, half a second of sleep and the end of the polling thread,  *)
(* and what the client is told if that thread has not told it.                 *)

PutStop == plugin' = IF plugin = "scanning" THEN "stopping" ELSE plugin

\* The request lowers the flag before anything else.
ScanStop(c) ==
  /\ call[c] = "none"
  /\ inhibit' = FALSE
  /\ IsSupported(c)
  /\ call' = [call EXCEPT ![c] = IF ScannerOK THEN "stop" ELSE "none"]
  /\ UNCHANGED <<plugin, finished, status, poll, told, starts>>

ScanStopCommand(c) ==
  /\ call[c] = "stop"
  /\ PutStop
  /\ call' = [call EXCEPT ![c] = "stopping"]
  /\ UNCHANGED <<inhibit, supported, finished, status, poll, told, starts>>

\* Cancel(2): the thread has ended, or it is killed where it waits for its socket.
ScanJoin(c) ==
  /\ call[c] \in {"stopping", "leaving"}
  /\ poll' = [poll EXCEPT ![c] = "off"]
  /\ call' = [call EXCEPT ![c] = IF @ = "stopping" THEN "reporting" ELSE "lastReport"]
  /\ UNCHANGED <<plugin, inhibit, supported, finished, status, told, starts>>

\* Faulty variant: the end of the scan is left to the polling thread.
ScanStoppedSilent(c) ==
  /\ call[c] \in {"reporting", "lastReport"}
  /\ call' = [call EXCEPT ![c] = IF @ = "reporting" THEN "none" ELSE "gone"]
  /\ UNCHANGED <<plugin, inhibit, supported, finished, status, poll, told, starts>>

ScanStopped(c) ==
  /\ call[c] \in {"reporting", "lastReport"}
  /\ status' = [status EXCEPT ![c] = @ \/ ~finished[c]]
  /\ told' = [told EXCEPT ![c] = IF finished[c] THEN @ ELSE "finished"]
  /\ call' = [call EXCEPT ![c] = IF @ = "reporting" THEN "none" ELSE "gone"]
  /\ UNCHANGED <<plugin, inhibit, supported, finished, poll, starts>>

\* The command thread ends (cVNSIClient::Action) and stops the scan, whoever's it is;
\* the flag is left alone.
ScanLeave(c) ==
  /\ call[c] = "none"
  /\ IF supported[c]
       THEN PutStop /\ call' = [call EXCEPT ![c] = "leaving"]
       ELSE UNCHANGED plugin /\ call' = [call EXCEPT ![c] = "gone"]
  /\ UNCHANGED <<inhibit, supported, finished, status, poll, told, starts>>

-----------------------------------------------------------------------------
(* The polling thread (CScanControl::Action) and the plugin.                    *)

PollLook(c) ==
  /\ poll[c] = "sleep"
  /\ status' = [status EXCEPT ![c] = (plugin = "stopped")]
  /\ poll' = [poll EXCEPT ![c] = "report"]
  /\ UNCHANGED <<plugin, inhibit, supported, finished, call, told, starts>>

\* The report of the status it looked up; the end of the scan is reported last, and
\* a thread that was told to end does not go on sleeping.
PollReport(c) ==
  /\ poll[c] = "report"
  /\ told' = [told EXCEPT ![c] = IF status[c] THEN "finished" ELSE @]
  /\ finished' = [finished EXCEPT ![c] = @ \/ status[c]]
  /\ poll' = [poll EXCEPT ![c] =
       IF status[c] \/ call[c] \in {"stopping", "leaving"} THEN "off" ELSE "sleep"]
  /\ UNCHANGED <<plugin, inhibit, supported, status, call, starts>>

PluginStops ==
  /\ plugin # "stopped"
  /\ plugin' = "stopped"
  /\ UNCHANGED <<inhibit, supported, finished, status, poll, call, told, starts>>

ScanCall(c) == ScanStarted(c) \/ ScanStopCommand(c) \/ ScanJoin(c) \/ ScanStopped(c)

ScanThread(c) == PollLook(c) \/ PollReport(c)

ScanRequest(c) ==
  ScanQuery(c) \/ ScanTypes(c) \/ ScanRefused(c) \/ ScanStart(c) \/ ScanStop(c)

ScanNext ==
  \/ \E c \in Clients : ScanRequest(c) \/ ScanLeave(c) \/ ScanCall(c) \/ ScanThread(c)
  \/ PluginStops
  \* every session has ended
  \/ (\A c \in Clients : call[c] = "gone") /\ UNCHANGED scanVars

\* The threads go on, and a scan comes to its end.
ScanFairness ==
  /\ \A c \in Clients : WF_scanVars(ScanCall(c)) /\ WF_scanVars(ScanThread(c))
  /\ WF_scanVars(PluginStops)

ScanSpec == ScanInit /\ [][ScanNext]_scanVars /\ ScanFairness

-----------------------------------------------------------------------------
(* Correctness. *)

\* While the plugin scans, changes are held back (status.c:285), but for the moments
\* in which a request is starting or stopping a scan.
UpdatesHeld ==
  plugin = "scanning" => inhibit \/ \E c \in Clients : call[c] \in {"starting", "stop"}

\* A session that has ended leaves no polling thread behind, which would write to a
\* socket that is gone.
NoPollAfterSession == \A c \in Clients : call[c] = "gone" => poll[c] = "off"

\* A client whose scan was started is told that it has ended, whether it finished by
\* itself or was stopped by this client, by another one or by the end of a session.
EndReported == \A c \in Clients : told[c] = "started" ~> told[c] = "finished"

\* The flag and the polling threads follow the scans.
ScanInv == ScanTypeOK /\ UpdatesHeld /\ NoPollAfterSession

=============================================================================
