--------------------------- MODULE ScanControlProofs ---------------------------
(***************************************************************************)
(* Proofs about the scans of module ScanControl, for any number of clients *)
(* and scans.                                                              *)
(*                                                                         *)
(* UpdatesHeld and NoPollAfterSession are inductive but for two facts: without *)
(* a scanner nothing is ever started (PluginInv), and a polling thread runs    *)
(* only for a client that found scans supported and has not stopped yet        *)
(* (PollInv), so that a session that ends stops it.                            *)
(***************************************************************************)
EXTENDS ScanControl, TLAPS

PluginInv ==
  ~ScannerOK => plugin = "stopped" /\ \A c \in Clients : ~supported[c] /\ call[c] # "stop"

PollInv == \A c \in Clients :
  poll[c] # "off" => supported[c] /\ call[c] \notin {"reporting", "lastReport", "gone"}

ScanIInv == ScanTypeOK /\ PluginInv /\ PollInv /\ UpdatesHeld

-----------------------------------------------------------------------------

\* What the constructor leaves uninitialised is some value of its type.
LEMMA ScanInitIInv == ScanInit => ScanIInv
<1> SUFFICES ASSUME ScanInit PROVE ScanIInv
  OBVIOUS
<1>1. finished \in [Clients -> BOOLEAN] /\ status \in [Clients -> BOOLEAN]
  <2>1. ASSUME NEW f \in [Clients -> Leftover] PROVE f \in [Clients -> BOOLEAN]
    BY ScanAssumption
  <2> QED
    BY <2>1 DEF ScanInit
<1>2. ScanTypeOK
  <2>1. 0 \in 0..MaxStarts
    BY ScanAssumption
  <2> QED
    BY <1>1, <2>1 DEF ScanInit, ScanTypeOK, Calls
<1>3. PluginInv /\ PollInv /\ UpdatesHeld
  BY DEF ScanInit, PluginInv, PollInv, UpdatesHeld
<1> QED
  BY <1>2, <1>3 DEF ScanIInv

\* Asking whether scans are supported has no effect but on the answer.
LEMMA ScanQueryKeeps == ASSUME ScanIInv, NEW c \in Clients, ScanQuery(c) PROVE ScanIInv'
<1>1. ScanTypeOK'
  BY ScanAssumption DEF ScanIInv, ScanTypeOK, ScanQuery, IsSupported
<1>2. PluginInv'
  BY DEF ScanIInv, ScanTypeOK, PluginInv, ScanQuery, IsSupported
<1>3. PollInv'
  BY DEF ScanIInv, ScanTypeOK, PollInv, PluginInv, ScanQuery, IsSupported
<1>4. UpdatesHeld'
  BY DEF ScanIInv, UpdatesHeld, ScanQuery
<1> QED
  BY <1>1, <1>2, <1>3, <1>4 DEF ScanIInv

\* The same for the kinds of scans.
LEMMA ScanTypesKeeps == ASSUME ScanIInv, NEW c \in Clients, ScanTypes(c) PROVE ScanIInv'
<1>1. ScanTypeOK'
  BY ScanAssumption DEF ScanIInv, ScanTypeOK, ScanTypes, IsSupported
<1>2. PluginInv'
  BY DEF ScanIInv, PluginInv, ScanTypes, IsSupported
<1>3. PollInv'
  BY DEF ScanIInv, PollInv, PluginInv, ScanTypes, IsSupported
<1>4. UpdatesHeld'
  BY DEF ScanIInv, UpdatesHeld, ScanTypes
<1> QED
  BY <1>1, <1>2, <1>3, <1>4 DEF ScanIInv

\* A scan that is refused changes no more than that.
LEMMA ScanRefusedKeeps == ASSUME ScanIInv, NEW c \in Clients, ScanRefused(c) PROVE ScanIInv'
<1>1. ScanTypeOK'
  BY ScanAssumption DEF ScanIInv, ScanTypeOK, ScanRefused, IsSupported
<1>2. PluginInv'
  BY DEF ScanIInv, ScanTypeOK, PluginInv, ScanRefused, IsSupported
<1>3. PollInv'
  BY DEF ScanIInv, PollInv, PluginInv, ScanRefused
<1>4. UpdatesHeld'
  BY DEF ScanIInv, UpdatesHeld, ScanRefused
<1> QED
  BY <1>1, <1>2, <1>3, <1>4 DEF ScanIInv

\* A scan is started only with a scanner, and its caller will set the flag.
LEMMA ScanStartKeeps == ASSUME ScanIInv, NEW c \in Clients, ScanStart(c) PROVE ScanIInv'
<1>1. ScanTypeOK'
  BY ScanAssumption DEF ScanIInv, ScanTypeOK, Calls, ScanStart, StartScan, IsSupported
<1>2. PluginInv'
  BY DEF PluginInv, ScanStart
<1>3. PollInv'
  BY DEF ScanIInv, ScanTypeOK, PollInv, ScanStart, StartScan, IsSupported
<1>4. UpdatesHeld'
  BY DEF ScanIInv, ScanTypeOK, UpdatesHeld, ScanStart
<1> QED
  BY <1>1, <1>2, <1>3, <1>4 DEF ScanIInv

\* The flag is set when the scan runs.
LEMMA ScanStartedKeeps == ASSUME ScanIInv, NEW c \in Clients, ScanStarted(c) PROVE ScanIInv'
<1>1. ScanTypeOK'
  BY DEF ScanIInv, ScanTypeOK, Calls, ScanStarted
<1>2. PluginInv'
  BY DEF ScanIInv, PluginInv, ScanStarted
<1>3. PollInv'
  BY DEF ScanIInv, PollInv, ScanStarted
<1>4. UpdatesHeld'
  BY DEF UpdatesHeld, ScanStarted
<1> QED
  BY <1>1, <1>2, <1>3, <1>4 DEF ScanIInv

\* The flag is lowered, and the caller will stop the scan.
LEMMA ScanStopKeeps == ASSUME ScanIInv, NEW c \in Clients, ScanStop(c) PROVE ScanIInv'
<1>1. ScanTypeOK'
  BY ScanAssumption DEF ScanIInv, ScanTypeOK, Calls, ScanStop, IsSupported
<1>2. PluginInv'
  BY DEF ScanIInv, PluginInv, ScanStop, IsSupported
<1>3. PollInv'
  BY DEF ScanIInv, PollInv, PluginInv, ScanStop, IsSupported
<1>4. UpdatesHeld'
  BY DEF ScanIInv, ScanTypeOK, UpdatesHeld, PluginInv, ScanStop
<1> QED
  BY <1>1, <1>2, <1>3, <1>4 DEF ScanIInv

\* The scan is stopping.
LEMMA ScanStopCommandKeeps == ASSUME ScanIInv, NEW c \in Clients, ScanStopCommand(c) PROVE ScanIInv'
<1>1. ScanTypeOK'
  BY DEF ScanIInv, ScanTypeOK, Calls, ScanStopCommand, PutStop
<1>2. PluginInv'
  BY DEF ScanIInv, PluginInv, ScanStopCommand
<1>3. PollInv'
  BY DEF ScanIInv, PollInv, ScanStopCommand
<1>4. UpdatesHeld'
  BY DEF UpdatesHeld, ScanStopCommand, PutStop
<1> QED
  BY <1>1, <1>2, <1>3, <1>4 DEF ScanIInv

\* The polling thread has ended.
LEMMA ScanJoinKeeps == ASSUME ScanIInv, NEW c \in Clients, ScanJoin(c) PROVE ScanIInv'
<1>1. ScanTypeOK'
  BY DEF ScanIInv, ScanTypeOK, Calls, ScanJoin
<1>2. PluginInv'
  BY DEF ScanIInv, PluginInv, ScanJoin
<1>3. PollInv'
  BY DEF ScanIInv, ScanTypeOK, PollInv, ScanJoin
<1>4. UpdatesHeld'
  BY DEF ScanIInv, UpdatesHeld, ScanJoin
<1> QED
  BY <1>1, <1>2, <1>3, <1>4 DEF ScanIInv

\* The caller is done, and its polling thread has ended.
LEMMA ScanStoppedKeeps == ASSUME ScanIInv, NEW c \in Clients, ScanStopped(c) PROVE ScanIInv'
<1>1. ScanTypeOK'
  BY DEF ScanIInv, ScanTypeOK, Calls, ScanStopped
<1>2. PluginInv'
  BY DEF ScanIInv, PluginInv, ScanStopped
<1>3. PollInv'
  BY DEF ScanIInv, PollInv, ScanStopped
<1>4. UpdatesHeld'
  BY DEF ScanIInv, UpdatesHeld, ScanStopped
<1> QED
  BY <1>1, <1>2, <1>3, <1>4 DEF ScanIInv

\* The end of a session stops the scan where there can be one.
LEMMA ScanLeaveKeeps == ASSUME ScanIInv, NEW c \in Clients, ScanLeave(c) PROVE ScanIInv'
<1>1. ScanTypeOK'
  BY DEF ScanIInv, ScanTypeOK, Calls, ScanLeave, PutStop
<1>2. PluginInv'
  BY DEF ScanIInv, ScanTypeOK, PluginInv, ScanLeave
<1>3. PollInv'
  BY DEF ScanIInv, ScanTypeOK, PollInv, ScanLeave
<1>4. UpdatesHeld'
  BY DEF ScanIInv, ScanTypeOK, UpdatesHeld, ScanLeave, PutStop
<1> QED
  BY <1>1, <1>2, <1>3, <1>4 DEF ScanIInv

\* The polling thread looks the status up.
LEMMA PollLookKeeps == ASSUME ScanIInv, NEW c \in Clients, PollLook(c) PROVE ScanIInv'
<1>1. ScanTypeOK'
  BY DEF ScanIInv, ScanTypeOK, PollLook
<1>2. PluginInv'
  BY DEF ScanIInv, PluginInv, PollLook
<1>3. PollInv'
  BY DEF ScanIInv, PollInv, PollLook
<1>4. UpdatesHeld'
  BY DEF ScanIInv, UpdatesHeld, PollLook
<1> QED
  BY <1>1, <1>2, <1>3, <1>4 DEF ScanIInv

\* It goes on or ends.
LEMMA PollReportKeeps == ASSUME ScanIInv, NEW c \in Clients, PollReport(c) PROVE ScanIInv'
<1>1. ScanTypeOK'
  BY DEF ScanIInv, ScanTypeOK, PollReport
<1>2. PluginInv'
  BY DEF ScanIInv, PluginInv, PollReport
<1>3. PollInv'
  BY DEF ScanIInv, PollInv, PollReport
<1>4. UpdatesHeld'
  BY DEF ScanIInv, UpdatesHeld, PollReport
<1> QED
  BY <1>1, <1>2, <1>3, <1>4 DEF ScanIInv

\* The scanner ends a scan by itself.
LEMMA PluginStopsKeeps == ASSUME ScanIInv, PluginStops PROVE ScanIInv'
  BY DEF ScanIInv, ScanTypeOK, PluginInv, PollInv, UpdatesHeld, PluginStops

\* A step that changes nothing.
LEMMA ScanStutters == ASSUME ScanIInv, UNCHANGED scanVars PROVE ScanIInv'
  BY DEF ScanIInv, ScanTypeOK, PluginInv, PollInv, UpdatesHeld, scanVars

\* All requests.
LEMMA ScanRequestKeeps == ASSUME ScanIInv, NEW c \in Clients, ScanRequest(c) PROVE ScanIInv'
  BY ScanQueryKeeps, ScanTypesKeeps, ScanRefusedKeeps, ScanStartKeeps, ScanStopKeeps
     DEF ScanRequest

\* What goes on of a request.
LEMMA ScanCallKeeps == ASSUME ScanIInv, NEW c \in Clients, ScanCall(c) PROVE ScanIInv'
  BY ScanStartedKeeps, ScanStopCommandKeeps, ScanJoinKeeps, ScanStoppedKeeps DEF ScanCall

\* The polling thread.
LEMMA ScanThreadKeeps == ASSUME ScanIInv, NEW c \in Clients, ScanThread(c) PROVE ScanIInv'
  BY PollLookKeeps, PollReportKeeps DEF ScanThread

-----------------------------------------------------------------------------

\* UpdatesHeld is a part of it, and NoPollAfterSession follows.
LEMMA ScanIInvImplies == ScanIInv => ScanInv
  BY DEF ScanIInv, ScanInv, PollInv, NoPollAfterSession

\* All steps of the scans.
LEMMA ScanNextKeeps == ASSUME ScanIInv, ScanNext PROVE ScanIInv'
  BY ScanRequestKeeps, ScanLeaveKeeps, ScanCallKeeps, ScanThreadKeeps, PluginStopsKeeps,
     ScanStutters DEF ScanNext

\* While the scanner runs changes are held back, but for the moments in which a request
\* starts or stops a scan, whoever does (vnsiclient.c:2639, 2653); and a session that has
\* ended leaves no polling thread behind (channelscancontrol.c).
THEOREM ScansAreSafe == ScanSpec => []ScanInv
<1>1. ScanIInv /\ [ScanNext]_scanVars => ScanIInv'
  BY ScanNextKeeps, ScanStutters
<1> QED
  BY <1>1, ScanInitIInv, ScanIInvImplies, PTL DEF ScanSpec

=============================================================================
