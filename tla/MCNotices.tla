------------------------------- MODULE MCNotices -------------------------------
(* What a client is told without having asked: how a scan goes on, and changes of the     *)
(* EPG.  The two are modelled with variables of their own, so a behaviour has one of them, *)
(* part; the other stays as it is.  What the composition with the server adds, the scan     *)
(* that holds notices back, is in ServerStatus.                                      *)
EXTENDS ScanControl, EpgUpdates, TLC

VARIABLE part

noticeVars == <<part, scanVars, allEpgVars>>

\* Two TV channels, one of which may be hidden.
MCChannel == {"a", "b"}
MCInfo == [ch \in MCChannel |->
  [sep |-> FALSE, name |-> "", radio |-> FALSE, prov |-> "p", caids |-> {},
   obsolete |-> FALSE, invalid |-> FALSE]]
MCSchedules == <<"a", "b">>
MCEntry == {}
MCParsed == [e \in MCEntry |-> {e}]
MCWhite == [r \in BOOLEAN |-> {{}}]
MCBlack == FALSE :> {{}, {"a"}} @@ TRUE :> {{}}

NoticesInit ==
  /\ part \in {"scan", "epg"}
  /\ ScanInit /\ EpgInit
  /\ part = "epg" => \A c \in Clients : finished[c] /\ status[c]

ScanPart(A) == part = "scan" /\ A /\ UNCHANGED <<part, allEpgVars>>
EpgPart(A) == part = "epg" /\ A /\ UNCHANGED <<part, scanVars>>

NoticesNext == ScanPart(ScanNext) \/ EpgPart(EpgNext)

\* ScanFairness and EpgFairness, each for its part.
NoticesFairness ==
  /\ \A c \in Clients :
       /\ WF_noticeVars(ScanPart(ScanCall(c)))
       /\ WF_noticeVars(ScanPart(ScanThread(c)))
  /\ WF_noticeVars(ScanPart(PluginStops))
  /\ \A c \in Client :
       /\ SF_noticeVars(EpgPart(EpgLock(c)))
       /\ WF_noticeVars(EpgPart(ListChannel(c)))
       /\ WF_noticeVars(EpgPart(EndWalk(c) /\ UNCHANGED epgVars))
       /\ WF_noticeVars(EpgPart(Sort(c) /\ UNCHANGED epgVars))
       /\ WF_noticeVars(EpgPart(EpgTrigger(c))) /\ WF_noticeVars(EpgPart(EpgPass(c)))
       /\ WF_noticeVars(EpgPart(EpgUnlock(c))) /\ WF_noticeVars(EpgPart(Notice(c)))
       /\ \A ch \in Channel : WF_noticeVars(EpgPart(Tick(c, ch)))

NoticesSpec == NoticesInit /\ [][NoticesNext]_noticeVars /\ NoticesFairness

\* The invariants of both parts.
NoticesInv == ScanInv /\ EpgTypeOK

=============================================================================
