------------------------------ MODULE MCPlayback ------------------------------
(* What a client plays: the timeshift file of a live stream, a recording that is read  *)
(* like one, or the blocks of a recording.  A behaviour has one of them, kind; what is   *)
(* not played stays as it is.                                                      *)
EXTENDS FileBuffer, RecordingBuffer, RecPlayer

VARIABLE kind

playbackVars == <<kind, fileVars, recordingVars, playerVars>>

Kinds == {"file", "recording", "player"}

PlaybackInit ==
  /\ kind \in Kinds
  /\ FileInit /\ RecordingInit /\ PlayerInit
  /\ kind # "recording" => length = 0

FilePart(A) == kind = "file" /\ A /\ UNCHANGED <<kind, recordingVars, playerVars>>
RecordingPart(A) == kind = "recording" /\ A /\ UNCHANGED <<kind, fileVars, playerVars>>
PlayerPart(A) == kind = "player" /\ A /\ UNCHANGED <<kind, fileVars, recordingVars>>

PlaybackNext ==
  FilePart(FileNext) \/ RecordingPart(RecordingNext) \/ PlayerPart(PlayerNext)

\* FileFairSpec and RecordingFairSpec, each for what is played.
PlaybackFairness ==
  /\ WF_playbackVars(FilePart(FileReadBlock))
  /\ WF_playbackVars(FilePart(Process))
  /\ WF_playbackVars(RecordingPart(ReadCached \/ ReadNew))
  /\ WF_playbackVars(RecordingPart(ScanTimer))
  /\ WF_playbackVars(RecordingPart(EofTimer))

PlaybackSpec == PlaybackInit /\ [][PlaybackNext]_playbackVars /\ PlaybackFairness

\* The invariants of all kinds.
PlaybackInv == FileInv /\ RecordingBufferTypeOK /\ PlayerInv

=============================================================================
