-------------------------------- MODULE Recordings --------------------------------
(***************************************************************************)
(* The requests about VDR's recordings (vnsiclient.c) and the cache that maps  *)
(* the numbers clients know to file names (recordingscache.c).  Each client's  *)
(* thread takes VDR's lock on the list of recordings, the one on the list of   *)
(* deleted recordings and the mutex of the cache, in the order its request      *)
(* needs them; VDR records, expires and rescans the video directory meanwhile.  *)
(*                                                                         *)
(* A file is <<name, "rec">>, or <<name, "del">> once its recording is deleted. *)
(***************************************************************************)
EXTENDS Naturals, FiniteSets, ClientThreads

CONSTANTS
  Name,
  Hash,        \* the number of each file
  MaxRequests  \* bound: requests of all clients

Files == Name \X {"rec", "del"}

ASSUME RecordingsAssumption ==
  /\ MaxRequests \in Nat /\ Name # {}
  /\ Hash \in [Files -> Nat]
  /\ \A f, g \in Files : Hash[f] = Hash[g] => f = g

NoFile == <<Nobody, "none">>
Uid == {Hash[f] : f \in Files}
NoUid == CHOOSE u \in Uid : TRUE
Deleted(n) == <<n, "del">>
Live(n) == <<n, "rec">>

VARIABLES
  disk,     \* the files
  recs,     \* VDR's recordings
  dels,     \* VDR's deleted recordings
  rescan,   \* VDR was told to look at the video directory
  busy,     \* names VDR is recording
  cache,    \* m_recordings
  cacheMutex,    \* m_mutex of the cache
  recReaders,  \* threads that hold VDR's lock on the recordings for reading
  recWriter,   \* the one that holds it for writing
  delReaders, delWriter, \* the same of the deleted recordings
  at,       \* where each client's request is
  number,      \* the number it is about
  unlisted,     \* files of a list not yet told
  found,    \* the recording a lookup answered
  answer,   \* [op, file, ret] of the request answered last
  requests,
  crossed   \* history: a recording was undeleted before its deletion had ended

recVars == <<disk, recs, dels, rescan, busy, cache, cacheMutex, recReaders, recWriter, delReaders, delWriter,
             at, number, unlisted, found, answer, requests, crossed>>

vdrRecordings == <<disk, recs, dels, rescan, busy>>
recLock == <<recReaders, recWriter>>
delLock == <<delReaders, delWriter>>
recLocks == <<cacheMutex, recLock, delLock>>
request == <<number, unlisted, found>>

NoAnswer == [op |-> "none", file |-> NoFile, ret |-> "none"]

RecordingsTypeOK ==
  /\ disk \in SUBSET Files /\ recs \in SUBSET Files /\ dels \in SUBSET Files
  /\ rescan \in BOOLEAN /\ busy \in SUBSET Name
  /\ cache \in [Uid -> Files \union {NoFile}]
  /\ cacheMutex \in Client \union {Nobody} /\ recWriter \in Client \union {Nobody}
  /\ delWriter \in Client \union {Nobody}
  /\ recReaders \in SUBSET Client /\ delReaders \in SUBSET Client
  /\ recWriter # Nobody => recReaders = {}
  /\ delWriter # Nobody => delReaders = {}
  /\ at \in [Client -> {"idle", "list", "listDel", "look", "lookRead", "rename",
                        "delete", "deleteFind", "deleteDo", "deleteList", "undelete"}]
  /\ number \in [Client -> Uid] /\ unlisted \in [Client -> SUBSET Files]
  /\ found \in [Client -> Files \union {NoFile}]
  /\ answer \in [op : {"none", "list", "look", "rename", "delete", "purge", "undelete", "purgeAll"},
                  file : Files \union {NoFile},
                  ret : {"none", "ok", "unknown", "locked", "error", "invalid", "empty"}]
  /\ requests \in 0..MaxRequests /\ crossed \in BOOLEAN

RecordingsInit ==
  /\ disk \in SUBSET Files /\ recs = {f \in disk : f[2] = "rec"} /\ dels = disk \ recs
  /\ rescan = FALSE /\ busy = {}
  /\ cache = [u \in Uid |-> NoFile]
  /\ cacheMutex = Nobody /\ recReaders = {} /\ recWriter = Nobody /\ delReaders = {} /\ delWriter = Nobody
  /\ at = [c \in Client |-> "idle"] /\ number = [c \in Client |-> NoUid]
  /\ unlisted = [c \in Client |-> {}] /\ found = [c \in Client |-> NoFile]
  /\ answer = NoAnswer /\ requests = 0 /\ crossed = FALSE

-----------------------------------------------------------------------------
(* Locks.  A thread that holds a list for writing may lock it for reading, too.   *)

CanRead(c) == recWriter \in {Nobody, c}
CanWrite == recWriter = Nobody /\ recReaders = {}
CanReadDel == delWriter = Nobody
CanWriteDel == delWriter = Nobody /\ delReaders = {}

Goto(c, p) == at' = [at EXCEPT ![c] = p]

Answer(c, op, f, r) ==
  /\ Goto(c, "idle") /\ answer' = [op |-> op, file |-> f, ret |-> r]
  /\ number' = [number EXCEPT ![c] = NoUid] /\ found' = [found EXCEPT ![c] = NoFile]

BeginRequest(c) == at[c] = "idle" /\ requests < MaxRequests /\ requests' = requests + 1

-----------------------------------------------------------------------------
(* VDR. *)

\* The minute a recording starts is part of its name: no other one gets that name, not
\* even one that is renamed.
Fresh(n) == disk \intersect {Live(n), Deleted(n)} = {} /\ \A c \in Client : found[c][1] # n

Record(n) ==
  /\ CanWrite /\ Fresh(n)
  /\ disk' = disk \union {Live(n)} /\ recs' = recs \union {Live(n)} /\ busy' = busy \union {n}
  /\ UNCHANGED <<dels, rescan, cache, recLocks, at, request, answer, requests, crossed>>

EndRecording(n) ==
  /\ n \in busy /\ busy' = busy \ {n}
  /\ UNCHANGED <<disk, recs, dels, rescan, cache, recLocks, at, request, answer, requests, crossed>>

\* The thread that Update() starts.
LookAtDisk ==
  /\ rescan /\ CanWrite /\ CanWriteDel
  /\ recs' = {f \in disk : f[2] = "rec"} /\ dels' = {f \in disk : f[2] = "del"}
  /\ rescan' = FALSE
  /\ UNCHANGED <<disk, busy, cache, recLocks, at, request, answer, requests, crossed>>

-----------------------------------------------------------------------------
(* Lists.  Every recording is registered while the list is locked.                *)

\* One of them at a time: both requests keep m_timerLock, too.
NobodyLists == \A c \in Client : at[c] \notin {"list", "listDel"}

ListRecordings(c) ==
  /\ BeginRequest(c) /\ NobodyLists /\ CanRead(c)
  /\ recReaders' = recReaders \union {c} /\ Goto(c, "list") /\ unlisted' = [unlisted EXCEPT ![c] = recs]
  /\ UNCHANGED <<vdrRecordings, cache, cacheMutex, recWriter, delLock, number, found, answer, crossed>>

ListDeleted(c) ==
  /\ BeginRequest(c) /\ NobodyLists /\ CanReadDel
  /\ delReaders' = delReaders \union {c} /\ Goto(c, "listDel") /\ unlisted' = [unlisted EXCEPT ![c] = dels]
  /\ UNCHANGED <<vdrRecordings, cache, cacheMutex, recLock, delWriter, number, found, answer, crossed>>

Register(c) ==
  /\ at[c] \in {"list", "listDel"} /\ cacheMutex = Nobody
  /\ \E f \in unlisted[c] :
       /\ unlisted' = [unlisted EXCEPT ![c] = @ \ {f}]
       /\ cache' = IF cache[Hash[f]] = NoFile THEN [cache EXCEPT ![Hash[f]] = f] ELSE cache
  /\ UNCHANGED <<vdrRecordings, recLocks, at, number, found, answer, requests, crossed>>

Listed(c) ==
  /\ at[c] \in {"list", "listDel"} /\ unlisted[c] = {}
  /\ recReaders' = recReaders \ {c} /\ delReaders' = delReaders \ {c}
  /\ Answer(c, "list", NoFile, "ok")
  /\ UNCHANGED <<vdrRecordings, cache, cacheMutex, recWriter, delWriter, unlisted, requests, crossed>>

-----------------------------------------------------------------------------
(* Lookup, for opening a recording and for its marks: the mutex of the cache, then *)
(* VDR's lock.  Every file is registered as not deleted.                           *)

\* A number nobody registered is found to be unknown without a lock.
Unknown(c, op) ==
  /\ BeginRequest(c)
  /\ \E u \in Uid : cache[u] = NoFile
  /\ Answer(c, op, NoFile, "unknown")
  /\ UNCHANGED <<vdrRecordings, cache, recLocks, unlisted, crossed>>

Ask(c, p) ==
  /\ BeginRequest(c)
  /\ \E u \in Uid : cache[u] # NoFile /\ number' = [number EXCEPT ![c] = u]
  /\ Goto(c, p)
  /\ UNCHANGED <<vdrRecordings, cache, recLocks, unlisted, found, answer, crossed>>

LockCache(c) ==
  /\ at[c] \in {"look", "delete"} /\ cacheMutex = Nobody /\ cacheMutex' = c
  /\ Goto(c, IF at[c] = "look" THEN "lookRead" ELSE "deleteFind")
  /\ UNCHANGED <<vdrRecordings, cache, recLock, delLock, request, answer, requests, crossed>>

ByNumber(u) == IF cache[u] \in recs THEN cache[u] ELSE NoFile

Lookup(c) ==
  /\ at[c] = "lookRead" /\ CanRead(c)
  /\ cacheMutex' = Nobody
  /\ LET f == ByNumber(number[c])
     IN Answer(c, "look", f, IF f = NoFile THEN "unknown" ELSE "ok")
  /\ UNCHANGED <<vdrRecordings, cache, recLock, delLock, unlisted, requests, crossed>>

-----------------------------------------------------------------------------
(* Rename: VDR's lock for the whole request, the cache's inside of it.            *)

RenameLock(c) ==
  /\ BeginRequest(c) /\ CanWrite /\ recWriter' = c /\ Goto(c, "rename")
  /\ \E u \in Uid : number' = [number EXCEPT ![c] = u]
  /\ UNCHANGED <<vdrRecordings, cache, cacheMutex, recReaders, delLock, unlisted, found, answer, crossed>>

\* The folder is renamed, with all that is in it.
RenameDo(c) ==
  /\ at[c] = "rename" /\ (cacheMutex = Nobody \/ cache[number[c]] = NoFile)
  /\ recWriter' = Nobody
  /\ LET f == ByNumber(number[c])
     IN IF f = NoFile THEN Answer(c, "rename", NoFile, "invalid") /\ UNCHANGED <<disk, rescan>>
        ELSE /\ rescan' = TRUE
             /\ \/ Answer(c, "rename", f, "error") /\ UNCHANGED disk
                \/ \E m \in Name : /\ Fresh(m)
                                   /\ disk' = {IF g[1] = f[1] THEN <<m, g[2]>> ELSE g : g \in disk}
                                   /\ Answer(c, "rename", f, "ok")
  /\ UNCHANGED <<recs, dels, busy, cache, cacheMutex, recReaders, delLock, unlisted, requests, crossed>>

-----------------------------------------------------------------------------
(* Delete: a lookup, VDR's deletion of the files, then the list.                  *)

LookupWrite(c) ==
  /\ at[c] = "deleteFind" /\ CanWrite
  /\ cacheMutex' = Nobody
  /\ LET f == ByNumber(number[c])
     IN IF f = NoFile THEN Answer(c, "delete", NoFile, "unknown")
        ELSE Goto(c, "deleteDo") /\ found' = [found EXCEPT ![c] = f] /\ UNCHANGED <<number, answer>>
  /\ UNCHANGED <<vdrRecordings, cache, recLock, delLock, unlisted, requests, crossed>>

\* cRecording::Delete() renames the files; a recording that is not there any more is fine.
DeleteDo(c) ==
  /\ at[c] = "deleteDo"
  /\ LET f == found[c]
     IN IF f[1] \in busy THEN Answer(c, "delete", f, "locked") /\ UNCHANGED disk
        ELSE \/ Answer(c, "delete", f, "error") /\ UNCHANGED disk
             \/ /\ disk' = IF f \in disk THEN (disk \ {f}) \union {Deleted(f[1])} ELSE disk
                /\ Goto(c, "deleteList") /\ UNCHANGED <<number, found, answer>>
  /\ UNCHANGED <<recs, dels, rescan, busy, cache, recLocks, unlisted, requests, crossed>>

\* DelByName moves the recording to the deleted ones if its files are there.
DeleteList(c) ==
  /\ at[c] = "deleteList" /\ CanWrite
  /\ LET f == found[c]
     IN /\ recs' = recs \ {f}
        /\ dels' = IF f \in recs THEN dels \union ({Deleted(f[1])} \intersect disk) ELSE dels
        /\ Answer(c, "delete", f, "ok")
  /\ UNCHANGED <<disk, rescan, busy, cache, recLocks, unlisted, requests, crossed>>

-----------------------------------------------------------------------------
(* Deleted recordings.  The lock file of the video directory may be taken.        *)

LockFileTaken(c) ==
  /\ BeginRequest(c)
  /\ \/ Answer(c, "purge", NoFile, "empty")
     \/ Answer(c, "undelete", NoFile, "unknown")
     \/ Answer(c, "purgeAll", NoFile, "ok")
  /\ UNCHANGED <<vdrRecordings, cache, recLocks, unlisted, crossed>>

\* An unknown number is answered with nothing.
DeletedDelete(c) ==
  /\ BeginRequest(c) /\ CanWriteDel
  /\ \/ /\ \E u \in Uid : \A f \in dels : Hash[f] # u
        /\ Answer(c, "purge", NoFile, "empty") /\ UNCHANGED <<disk, dels, rescan>>
     \/ \E f \in dels :
          \/ Answer(c, "purge", f, "error") /\ UNCHANGED <<disk, dels, rescan>>
          \/ /\ disk' = disk \ {f} /\ dels' = dels \ {f} /\ rescan' = TRUE
             /\ Answer(c, "purge", f, "ok")
  /\ UNCHANGED <<recs, busy, cache, recLocks, unlisted, crossed>>

UndeleteLock(c) ==
  /\ BeginRequest(c) /\ CanWrite /\ recWriter' = c /\ Goto(c, "undelete")
  /\ \E u \in Uid : number' = [number EXCEPT ![c] = u]
  /\ UNCHANGED <<vdrRecordings, cache, cacheMutex, recReaders, delLock, unlisted, found, answer, crossed>>

\* Faulty variant: VDR is not told to look for the recording.
UndeleteFilesQuiet(f) ==
  IF Live(f[1]) \in disk \/ f \notin disk THEN UNCHANGED <<disk, dels, rescan>>
  ELSE /\ \/ disk' = (disk \ {f}) \union {Live(f[1])}
          \/ UNCHANGED disk
       /\ dels' = dels \ {f} /\ UNCHANGED rescan

\* Nothing is done if there is a recording of that name or the files are gone; a failure
\* to rename them is only logged.
UndeleteFiles(f) ==
  IF Live(f[1]) \in disk \/ f \notin disk THEN UNCHANGED <<disk, dels, rescan>>
  ELSE /\ \/ disk' = (disk \ {f}) \union {Live(f[1])}
          \/ UNCHANGED disk
       /\ dels' = dels \ {f} /\ rescan' = TRUE

Undelete(c) ==
  /\ at[c] = "undelete" /\ CanWriteDel
  /\ recWriter' = Nobody
  /\ crossed' = (crossed \/ \E d \in Client : /\ at[d] = "deleteList"
                                             /\ Hash[Deleted(found[d][1])] = number[c])
  /\ \/ /\ \A f \in dels : Hash[f] # number[c]
        /\ Answer(c, "undelete", NoFile, "unknown") /\ UNCHANGED <<disk, dels, rescan>>
     \/ \E f \in dels : Hash[f] = number[c] /\ UndeleteFiles(f) /\ Answer(c, "undelete", f, "ok")
  /\ UNCHANGED <<recs, busy, cache, cacheMutex, recReaders, delLock, unlisted, requests>>

\* The first file that cannot be removed ends the removal; the list is emptied all the same.
DeletedDeleteAll(c) ==
  /\ BeginRequest(c) /\ CanWriteDel
  /\ \E removed \in SUBSET dels :
       /\ disk' = disk \ removed
       /\ Answer(c, "purgeAll", NoFile, IF removed = dels THEN "ok" ELSE "error")
  /\ dels' = {} /\ rescan' = TRUE
  /\ UNCHANGED <<recs, busy, cache, recLocks, unlisted, crossed>>

-----------------------------------------------------------------------------

RequestBegins(c) ==
  \/ ListRecordings(c) \/ ListDeleted(c)
  \/ \E op \in {"look", "delete"} : Unknown(c, op) \/ Ask(c, op)
  \/ RenameLock(c) \/ LockFileTaken(c) \/ DeletedDelete(c) \/ UndeleteLock(c) \/ DeletedDeleteAll(c)

GoesOn(c) ==
  \/ Register(c) \/ Listed(c) \/ LockCache(c) \/ Lookup(c) \/ RenameDo(c)
  \/ LookupWrite(c) \/ DeleteDo(c) \/ DeleteList(c) \/ Undelete(c)

RecordingsNext ==
  \/ \E n \in Name : Record(n) \/ EndRecording(n)
  \/ LookAtDisk
  \/ \E c \in Client : RequestBegins(c) \/ GoesOn(c)

RecordingsSpec == RecordingsInit /\ [][RecordingsNext]_recVars

-----------------------------------------------------------------------------
(* Correctness.                                                                 *)

\* Once VDR has looked at the video directory and no deletion is half done, the lists are
\* what is on the disk: no request leaves a recording out or one that is gone in.  The
\* exception is a recording undeleted between the two steps of its deletion.
ListsFollow ==
  ~crossed /\ ~rescan /\ (\A c \in Client : at[c] # "deleteList") =>
    /\ recs = {f \in disk : f[2] = "rec"}
    /\ dels = {f \in disk : f[2] = "del"}

\* A number that a client knows from the list of deleted recordings opens nothing and
\* deletes nothing: only recordings of the other list are found.
OnlyLiveFound ==
  /\ answer.op = "look" /\ answer.ret = "ok" => answer.file[2] = "rec"
  /\ \A c \in Client : found[c] # NoFile => found[c][2] = "rec"

\* One thread keeps the mutex of the cache and waits for VDR's lock on the recordings,
\* which another one keeps while it waits for the mutex; or while it waits, to undelete a
\* recording, for the list of deleted ones, and a third that keeps that list for the mutex.
RecordingsCycle ==
  \E c, d \in Client :
    /\ cacheMutex = c /\ (d \in recReaders \/ recWriter = d)
    /\ at[c] \in {"deleteFind", "lookRead"}
    /\ \/ at[d] = "list" /\ unlisted[d] # {}
       \/ at[d] = "rename" /\ cache[number[d]] # NoFile
       \/ at[d] = "undelete" /\ \E e \in delReaders : unlisted[e] # {}

\* What a request that has been begun waits for has come.
RecordingGoesOn(c) ==
  \/ at[c] \in {"list", "listDel"} /\ (cacheMutex = Nobody \/ unlisted[c] = {})
  \/ at[c] \in {"look", "delete"} /\ cacheMutex = Nobody
  \/ at[c] = "lookRead" /\ CanRead(c)
  \/ at[c] \in {"deleteFind", "deleteList"} /\ CanWrite
  \/ at[c] = "rename" /\ (cacheMutex = Nobody \/ cache[number[c]] = NoFile)
  \/ at[c] = "deleteDo"
  \/ at[c] = "undelete" /\ CanWriteDel

\* Where no request that has been begun can go on, it is for these cycles, in which both
\* orders of the two locks meet, and nothing else.
RecordingsBlocked ==
  (\E c \in Client : at[c] # "idle") /\ (\A c \in Client : ~RecordingGoesOn(c))
    => RecordingsCycle

\* Lists, files and numbers agree, and the locks can block requests in these ways only.
RecordingsInv == RecordingsTypeOK /\ ListsFollow /\ OnlyLiveFound /\ RecordingsBlocked

=============================================================================
