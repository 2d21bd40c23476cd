# A TLA+ specification of vdr-plugin-vnsiserver

VNSI server is a plugin for the Video Disk Recorder. It serves live TV with timeshift,
recordings, timers, EPG and an OSD to Kodi clients. Almost everything in it that is hard
to test lies between threads: each client has a socket reader, a command thread, and while
it watches TV a streamer thread; VDR's device threads call into the plugin, VDR's main
thread does so for changes, and the plugin has threads of its own for the status
broadcast, the search timers and the channel scan.

This directory holds TLA+ modules of parts of that system, TLC configurations that check
them on small instances, and TLAPS proofs for all instances. `PROJECT.json` lists the runs, which
source lines each definition stands for, and the hazards the properties aim at.

    tlc -workers 2 -config MCTimeshiftBuffer.cfg MCTimeshiftBuffer
    tlapm TimeshiftBufferProofs.tla

## The system

| component | files | state | operations | who calls it |
|---|---|---|---|---|
| timeshift buffers | `videobuffer.c` | read and write pointer, bytes handed out and not yet given up, "buffer full", end of file check, input attached | `Put`, `ReadBlock`/`Read`, `SetPos`, `GetPositions`, `GetBufferTime`, `AttachInput`, `Create` | device thread (`Put`), streamer thread (`Read`), client thread (seek, times) |
| video input | `videoinput.c` | channel, device, live receiver, dummy receiver, retune requested, copy of the channel's PIDs | `Open`, `Close`, `Receive`, `RequestRetune`, `ReceivingStatus` | streamer thread, client thread, VDR's device threads and whoever detaches receivers |
| demuxer | `demuxer.c` | buffer pointer, stream parsers, PAT/PMT state, packet serial, errors | `Open`, `Close`, `Read`, `SeekTime`, `BufferStatus`, `GetError` | streamer thread, client thread, under the demuxer's mutex, except where noted below |
| streamer | `streamer.c` | buffer, input, demuxer, sockets, no data timeout | `StreamChannel`, `Open`, `Close`, `Action`, `SeekTime`, `RetuneChannel`, `SendStatus` | client thread, its own thread |
| client | `vnsiclient.c`, `StatusCommands.*`, `ICommand*` | command queue, login and status flags, streamer, record player, scan control, OSD | requests by opcode, VDR's change notices, socket error | socket thread and VDR enqueue, its own thread executes |
| socket | `vnsisocket.c`, `cxsocket.c` | descriptor, write lock | `read`, `write`, `Invalidate`, `Shutdown` | all threads that answer |
| server, status | `vnsiserver.c`, `status.c` | list of clients, change states of VDR's lists | accept, `AddClient`, broadcast, removal of dead clients | its own threads |
| timers | `vnsitimer.c` | search timers, next id, state | `Add`, `Update`, `DeleteTimer`, `Load`, `Save`, `Action` | client threads, its own thread, VDR's timer lock |
| scan control | `channelscancontrol.c` | scanner service, running scan | `StartScan`, `StopScan`, `Action` | client thread, its own thread |
| OSD provider | `vnsiosd.c` | one socket for all clients, areas, "full redraw requested" | create, destroy, `Flush`, `SendKey` | client threads, VDR's main thread |
| recordings | `recplayer.c`, `recordingscache.c` | segments and their start positions, uid map | `reScan`, `getBlock`, positions to frames and back; `Register`, `Lookup` | client threads, streamer thread |
| channel filter | `channelfilter.c` | white list, black list | decisions, load, save | client threads |
| parsers | `parser*.c`, `bitstream.c` | PES buffer, time stamps and their wrap | one packet at a time | streamer thread |

How they work together: the device thread puts transport stream packets into the buffer; the
streamer thread reads them through the demuxer and writes frames to the socket. A client's
request is queued by its socket thread and executed by its command thread, which opens and closes
streams, and reaches into a running streamer to seek and to ask for times. VDR detaches receivers
when a recording needs the device; the streamer finds out by polling two flags that the receivers'
callbacks set. At the end of a recording in progress the streamer thread throws buffer, input and demuxer state away and opens them anew.

What makes each component correct:

- buffers: the reader gets the bytes that were put, in order, once and unchanged, while the writer goes
  on in the same memory or file; a seek stays within what is still there; neither side starves.
- input and streamer: receivers are attached only while their buffer exists; a preemption is told
  from a loss of the channel; what is buffered is played before a preempted stream ends; a lost
  receiver comes back; every stream can be closed; nothing is leaked on any failing path.
- demuxer: the serial that tells packets before a seek from those after it agrees with what the client was told.
- client and socket: requests are executed and answered in the order they were sent, none twice; a session
  whose client is gone ends; nothing that runs for a session outlives it.
- server: a change of VDR's lists reaches every client that wants it; a dead client is removed and destroyed.
- scan: changes are held back while the scanner runs; whoever started a scan learns of its end, however it ended.
- timers: no child without its search timer, none that was deleted by hand is made again, and the file knows.
- OSD: the client that has the OSD sees what VDR has drawn; a socket that is gone is not written to.
- recordings: lists agree with the disk once VDR has looked; numbers of deleted recordings open nothing.
- recording player: every byte of the length that was announced can be read, and is the right one.
- channel filter: channels that pass stand first, sorting is stable, every channel is in one group.

`PROJECT.json` lists under "hazards" where in the code each of these can go wrong.

## Modules

| module | what it is |
|---|---|
| `TimeshiftBuffer` | `cVideoBufferRAM` with writer, reader and a seeking client |
| `FileBuffer` | `cVideoBufferFile`, the same in a file, with a read cache |
| `TimeshiftStream` | what a timeshift buffer promises: a window on a stream of bytes; implemented by both |
| `RecordingBuffer` | `cVideoBufferRecording`, a recording in progress read like a live stream |
| `LiveStream` | `cLiveStreamer`, `cVideoInput`, demuxer state and buffer life cycle, one client, VDR's receivers |
| `ScanControl` | `CScanControl` of every client, the one scanner plugin, the flag that holds updates back |
| `ClientSession` | `cVNSIClient` and `VNSISocket`: reader thread, queue, command thread, requests, end; EXTENDS `ScanControl` |
| `SessionService` | what a session promises one client; implemented by `ClientSession` |
| `ServerStatus` | `cVNSIServer` and `cVNSIStatus` around the sessions; EXTENDS `ClientSession` |
| `ChannelFilter` | `cVNSIChannelFilter` and the requests for channels and groups |
| `EpgUpdates` | notices of changes of the EPG; EXTENDS `ChannelFilter`, whose locks it takes |
| `SearchTimers` | `CVNSITimers`, its search thread and file, and the timer requests |
| `Recordings` | `cRecordingsCache`, the recording requests and VDR's two lists |
| `RecPlayer` | `cRecPlayer`, its segments and blocks |
| `Osd` | `cVnsiOsdProvider` and `cVnsiOsd` |
| `ClientThreads` | the clients' threads and the holder of a free lock, for the modules that share locks |
| `Lists` | `Kept`, the elements of a sequence that are in a set, as a recursive function; EXTENDed by `ChannelFilter` and `ClientSession` |
| `TimeshiftBufferProofs`, `LiveStreamProofs`, `ScanControlProofs`, `ServerStatusProofs`, `PlaybackProofs`, `SharedProofs`, `NoticesProofs` | theorems, for all values of the constants |
| `DataLemmas` | lemmas about numbers, sets, recursion over `0..n` and sequences that the proofs share |
| `MC...` | instances for TLC |

`ServerStatus` EXTENDS `ClientSession` EXTENDS `ScanControl`: the server, the sessions and the scans are one system, and a step of
a session that touches a scan is a step of `ScanControl`. The other parts are checked side by
side: in `MCNotices`, `MCPlayback` and `MCShared` a behaviour chooses at its start which of its parts moves (`part`, `kind`), the
others keep their initial state, and fairness is stated for each part. That is the union of their behaviours and not a product. The parts have variables of their own in the
model. In the code two of their locks are the same: `cVNSIClient::m_timerLock` is held by every timer request and while recordings are listed (`vnsiclient.c:2042`, `2781`),
and VDR's lock on the recordings is taken by the recording requests and by the search thread (`vnsitimer.c:462`). Nobody who holds the recordings waits for `m_timerLock`, and the search thread is the only
one to hold the recordings and wait for something else, which is the lock of the search timers; so a circle of waiting threads through both parts would
contain one of those that `TimersBlocked` or `RecordingsBlocked` is about. This is an argument and not a theorem.

An invariant a run checks is the conjunction of a component's named parts, its type invariant among them: `SessionInv`, `StatusInv`, `ScanInv`,
`FileInv`, `PlayerInv`, `OsdInv`, `RecordingsInv`, `TimersInv`, `FilterInv`; `NoticesInv` and `PlaybackInv` are conjunctions of those.
Each part has its own comment where it is defined.

Operators whose comment begins "Faulty variant" are not used by any specification. Each is a definition as
a plausible mistake would have it, and shows that a property depends on the code being as it is;
"mutants" in `PROJECT.json` pairs them with the properties they break.

### TimeshiftBuffer

A cell of the ring holds the index, in the stream of accepted bytes, of the byte that was written to it. This makes
"the reader got the right byte" a statement about numbers. Each section the code runs under the buffer's mutex is one
action and each `memcpy` is one, so the reader runs between any two steps of a `Put`:

- `PutDrop`, `PutStart`: the test at the top of `Put`, which ignores the size of the chunk;
  `PutCopyTail`, `PutWrap`: the part up to the ring's end and the publication of `m_WritePtr = 0`;
  `PutCopy`, `PutPublish`: the rest.
- `ReadConsume`, `ReadCheck`, `ReadScan`: giving up the last block, the test for `m_Margin` bytes, and the
  copy of the tail with the sync search. `Process` ends the time in which the demuxer uses the pointer it got. The copy
  of the tail is part of `ReadScan`: those bytes cannot change before the writer laps the reader, which `NeverLapped` excludes.
- `SeekBegin`, `SetPos`, `SeekEnd`: `SeekTime` reads the positions once and then probes. Which packet
  has a time stamp is left open, so a probe may stop anywhere. The arithmetic that picks positions is abstracted to the
  set of positions it may pick (`Probes`): the oldest, the current one, the steps back from the end, and anything in the window.
  The unguarded first step back and the later ones, guarded only against zero, are kept.

`strayed` is a history variable: it becomes true when a seek goes to a position below the window it took at its beginning, or when
the writer has gone `MARGIN` minus two chunks further since. In both cases the code promises nothing: the first can happen at
`demuxer.c:241`, the second only if a seek takes longer than the device needs for `MARGIN` (40,000 bytes in the code).
The properties are about the time before; `AnythingToRead` is not, and the run `ring_seek` shows that it fails.

Abstracted: buffer times (`m_bufferEndTime`, `m_bufferWrapTime`), allocation, and the contents of packets apart from the sync byte.

### LiveStream

One client and one streamer. `phase` says on whose behalf steps are taken: the client's thread opens or closes the stream, or the
streamer thread runs it or re-opens it at the end of the input; `pc` is the next step. The code of `Open` and `Close` is
modelled once and used by both. Buffers have identities (`Buffers`), so a pointer to a deleted buffer differs from
one to its successor: `sBuf`, `iBuf`, `dBuf` are the pointers of streamer, input and demuxer. A packet is a unit of `fill`.

| code | actions |
|---|---|
| `cLiveStreamer::Action` | `Status`, `StatusLocked`, `ReadPacket`, `ReadNothing`, `NoData`, `Reopen` |
| `Close` of streamer and input | `Detach`, `Clear`, `Drop` |
| `Open` of streamer, input and demuxer | `CreateBuffer`, `DeviceFails`, `Tune`, `AttachDummy`, `AttachReceiver`, `AttachInput`, `DemuxOpen`, `SetSerial` |
| requests of the client | `ClientOpen`, `ClientStop`, `ClientJoin`, `ClientDiscard`, `SeekHasBuffer`, `SeekDone`, `SeekReply`, `SendStatus`, `ChannelChange` |
| device thread and VDR | `Receive`, `DetachAll`, `DetachLive`, `DetachStep`, `RecordingGrows`, `ChannelModified`, `Tick` |

`ReceivingStatus` is two actions, because it waits for VDR's receivers mutex between its tests; `detaching` is the
set of receivers that a holder of the mutex has still to detach. `Tick` lets time pass in units of half a second; only the order of the three time spans matters (2.5 s < 3 s < 60 s).

`raced` is a history variable: it marks a call of the client that met the exchange of the buffer on the streamer
thread, or that sought back after the streamer had found the buffer empty and was about to shut down. The demuxer's mutex does
not cover the first (`streamer.c:345`), and nothing covers the second (`streamer.c:304`). Properties that those break say `~raced`.

Not modelled: frame contents, the order of writes on the socket and the separate status socket, `Cancel(5)` killing a thread after five seconds, the
CAM's own state beyond its making the demuxer report an error, the test stream, and timing of the sleeps.

### FileBuffer

Bytes are stamps here, too. Every `pwrite` and `pread` is an action, and so is every section under the mutex:

| code | actions |
|---|---|
| `Put` | `PutStart`, `PutTail`, `PutWrap`, `PutRest`, `PutPublish`, `PutFails` |
| `ReadBlock` | `ReadConsume`, `ReadCheck`, `Load`, `LoadFront`, `LoadFails`, `LoadFrontFails`, `ReadScan` |
| the demuxer's use of the packet; `SetPos` | `Process`; `SetPos` |

The packet handed out lies in the read cache and not in the ring, so what the writer may overwrite is different from the ring in memory, and so is the
question when a reader starves: the cache is filled with a whole block (`CacheMax`) or not at all. `SetPos` goes to any position of `Sought`, for `SeekTime` reads
the window once, goes on with these positions while the device thread writes, and steps back from the newest one without a look at how much there is (`demuxer.c:210-241`, the place of the finding `AnythingToRead`):
to negative positions, to ones the writer has passed, and to ones it is writing to. `lost` is a history variable: a chunk whose
first part had been published was cut off by a failing write, a read failed, or a seek left what the buffer offers (`Offered`). `CacheCoherent`, `SeekReadable` and the refinement are about the
time before, as in the ring in memory with `strayed`. Once something is lost the model takes no more chunks and seeks only within the window, which bounds it. `LoadFails` is what the code makes of a failing read: the result
is assigned to an unsigned variable and tested for `< 0`, so that the cache counts as full of what it held. Only the failure of a read in one part is
modelled, and at a negative position `pread` does fail; when the first of two reads fails, the second one is given a pointer before the cache.

### RecordingBuffer

`ReadCached` and `ReadNew` are `Read` with `ReadBlock` inside it, one action each, as no other thread touches the state;
`Told` is the three way answer (packet, nothing, end) of `cVideoBuffer::Read`. `Seek` goes where `SeekTime` may, also to a negative position (`BackStep`). `getBlock` returns less than a block
at the end of a file, and nothing when a file cannot be opened or at a negative position, which is a large unsigned number for it (`BlockAt`); `ReadBlock` goes on with what it got, and with less
than a packet it looks at what the cache held before (`GiveLeftOver`): it hands out a packet that was played already, or says that there is nothing. `PlayedInOrder` leaves such a packet out, and the end may then be reported after a short read, too.
It is assumed that the files are whole packets. `m_BufferSize`, which the code does not set before the first look at the length, is the length known. `ScanTimer` and `EofTimer` let the
one second and the three seconds pass. `Grow` and `StopRecording` are VDR. `held` is a history variable, the packet returned last.

### ScanControl, ClientSession, ServerStatus

| code | state | actions |
|---|---|---|
| `processSCAN_*`, `CScanControl` | `inhibit`, `supported`, `finished`, `status`, `poll` | `ScanQuery`, `ScanTypes`, `ScanRefused`, `ScanStart`, `ScanStarted`, `ScanStop`, `ScanStopCommand`, `ScanJoin`, `ScanStopped`, `PollLook`, `PollReport` |
| `VNSISocket::Action` | `reader`, `reading`, `fd` | `ReaderLoop`, `ReadRequest`, `ReadError` |
| `cVNSIClient::Action` | `queue`, `thread`, `running`, `current` | `LoopCheck`, `Timeout`, `TakeRequest`, `TakeError`, `TakeChange`, `ScanGoesOn`, `EndStream`, `EndScan`, `EndSession` |
| `processRequest` | `sess`, `answered` | one operator per kind of request (`Login` ... `HitKey`), with malformed arguments |
| destructors of client and socket | `life` | `DestroyStop`, `DestroyCancel`, `DestroySocket`, `DestroyRest` |
| `cVNSIServer::Action` | `list`, `adding`, `server` | `AddClient`, `ClientAdded`; one client may still be accepted after `Cancel` (`Accepts`) |
| `cVNSIStatus::Action` | `pc`, `todo`, `dirty`, `doomed` | `Prune`, `CheckInhibit`, `Look`, `Tell`, `Looked`, `Dispose`, `NextRound` |
| `~cVNSIServer`, `Shutdown` | `down` | `CancelServer`, `Clear`, `ClearOne`, `Cleared` |
| the other end, the scanner, VDR | `peer`, `wire`, `plugin` | `PeerSend`, `PeerClose`, `PluginStops`, `Announce`, `ChangeList` |

Starting and stopping a scan take several actions because the flag is set after the scan was started and lowered before it is stopped, and because
the polling thread and other clients go on between them. What the constructor leaves uninitialised (`m_finishReported` and the scan's status) has any of the values in `Leftover`.
`told` (what a client was last told of the scan it started) and `news` (changes since a client was last notified) are history variables.
Requests that only convert VDR's data into an answer are like `Ping` and `Setup`.

### ChannelFilter, EpgUpdates

A client's walk over VDR's channels is one action per channel (`NextChannel`), since the filter's mutex is taken for each; setting a list is `SetWhitelist` or
`SetBlacklist`, with the mutex kept, and then `Sort`, which waits for the readers of the channels. A request that ends within an entry is `SetShort`: the exception leaves the list
half set, not stored and not sorted, and the mutex locked by this thread for ever (`left`), which goes on to use the filter itself (`Free`). Lists, sorting and groups are translated in full (`PassFilter`, `SortChannels`, `CreateChannelGroups`,
`Members`); `SortChannels` moves channels one by one, as the code does, and `SortIsStable` compares it with a partition in one expression. `EditList` is VDR or its user.
A restart loads what the files hold: a provider with a `|` or the end of a line in its name comes back as another one, or as two (`Parsed`). `edited` and `upToDate` are history variables. In `EpgUpdates` a notice makes the client's thread look for the first channel that is due (`EpgLock`,
`EpgPass`, `EpgTrigger`); `Tick` is the five seconds in which a channel is not told of again.

### SearchTimers

The locks are `clientLock` (static, of the requests), `searchLock` (of `CVNSITimers`), `vdrLock` (VDR's timers), and VDR's schedules and recordings, which the search thread locks inside the
timers (`vnsitimer.c:427`, `434`, `462`); `other` says that somebody else has the one it asks for next (`ListTaken`, `ListLeft`). A request is `Begin` and then its own actions, as many as
it has places to wait: `GetList` and `GetListSearch`, `Reaches` and `DeleteOrUpdate`. The search thread is `TakeCopy`, `ScanLock`, `ScanBegin`, one `PassOver` or `Match` per event found, `ChildKnown` or `AddChild`, `NoteChild`,
`ScanEnd`. What schedules, recordings and active timers hold at the time of a look is left open, so whether an event is seen, and whether it is a duplicate, may change in both directions from one look to the next: recordings may have
been deleted and events moved. An event that has been moved is another one of `Events`, since its start is.

`Restart` is `Load` of what `Save` wrote, line by line: a line whose channel VDR does not know is skipped, and so may be one whose name has a `;` or the end of a line in it (`plain`); such a name is cut, and a search
with one of these (`Odd`) is cut with the starts of its children lost (`IsRead`). Ids are counted anew, and the margins, which the file does not have, are any of `Margins`. `misread` is the set of search timers whose line was not read as it was written:
`FileCurrent`, `NoOrphans` and `NotRecreated` say nothing of these, since the code does forget them and their children. A name that makes a line read as another valid one (`1;`), and a start that is read
from the rest of a search, are not modelled. `by`, `dropped`, `stale` and `misread` are
history: where a VDR timer comes from, which children were deleted by hand, which were made from a copy of a search timer that had changed since, and which lines were misread.

### Recordings, RecPlayer, Osd

`Recordings` has the files on disk, VDR's two lists of them, the cache and three locks. A request is one action per lock it takes: `LockCache`,
`Lookup`, `LookupWrite`, `DeleteDo`, `DeleteList`, `RenameLock`, `RenameDo`, `UndeleteLock`, `Undelete` and so on. Only one list is sent at a time, as both requests keep the timers' mutex (`NobodyLists`). `crossed` is a history variable: a recording was
undeleted between the two steps of its deletion, after which VDR's list and the disk differ until VDR looks again.

`RecPlayer` scans one file at a time (`ScanFile`), while VDR writes (`Write`, `NewFile`). `ReadAt` is `getBlock` as far as it looks for the segment and reads from its file.
`LookAgain` and `ReadsOn` are its recursion: if the amount was cut to nothing because the length was not known yet, `read` returns 0 at every position, one call inside the other, until the end, where the player scans again; the
depth of this recursion, one call per byte, and the stack it needs are not modelled. `torn` is a history variable: VDR went on to another file between the player's look at one file and at the next.

`Osd` has the static state of the provider, the OSD that VDR's main thread draws, and what each client shows (`view`). A window's content is the number of times it was drawn
into; `dirty` is how much of it was sent. Every command that `Flush` sends is an action (`FlushOpen`, `FlushBlock`), so a client may connect or leave between any two. `since` is a
history variable: a flush has begun since a client last connected.

## What the runs show

| run | shows |
|---|---|
| `ring` | invariants of the ring, `ScanSucceeds`, and that it implements `TimeshiftStream` |
| `ring_live` | a reader gets what is there; a full buffer becomes writable again |
| `ring_seek` | violation: a seek in a short buffer makes bytes readable that were never written |
| `stream` | receivers, buffers, serials, preemption: invariants and action properties of `LiveStream` |
| `stream_live` | closing ends, preemption ends, a lost receiver comes back |
| `recording_end` | violation: the end of a recording in progress is not noticed |
| `channel_change` | violation: a changed channel is not tuned to |
| `sessions` | `SessionInv`; a session implements `SessionService`, serves its requests, and ends when its client is gone |
| `status` | `StatusInv`; a change reaches every client that listens, a client that is gone is removed |
| `notices` | `NoticesInv`; the end of a scan is reported, and every schedule that has grown is told of |
| `playback` | `PlaybackInv`; the ring in a file implements `TimeshiftStream` and does not starve its reader; a recording is played in order and to its end |
| `shared` | `OsdInv`, `RecordingsInv`, `TimersInv`, `FilterInv`; no child timer is made again, sorting is stable |

Bounds. `MCTimeshiftBuffer`: packets of 2 bytes, `Margin` 4, a ring of 13 bytes, the smallest that `SizeAssumption` allows, and an odd number, so that packets straddle its end; 22 bytes are delivered, enough to wrap, to fill up with a slow
reader, and to wrap again after seeks. `SyncBytes` contains every packet start and some payload bytes, so the search has false
starts. Liveness needs 14 bytes: one wrap and a full buffer. `MCLiveStream`: two buffers, because one is
always freed before the next is created; one packet of fill tells empty from not empty; one seek, one channel change. Detaching,
re-tuning, failing and reopening are unbounded. `Symmetry` exchanges the buffers and is used only where no liveness is checked.

`MCClientSession`: one client (sessions share nothing but the scanner, which `MCNotices` has two clients for), two requests of all 20 kinds, so that every kind follows every
other one, one notice of VDR's in the queue, three scans. `MCServerStatus`: one client, which logs in, asks for changes and starts a scan, in this order (`Steps`, `MCStatusSpec`), and one change of one list, which a timer holds back at times:
so the change may come before the scan, while it is being started, and while it holds changes back; no notices of other threads (`MaxQueue` 0) beside the status thread's own. Other orders of requests and malformed ones are in
`sessions`; a fourth request, which would stop the scan, is beyond the time for a run with liveness. `MCNotices`: two clients and three scans; for the EPG one client, two
channels and schedules that grow once each, so that the two ways to lose the filter's mutex that `EpgTold` names do not occur. `MCPlayback`: a ring of 19 bytes with packets of 2, `Margin` 6 and blocks of 5 bytes, odd sizes close to the smallest that `FileBufferAssumption` allows,
so that blocks straddle the end, and 24 bytes delivered; seeks step back 3 bytes, more than a packet, from the end; a recording of up to 14 bytes, almost three blocks; three files of up to two bytes, and two requests. `MCShared`: two clients and what each part
needs for its interesting case: two windows drawn into twice, two recordings and three requests, one search timer with two VDR timers, one event and a search for it and one that finds nothing and cannot be read back, three channels (one of them a
separator, one with two CA ids, one radio channel) and one change of VDR's list. The clients are symmetric there, and nothing of liveness is checked.
`MCShared` does not check for deadlock, because the three lock cycles below are ones: `RecordingsBlocked`, `TimersBlocked` and `FilterBlocked` say that there is no other one
(`FilterBlocked`: but for a mutex that a request left locked).

Fairness. The ring's reader is the streamer's loop, which calls `Read` again after every packet: weak fairness of `ReadBlock` and
`Process`, and nothing of the writer. In `LiveStream` each thread continues what it began, time passes, the command queue is served, and
a holder of the receivers mutex goes on detaching. `FairDeviceSpec` adds strong fairness for the success of tuning and attaching: a device that is asked for again and
again is given at last. It is needed where a property says that a stream comes back, and is an assumption about VDR, not about this code. No fairness is assumed for the client's wish to close,
for VDR's wish to detach, or for the delivery of packets.

In the sessions, reader, command thread, polling thread and destructor each go on once they have begun, and a scan ends. In `ServerStatus` the status thread goes round its loop, the
timer of each list runs out again and again (strong fairness of a `Look` that sees the change), and a session goes on; whether a client sends, closes or is told to end is
left open. `EpgTold` assumes strong fairness of taking a notice from the queue, which is worked off in order whatever else is asked, and of nothing that VDR's other threads do; it also
assumes that the state of VDR's schedules keeps changing (`Notice`), as it does while EPG data are received, and that schedules only grow. `EndReached` assumes that the streamer reads and its two timers run out.

### Findings

- `AnythingToRead` (`demuxer.c:241`): with less than 1024 bytes in the buffer the first step back from the end leads to a negative position.
- `RecordingEndSeen` (`streamer.c:293`): the no data timeout (2.5 s) is shorter than the end of file timer (3 s). The re-tune attaches
  live input to the recording's buffer, which ends the check for the end of file and throws the live packets away.
- `ChangeFollowed` (`streamer.c:906`): the comparison of pointers never succeeds, because the command hands over its own copy of the channel.

### Other departures met while modelling

The models have these as the code has them. Where a property would be broken by one, it names the case as an exception.

- Locks taken in both orders: the cache's mutex and VDR's lock on the recordings (`vnsiclient.c:2200`; `RecordingsCycle`; with three clients also through VDR's list of
  deleted recordings, which an undelete waits for with the recordings locked, `vnsiclient.c:3030`, while their listing waits for the cache, `vnsiclient.c:2784`, and a look-up, which has
  the cache's mutex, for the recordings, `recordingscache.c:73`: a case two clients do not have, which the proof of `RecordingsBlocked` showed), the lock of the search timers and VDR's lock on
  the timers (`vnsitimer.c:284`; `TimersCycle`), the filter's mutex and VDR's lock on the channels (`channelfilter.c:300`; `FilterCycle`). Each cycle is reached in the instance of
  `MCShared`.
- The flag that holds updates back stays up after a scan that ends by itself, until a client sends a stop request; until then no change is announced to anybody
  (`ChangeReaches` names `inhibit`).
- A socket that was given away (`VNSI_INVALIDATESOCKET`) ends its reader, and a session whose socket is gone so ends with the server only (`vnsisocket.c:56`).
- A seek leaves what the buffer holds in the ring in a file as it does in the ring in memory (`demuxer.c:241`, the finding `AnythingToRead`); there the read at a negative position fails, and the cache
  counts as full (`lost`). In a recording in progress a seek into the last bytes of a file, or into a file that cannot be opened, makes the reader find a packet that was played before, or nothing
  (`videobuffer.c:731-769`, `GiveLeftOver`).
- A child timer is known to its search timer by its start, margin included: if the event is moved or a margin changes, by a request or a restart, it is another child, and one that was deleted by
  hand is made again (`vnsitimer.c:492`). `NotRecreated` is about the same start. A child that records when its search is changed stays and is forgotten.
- The file of the search timers has the client's name and search as they are between semicolons (`vnsitimer.c:158-171`), and a line whose channel VDR does not know is skipped (`vnsitimer.c:79`):
  a restart loses such search timers, or the starts of their children (`misread`).
- A list request that ends within an entry leaves the filter's mutex locked and the list half set (`vnsiclient.c:1357-1368`, `1386-1396`; `left`). All other clients then wait for ever where they ask
  the filter, and so does who holds the readers' lock of the channels before it.
- `DeleteChildren` goes round for ever at a VDR timer without a channel (`vnsitimer.c:289`), and a search that is no regular expression throws in the search thread. Neither is modelled.
- Shutdown clears the list of clients without its mutex and without waiting for the server thread (`vnsiserver.c:85`).
- A failed read of the timeshift file is not noticed (`videobuffer.c:555`, see `LoadFails`).
- What is shorter than a block at the end of a recording in progress is never played (`videobuffer.c:727`).
- `getBlock` takes a read of nothing for the end of a segment (`recplayer.c:243`), and the file number it finds a frame's position by is one too small (`recplayer.c:276`).
- A client that connects the OSD while another has it takes it away, and a second request of the same client drops it, since the destructor of the old provider forgets the new socket (`vnsiosd.c:233`).
- An undelete that fails to rename the files answers that all is well (`vnsiclient.c:3041`).

## What is proved

### The timeshift buffer in memory

`TimeshiftBufferProofs` proves, for all values of the constants that satisfy `SizeAssumption`, `ChunkAssumption` and
`SyncAssumption`, what the run `ring` checks on a small instance:

| theorem | states |
|---|---|
| `TypeCorrect` | `Spec => []TypeOK` |
| `WriterNeverLapsReader` | `Spec => []NeverLapped` |
| `HeldBlockIntact` | `Spec => []BlockIntact` |
| `SeekWindowIntact` | `Spec => []WindowIntact` |
| `SearchStaysInRing` | `Spec => []SearchInRing` |
| `ScanAlwaysSucceeds` | `Spec => ScanSucceeds` |
| `RingImplementsStream` | `Spec => ImplementsStream` |

The assumptions are the code's: `m_Margin` is two packets and at most `MARGIN`; the ring is larger than three
margins; a chunk is at most half of `MARGIN`; a transport stream has a packet start within every packet's length, followed by another.
None of the properties is inductive. The invariant `IInv` adds:

- `WriterInv`: where `Put` is, and what that says of `size`, `writePtr` and `bufferFull`;
- `MemInv`: which cell holds which stamp. All cells behind the writer hold the stream; the ones it is copying over hold old or new bytes;
- `SnapInv`: the positions of a seek lie in the window as it was, and the window has moved by at most what was written since;
- `ReaderInv`: unless `strayed`, the distance between the pointers is the number of unread bytes, which, with the chunk in progress, is less than the size of the ring;
- `RangeInv`: what `ReadBlock` has found to be readable is still there, and what it has handed out lies within it.

The key is `ReaderInv`: `Put` tests for room without its chunk's size and without holding the lock, so the chunk, and with a
seek another one, must fit into `MARGIN`. The refinement proof takes `IInv` and maps each action to a step of the stream: `PutWrap` and `PutPublish` append, `ReadConsume` advances,
`ReadScan` delivers, `Process` releases, `SetPos` seeks, and all others stutter.

### The live stream

`LiveStreamProofs` does the same for all invariants and action properties of the run `stream`, for any number of buffers, seeks and
channel changes, any capacity, and all timeouts ordered as `TimeAssumption` says:

| theorem | states |
|---|---|
| `TypeCorrect` | `Spec => []TypeOK` |
| `DeviceWritesToLiveBuffer` | `Spec => []ReceiverHasBuffer` |
| `StreamLeaksNothing` | `Spec => []NothingLeaks` |
| `DemuxerReadsLiveBuffer` | `Spec => []DemuxerHasBuffer` |
| `SerialNeverBehind` | `Spec => []SerialKept` |
| `PreemptionIsSeen` | `Spec => PreemptionSeen` |
| `BufferIsDrained` | `Spec => DrainedBeforeShutdown` |

Here `IInv` says which steps belong to which phase (`PhaseInv`), that client and streamer thread are never both at work on opening or
closing (`ClientInv`), which buffer exists and who points to it at each step (`BufferInv`), how far the input is set up
and what VDR has begun to detach (`InputInv`), that a CLOSE seen in the loop stays true until it is acted on (`CloseInv`), and where the
serial is while the buffer is exchanged (`SerialInv`). The facts that carry the proofs are that a receiver which is
attached never has a re-tune request pending (a detach sets the request as it takes the receiver off, and only a new
attempt to tune clears it), and that a preempted device keeps its detached dummy receiver until the streamer closes the input.
There is one lemma per action.

### The scans, the sessions and the server

`ScanControlProofs`, `ServerStatusProofs` and the last part of `NoticesProofs`; `ServerStatus` EXTENDS `ClientSession` EXTENDS `ScanControl`, and the proofs build on each other in the same way.

| theorem | states | for |
|---|---|---|
| `ScansAreSafe` | `ScanSpec => []ScanInv` | any number of clients and scans |
| `SessionsAreSafe` | `SessionSpec => []SessionInv` | and of requests, of all kinds |
| `SessionsKeepScans` | `SessionSpec => []ScanInv` | |
| `SessionsImplementService` | `SessionSpec => ImplementsService` | |
| `StatusIsSafe` | `StatusSpec => []StatusInv` | and any kinds of lists |
| `StatusKeepsSessionInv` | `StatusSpec => [](SessionInv /\ ScanInv)` | |
| `StatusKeepsService` | `StatusSpec => ImplementsService` | |
| `NoticesAreSafe` | `NoticesSpec => []NoticesInv` | any channels, events and clients |

- `ScanInv` is inductive with this: without a scanner nothing is ever started (`PluginInv`), and a polling thread runs only for a client that found
  scans supported and is not past the point where the session stops it (`PollInv`).
- `SessionInv` needs to know in which calls the command thread can be (`RequestInv`), and how far the threads are at each step of the destructor (`LifeInv`).
- The refinement of `SessionService` maps a session to the requests that it will still take (`Asked`: the one being executed, then the queue, then the wire, unless the reader is
  dead). The reader's steps stutter, since a request only goes from the wire into the queue; a request that is taken is served; the end of the reader, `running` becoming false, and the
  destructor's `Cancel` cut what is asked to what can still be executed. `ServiceInv` says what cannot be on its way: nothing before the object is there, and no request is being executed while the thread waits for one.
- `StatusInv` needs who is in the status thread's list, among those it destroys, or being added (`KnownInv`), and that only those who listen are owed news (`NewsInv`).

### What is played

`PlaybackProofs`:

| theorem | states | for |
|---|---|---|
| `FileSafety` | `FileSpec => []FileInv` | any size of ring, cache, packets, margins and chunks that `FileBufferAssumption` allows |
| `FileRefinesStream` | `FileSpec => FileImplementsStream` | |
| `RecordingInOrder` | `RecordingSpec => PlayedInOrder` | any length |
| `PlaybackIsSafe` | `PlaybackSpec => []PlaybackInv` | and any number and sizes of files |

For the ring in a file `FileIInv` says where `Put` is and what its chunk may be (`FileWriterInv`), which cells hold this lap and which the last one, also after a write
was given up half way (`FileMemInv`), where `ReadBlock` is (`FileCallInv`), and, until something is lost, that the ring has room for the chunk being written and another one beside what the
reader has not consumed (`FileReaderInv`) and that the cache is the stream from the read pointer on (`FileCacheInv`, `CacheCoherent`). The refinement is that of the ring in memory, with the cache in the place of the
block that was handed out.

For a recording in progress `RecordingIInv` relates the position, the block and the length known. For the player `PlayerIInv` says how far a scan has come and that no file is left out
(`ScanTotalInv`), that segments start where their files do (`StartsInv`) and those already passed meet (`LookedInv`), what the client was told of (`IdleInv`), and that the file
a block came from has not moved (`BlockInv`). Offsets of files are a recursive function, which `DataLemmas` gives its two equations.

### What the clients share

`SharedProofs`, and `NoticesProofs` for the channel filter:

| theorem | states | for |
|---|---|---|
| `ClientShowsOsd` | `OsdSpec => []OsdInv` | any number of clients, windows, drawings |
| `RecordingsAreSafe` | `RecordingsSpec => []RecordingsInv` | any number of clients, recordings, requests |
| `TimersAreSafe` | `TimersSpec => []TimersInv` | any number of clients, search timers, VDR timers and events |
| `DeletedStaysDeleted` | `TimersSpec => NotRecreated` | the same |
| `FilterIsSafe` | `FilterSpec => []FilterInv` | any channels, lists and clients |
| `SortingIsStable` | `FilterSpec => SortIsStable` | |
| `SharedIsItsParts` | `SharedSpec` implies the specification of each of the four parts | |

- `OsdInv` says what a client shows between flushes only, so the invariant adds what holds during one: the socket is that of a client that has a
  provider, and a full flush stays requested until one begins (`SocketInv`); only an active OSD is flushed (`FlushInv`); a client never shows a window that VDR does not have (`ClosedInv`);
  and the client shows what was sent last of every window the flush has passed, and of all windows if it sends changes only (`SentInv`).
- VDR's lists follow the disk between the steps of a deletion only by an account of the deletions that are half done (`ListedInv`). Who holds which lock follows
  from where the requests are (`RecordingsLockInv`, `TimersLockInv`), and with that `RecordingsBlocked`, `TimersBlocked` and `FilterBlocked` are case distinctions: what each request can be waiting for, and who has it.
- `NoOrphans` needs ids and names that belong to one search timer each, also in the search thread's copy, a file that holds them (`SearchInv`), a search timer for the child that is still to be noted
  (`ChildInv`), and the search timer of a request that waits for VDR's lock (`RequestInv`). `NotRecreated` needs that children deleted by hand are in the lists of those made, or recorded (`DeletedInv`).
- The loop of `SortChannels` is a recursive function over the places of the list. Each turn moves one channel in front of others that do not pass, which leaves the order among those that pass, and among the others, as it is
  (`SortStepArranges`), and makes one more place right (`SortStepSorts`). `GroupsComplete` follows from what a client was given when it asked (`GroupsRight`).

What the code forgets is excepted by name in the properties and not assumed away in the model: `misread` in `FileCurrent`, `NoOrphans` and `NotRecreated`, `left` in `FilterStored` and `FilterBlocked`,
`lost` in `CacheCoherent`, `SeekReadable`, `FileReaderProgress` and the refinement by the ring in a file. The types, `ListConsistent`, `SortedFirst`, `GroupsComplete` and the rest of the invariants hold in those states, too.

The theorems about a part hold in the composition that the run checks, as `SharedIsItsParts` and the proofs of `PlaybackIsSafe` and `NoticesAreSafe` show: a part that is not chosen keeps its initial state.

Recursion and induction. The provers cannot instantiate an operator parameter, so `DataLemmas` states induction over numbers for sets instead of predicates and proves what a function defined
by recursion over `0..n` is. With it `Kept`, `Offsets` and the loop of `SortChannels` are proved about for sequences of any length.

The `...Blocked` invariants speak of steps that are enabled. `ENABLED` is beyond the prover, so each says in terms of locks when a request can go on (`RecordingGoesOn`, `TimerGoesOn`, `SearchGoesOn`,
`FilterGoesOn`).

Only model-checked: liveness, that is `ring_live`, `stream_live` and the properties with `~>` and fairness of the other runs (`RequestServed`, `GoneEnds`, `ChangeReaches`, `DisconnectedRemoved`, `EndReported`,
`EpgTold`, `FileReaderProgress`, `EndReached`); and the three violations. All invariants and action properties of the passing runs are theorems.

## Not modelled

- The stream parsers' decoding of codec headers, the conversion of VDR's data into answers, `responsepacket.c` and `requestpacket.c` apart from the exception they throw on a short packet, menus and option storage:
  sequential conversions that unit tests reach.
- `cxsocket.c`: a write succeeds or fails. That a slow client's full socket delays the thread that writes is not modelled.
- Threads that are killed when `Cancel(n)` runs out of patience: in the models they end in time. The exceptions are the reader of a socket that was given away and the
  polling thread, which the code's own waiting makes the common case.
- Failing writes of `timers.vnsi`, the white list and the black list.
- VDR's lock on the channels where it is taken for a look only: with the recordings (`vnsiclient.c:2044`), and where a search timer is changed (`vnsitimer.c:233`). Both ask for it with other locks held,
  which is one more place where a list request that waits for the readers of the channels, or leaves the filter's mutex locked, delays others.
- Which schedules, recordings and active timers there are when the search thread looks: it may find anything.
- Signal information, `cDummyReceiver`'s CAM, the test buffer, the status socket (`streamer.c:915`), PAT and PMT handling and the set of stream parsers, positions of frames in a recording
  (two look-ups in VDR's index), moves of OSD windows and keys, week days, time spans and regular expressions of search timers.

## Plan

1. `PtsWrap` and `PesBuffer`: the wrap of time stamps and the buffer of the parsers, against reference definitions.
2. `DemuxerStreams`: PAT and PMT changes and the set of parsers; the status socket.
