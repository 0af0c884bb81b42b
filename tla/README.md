# ktv-casting in TLA+

Models, model-checking runs and proofs for the Rust crate under `src/` (the
casting client of a song-request room: it follows a room's list of songs, has
each song played by a DLNA renderer or a Bilibili TV, watches the progress and
moves the room on when a song ends).

## Inventory

| part | code | state | operations | who it talks to |
|---|---|---|---|---|
| playlist synchronisation | `playlist_manager.rs` | list hash, song, counts; `song_playing_cached` of the sync task | `fetch_playlist`, `sync_playlist`, WebSocket and polling drivers, `switch_song`, `edit_current_part` | the room server (HTTP, WebSocket), the gate, the callback |
| part selection | `bilibili_parts.rs` | none of its own | list the parts, take a snapshot, check it, edit the room's song | the room server, Bilibili |
| progress gate | `progress_gate.rs` | song, phase, revision, last position, baseline | `update_song`, `play_token`, `begin_recast`, `play_succeeded`, `filter` | called under one mutex by sync, recast and pollers |
| automatic next song | `auto_next.rs` | `fired`, handle of the retry task | `observe`, `start_request`, `reset_for_playback`, `cancel_pending_request`, `retry_next_song` | the room server |
| playback core | `lib.rs` | `EngineContext`: playback lock, duration cache | callback of `connect_room`, `recast_current_song`, `play_and_confirm`, `read_progress`, manual switches | all of them |
| engine life, device commands | `lib.rs`, `android.rs` | `ENGINE_STATE`, runtime, media server; `is_playing`, quality and direct flags | start, connect, publish, reset; toggle, seek, volume, danmaku | front ends, casters, HTTP server |
| DLNA caster, SOAP | `cast/dlna_caster.rs`, `dlna_controller.rs` | current song, transport lock | play, pause, seek, reload at a position, set quality; SOAP fallbacks | the renderer, the media sessions |
| Bilibili caster | `cast/bilibili_caster.rs`, `cast/progress.rs` | simulated clock, danmaku switch | play, pause, resume, seek, volume, danmaku | the TV through Bilibili's cloud |
| media sessions | `media_session.rs` | current session: generation, prepared layout | `prepare`, `cancel`, `warm_seek`, replacement | media server, song cache |
| song cache | `song_cache.rs` | blocks, blocks in flight, epochs, slots | `read`, `block`, `fetch_range`, `retire`, warm-up | upstream HTTP |
| range serving | `virtual_mp4_http.rs`, `media_server.rs` | none | `resolve_range`, `serve`, proxying | renderer |
| MP4 | `dash_index.rs`, `seekable_mp4.rs`, `fmp4_mux.rs`, `mp4_util.rs` | the index and layout being built, the mux under way | index loading, layout, reading, online mux | media sessions |
| the rest | `ssdp_discovery.rs`, `bilibili_parser.rs`, `youtube_parser.rs`, `upstream.rs`, `main.rs` | none of their own | discovery, link parsing, command line | |

What makes each part correct, and what is hard about it:

- *Playback core, gate, trigger.* The sync task, a recast, several pollers, a
  retry task and people act on the same gate, list hash, lock and device, and
  all of them await network answers in between. The progress shown must be
  progress of the song shown; the trigger must fire once per playback, at its
  end, and move the room at most once, although answers are lost and requests
  repeated; a slow play command must not put an old song back; the client must
  go on following the room and sing the list to its end.
- *Synchronisation, part selection.* Frames are lost, connections break, a
  callback may keep the driver busy for minutes, and a chosen part may reach the
  server after the room has moved on. Songs must be handled in the room's order,
  none twice, and an edit must hit the song it was meant for or be reported for
  what it is.
- *Engine life.* One lock holds the engine; whoever drops the last reference
  takes a tokio runtime down, which must not happen inside a future. Commands
  read the lock twice. The old media server must go without the new one.
- *Commands.* The shown state (pause, simulated position, danmaku, volume) must
  be the device's, although commands fail, overlap, are carried out with their
  answer lost, and are retried. They must return before the UI's deadline.
- *DLNA caster, media sessions.* A song change, a quality switch, seeks and the
  renderer's own requests share one current session, one renderer and one
  preparation. Ok must mean that the song plays; a replaced session must not
  keep its cache; a seek must reach the song it was meant for and must not break
  the stream the renderer opens for it.
- *Song cache.* Readers, streams and warm-up share blocks in flight, four
  download slots and a bounded disk: no reader may wait for a block nobody
  fetches, nor read a block that is being evicted.
- *MP4 and ranges.* Every byte of an answer is computed: from a header, an
  index loaded out of order, a layout over two sources, run-length tables in two
  time scales. Off-by-one at any end shifts everything after it.

## Modules

| module | models | extends |
|---|---|---|
| `Room` | the room server, from how `playlist_manager.rs` uses it (external) | |
| `AutoNext` | `auto_next.rs` and the switch requests on the wire | `Room` |
| `ProgressGate` | `progress_gate.rs` | `AutoNext` |
| `SongEnd` | abstract: what the client promises about moving on by itself | |
| `Playback` | `lib.rs` (callback, recast, polls, seek, manual switch) with `playlist_manager.rs` (`fetch_playlist`, `sync_playlist`) and the device | `ProgressGate` |
| `PlaybackProofs` | theorems about `Playback` | `Playback` |
| `SongFollower` | abstract: songs are handled one after the other, in the room's order | |
| `RoomSync` | the sync task of `playlist_manager.rs` with its connection, `bilibili_parts.rs` and `edit_current_part` | |
| `MCRoomSync` | its properties and instance | `RoomSync` |
| `RoomSyncProofs` | theorems about `RoomSync` | `MCRoomSync` |
| `Engine` | `ENGINE_STATE` in `lib.rs`, the calls of `android.rs`, the owners of a runtime | |
| `MCEngine` | its properties | `Engine` |
| `EngineProofs` | theorems about `Engine` | `MCEngine` |
| `Commands` | the commands of `lib.rs` down to the device, through `bilibili_caster.rs` with `progress.rs`, `dlna_controller.rs` and the retries of `cast/mod.rs` | |
| `MCCommands` | its properties and instance | `Commands` |
| `CommandsProofs` | theorems about `Commands` | `MCCommands` |
| `MediaSessions` | `media_session.rs` | |
| `DlnaCaster` | `cast/dlna_caster.rs`, the renderer, its requests (`media_server.rs`, `virtual_mp4_http.rs`) and the streams' epochs (`song_cache.rs`) | `MediaSessions` |
| `DlnaProofs` | theorems about `DlnaCaster` | `DlnaCaster` |
| `BlockStore` | abstract: a block that is used is kept with its file, and no more blocks than fit | |
| `SongCache` | `song_cache.rs` (`read`, `block`, `cancel`, the `Drop`s) and the warm-up of `media_session.rs` as one of its readers | |
| `SongCacheProofs` | theorems about `SongCache` | `SongCache` |
| `Mp4Layout` | `seekable_mp4.rs`: the layout of the virtual file, its tables, `read_plan`, the warm-up window | |
| `DashIndex` | `dash_index.rs`: the concurrent reading of the two sources' indexes | `Mp4Layout` |
| `Fmp4Mux` | `fmp4_mux.rs`: the online mux, its seeks and its announced length | `DashIndex` |
| `HttpRange` | `virtual_mp4_http.rs`: `resolve_range` | |
| `LayoutProofs` | theorems about `Mp4Layout` and `HttpRange` | `Mp4Layout`, `HttpRange` |
| `MediaDelivery` | `serve`: a song of two sources on its way to the renderer | `Fmp4Mux`, `HttpRange` by instance |
| `MCMediaDelivery` | small sources, whole and broken | `MediaDelivery` |
| `MediaProofs` | theorems about `DashIndex`, `Fmp4Mux` and the prepared file as `MediaDelivery` composes them | `MediaDelivery`, `LayoutProofs` |

`MCPlayback`, `MCDlnaCaster` and `MCSongCache` only give values to the constants
of the module they are named after. Where a component's properties are many or
need operators of their own they stand in its MC module, else in the component.

Definitions keep the names of the code. An operator introduced by "Faulty:" (or
"for checks of the properties") is never used: it is its neighbour with a
plausible bug, and shows that a property can fail (`PROJECT.json`, "mutants").

### How the state corresponds to the code

*Room.* The list is a place (`at`) and a count of edits. The server's hash
`idArrayHash` determines the list, so it is represented by the list itself: two
equal lists have equal hashes, and going back gives an old hash again. A
switch request is accepted if and only if it names the present hash.

*Gate and trigger.* Every operation of `ProgressGate` and `AutoNextSong` runs
under one mutex and is a piece of the step that calls it.
`ProtectingUntil(deadline)` is two phases, before and after the deadline.
`earned` is a history variable: uses of the trigger less moves the room made for
automatic requests.

*Playback.* `run["sync"]` and `run["recast"]` say at which await the two tasks
stand; `lock` is `playback_lock`; the sync task waits for it, a recast gives up
(`try_lock`). The pieces between two awaits are one action each:
`fetch_playlist` is `SyncFetches` and `SyncApplies`; the callback is
`SyncLocks`, `Prepares`, `ChecksToken`, `DeviceLoads` and `PlaySucceeds` or
`PlayFails`; a recast is `RecastStarts` and the same from `Prepares` on;
`read_progress` is `PollAsks`, `PollSamples` or `PollErrs`, and `PollDelivers`.
The device is four variables: the song it was told to play, the position it
reports, the song this is a position of, and whether it still reports the old
one (`lag`). A renderer announces any length it may know; a simulated clock
knows its song's.

*RoomSync.* The list is represented by the song and the part being sung, and so
is its hash. `task` is the loop of `start_ws_update` or `start_periodic_update`
(they differ in how they wait): connecting, pausing three seconds, listening,
fetching, holding an answer, in the callback. `cached` is `song_playing_cached`,
which outlives connections; `gate` is the song the answer "not changed" stands
for. A call of the part selection goes through the snapshot, the lookup of the
parts and the edit; `posted` are edits on the wire, which the server may serve
after their caller has given up. `done` says whether the room made the edit.

*Engine.* An engine is named after the start that makes it. `slot` is the
content of `ENGINE_STATE`; `call[c].outer` is the guard or the Arc of the JNI
function, `call[c].inner` the Arc of the core it calls, `task` the Arc of a
switch task. The lock is not a variable: who holds or wants it follows from
where starts, resets and calls stand (`Readable`, `Writable`; a std `RwLock`
lets no reader pass a waiting writer). `Unowned` is an Arc's count of zero, and
whoever brings it there drops the runtime (`Collects`); inside a future that is
a panic, which poisons the lock if the write guard is held (`poisoned`), or ends
the process if it leaves an extern function (`aborted`). Nothing serializes starts and
resets (`android.rs:227` spawns a thread for each): any may begin at any time. The history
variable `crossed` holds those that met another one under way.

*Commands.* `call[c]` is a command on its way: begun, sent, waiting to be sent
again; `form` is the endpoint it has got to in `avtransport_action_compat`, `step` the
action a DLNA play is at (Stop, whose failure is ignored, then SetAVTransportURI and
Play; between two of them the song may be given up, `GivesUp`) or the get and the set of
a volume; `done` says whether the device carried out this
attempt. `clock` is `LocalProgressTracker`, time passes with `Tick`. The
history variables `calm`, `drift` and `volumes` keep what the properties compare
with: whether a failure or an overlap has disturbed a setting since it was last
acknowledged, whether `is_playing` was stored since (`calm.stored`), and how long the
commands were on their way. The clamp of the volume to 100 is left out. Timeouts are counted
in half seconds per command (`spent`) and not against `Tick`: how much time the
endpoints cost one after the other does not depend on what else happens.

*DLNA caster.* A song is named by its place in the order of play, a position by
the song it is a position of. `cast["player"]` is `play_song` (one at a time,
under `playback_lock`), `cast["setter"]` is `set_quality`; `transport` is the
mutex around the renderer's commands. A session's generation is its index in
`sessions`; `ready` is its once-cell and `prep` says where each caller of
`prepare` stands. `streams` are the responses of the seekable cache, `fresh`
those the renderer has opened since the last executed seek.

*Song cache.* A read is split into parts, one per block; `part[f].pc` says at
which await of `block` a part stands. A `Block` is an object of its own, apart
from its key: two of them may have had the same key, and a reference to one
(`Arc`) is a part, a writer or the map naming it. `Alive` are the objects
somebody refers to; `Settle` is what `Drop for Block` and `Drop for Directory` do
at the end of whatever step lets the last reference go. Staging files are the
writers themselves. `FindsBlock`, `Evicts` and `IsRefused` are the three ways
through the map's critical section; an eviction keeps the mutex over the await of
`hot.lock()`, so it is `Evicts` and `ReplacesVictim`. The once-cell and the
semaphore are `CellIsFilled`, `EntersCell`, `GetsPermit`; the download is
`FetchSucceeds` or `FetchFails`; the blocking write, which goes on when its reader
is dropped, is `WriterEnds`. Which of the unused blocks an eviction picks is left
open (the code takes the least recently used one). Retiring a stream drops its
read; the epochs that decide it are in `DlnaCaster`. `Streams` are the readers
whose reads live in the body of a response (`virtual_mp4_http.rs:162-192`) and are polled
only while the connection takes bytes; the warm-up (`Warming`) is a task of its own.

*Media delivery.* A source file is its boxes (kind and place), its segment index
and the content of its moof boxes; bytes are positions in a file, so a byte of
an answer is `<<"header", p>>` or `<<source, p>>`. `loads` is how far
`load_source` has got with each source, with up to `BUFFERED` segment heads in
flight that arrive in any order and are taken in order. `Mp4Builder` is pure:
`add_fragment` and `finish` are folds over samples and extents, `read_plan` maps
a range to parts. `mux` is the online mux from the lookup of the start to the
last fragment. An index counts in a time scale of its own (`sidx.timescale`), and the mux
opens a source whose index is missing or cannot be read as well (`HasIndex`): it announces
no length then, reads the source from its beginning, and the merged header keeps the
video's own duration. `truth` in a file is for the properties only: where the samples
really are, computed from how the file was put together and not from what the
code reads.

## Runs

| run | bounds | asks | result |
|---|---|---|---|
| `trigger` | renderer, 2 songs (lengths 2 and 1), 1 manual move, one poller that drives the trigger and one that only reads, the second song's length not prefetched | `OneMovePerTrigger`, `AutoNextIsEarned`, `ShownIsOfSong`, `KeepsPromise` | hold |
| `recast` | Bilibili caster, 2 songs of length 1, 1 move, 1 edit, 1 poller, 1 recast that may time out, failing plays, seeks | `PlaybackInv`, `TrustedSongIsOnDevice`, `OneLiveRetry` | hold |
| `live` | 2 songs, 1 move, 1 recast, no failing plays, fair scheduling | `FollowsRoom`, `ListIsSung` | hold |
| `queue_edit` | as `live`, no move, 1 edit | `ListIsSung` | violated |
| `room_sync` | 2 songs, one with two parts, 2 changes by others, 1 part selection; every loss, fair scheduling | `AnswersAreHonest`, `NoRestart`, `FollowsRoom`, `FollowsInOrder`, `EditHitsItsSong` | hold |
| `engine` | 2 starts and 1 reset, at once or one after the other, a thread that calls again and again and leaves tasks behind, fair scheduling | `ServerIsUp`, `OwnersKeepRuntime`, `CallsReturn`, `OldEnginesEnd` | hold |
| `engine_overlap` | as `engine`, no reset | `NeverPoisoned` | violated |
| `commands` | both casters, 2 commands by the UI and 2 by the callback's thread, positions and waits up to 2, 1 candidate endpoint; every failure | `ClockIsHonest`, `ToggleIsTrue`, `SettingIsTrue`, `VolumeIsRaisedOnce` | hold |
| `soap_anr` | DLNA, 4 candidate endpoints as the shortest list of the code | `BackInTime` | violated |
| `dlna` | 2 songs, 1 request at a time; 1 quality switch and 1 change of the direct mode with 1 stream per session, or 2 concurrent seeks with 2 streams per session; every failure | `NoOldCache`, `SeekIsOnItsSong`, `FreshStreamsSurvive`, `OkIsPlaying` | hold |
| `cache` | 2 blocks, room for 1, 1 slot; a stream that reads 1 or 2 blocks and a warm-up that reads 1; every failure and drop; the warm-up's reads and the writes are scheduled fairly, the stream's may stand still | `FileIsThere`, `DiskIsBounded`, `NothingIsLeft`, `OthersPin`, `KeepsBlocks`, `EveryReadEnds` | hold |
| `delivery` | 270 pairs of sources with 2 or 3 fragments of 1 or 2 samples, time scales 2 and 3 with indexes in the same scale or a multiple of it; whole, broken in one of four ways, or with an index that is missing or unreadable; requests at the ends, at the header's end and inside samples; four starts | `AnswersAreExact`, `HeaderTellsTheTruth`, `PlaysWithoutJumps`, `WarmsFromKeyframe`, `OnlyBrokenFilesAreRefused`, `MuxIsWhole`, `LengthIsHonest`, `DurationIsTrue` | hold |

**Why the bounds are enough to be worth checking.** Two songs are the old and
the new one of every race; a third adds no new role, and the theorems cover any
number. The first song is longer than the second, so that a position of the
first may lie at the end of the second, which is what a stale sample needs to do
harm; in `recast`, where the caster simulates the position, both have length 1.
`MIN_CURRENT` and `END_MARGIN_SECS` are 0 instead of 5 and 2 seconds:
they scale with lengths of 1 and 2. One recast and one manual move are what can
race the callback at a time. With one edit a hash may be outdated although the
song is the same. In `room_sync` two changes are enough to leave a song and come
back to it, which is what a restarted song, a reordered one and an edit of the
wrong song need. In `engine` the second start replaces the first engine, after it or while it is still
under way. The thread has a poll and a recast of its own and the switch task it has left
behind, so an old engine may be held by the task while the thread holds two others, one in
the JNI function and one in the core it calls: who drops the last reference, and where, is all that
differs with more threads, and the theorems about them cover any number.
In `commands` two commands of each thread are a command and
the one that overlaps it, before or after; a third adds nothing the history
variables tell apart. In `dlna` three sessions are two songs and a
switch; two seeks are the overtaking and the overtaken one. Switches and seeks in the same
behaviour are too many states: the constraint `SeeksOrSwitches` leaves out behaviours with both
(the theorems do not). The cache is
crowded on purpose: with one block more than there is room for, every new block
evicts or is refused, one slot is the fewest there can be to wait for, and two
objects are the one the map may hold and one that a step puts in its place; the
capacity of 1 makes the minimum in `AtOnce` bite. The sources of `delivery` differ in what the algorithms
branch on: order of time across tracks, padding boxes, one run or several,
explicit or relative offsets, first keyframe late or none, edit list and start offset
present or not, index present or not, scales that divide each other or do not.
Deadlock is not checked: with the moves, plays, changes, starts and commands of
an instance used up, nothing is left to do (the bounded models do stop), and
"everybody waits" is excluded by the liveness properties instead (`live`,
`room_sync`, `engine`, `cache`). `Engine` does have a deadlock of its own, in the
code: see below.

**Fairness.** `Playback` (`live`, `queue_edit`): the tokio runtime schedules
every task that is ready: weak fairness of the sync
task's and the lock holder's steps, of the polls and of the retry task's wake-up.
The heartbeat repeats the fetch every few seconds, the front end polls every
second, and a device plays on: weak fairness as well. Requests and samples that
are repeated for ever and may fail each time (`PollSamples`, `RetryIsAnswered`)
are strongly fair: the network does not fail for ever. Nothing is assumed of
people, and nothing of requests no task waits for.

`RoomSync`: the task's own steps are weakly fair (timers, and a callback that
ends because every request in it has a timeout); connecting and fetching are
strongly fair, as they are repeated and do not fail for ever. Frames may all be
lost; that the client follows the room rests on the heartbeat alone.

`Engine`: threads run, and a start's waits for the device end, so the step a
start, a reset or a call is at is weakly fair. Nobody has to call.

`SongCache`: the runtime polls the warm-up, a spawned task, whenever it can go on; a
request to the source ends within its 10 s one way or the other, and so does a write,
whoever waits for it. The steps of a part are strongly fair, because tokio's mutex,
once-cell and semaphore serve those who wait in order: somebody else may take
them again and again, but not for ever. A stream's reads are *not* fair: actix polls the
body of a response only while the connection takes bytes, and what is not polled keeps
its permit, its cell, or the mutex that was handed to it, while its own 10 s do not run
out and `take_until` does not fire. So `EveryReadEnds` speaks of a read that is polled
(`Polled`, an assumption about that read alone, for streams as well as for the warm-up),
and excuses it only when another stream stands still in the middle of a block
(`StandsStill`). Without the excuse TLC shows the warm-up starving behind such a stream.
Dropping, cancelling and starting reads are not fair.

### What the violated runs show

- `queue_edit`: the automatic request carries the hash its poll read. If the
  queue is edited before the room answers, the room rejects the request; the
  task takes every rejection for the late answer to an earlier success and ends
  (`auto_next.rs:65`); `fired` stays set. The song has ended and the list stays.
- `engine_overlap`: two starts overlap (`android.rs:227` does not keep them apart). Both
  reset first; the first one publishes its engine; the second one takes it out of the slot
  inside its own future, under the write guard (`lib.rs:289-292`, or `lib.rs:464-465`), where
  tokio panics on the runtime's drop. The lock is poisoned and every later command fails,
  which the comment at `android.rs:238` wants to avoid.
- `soap_anr`: `lib.rs:20` asserts that one SOAP timeout is below the ANR
  deadline of 5 s so that calls return in time; the endpoints of one action are
  tried one after the other, and the second of them is already past it.

### What the passing runs leave open on purpose

- `CallsReturn` and `OldEnginesEnd` excuse two states the model does reach. In
  `SelfLocked` a command (`togglePause`, the volume) holds its read guard, a
  reset or start waits for the lock, and the command's core waits behind it
  (`android.rs:335`, `lib.rs:171`): both stay for ever. In `aborted` a poll that
  held one engine while its core read a newer one drops the newer one's runtime
  inside `block_on`. Neither contradicts a sentence of the code or its docs.
- `ServerIsUp` holds for an engine whose own start no other start or reset was under way
  with, as long as the lock is not poisoned. Starts that cross share the server's handle
  (`lib.rs:354`): one may stop the server the other has just announced. `OwnersKeepRuntime`
  needs no condition.
- `EveryReadEnds` excuses a read when a stream nobody polls stands still in the middle of
  a block, for ever: with a permit of four, the cell of the block or the map's mutex. The
  code sets no bound to that.
- `ShownIsOfSong` and `AutoNextIsEarned` are checked and proved for a renderer that
  only the sync task commands (`Undisturbed`). A seek back that no poll has
  sampled leaves a baseline above the old song's position, which then passes for
  a rewind of the new one (`progress_gate.rs:97`); a recast that overtakes a slow
  play, and a play that fails after the renderer was told of it, do the same. With
  the simulated clock, which is set with the song, both hold without a condition.
- `ClockIsHonest` and `SettingIsTrue` hold from one acknowledged
  command to the next failure or overlap (`calm`): the code updates the clock
  before a request and does not put it back.
- `ToggleIsTrue` says what `is_playing` is in both directions, also after commands that
  were refused. It excepts three things the code does not handle: commands that overlap; a
  command that failed although the device carried out a part of it, such as the Stop of a
  DLNA play whose URI is refused (the renderer stands still, `is_playing` stays TRUE); and the
  song the callback plays after a pause. The callback stores nothing, only a recast does
  (`lib.rs:251-253`): the device plays, `is_playing` is FALSE, and the next toggle resumes what
  plays already; it takes a second one to pause.

## Proofs

Each theorem holds for every value of the constants that the named assumptions
of the modules allow (`RoomAssumption`, `AutoNextAssumption`,
`ProgressGateAssumption`, `PlaybackAssumption`, `RoomSyncAssumption`,
`EngineAssumption`, `MediaSessionsAssumption`, `DlnaCasterAssumption`,
`SongCacheAssumption`, `CommandsAssumption`, `DashAssumption`, `MuxAssumption`,
`MediaAssumption`); they
give the constants their types and keep names apart. `MuxAssumption` also says
what a seek relies on, of sources that are not broken (`IsIndexed`): a file's
fragments follow each other in time, and a fragment that lies before a segment of
the index begins no later than the index says of an earlier segment. Where a server's index says
otherwise, the code skips fragments that were asked for, and cannot know. Of a source without
an index only the first half is assumed. The announced
length relies on more (`IsListed`), of sources with an index and without padding: the n-th
segment of the index is the n-th fragment, its moof and mdat and nothing else.
`MediaAssumption` says what `truth` is (`IsDecoded`): if each range of the index holds
a fragment whose samples lie in its own payload, then `truth` lists these samples
as the fragments describe them, in order, and if the fragments follow each other without
a gap, time goes on from each to the next; durations and sizes are positive, an edit is
a number or missing. That is what decoding the boxes of a
fragment (`AddRun`, a fold with a state of its own) gives on the sources of the run, where
TLC evaluates it; a theorem takes it as given. Of a file that `FragmentIsValid` refuses it says nothing.
It also says which files are broken: those in which something is wrong when one reads them
alone and from front to back (`IsSound`), while the code reads them by their index, several
requests at once, and refuses at the first fault. Positions in requests and the length of a
block are numbers, the latter not 0.
What else a theorem needs is in its statement.

| theorem | says |
|---|---|
| `PlaybackProofs` | |
| `TypeCorrect` | `Spec => []TypeOK` |
| `PlaybackInvariant` | `Spec => []PlaybackInv` |
| `TrustIsJustified` | `Spec => []TrustedSongIsOnDevice` |
| `OneRetryTask` | `Spec => []OneLiveRetry` |
| `OneMoveEach` | `Directions = {"next"}` and `Spec` imply `[]OneMovePerTrigger` |
| `PromiseIsKept` | `Directions = {"next"}` and `Spec` imply `KeepsPromise` (`Playback` implements `SongEnd`) |
| `ShownStaysOfSong` | `Undisturbed` and `Spec` imply `ShownIsOfSong` |
| `AutoNextStaysEarned` | `Undisturbed` and `Spec` imply `AutoNextIsEarned` |
| `RoomSyncProofs` | |
| `TypeCorrect` | `Spec => []TypeOK` |
| `NoRestartHolds` | `Spec => NoRestart` |
| `RoomIsFollowed` | `Spec => FollowsInOrder` (`RoomSync` implements `SongFollower`) |
| `AnswersHold` | `Spec => []AnswersAreHonest` |
| `EditIsSafe` | `Spec => EditHitsItsSong` |
| `EngineProofs` | |
| `ServerStaysUp` | `Spec => []ServerIsUp` |
| `RuntimeOutlivesOwners` | `Spec => []OwnersKeepRuntime` |
| `CommandsProofs` | |
| `ClockStaysHonest` | `Spec => []ClockIsHonest` |
| `ToggleStaysTrue` | `Spec => []ToggleIsTrue` |
| `SettingStaysTrue` | `Spec => []SettingIsTrue` |
| `VolumeStaysHonest` | `Spec => []VolumeIsRaisedOnce` |
| `DlnaProofs` | |
| `TypeCorrect` | `Spec => []TypeOK` |
| `OkIsTrue` | `Spec => OkIsPlaying` |
| `FreshOnesSurvive` | `Spec => []FreshStreamsSurvive` |
| `OldCachesGo` | `Spec => []NoOldCache` |
| `SeeksHitTheirSong` | `Spec => []SeekIsOnItsSong` |
| `SongCacheProofs` | |
| `FilesAreThere` | `Spec => []FileIsThere` |
| `DiskStaysBounded` | `Spec => []DiskIsBounded` |
| `AllIsRemoved` | `Spec => []NothingIsLeft` |
| `RefusedByOthers` | `Spec => OthersPin` |
| `BlocksAreKept` | `Spec => KeepsBlocks` (`SongCache` implements `BlockStore`) |
| `MediaProofs` | |
| `HeadsStayInOrder` | `Spec => []HeadsFollowIndex`, the part of the mux's invariant about its heads (stated in `MediaProofs`) |
| `MuxStaysWhole` | `Spec => []MuxIsWhole` |
| `LengthStaysHonest` | `Spec => []LengthIsHonest` |
| `FileStaysInTime` | `Spec => []PlaysWithoutJumps` |
| `WarmUpStaysOnKeyframes` | `Spec => []WarmsFromKeyframe` |
| `HeaderStaysTrue` | `Spec => []HeaderTellsTheTruth` |
| `OnlyBrokenStayRefused` | `Spec => []OnlyBrokenFilesAreRefused` |
| `AnswersStayExact` | `Spec => []AnswersAreExact` |
| `LayoutProofs` | |
| `ResolveRangeIsExact` | for every length and header, `resolve_range` answers what RFC 9110 asks for |
| `SamplesAreLaidOut` | `finish` lays the samples of any tracks out in the order of time, without gaps and overlaps, behind a header that points to them |
| `TablesTellTheTrack` | the tables `build_moov` writes of any track tell its samples back one by one: sizes, times, shifts, keyframes; the edit and the rounded duration fit |
| `PlanSpells` | for every file laid out without gaps and every range of it, the parts of `read_plan` are exactly the bytes the file has there |

### Why the invariants are what they are

*Playback.* `TrustedSongIsOnDevice` is not
inductive: a device command may arrive after its song was left. `Coordination`
adds what prevents the harm. Only the holder of `playback_lock` puts a song on
the device (`LockIsHeld`), and what it has put there stays until it is done
(`LoadedIsOnDevice`). The callback's song cannot change under it, as the sync
task is serial (`SyncIsOnSong`); a recast's song can, but then the gate trusts
nothing (`RecastIsMasked`); and a token that still counts when the answer arrives
names the gate's song (`TokensNameSong`), so a late confirmation is refused.
`OneMovePerTrigger` needs to know why a repeated request cannot move the list a
second time: a move makes every hash in circulation an old one (`HashesAreOld`),
and a request that names the present list has a use of the trigger to pay for it
(`MovesArePaid`). This is where the list must only move forward: after
"previous" an old hash is the present one again, and a late request would count.
`KeepsPromise` follows step by step: each action is `SongChanges`, `PlayAgain`,
`PlaybackConfirmed`, `EndHeard`, `RoomMovesOn` or a stutter of `SongEnd`.

`ShownIsOfSong` and `AutoNextIsEarned` speak of samples that are answered late.
A revision of the gate names one song and one list (`ViewsNameSong`), so an answer
the gate still takes was asked for this song; but the device may have answered it
with the song before. With the simulated clock it cannot (`ClockIsOfSong`). With a
renderer it can while it lags, and the gate has to tell by the position:
`RendererInv` says that the old song, while the renderer may still report it,
never falls behind the baseline, so that it is no rewind; that a window that has
elapsed leaves no lag; and which answers under way are old (`stale`) and what the
gate makes of each. `SyncAlone` says that the gate awaits a command for as long as
the sync task has one in hand. Both fail when others command the renderer, which
is why the theorems say `Undisturbed` and TLC shows counterexamples without it.

*RoomSync.* `Handled` relates the three memories of the sync task: outside the
callback the song it has cached is the gate's, and the hash it knows is that of a
list with the gate's song, or none yet (`NoHash`). So an answer "not
changed" speaks of the gate's song, and a song is started only if the room
showed another one in between; this gives `NoRestart` and, step by step, the
refinement. `AnswersAreHonest` is inductive only together with where an edit may
be (`CallsInv`): an edit on the wire belongs to a caller that waits for it or
has given up, there is at most one per caller, and what it would write is what
the caller's snapshot was checked against. An edit that the server serves late
is then still conditional on the snapshot's hash, hence `EditHitsItsSong`.

*Engine.* Starts and resets may overlap in any way, so the invariant follows those that did
not. A start that has met nobody is alone under way (`Alone`): whoever begins meanwhile puts
both into `crossed`. It has its server once it has announced it (`Announced`), as nobody
else uses the shared handle; and when its engine is in the slot, whoever could stop that server
has not got past emptying the slot (`Settled`), which gives `ServerIsUp`.
`OwnersKeepRuntime` holds whatever overlaps: references are only copied from the slot or from each
other, the engine in the slot runs, and a runtime is taken down only when nobody refers to
it. `Progress` says that an engine is not started before its start creates it.

*Commands.* Each property speaks of moments without a command under way; the
invariant says what holds during one. `Overlaps`: two commands under way
that write the same know of each other, so a command that is still `alone` may say
what the device will be (`PlayingInv`, `SettingInv`). `ClockInv` follows the two
clocks through a command: the code moves its own before the request, the device
follows when it carries it out, and meanwhile the distance grows by at most what
the command has waited; the acknowledgement takes that over into `drift`. A resume
that is repeated may be carried out twice, a seek not before it was sent: hence
`ran` beside `done`. `VolumeInv` counts: what is raised and what may still be raised
are at most the commands begun (`Raising`), and an answer to `get_volume` that is
under way is bounded by the same sum. Actions are first reduced to what they do to
each field (`Effect`), and the invariants are proved over the effects.

*DLNA caster.* `SeekIsOnItsSong` needs to know how sessions and loads follow each
other. A session is stopped as soon as another one is current (`OthersStopped`),
a load has a session of its own, later than the one that was loaded when it got
the transport (`InTurn`), and the loaded session is the one the renderer plays,
or it was stopped (`LoadedPlays`): a seek that finds the loaded session current
finds the renderer on it. The sequence number does the rest: the latest seek names
the song to be played by now, and no later song is on the renderer (`InOrder`).
Nobody else commands the renderer until the seek is over. `OkIsPlaying` rests on
the transport: whoever sends a command holds it, and from the URI to Play the
renderer has the holder's song (`Transport`). `NoOldCache` rests on a caster
preparing in one of its steps only (`PreparesOnce`), so it is not also filling the
cell of a session it has to cancel; `FreshStreamsSurvive` on the cutoff lying below every
stream that was opened after the renderer moved (`Cutoffs`).

*Song cache.* Everything rests on who refers to a block's object. A part does
from the map to the end of its reading (`PartsHold`), a write until it ends
(`WritersHold`), and references are only passed on, dropped, or made by an insertion
(`StepKinds`). An eviction takes an object nobody else refers to, so
no object outlives its place in the map (`OnlyInMap`), there is one per key
(`OneEach`), and a Drop removes no other object's file; a filled cell therefore has
its file (`ReadyOnDisk`), which gives `FileIsThere`. Files belong to living objects
(`FilesLive`), and those are at most as many as the cache may hold, one fewer while
an eviction keeps the mutex over its await (`Capacity`). Free permits, downloads
and writes are `PARALLEL` together (`Permits`): with the two `DiskIsBounded`.
`OthersPin` needs the width of a read: parts start in order (`InOrder`), are handed on
in order, and no more than `AtOnce` are between (`Window`); the part that is refused
is one of those, so the others pin too few blocks to fill the cache. The bytes in
memory (`hot`) are left out of the invariant: nothing else depends on them.

For `KeepsBlocks` a part is a reading from the map to the end of its use of the file,
and a writer a writing; a block is kept as long as an object of its key is alive, in
the map or not. An insertion finds room (`RoomToAdd`, from `Capacity`), also where the
eviction and the insertion have an await between them. Every other step passes references on, and
what it settles are the files of the blocks that go (`SettledFiles`), which nobody uses
(`FreedIsUnused`). That a reading is told of a complete file is `ReadyOnDisk` again.

*Media delivery.* `LoadsInv` says how far a source has come in each phase
(`Progress`); that no request is more than `BUFFERED` ahead needs that the window
`Min({...})` is one of its two bounds (`LeastExists`). For the mux, `MuxIsWhole` speaks of
the end only. While it runs, what has gone out is behind and due (`SentInv`), what is
behind and due has gone out (`PassedInv`), and nothing that is next is earlier than what
has gone out (`FrontierInv`), which keeps the order of times. A seek keeps
`PassedInv`: the first segment at or after the start is the least of its kind, so every
fragment before it begins no later than an earlier segment, which begins before the
start (`SeekPassesNothing`; the index counts in one time scale and the fragments in
another, `BeforeInBothScales`). Times of the two tracks are compared by their products with
the other's time scale (`Weights`). A source that is not whole is passed on as it is, and the
invariant says nothing of it; one that only lacks an index is read from its beginning, and
what lies before the start is left out fragment by fragment.

`LengthIsHonest` is a matter of sums. A length is announced from the start only, and with
both indexes; nothing is skipped then, so what has been
passed of a source is the sum of its first segments; while the sources have no padding, what
has gone out is the sum of what was passed of both (`LengthInv`, `BytesInv`), and at the
end that is what was announced. That the sum of a function over a finite set exists, is
unfolded by any of its elements, splits and grows (`SumUnfolds`, `SumWith`, `SumSplits`,
`SumGrows`) is proved from the definition of the fold by a least counterexample
(`MinimalSet`), not by an induction theorem.

*The prepared file.* `FileInv`: a file that is prepared is the one `finish` makes of all
fragments in the order of the index, in whatever order their heads arrived, each of them valid, and it stays. So the
properties are about `finish`. Its order takes every sample once (`OrderTakesAll`):
the n-th is the one with n - 1 before it, and exact fractions are a total order, also
across time scales (`FractionsAreOrdered`). A sample's offset is the sum of the
sizes before it, so each sample begins where the one before it ends (`OffsetsAddUp`).
The header is written before the offsets are known; that they point to the samples
all the same needs that its size does not depend on them (`HeaderKeepsItsSize`), and hence how many
entries a table has: `run_table` is unfolded step by step (`RunTableUnfolds`), again by a
least counterexample. For the warm-up, the keyframes are listed in rising order
(`KeyframesInOrder`), so those in time are the first ones, and the search ends at the
last of these.

`HeaderTellsTheTruth` is about reading the tables back. While a run-length table is
written it stands for the values so far: there are ends of its runs that count up, and each
value is that of the run it falls into (`StandsFor`, kept by every value,
`StandsForOneMore`); such a table is read back value by value (`ReadsBack`). The sum of the
durations before a sample is its time, as time goes on from sample to sample
(`TimesAddUp`), and a duration that is rounded up is not shorter than the track.

`OnlyBrokenFilesAreRefused` needs `RefusalInv`: whatever the order of arrival, a source is
refused for something that reading it from front to back finds as well (`RefusedWell`): a head
that is missing, a header or index that is not valid, a fragment that does not fit the ones before it. In the other
direction two sound sources have all their heads, their fragments are valid one after the
other and their samples lie in the sources, so that `finish` succeeds.

`AnswersAreExact` joins three arguments. What a request asks for is an interval of the
file or nothing, and never outside of it, so that `read_plan` does not fail (`AskedIs`, `RequestIsAnswered`, from `ResolveRangeIsExact`). The parts
that `read_plan` names spell that interval (`PlanSpells`): the extents that are touched are
the ones between two counts (`TouchedIs`), cutting them at the ends of the range gives
neighbouring pieces (`PiecesAreCut`), and joining two parts that follow one another in a source, or splitting
one into blocks, leaves the bytes as they are (`JoinedSpells`, `SplitSpells`). And the
bytes of an extent are those the tables of the header find there (`TablesFindBytes`): the
places of two samples do not overlap, so only one can hold a byte. Which sequence a
flattened sequence is follows from a chain of its beginnings (`ConcatsExist`,
`ConcatsAgree`), as the definition is recursive.

*HttpRange.* `resolve_range` has no state. The theorem compares it with the set
of bytes a header asks for, by cases over the kinds of header: nothing is refused
that has a byte in the file, and what is answered is exactly the set.

### Only model-checked

- All liveness (`FollowsRoom`, `ListIsSung`, `CallsReturn`, `OldEnginesEnd`,
  `EveryReadEnds`), which is out of the prover's reach.
- `DurationIsTrue`: it would take the decoded fragments' durations to be those of the index,
  which is most of what it says.
- In `SongCache` the length of `hot` (a part of its `TypeOK`).
- What decoding makes of a file: the fold `AddRun`, with a state of its own, and the filter
  `MoofBoxes` are computed on the sources of the run only. The theorems about the mux and the
  prepared file take what they need of them from `IsIndexed`, `IsListed` and `IsDecoded`.
  The library's induction theorems take an operator as a parameter, which the provers cannot
  instantiate; sums, `run_table`, `Joined` and flattened sequences are proved about by
  a least counterexample instead.
- The type invariants without a theorem of their own are part of the inductive invariants
  as far as these need them.

## Modelling assumptions

- The renderer's lag, and the answer to a query made during it, are shorter than
  the gate's window of 3 s, and the position stands still meanwhile
  (`WindowElapses`). A slower renderer defeats the window; the code cannot tell.
- A play command that was given up (a recast after 120 s) takes effect at that
  moment or never. The code has no way of taking a command back. In `Commands`
  likewise a request that ran into its timeout is carried out before that or
  never.
- Nobody but this client uses the renderer. What a paused TV does with a seek is
  left open: it may go on or stay paused.
- One quality switch at a time, and in `DlnaCaster` one player, which
  `playback_lock` guarantees. One task per trigger and one edit per caller.
- An index is read by the mux and by the loader of the prepared file, or by neither (a time
  scale of 0, a nested reference). The loader also refuses one that only the mux would
  read, with bytes after its last entry or without its SAP field; such an index is no input.
- actix's server ends with its future or with the runtime it runs on.
- Memory operations next to each other in one task, without an await and without
  a meaning of their own, are one action (`Activates`, `SeekBegins`); where the
  code looks first and acts later the two are separate actions (`ChecksDirect`
  and `StoresQuality`, `ResolveEnds`, `Commits` and `Checks`).
- The bytes of a block are what its source says: `fetch_range` accepts nothing but
  the exact range, and the files belong to this process alone.
- The constants that start with `Max` bound moves, edits, recasts, plays,
  switches, seeks, toggles, streams, sessions, starts, commands, changes and the
  blocks of a read, and `Objects` the blocks alive at a time; nothing else is
  bounded.

## Not modelled

- Device discovery (`ssdp_discovery.rs`), the link parsers, the construction of
  HTTP clients (`upstream.rs`): requests and string parsing without state that
  outlives the call.
- The loop of the command line (`main.rs`), conversions of arguments, logging.
- Bilibili's login, the session file and the list of TVs; SOAP's XML and time
  format.
- Encoding of MP4 boxes, the resolution of sample defaults, memory budgets, the
  duration probe (`mp4_util.rs`): the models start from boxes that are parsed.
- `If-None-Match` and the headers the plain proxy copies.
- `DlnaCaster::stop` (called by nobody) and the path without media sessions
  (constructed by tests only); lowering and setting the volume and storing
  Bilibili's quality, which take the same steps as raising it and as the danmaku
  switch.

`PROJECT.json` lists every part with its status, and under "hazards" also what
no property covers yet.

## Plan

1. *Done:* the playback core, the synchronisation with the part selection, the
   engine's life, the commands, the DLNA caster with the media sessions, the song
   cache, and the delivery of a song of two sources; the abstract specifications
   `SongEnd`, `SongFollower` and `BlockStore`; the proofs above.
2. *Left:* the parts listed above as not modelled; nothing of the components the
   modules describe.
