------------------------------ MODULE Playback ------------------------------
(***************************************************************************)
(* The core of the casting client (lib.rs with playlist_manager.rs): the   *)
(* sync task follows the room and has each new song played, a recast plays *)
(* the current song again, pollers read the device's progress and start    *)
(* the automatic next-song request, people switch songs by hand.  They     *)
(* share the progress gate, the list hash and the playback lock.           *)
(*                                                                         *)
(* A handler is cut at its awaits: what it does between two of them, or    *)
(* under one hold of the gate's mutex, is one action.                      *)
(***************************************************************************)
EXTENDS ProgressGate

CONSTANTS
    LENGTH,            \* the length of each song
    PROBED,            \* the length a renderer announces for a song of which
                       \* it has seen only the first fragment
    Pollers,           \* concurrent callers of read_progress
    Driving,           \* those that drive the trigger, poll_playback_progress;
                       \* the others only read, get_current_progress
    Prefilled,         \* the songs whose length prepare_duration can find
    MaxRecasts,        \* bound: recasts
    PlayMayFail,       \* the device may refuse a play command
    RecastMayTimeOut,  \* a recast may take longer than its 120 s
    AllowSeek          \* people may seek (jump_to_secs)

ASSUME PlaybackAssumption ==
    /\ LENGTH \in [Songs -> Nat \ {0}]
    /\ PROBED \in Nat \ {0}
    /\ Driving \subseteq Pollers
    /\ Prefilled \subseteq Songs
    /\ MaxRecasts \in Nat
    /\ {PlayMayFail, RecastMayTimeOut, AllowSeek} \subseteq BOOLEAN

VARIABLES
    hash,       \* the list hash of the last fetch (song_playing is song)
    reply,      \* the songListInfo answer the sync task is about to apply
    cached,     \* song_playing_cached: the last song handed to the callback
    durations,  \* the songs in duration_cache
    lock,       \* playback_lock: "free" or who holds it
    run,        \* where the sync task and the recast stand
    recasts,    \* recasts so far
    poll,       \* where each poller stands
    media,      \* the song the device was last told to play
    pos,        \* the position it reports
    heard,      \* the song this is a position of
    lag         \* it still reports the position of what it played before

clientVars == <<hash, reply, cached, durations, lock, run, recasts>>
deviceVars == <<media, pos, heard, lag>>
vars == <<roomVars, autoNextVars, gateVars, clientVars, poll, deviceVars>>

Actors == {"sync", "recast"}
Holding == {"prepare", "check", "casting", "loaded"}
Idle == [pc |-> "idle", song |-> NoSong, token |-> 0]
NoPoll == [pc |-> "idle", rev |-> 0, hash |-> NoHash, known |-> NoSong,
           current |-> -1, total |-> -1, of |-> NoSong, stale |-> FALSE]

-----------------------------------------------------------------------------

Init ==
    /\ RoomInit
    /\ AutoNextInit
    /\ GateInit
    /\ hash = NoHash
    /\ reply = NoHash
    /\ cached = NoSong
    /\ durations = {}
    /\ lock = "free"
    /\ run = [a \in Actors |-> Idle]
    /\ recasts = 0
    /\ poll = [p \in Pollers |-> NoPoll]
    /\ media = NoSong
    /\ pos \in 0 .. (IF HARDWARE THEN PROBED ELSE 0)
                             \* the renderer may be showing something else
    /\ heard = NoSong
    /\ lag = FALSE

Goes(a, pc) == run' = [run EXCEPT ![a].pc = pc]

\* Faulty: one way out keeps the lock.
FinishesHoldingLock(a) ==
    /\ run' = [run EXCEPT ![a] = Idle]
    /\ cached' = IF a = "sync" THEN run[a].song ELSE cached
    /\ UNCHANGED lock

\* Leaving the callback or the recast releases the lock.  The sync loop takes
\* the song for handled, whatever came of playing it.
Finishes(a) ==
    /\ run' = [run EXCEPT ![a] = Idle]
    /\ lock' = "free"
    /\ cached' = IF a = "sync" THEN run[a].song ELSE cached

-----------------------------------------------------------------------------
(* The sync task: sync_playlist and the callback connect_room gives it.    *)

\* The room answers songListInfo.  A heartbeat, an UPDATE frame or a new
\* connection has started the fetch; a fetch that fails changes nothing.
SyncFetches ==
    /\ run["sync"].pc = "idle"
    /\ reply' = room
    /\ Goes("sync", "reply")
    /\ UNCHANGED <<roomVars, autoNextVars, gateVars, hash, cached, durations,
                   lock, recasts, poll, deviceVars>>

\* fetch_playlist publishes song and hash under the gate's mutex; then the
\* callback is called for a song other than the last one handled.
SyncApplies ==
    LET new == IF reply = hash THEN song ELSE Singing(reply)
    IN  /\ run["sync"].pc = "reply"
        /\ update_song(new)
        /\ hash' = reply
        /\ IF new \in {NoSong, cached}
           THEN /\ cached' = new
                /\ run' = [run EXCEPT !["sync"] = Idle]
           ELSE /\ cached' = cached
                /\ run' = [run EXCEPT !["sync"] =
                              [pc |-> "lock", song |-> new, token |-> 0]]
        /\ reply' = NoHash
        /\ UNCHANGED <<roomVars, autoNextVars, durations, lock, recasts, poll,
                       deviceVars>>

\* The callback waits for the lock, then takes a token for its song.
SyncLocks ==
    /\ run["sync"].pc = "lock"
    /\ lock = "free"
    /\ IF song = run["sync"].song
       THEN /\ run' = [run EXCEPT !["sync"].pc = "prepare",
                                  !["sync"].token = revision]
            /\ lock' = "sync"
            /\ UNCHANGED cached
       ELSE Finishes("sync")
    /\ UNCHANGED <<roomVars, autoNextVars, gateVars, hash, reply, durations,
                   recasts, poll, deviceVars>>

-----------------------------------------------------------------------------
(* recast_with_caster.                                                     *)

\* Faulty: a recast goes ahead beside another play command.
RecastBarges ==
    /\ run["recast"].pc = "idle"
    /\ recasts < MaxRecasts
    /\ begin_recast
    /\ lock' = "recast"
    /\ run' = [run EXCEPT !["recast"] =
                  [pc |-> "prepare", song |-> song, token |-> revision + 1]]
    /\ recasts' = recasts + 1
    /\ UNCHANGED <<room, moves, earned, hash, reply, cached, durations, poll,
                   deviceVars>>

\* try_lock: a recast never waits.
RecastStarts ==
    /\ run["recast"].pc = "idle"
    /\ lock = "free"
    /\ recasts < MaxRecasts
    /\ begin_recast
    /\ lock' = "recast"
    /\ run' = [run EXCEPT !["recast"] =
                  [pc |-> "prepare", song |-> song, token |-> revision + 1]]
    /\ recasts' = recasts + 1
    /\ UNCHANGED <<room, moves, earned, hash, reply, cached, durations, poll,
                   deviceVars>>

\* The 120 s are over: the rest of the recast is dropped at its await.
RecastTimesOut ==
    /\ RecastMayTimeOut
    /\ run["recast"].pc \in {"prepare", "casting", "loaded"}
    /\ Finishes("recast")
    /\ UNCHANGED <<roomVars, autoNextVars, gateVars, hash, reply, durations,
                   recasts, poll, deviceVars>>

-----------------------------------------------------------------------------
(* prepare_duration and play_and_confirm, by whoever holds the lock.       *)

Prepares(a) ==
    /\ run[a].pc = "prepare"
    /\ durations' = durations \cup ({run[a].song} \cap Prefilled)
    /\ Goes(a, "check")
    /\ UNCHANGED <<roomVars, autoNextVars, gateVars, hash, reply, cached, lock,
                   recasts, poll, deviceVars>>

ChecksToken(a) ==
    /\ run[a].pc = "check"
    /\ IF run[a].token = revision
       THEN Goes(a, "casting") /\ UNCHANGED <<lock, cached>>
       ELSE Finishes(a)
    /\ UNCHANGED <<roomVars, autoNextVars, gateVars, hash, reply, durations,
                   recasts, poll, deviceVars>>

\* The device takes the song.  A renderer may go on reporting the position of
\* the old one for a while; a simulated clock is not restarted yet.
DeviceLoads(a) ==
    /\ run[a].pc = "casting"
    /\ media' = run[a].song
    /\ \/ HARDWARE /\ lag' = FALSE /\ pos' = 0 /\ heard' = run[a].song
       \/ lag' = HARDWARE /\ UNCHANGED <<pos, heard>>
    /\ Goes(a, "loaded")
    /\ UNCHANGED <<roomVars, autoNextVars, gateVars, hash, reply, cached,
                   durations, lock, recasts, poll>>

\* play_song returns Ok, having started the simulated clock if there is one.
PlaySucceeds(a) ==
    /\ run[a].pc = "loaded"
    /\ play_succeeded(run[a].token)
    /\ IF HARDWARE THEN UNCHANGED <<pos, heard>>
                   ELSE pos' = 0 /\ heard' = run[a].song
    /\ Finishes(a)
    /\ UNCHANGED <<room, moves, earned, hash, reply, durations, recasts, poll,
                   media, lag>>

\* play_song returns Err, before the device has changed anything, after it was
\* stopped, or after it has taken the song.
PlayFails(a) ==
    /\ PlayMayFail
    /\ run[a].pc \in {"casting", "loaded"}
    /\ \/ UNCHANGED deviceVars
       \/ /\ HARDWARE
          /\ run[a].pc = "casting"
          /\ media' = NoSong /\ heard' = NoSong /\ pos' = 0 /\ lag' = FALSE
    /\ Finishes(a)
    /\ UNCHANGED <<roomVars, autoNextVars, gateVars, hash, reply, durations,
                   recasts, poll>>

-----------------------------------------------------------------------------
(* read_progress.                                                          *)

\* Revision, hash and cached length are read under one hold of the gate.
PollAsks(p) ==
    /\ poll[p].pc = "idle"
    /\ poll' = [poll EXCEPT ![p] =
                   [NoPoll EXCEPT !.pc = "asked", !.rev = revision,
                                  !.hash = hash,
                                  !.known = IF song \in durations
                                            THEN song ELSE NoSong]]
    /\ UNCHANGED <<roomVars, autoNextVars, gateVars, clientVars, deviceVars>>

\* The lengths the device may announce.  The simulated clock knows the length
\* of the song it was started for.
Announced ==
    IF HARDWARE
    THEN {PROBED} \cup {LENGTH[s] : s \in {media, heard} \ {NoSong}}
    ELSE IF heard = NoSong THEN {0} ELSE {LENGTH[heard]}

\* The device reports its position and a length; a cached length wins.
PollSamples(p) ==
    /\ poll[p].pc = "asked"
    /\ \E total \in IF poll[p].known # NoSong THEN {LENGTH[poll[p].known]}
                                           ELSE Announced :
          poll' = [poll EXCEPT ![p].pc = "answered",
                               ![p].current = pos,
                               ![p].total = total,
                               ![p].of = heard,
                               ![p].stale = lag]
    /\ UNCHANGED <<roomVars, autoNextVars, gateVars, clientVars, deviceVars>>

\* A renderer's get_progress returns Err: the sample is (-1, -1).
PollErrs(p) ==
    /\ HARDWARE
    /\ poll[p].pc = "asked"
    /\ poll' = [poll EXCEPT ![p].pc = "answered"]
    /\ UNCHANGED <<roomVars, autoNextVars, gateVars, clientVars, deviceVars>>

TriggersOn(p) ==
    LET shown == Shown(poll[p].rev, poll[p].current, poll[p].total)
    IN  ~fired /\ AtEnd(shown[1], shown[2])

\* The gate filters the sample and the trigger consumes it, under one hold of
\* the gate.  Only poll_playback_progress drives the trigger.
PollDelivers(p) ==
    /\ poll[p].pc = "answered"
    /\ filter(poll[p].rev, poll[p].current, poll[p].total)
    /\ IF p \in Driving /\ TriggersOn(p)
       THEN fired' = TRUE /\ start_request(poll[p].hash)
       ELSE UNCHANGED autoNextVars
    /\ poll' = [poll EXCEPT ![p] = NoPoll]
    /\ UNCHANGED <<roomVars, clientVars, deviceVars>>

-----------------------------------------------------------------------------
(* People, the device and the clock.                                       *)

\* trigger_next_song, trigger_prev_song: one request with the current hash.
TriggerSwitch(dir) ==
    /\ moves < MaxMoves
    /\ moves' = moves + 1
    /\ requests' = requests \cup {[dir |-> dir, hash |-> hash, auto |-> FALSE]}
    /\ UNCHANGED <<room, autoNextVars, gateVars, clientVars, poll, deviceVars>>

\* jump_to_secs.
Seeks ==
    /\ AllowSeek
    /\ heard # NoSong /\ ~lag
    /\ pos' \in 0 .. LENGTH[heard]
    /\ UNCHANGED <<roomVars, autoNextVars, gateVars, clientVars, poll, media, heard, lag>>

DeviceAdvances ==
    /\ heard # NoSong /\ ~lag
    /\ pos < LENGTH[heard]
    /\ pos' = pos + 1
    /\ UNCHANGED <<roomVars, autoNextVars, gateVars, clientVars, poll, media, heard, lag>>

DeviceCatchesUp ==
    /\ lag
    /\ lag' = FALSE /\ pos' = 0 /\ heard' = media
    /\ UNCHANGED <<roomVars, autoNextVars, gateVars, clientVars, poll, media>>

\* The window (OLD_PROGRESS_WINDOW, 3 s) is there to outlast the renderer's
\* lag.  It is assumed to: neither the lag nor the answer to a query made
\* during the lag takes longer than the window.
WindowElapses ==
    /\ phase = "Protecting"
    /\ ~lag
    /\ \A p \in Pollers :
          poll[p].pc = "answered" /\ poll[p].rev = revision => ~poll[p].stale
    /\ phase' = "Elapsed"
    /\ UNCHANGED <<roomVars, autoNextVars, song, last_current, baseline,
                   revision, clientVars, poll, deviceVars>>

-----------------------------------------------------------------------------

RoomSteps ==
    /\ \/ \E dir \in Directions : OtherClientMoves(dir)
       \/ QueueIsEdited
    /\ UNCHANGED <<autoNextVars, gateVars, clientVars, poll, deviceVars>>

RequestSteps ==
    /\ \/ RetryIsAnswered
       \/ RetryIsUnanswered
       \/ RetryWakes
       \/ \E req \in requests : RequestIsServed(req)
    /\ UNCHANGED <<gateVars, clientVars, poll, deviceVars>>

ActorSteps(a) ==
    Prepares(a) \/ ChecksToken(a) \/ DeviceLoads(a) \/ PlaySucceeds(a) \/ PlayFails(a)

PollerSteps(p) ==
    PollAsks(p) \/ PollSamples(p) \/ PollErrs(p) \/ PollDelivers(p)

Next ==
    \/ SyncFetches \/ SyncApplies \/ SyncLocks
    \/ RecastStarts \/ RecastTimesOut
    \/ \E a \in Actors : ActorSteps(a)
    \/ \E p \in Pollers : PollerSteps(p)
    \/ \E dir \in Directions : TriggerSwitch(dir)
    \/ Seeks \/ DeviceAdvances \/ DeviceCatchesUp \/ WindowElapses
    \/ RoomSteps \/ RequestSteps

Spec == Init /\ [][Next]_vars

-----------------------------------------------------------------------------
(* Type.                                                                   *)

Runs == [pc : {"idle", "reply", "lock"} \cup Holding, song : SongOrNone, token : Nat]

Polls == [pc : {"idle", "asked", "answered"}, rev : Nat, hash : KnownHashes,
          known : SongOrNone, current : Nat \cup {-1},
          total : Nat \cup {-1}, of : SongOrNone,
          stale : BOOLEAN]

\* The values each variable ranges over.
TypeOK ==
    /\ RoomTypeOK /\ AutoNextTypeOK /\ GateTypeOK
    /\ hash \in KnownHashes /\ reply \in KnownHashes
    /\ cached \in SongOrNone
    /\ durations \subseteq Songs
    /\ lock \in Actors \cup {"free"}
    /\ run \in [Actors -> Runs]
    /\ recasts \in 0 .. MaxRecasts
    /\ poll \in [Pollers -> Polls]
    /\ media \in SongOrNone /\ heard \in SongOrNone
    /\ pos \in Nat /\ lag \in BOOLEAN

-----------------------------------------------------------------------------
(* Safety.                                                                 *)

\* While the gate trusts the device (it shows progress and may switch songs),
\* the device plays the song of the room, or nothing after a failed play: no
\* slower play command, of a recast or of the callback, has put another song
\* on it since (playback_lock, the tokens of play_and_confirm).
TrustedSongIsOnDevice ==
    phase # "AwaitingCommand" /\ song # NoSong => media \in {song, NoSong}

\* A retry task is alive only while the trigger is used up: so a second one is
\* never started beside it, and none survives the play command that rearms the
\* trigger (reset_for_playback, start_request overwriting the handle).
OneLiveRetry == ~fired => retry.pc = "none"

\* Each use of the trigger moves the room at most one song on, whatever
\* answers are lost and however often the request is repeated: the retries
\* carry the hash of the first request (retry_next_song).
OneMovePerTrigger == earned >= 0

\* The trigger is used only on a sample of the song the gate shows, never on
\* one of the song before, and the request names a list in which this song is
\* sung; when prepare_duration knows the song's length the sample is at the
\* real end (read_progress, and the order of prepare_duration and play_song).
AutoNextIsEarned ==
    [][\A p \in Pollers :
          fired' /\ ~fired /\ poll[p].pc = "answered" /\ poll'[p].pc = "idle" =>
              /\ poll[p].of = song
              /\ Singing(poll[p].hash) = song
              /\ song \in Prefilled => AtEnd(poll[p].current, LENGTH[song])]_vars

\* Progress other than zero is shown only if it is progress of the song the
\* gate shows (filter and its rewind test).
ShownIsOfSong ==
    [][\A p \in Pollers :
          /\ poll[p].pc = "answered" /\ poll'[p].pc = "idle"
          /\ Shown(poll[p].rev, poll[p].current, poll[p].total)[1] > 0
          => poll[p].of = song]_vars

-----------------------------------------------------------------------------
(* The inductive invariant behind them.                                    *)

\* playback_lock is held exactly by the one that is between taking it and
\* releasing it.
LockIsHeld == \A a \in Actors : run[a].pc \in Holding <=> lock = a

\* The sync task is serial: nobody changes the gate's song under its callback.
SyncIsOnSong == run["sync"].pc \in {"lock"} \cup Holding => run["sync"].song = song

\* A recast of a song the room has left runs while the gate trusts nothing.
RecastIsMasked ==
    /\ run["recast"].pc \in {"idle"} \cup Holding
    /\ run["recast"].pc \in Holding /\ run["recast"].song # song
          => phase = "AwaitingCommand"

\* A token that is still current names the gate's song.
TokensNameSong ==
    \A a \in Actors : run[a].pc \in Holding =>
        /\ run[a].token =< revision
        /\ run[a].token = revision => run[a].song = song

\* What the lock's holder has put on the device stays there until it is done.
LoadedIsOnDevice == \A a \in Actors : run[a].pc = "loaded" => media = run[a].song

Coordination ==
    /\ LockIsHeld
    /\ SyncIsOnSong
    /\ RecastIsMasked
    /\ TokensNameSong
    /\ LoadedIsOnDevice
    /\ TrustedSongIsOnDevice

\* Who holds the lock, what the tokens name and what is on the device hang
\* together: the inductive invariant of the core.
PlaybackInv == TypeOK /\ Coordination

\* The hash of an automatic request, whoever still holds it.
AutoHashes ==
    {req.hash : req \in {q \in requests : q.auto}}
        \cup (IF retry.pc = "none" THEN {} ELSE {retry.hash})

\* While the list only moves forward, every hash in circulation is one of a
\* list of the past or the present.
HashesAreOld ==
    /\ hash.at =< room.at
    /\ reply.at =< room.at
    /\ retry.hash.at =< room.at
    /\ \A p \in Pollers : poll[p].hash.at =< room.at
    /\ \A req \in requests : req.hash.at =< room.at /\ req.dir = "next"

\* A request that can still move the list has a use of the trigger to pay for
\* the move.
MovesArePaid == (\E h \in AutoHashes : h.at = room.at) => earned >= 1

ForwardInv == HashesAreOld /\ MovesArePaid /\ OneMovePerTrigger

-----------------------------------------------------------------------------
(* The abstract specification this one implements, as long as nobody moves *)
(* the list back (Directions = {"next"}).                                  *)

Trusted == phase # "AwaitingCommand" /\ song # NoSong

Promise == INSTANCE SongEnd WITH trusted <- Trusted, armed <- ~fired, owed <- earned

\* Playback implements SongEnd: the trigger is rearmed only by a confirmed
\* playback, used only while its progress is trusted, and pays for every
\* automatic move of the room.
KeepsPromise == Promise!Spec

-----------------------------------------------------------------------------
(* Liveness.                                                               *)

\* The runtime keeps scheduling its tasks, the pollers keep polling, the
\* device keeps playing, and a request or a query that is repeated for ever
\* does not fail for ever.
Fairness ==
    /\ WF_vars(SyncFetches) /\ WF_vars(SyncApplies) /\ WF_vars(SyncLocks)
    /\ \A a \in Actors :
          /\ WF_vars(Prepares(a)) /\ WF_vars(ChecksToken(a))
          /\ WF_vars(DeviceLoads(a)) /\ WF_vars(PlaySucceeds(a))
    /\ \A p \in Pollers :
          /\ WF_vars(PollAsks(p)) /\ SF_vars(PollSamples(p)) /\ WF_vars(PollDelivers(p))
    /\ WF_vars(DeviceAdvances) /\ WF_vars(DeviceCatchesUp) /\ WF_vars(WindowElapses)
    /\ WF_vars(RetryWakes /\ UNCHANGED <<gateVars, clientVars, poll, deviceVars>>)
    /\ SF_vars(RetryIsAnswered /\ UNCHANGED <<gateVars, clientVars, poll, deviceVars>>)

FairSpec == Spec /\ Fairness

\* The gate's song is again and again the song of the room: no interleaving of
\* fetches, plays and recasts leaves the client on a song of the past.
FollowsRoom == []<>(song = Singing(room))

\* "检测歌曲播放结束后自动切换到下一首" (README): when a song ends the client
\* goes on to the next one, so that the whole list is sung in the end.
ListIsSung == <>(room.at = LastSong + 1)

=============================================================================
