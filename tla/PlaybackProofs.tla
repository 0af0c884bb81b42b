--------------------------- MODULE PlaybackProofs ---------------------------
(***************************************************************************)
(* Proofs about Playback, for every list of songs, every set of pollers    *)
(* and every bound.  The argument: PlaybackInv is inductive, and it        *)
(* contains the safety invariants; ForwardInv is inductive beside it when  *)
(* people only move the list forward; the two give the refinement of       *)
(* SongEnd, step by step.  SamplesInv is inductive beside PlaybackInv as   *)
(* long as nobody disturbs the renderer: it says whose progress a sample   *)
(* is.                                                                     *)
(***************************************************************************)
EXTENDS Playback, TLAPS

-----------------------------------------------------------------------------
(* The room.                                                               *)

\* A move keeps the list a list, whatever request asks for it.
LEMMA MovedIsList ==
    ASSUME NEW list \in Lists, NEW dir
    PROVE  Moved(list, dir) \in Lists
BY RoomAssumption DEF Moved, Lists

\* So does serving a request.
LEMMA ServedIsList ==
    ASSUME room \in Lists, NEW req
    PROVE  AfterRequest(req) \in Lists
BY MovedIsList DEF AfterRequest

\* Serving a request costs a use of the trigger or nothing.
LEMMA SpentIsBit ==
    ASSUME NEW req
    PROVE  Spent(req) \in {0, 1}
BY DEF Spent

\* The request of a task is a request.
LEMMA RetryRequest ==
    ASSUME NEW hash_ \in KnownHashes
    PROVE  NextRequest(hash_) \in Requests
BY DEF NextRequest, Requests

\* What a list or a hash is sung for is a song or none.
LEMMA SingingIsSong ==
    ASSUME NEW h
    PROVE  Singing(h) \in SongOrNone
BY DEF Singing, SongOrNone

-----------------------------------------------------------------------------
(* Type correctness.                                                       *)

\* The program starts with every variable in its type.
LEMMA TypeInit == Init => TypeOK
<1> SUFFICES ASSUME Init PROVE TypeOK
    OBVIOUS
<1> USE RoomAssumption, AutoNextAssumption, ProgressGateAssumption, PlaybackAssumption
<1>1. RoomTypeOK
    BY DEF Init, RoomInit, RoomTypeOK, Lists
<1>2. AutoNextTypeOK
    <2>1. fired \in BOOLEAN
        BY DEF Init, AutoNextInit
    <2>2. retry \in [pc : {"none", "sending", "sleeping"}, hash : KnownHashes]
        BY DEF Init, AutoNextInit, NoRetry, KnownHashes
    <2>3. earned \in Int
        BY DEF Init, AutoNextInit
    <2> QED
        BY <2>1, <2>2, <2>3 DEF AutoNextTypeOK
<1>3. GateTypeOK
    BY DEF Init, GateInit, GateTypeOK, SongOrNone, Unknown, Phases
<1>4. /\ hash \in KnownHashes /\ reply \in KnownHashes
      /\ cached \in SongOrNone /\ durations \subseteq Songs
      /\ lock \in Actors \cup {"free"}
      /\ recasts \in 0 .. MaxRecasts
      /\ media \in SongOrNone /\ heard \in SongOrNone
    BY DEF Init, KnownHashes, SongOrNone
<1>7. lag \in BOOLEAN
    BY DEF Init
<1>8. pos \in Nat
    BY DEF Init
<1>5. run \in [Actors -> Runs]
    BY DEF Init, Idle, Runs, SongOrNone
<1>6. poll \in [Pollers -> Polls]
    BY DEF Init, NoPoll, Polls, SongOrNone, KnownHashes
<1> QED
    BY <1>1, <1>2, <1>3, <1>4, <1>5, <1>6, <1>7, <1>8 DEF TypeOK

\* The answer of the device makes a poll a poll again.
LEMMA SampleIsPoll ==
    ASSUME TypeOK, NEW p \in Pollers, NEW total \in Nat
    PROVE  [poll[p] EXCEPT !.pc = "answered", !.current = pos, !.total = total,
                           !.of = heard, !.stale = lag] \in Polls
<1>1. CASE lag = TRUE
    BY <1>1 DEF TypeOK, Polls
<1>2. CASE lag = FALSE
    BY <1>2 DEF TypeOK, Polls
<1> QED
    BY <1>1, <1>2 DEF TypeOK

\* Every step keeps every variable in its type.
LEMMA TypeStep == TypeOK /\ [Next]_vars => TypeOK'
<1> SUFFICES ASSUME TypeOK, [Next]_vars PROVE TypeOK'
    OBVIOUS
<1> USE RoomAssumption, AutoNextAssumption, ProgressGateAssumption, PlaybackAssumption
<1> USE DEF TypeOK, RoomTypeOK, AutoNextTypeOK, GateTypeOK, roomVars,
            autoNextVars, gateVars, clientVars, deviceVars
<1>1. CASE SyncFetches
    BY <1>1 DEF SyncFetches, Goes, Runs, Holding, Actors, KnownHashes, Hashes
<1>2. CASE SyncApplies
    BY <1>2 DEF SyncApplies, update_song, StartsAwaiting, Idle, Runs, Holding,
       Actors, SongOrNone, Singing, KnownHashes, Phases
<1>3. CASE SyncLocks
    BY <1>3 DEF SyncLocks, Finishes, Idle, Runs, Holding, Actors, SongOrNone
<1>4. CASE RecastStarts
    <2>1. run' \in [Actors -> Runs]
        BY <1>4 DEF RecastStarts, begin_recast, Runs, Holding, Actors
    <2>2. GateTypeOK'
        BY <1>4 DEF RecastStarts, begin_recast, StartsAwaiting, Phases
    <2>3. retry' \in [pc : {"none", "sending", "sleeping"}, hash : KnownHashes]
        BY <1>4 DEF RecastStarts, begin_recast, cancel_pending_request, NoRetry,
           KnownHashes
    <2>4. requests' \subseteq Requests
        BY <1>4, RetryRequest DEF RecastStarts, begin_recast, cancel_pending_request
    <2>5. lock' \in Actors \cup {"free"} /\ recasts' \in 0 .. MaxRecasts
        BY <1>4 DEF RecastStarts, Actors
    <2> QED
        BY <1>4, <2>1, <2>2, <2>3, <2>4, <2>5 DEF RecastStarts, begin_recast
<1>5. CASE RecastTimesOut
    BY <1>5 DEF RecastTimesOut, Finishes, Idle, Runs, Holding, Actors, SongOrNone
<1>6. ASSUME NEW a \in Actors, Prepares(a) PROVE TypeOK'
    BY <1>6 DEF Prepares, Goes, Runs, Holding, Actors, SongOrNone
<1>7. ASSUME NEW a \in Actors, ChecksToken(a) PROVE TypeOK'
    <2>1. run' \in [Actors -> Runs]
        BY <1>7 DEF Runs, Holding, SongOrNone, ChecksToken, Goes, Finishes, Idle
    <2>2. lock' \in Actors \cup {"free"} /\ cached' \in SongOrNone
        BY <1>7 DEF Runs, ChecksToken, Finishes, Actors
    <2> QED
        BY <1>7, <2>1, <2>2 DEF ChecksToken
<1>8. ASSUME NEW a \in Actors, DeviceLoads(a) PROVE TypeOK'
    <2>1. run' \in [Actors -> Runs]
        BY <1>8 DEF Runs, Holding, SongOrNone, DeviceLoads, Goes
    <2>2. media' \in SongOrNone /\ heard' \in SongOrNone
        BY <1>8 DEF Runs, DeviceLoads
    <2>3. pos' \in Nat
        BY <1>8 DEF DeviceLoads
    <2>4. lag' \in BOOLEAN
        BY <1>8 DEF DeviceLoads
    <2> QED
        BY <1>8, <2>1, <2>2, <2>3, <2>4 DEF DeviceLoads
<1>9. ASSUME NEW a \in Actors, PlaySucceeds(a) PROVE TypeOK'
    <2>1. run' \in [Actors -> Runs]
        BY <1>9 DEF Runs, Holding, SongOrNone, PlaySucceeds, Finishes, Idle
    <2>2. lock' \in Actors \cup {"free"} /\ cached' \in SongOrNone
        BY <1>9 DEF Runs, PlaySucceeds, Finishes
    <2>3. GateTypeOK'
        BY <1>9 DEF PlaySucceeds, play_succeeded, Phases
    <2>4. retry' \in [pc : {"none", "sending", "sleeping"}, hash : KnownHashes]
        BY <1>9 DEF PlaySucceeds, play_succeeded, reset_for_playback,
           cancel_pending_request, NoRetry, KnownHashes
    <2>5. requests' \subseteq Requests
        BY <1>9, RetryRequest DEF PlaySucceeds, play_succeeded, reset_for_playback,
           cancel_pending_request
    <2>6. fired' \in BOOLEAN
        BY <1>9 DEF PlaySucceeds, play_succeeded, reset_for_playback
    <2>7. heard' \in SongOrNone /\ pos' \in Nat
        BY <1>9 DEF Runs, PlaySucceeds
    <2> QED
        BY <1>9, <2>1, <2>2, <2>3, <2>4, <2>5, <2>6, <2>7 DEF PlaySucceeds
<1>10. ASSUME NEW a \in Actors, PlayFails(a) PROVE TypeOK'
    <2>1. run' \in [Actors -> Runs]
        BY <1>10 DEF Runs, Holding, SongOrNone, PlayFails, Finishes, Idle
    <2>2. lock' \in Actors \cup {"free"} /\ cached' \in SongOrNone
        BY <1>10 DEF Runs, PlayFails, Finishes
    <2>3. media' \in SongOrNone /\ heard' \in SongOrNone /\ pos' \in Nat
        BY <1>10 DEF SongOrNone, PlayFails
    <2>4. lag' \in BOOLEAN
        BY <1>10 DEF PlayFails
    <2> QED
        BY <1>10, <2>1, <2>2, <2>3, <2>4 DEF PlayFails
<1>11. ASSUME NEW p \in Pollers, PollAsks(p) PROVE TypeOK'
    <2>1. poll' \in [Pollers -> Polls]
        BY <1>11 DEF PollAsks, NoPoll, Polls, SongOrNone
    <2> QED
        BY <1>11, <2>1 DEF PollAsks
<1>12. ASSUME NEW p \in Pollers, PollSamples(p) PROVE TypeOK'
    <2>1. Announced \subseteq Nat
        BY DEF Announced, SongOrNone
    <2>2. poll[p].known # NoSong => LENGTH[poll[p].known] \in Nat
        BY DEF Polls, SongOrNone
    <2>3. PICK total \in Nat :
             poll' = [poll EXCEPT ![p].pc = "answered", ![p].current = pos,
                                  ![p].total = total, ![p].of = heard,
                                  ![p].stale = lag]
        BY <1>12, <2>1, <2>2 DEF PollSamples
    <2> DEFINE new == [poll[p] EXCEPT !.pc = "answered", !.current = pos,
                              !.total = total, !.of = heard, !.stale = lag]
    <2>5. new \in Polls
        BY SampleIsPoll
    <2>6. poll' = [poll EXCEPT ![p] = new]
        BY <2>3
    <2> HIDE DEF new
    <2>7. poll' \in [Pollers -> Polls]
        BY <2>5, <2>6
    <2> QED
        BY <1>12, <2>7 DEF PollSamples
<1>13. ASSUME NEW p \in Pollers, PollErrs(p) PROVE TypeOK'
    BY <1>13 DEF PollErrs, Polls, SongOrNone, KnownHashes
<1>14. ASSUME NEW p \in Pollers, PollDelivers(p) PROVE TypeOK'
    <2>1. poll' \in [Pollers -> Polls]
        BY <1>14 DEF PollDelivers, NoPoll, Polls, SongOrNone, KnownHashes
    <2>2. GateTypeOK'
        BY <1>14 DEF PollDelivers, filter, Valid, Polls, Phases
    <2>3. retry' \in [pc : {"none", "sending", "sleeping"}, hash : KnownHashes]
        BY <1>14 DEF PollDelivers, start_request, Polls
    <2>4. fired' \in BOOLEAN
        BY <1>14 DEF PollDelivers
    <2>5. earned' \in Int
        BY <1>14 DEF PollDelivers, start_request
    <2> QED
        BY <1>14, <2>1, <2>2, <2>3, <2>4, <2>5 DEF PollDelivers
<1>15. ASSUME NEW dir \in Directions, TriggerSwitch(dir) PROVE TypeOK'
    <2> DEFINE req == [dir |-> dir, hash |-> hash, auto |-> FALSE]
    <2>1. req \in Requests
        BY DEF Requests
    <2>2. requests' = requests \cup {req} /\ moves' \in 0 .. MaxMoves
        BY <1>15 DEF TriggerSwitch
    <2> HIDE DEF req
    <2>3. requests' \subseteq Requests
        BY <2>1, <2>2
    <2> QED
        BY <1>15, <2>2, <2>3 DEF TriggerSwitch
<1>16. CASE Seeks
    BY <1>16 DEF Seeks, SongOrNone
<1>17. CASE DeviceAdvances
    BY <1>17 DEF DeviceAdvances, SongOrNone
<1>18. CASE DeviceCatchesUp
    BY <1>18 DEF DeviceCatchesUp, SongOrNone
<1>19. CASE WindowElapses
    BY <1>19 DEF WindowElapses, Phases
<1>20. CASE RoomSteps
    <2>1. room' \in Lists /\ requests' = requests /\ moves' \in 0 .. MaxMoves
        <3>1. CASE \E dir \in Directions : OtherClientMoves(dir)
            BY <3>1, MovedIsList DEF OtherClientMoves
        <3>2. CASE QueueIsEdited
            BY <3>2 DEF QueueIsEdited, Lists
        <3> QED
            BY <1>20, <3>1, <3>2 DEF RoomSteps
    <2> QED
        BY <1>20, <2>1 DEF RoomSteps
<1>21. CASE RequestSteps
    <2>1. room' \in Lists /\ earned' \in Int
        BY <1>21, ServedIsList, SpentIsBit DEF RequestSteps, RetryIsAnswered,
           RetryIsUnanswered, RetryWakes, RequestIsServed
    <2>2. requests' \subseteq Requests
        BY <1>21, RetryRequest DEF RequestSteps, RetryIsAnswered, RetryIsUnanswered,
           RetryWakes, RequestIsServed
    <2>3. retry' \in [pc : {"none", "sending", "sleeping"}, hash : KnownHashes]
        BY <1>21 DEF RequestSteps, RetryIsAnswered, RetryIsUnanswered, RetryWakes,
           RequestIsServed, NoRetry, KnownHashes
    <2> QED
        BY <1>21, <2>1, <2>2, <2>3 DEF RequestSteps, RetryIsAnswered,
           RetryIsUnanswered, RetryWakes, RequestIsServed
<1>22. CASE UNCHANGED vars
    BY <1>22 DEF vars
<1> QED
    BY <1>1, <1>2, <1>3, <1>4, <1>5, <1>6, <1>7, <1>8, <1>9, <1>10, <1>11, <1>12,
       <1>13, <1>14, <1>15, <1>16, <1>17, <1>18, <1>19, <1>20, <1>21, <1>22 DEF Next,
       ActorSteps, PollerSteps

\* The program satisfies its type invariant for every value of the constants.
THEOREM TypeCorrect == Spec => []TypeOK
BY TypeInit, TypeStep, PTL DEF Spec

-----------------------------------------------------------------------------
(* The lock, the tokens and the device.                                    *)

\* The program starts with a free lock and nobody trusted.
LEMMA CoordinationInit == Init => Coordination
BY DEF Init, GateInit, Idle, Actors, Holding, Coordination, LockIsHeld, SyncIsOnSong,
   RecastIsMasked, TokensNameSong, LoadedIsOnDevice, TrustedSongIsOnDevice

\* Nothing but these variables matters to it.
LEMMA CoordinationFrame ==
    ASSUME Coordination, UNCHANGED <<run, lock, revision, song, phase, media>>
    PROVE  Coordination'
BY DEF Coordination, LockIsHeld, SyncIsOnSong, RecastIsMasked, TokensNameSong,
   LoadedIsOnDevice, TrustedSongIsOnDevice

\* The steps of the room, of its requests, of people and of the device's clock,
\* and those of a poll up to its answer, leave all of them alone.
QuietStep ==
    \/ \E p \in Pollers : PollAsks(p) \/ PollSamples(p) \/ PollErrs(p)
    \/ \E dir \in Directions : TriggerSwitch(dir)
    \/ Seeks \/ DeviceAdvances \/ DeviceCatchesUp
    \/ RoomSteps \/ RequestSteps
    \/ UNCHANGED vars

\* So they cannot disturb Coordination.
LEMMA QuietSteps ==
    ASSUME QuietStep
    PROVE  UNCHANGED <<run, lock, revision, song, phase, media>>
<1> USE DEF gateVars, clientVars, deviceVars
<1>1. ASSUME NEW p \in Pollers, PollAsks(p) \/ PollSamples(p) \/ PollErrs(p)
      PROVE  UNCHANGED <<run, lock, revision, song, phase, media>>
    BY <1>1 DEF PollAsks, PollSamples, PollErrs
<1>2. ASSUME NEW dir \in Directions, TriggerSwitch(dir)
      PROVE  UNCHANGED <<run, lock, revision, song, phase, media>>
    BY <1>2 DEF TriggerSwitch
<1>3. CASE Seeks \/ DeviceAdvances \/ DeviceCatchesUp
    BY <1>3 DEF Seeks, DeviceAdvances, DeviceCatchesUp
<1>4. CASE RoomSteps \/ RequestSteps
    BY <1>4 DEF RoomSteps, RequestSteps
<1>5. CASE UNCHANGED vars
    BY <1>5 DEF vars
<1> QED
    BY <1>1, <1>2, <1>3, <1>4, <1>5 DEF QuietStep

\* Every other step keeps the lock, the tokens and the device in agreement.
LEMMA CoordinationStep ==
    ASSUME TypeOK, Coordination, [Next]_vars
    PROVE  Coordination'
<1> USE DEF Coordination, LockIsHeld, SyncIsOnSong, RecastIsMasked, TokensNameSong,
            LoadedIsOnDevice, TrustedSongIsOnDevice, TypeOK, GateTypeOK, Runs,
            Holding, Actors, gateVars, clientVars, deviceVars
<1>1. CASE SyncFetches
    BY <1>1 DEF SyncFetches, Goes
<1>2. CASE SyncApplies
    \* A new song ends all trust and outdates every token in circulation.
    <2>1. revision' >= revision
        BY <1>2 DEF SyncApplies, update_song, StartsAwaiting
    <2>2. song' # song => phase' = "AwaitingCommand" /\ revision' = revision + 1
        BY <1>2 DEF SyncApplies, update_song, StartsAwaiting
    <2>3. song' = song => UNCHANGED <<phase, revision>>
        BY <1>2 DEF SyncApplies, update_song
    <2>4. /\ run'["recast"] = run["recast"]
          /\ run'["sync"].pc \in {"idle", "lock"}
          /\ run'["sync"].pc = "lock" => run'["sync"].song = song'
        BY <1>2 DEF SyncApplies, update_song, Idle
    <2>5. UNCHANGED <<lock, media>>
        BY <1>2 DEF SyncApplies
    <2>6. run["sync"].pc = "reply"
        BY <1>2 DEF SyncApplies
    <2> QED
        BY <2>1, <2>2, <2>3, <2>4, <2>5, <2>6
<1>3. CASE SyncLocks
    BY <1>3 DEF SyncLocks, Finishes, Idle
<1>4. CASE RecastStarts
    BY <1>4 DEF RecastStarts, begin_recast, StartsAwaiting
<1>5. CASE RecastTimesOut
    BY <1>5 DEF RecastTimesOut, Finishes, Idle
<1>6. ASSUME NEW a \in Actors, Prepares(a) PROVE Coordination'
    BY <1>6 DEF Prepares, Goes
<1>7. ASSUME NEW a \in Actors, ChecksToken(a) PROVE Coordination'
    BY <1>7 DEF ChecksToken, Goes, Finishes, Idle
<1>8. ASSUME NEW a \in Actors, DeviceLoads(a) PROVE Coordination'
    \* Only the lock's holder puts a song on the device; if it is not the gate's
    \* song, the gate trusts nothing meanwhile.
    <2>1. run[a].pc \in Holding /\ media' = run[a].song
        BY <1>8 DEF DeviceLoads
    <2>2. lock = a /\ \A b \in Actors \ {a} : run[b].pc \notin Holding
        BY <2>1
    <2>3. phase # "AwaitingCommand" => run[a].song = song
        BY <2>1
    <2> QED
        BY <1>8, <2>1, <2>2, <2>3 DEF DeviceLoads, Goes
<1>9. ASSUME NEW a \in Actors, PlaySucceeds(a) PROVE Coordination'
    \* A confirmation counts only for a current token, whose song is the gate's
    \* and is still on the device.
    <2>1. lock = a /\ media = run[a].song
        BY <1>9 DEF PlaySucceeds
    <2>2. run[a].token = revision => media = song
        BY <1>9, <2>1 DEF PlaySucceeds
    <2>3. \/ run[a].token = revision /\ revision' = revision + 1
          \/ UNCHANGED <<phase, revision>>
        BY <1>9 DEF PlaySucceeds, play_succeeded, Confirms
    <2>4. UNCHANGED <<song, media>> /\ lock' = "free" /\ run' = [run EXCEPT ![a] = Idle]
        BY <1>9 DEF PlaySucceeds, play_succeeded, Finishes
    <2> QED
        BY <2>1, <2>2, <2>3, <2>4 DEF Idle
<1>10. ASSUME NEW a \in Actors, PlayFails(a) PROVE Coordination'
    BY <1>10 DEF PlayFails, Finishes, Idle
<1>11. ASSUME NEW p \in Pollers, PollDelivers(p) PROVE Coordination'
    BY <1>11 DEF PollDelivers, filter, Valid
<1>12. CASE WindowElapses
    BY <1>12 DEF WindowElapses
<1>13. CASE QuietStep
    BY <1>13, QuietSteps
<1> QED
    BY <1>1, <1>2, <1>3, <1>4, <1>5, <1>6, <1>7, <1>8, <1>9, <1>10, <1>11, <1>12, <1>13
    DEF Next, ActorSteps, PollerSteps, QuietStep

\* PlaybackInv is an invariant: who holds the lock, what tokens name and what is
\* on the device agree in every reachable state.
THEOREM PlaybackInvariant == Spec => []PlaybackInv
<1>1. Init => PlaybackInv
    BY TypeInit, CoordinationInit DEF PlaybackInv
<1>2. PlaybackInv /\ [Next]_vars => PlaybackInv'
    BY TypeStep, CoordinationStep DEF PlaybackInv
<1> QED
    BY <1>1, <1>2, PTL DEF Spec

\* While the gate trusts the device, the device plays the gate's song, or
\* nothing: no play command that lost a race has put another one on it.
THEOREM TrustIsJustified == Spec => []TrustedSongIsOnDevice
<1>1. PlaybackInv => TrustedSongIsOnDevice
    BY DEF PlaybackInv, Coordination
<1> QED
    BY <1>1, PlaybackInvariant, PTL

-----------------------------------------------------------------------------
(* The trigger and its task.                                               *)

\* The trigger is rearmed only where its task is aborted, and a task is started
\* only where the trigger is used up.
LEMMA RetryStep ==
    ASSUME TypeOK, OneLiveRetry, [Next]_vars
    PROVE  OneLiveRetry'
<1> USE DEF OneLiveRetry, autoNextVars
<1>1. CASE RecastStarts
    BY <1>1 DEF RecastStarts, begin_recast, cancel_pending_request, NoRetry
<1>2. ASSUME NEW a \in Actors, PlaySucceeds(a) PROVE OneLiveRetry'
    BY <1>2 DEF PlaySucceeds, play_succeeded, reset_for_playback,
                cancel_pending_request, NoRetry
<1>3. ASSUME NEW p \in Pollers, PollDelivers(p) PROVE OneLiveRetry'
    BY <1>3 DEF PollDelivers
<1>4. CASE RequestSteps
    BY <1>4 DEF RequestSteps, RetryIsAnswered, RetryIsUnanswered, RetryWakes,
                RequestIsServed, NoRetry, TypeOK, AutoNextTypeOK
<1>5. CASE UNCHANGED <<fired, retry>>
    BY <1>5
<1>6. CASE SyncFetches \/ SyncApplies \/ SyncLocks \/ RecastTimesOut
    BY <1>5, <1>6 DEF SyncFetches, SyncApplies, SyncLocks, RecastTimesOut
<1>7. ASSUME NEW a \in Actors,
Prepares(a) \/ ChecksToken(a) \/ DeviceLoads(a) \/ PlayFails(a)
      PROVE  OneLiveRetry'
    BY <1>5, <1>7 DEF Prepares, ChecksToken, DeviceLoads, PlayFails
<1>8. ASSUME NEW p \in Pollers, PollAsks(p) \/ PollSamples(p) \/ PollErrs(p)
      PROVE  OneLiveRetry'
    BY <1>5, <1>8 DEF PollAsks, PollSamples, PollErrs
<1>9. CASE \/ \E dir \in Directions : TriggerSwitch(dir)
           \/ Seeks \/ DeviceAdvances \/ DeviceCatchesUp \/ WindowElapses
    BY <1>5, <1>9 DEF TriggerSwitch, Seeks, DeviceAdvances, DeviceCatchesUp,
       WindowElapses
<1>10. CASE RoomSteps \/ UNCHANGED vars
    BY <1>5, <1>10 DEF RoomSteps, vars
<1> QED
    BY <1>1, <1>2, <1>3, <1>4, <1>6, <1>7, <1>8, <1>9, <1>10
    DEF Next, ActorSteps, PollerSteps

\* A second retry task is never started beside a live one, and none outlives the
\* play command that rearms the trigger.
THEOREM OneRetryTask == Spec => []OneLiveRetry
<1>1. Init => OneLiveRetry
    BY DEF Init, AutoNextInit, NoRetry, OneLiveRetry
<1> QED
    BY <1>1, TypeCorrect, RetryStep, PTL DEF Spec

-----------------------------------------------------------------------------
(* Automatic moves, when people only move the list forward.                *)

\* A request for the next song, served, moves the list one on or not at all, and
\* it moves only the list it names.
LEMMA ServedMovesOn ==
    ASSUME room \in Lists, NEW req, req.dir = "next"
    PROVE  \/ AfterRequest(req) = room
           \/ /\ AfterRequest(req).at = room.at + 1
              /\ req.hash = room
              /\ AfterRequest(req) # room
BY DEF AfterRequest, Accepts, Moved, Lists

\* What is known of the requests while the list moves on: one that is not paid
\* for names a list of the past.
LEMMA ForwardFrame ==
    ASSUME ForwardInv,
           UNCHANGED <<room, requests, hash, reply, retry, poll, earned>>
    PROVE  ForwardInv'
BY DEF ForwardInv, HashesAreOld, MovesArePaid, OneMovePerTrigger, AutoHashes

\* Neither does it matter that a request changes hands.
LEMMA CancelForward ==
    ASSUME TypeOK, ForwardInv, cancel_pending_request,
           UNCHANGED <<room, hash, reply, poll, earned>>
    PROVE  ForwardInv'
<1>1. requests' \subseteq requests \cup {NextRequest(retry.hash)}
    BY DEF cancel_pending_request
<1>2. retry' = NoRetry /\ NoRetry.pc = "none" /\ NoRetry.hash.at =< room.at
    BY DEF cancel_pending_request, NoRetry, NoHash, TypeOK, RoomTypeOK, Lists
<1>3. retry.pc # "sending" => requests' = requests
    BY DEF cancel_pending_request
<1>4. NextRequest(retry.hash).hash = retry.hash /\ NextRequest(retry.hash).dir = "next"
    BY DEF NextRequest
<1>5. AutoHashes' \subseteq AutoHashes
    BY <1>1, <1>2, <1>3, <1>4 DEF AutoHashes
<1>6. HashesAreOld'
    BY <1>1, <1>2, <1>4 DEF ForwardInv, HashesAreOld
<1> QED
    BY <1>5, <1>6 DEF ForwardInv, MovesArePaid, OneMovePerTrigger

\* The place a hash in circulation names is a number.
LEMMA HashPlace ==
    ASSUME NEW h \in KnownHashes
    PROVE  h.at \in Nat
BY RoomAssumption DEF KnownHashes, Hashes, Lists, NoHash

\* The room serves a request for the next song that is on its way: a move makes
\* every other request one for a list of the past.
LEMMA ServeForward ==
    ASSUME TypeOK, ForwardInv, NEW req \in Requests,
           req.dir = "next",
           req.auto => req.hash \in AutoHashes,
           room' = AfterRequest(req), earned' = earned - Spent(req),
           requests' \subseteq requests, retry' \in {retry, NoRetry},
           UNCHANGED <<hash, reply, poll>>
    PROVE  ForwardInv'
<1> USE DEF ForwardInv, HashesAreOld, MovesArePaid, OneMovePerTrigger
<1>1. room.at \in Nat /\ earned \in Int /\ room' \in Lists
    BY ServedIsList, RoomAssumption DEF TypeOK, RoomTypeOK, AutoNextTypeOK, Lists
<1>2. AutoHashes' \subseteq AutoHashes
    BY DEF AutoHashes, NoRetry
<1>3. retry'.hash.at =< room.at
    BY <1>1 DEF NoRetry, NoHash, TypeOK, RoomTypeOK, Lists
<1>4. CASE room' = room
    <2>1. earned' = earned
        BY <1>1, <1>4 DEF Spent
    <2> QED
        BY <1>2, <1>3, <1>4, <2>1
<1>5. CASE room' # room
    <2>1. room'.at = room.at + 1 /\ req.hash = room
        BY <1>5, ServedMovesOn DEF TypeOK, RoomTypeOK
    <2>2. HashesAreOld'
        <3>1. hash'.at =< room'.at /\ reply'.at =< room'.at
            BY <1>1, <2>1, HashPlace DEF TypeOK
        <3>2. retry'.hash.at =< room'.at
            <4>1. retry'.hash \in KnownHashes
                BY DEF TypeOK, AutoNextTypeOK, NoRetry, KnownHashes
            <4> QED
                BY <1>1, <1>3, <2>1, <4>1, HashPlace
        <3>3. \A p \in Pollers : poll'[p].hash.at =< room'.at
            BY <1>1, <2>1, HashPlace DEF TypeOK, Polls
        <3>4. \A q \in requests' : q.hash.at =< room'.at /\ q.dir = "next"
            BY <1>1, <2>1, HashPlace DEF TypeOK, RoomTypeOK, Requests
        <3> QED
            BY <3>1, <3>2, <3>3, <3>4
    <2>3. \A h \in AutoHashes : h.at =< room.at
        BY DEF AutoHashes
    <2>4. earned' >= 0
        <3>1. CASE req.auto
            <4>1. earned >= 1
                BY <2>1, <3>1
            <4> QED
                BY <1>1, <4>1, SpentIsBit
        <3>2. CASE ~req.auto
            BY <1>1, <3>2 DEF Spent
        <3> QED
            BY <3>1, <3>2
    <2> QED
        BY <1>1, <1>2, <2>1, <2>2, <2>3, <2>4
<1> QED
    BY <1>4, <1>5

\* The list moves on by itself: every request on its way may be outdated.
LEMMA RoomForward ==
    ASSUME TypeOK, ForwardInv, room' \in Lists, room'.at >= room.at,
           UNCHANGED <<requests, hash, reply, retry, poll, earned>>
    PROVE  ForwardInv'
<1> USE DEF ForwardInv, HashesAreOld, MovesArePaid, OneMovePerTrigger
<1>1. room.at \in Nat /\ room'.at \in Nat
    BY RoomAssumption DEF TypeOK, RoomTypeOK, Lists
<1>2. hash.at \in Nat /\ reply.at \in Nat /\ retry.hash.at \in Nat
    BY HashPlace DEF TypeOK, AutoNextTypeOK
<1>3. \A p \in Pollers : poll[p].hash.at \in Nat
    BY HashPlace DEF TypeOK, Polls
<1>4. \A req \in requests : req.hash.at \in Nat
    BY HashPlace DEF TypeOK, RoomTypeOK, Requests
<1>5. HashesAreOld'
    BY <1>1, <1>2, <1>3, <1>4
<1>6. \A h \in AutoHashes : h.at \in Nat /\ h.at =< room.at
    BY <1>2, <1>4 DEF AutoHashes
<1>7. AutoHashes' = AutoHashes
    BY DEF AutoHashes
<1> QED
    BY <1>1, <1>5, <1>6, <1>7

\* No request is on its way at the start.
LEMMA ForwardInit == Init => ForwardInv
BY RoomAssumption DEF Init, RoomInit, AutoNextInit, ForwardInv, HashesAreOld,
   MovesArePaid, OneMovePerTrigger, AutoHashes, NoRetry, NoHash, NoPoll

\* Every step keeps the requests paid for: only a use of the trigger adds one for
\* the present list, and only serving one moves the list and spends it.
LEMMA ForwardStep ==
    ASSUME Directions = {"next"}, TypeOK, ForwardInv, [Next]_vars
    PROVE  ForwardInv'
<1> USE DEF ForwardInv, HashesAreOld, MovesArePaid, OneMovePerTrigger,
            gateVars, autoNextVars, roomVars, clientVars, deviceVars
<1>1. CASE SyncFetches
    <2>1. reply' = room /\ UNCHANGED <<room, requests, hash, retry, poll, earned>>
        BY <1>1 DEF SyncFetches
    <2>2. room.at =< room.at
        BY RoomAssumption DEF TypeOK, RoomTypeOK, Lists
    <2> QED
        BY <2>1, <2>2 DEF AutoHashes
<1>2. CASE SyncApplies
    <2>1. /\ hash' = reply /\ reply' = NoHash
          /\ UNCHANGED <<room, requests, retry, poll, earned>>
        BY <1>2 DEF SyncApplies
    <2>2. NoHash.at =< room.at
        BY RoomAssumption DEF NoHash, TypeOK, RoomTypeOK, Lists
    <2> QED
        BY <2>1, <2>2 DEF AutoHashes
<1>3. CASE RecastStarts
    <2>1. cancel_pending_request /\ UNCHANGED <<room, hash, reply, poll, earned>>
        BY <1>3 DEF RecastStarts, begin_recast
    <2> QED
        BY <2>1, CancelForward
<1>4. ASSUME NEW a \in Actors, PlaySucceeds(a) PROVE ForwardInv'
    <2>1. CASE cancel_pending_request
        BY <1>4, <2>1, CancelForward DEF PlaySucceeds
    <2>2. CASE UNCHANGED <<retry, requests>>
        BY <1>4, <2>2, ForwardFrame DEF PlaySucceeds
    <2> QED
        BY <1>4, <2>1, <2>2 DEF PlaySucceeds, play_succeeded, reset_for_playback
<1>5. ASSUME NEW p \in Pollers, PollAsks(p) \/ PollSamples(p) \/ PollErrs(p)
      PROVE  ForwardInv'
    <2>1. \A q \in Pollers : poll'[q].hash \in {poll[q].hash, hash}
        <3>1. CASE PollAsks(p)
            BY <3>1 DEF PollAsks, NoPoll, TypeOK, Polls
        <3>2. CASE PollSamples(p)
            BY <3>2 DEF PollSamples, TypeOK, Polls
        <3>3. CASE PollErrs(p)
            BY <3>3 DEF PollErrs, TypeOK, Polls
        <3> QED
            BY <1>5, <3>1, <3>2, <3>3
    <2>2. UNCHANGED <<room, requests, hash, reply, retry, earned>>
        BY <1>5 DEF PollAsks, PollSamples, PollErrs
    <2> QED
        BY <2>1, <2>2 DEF AutoHashes
<1>6. ASSUME NEW p \in Pollers, PollDelivers(p) PROVE ForwardInv'
    <2>1. \A q \in Pollers : poll'[q].hash \in {poll[q].hash, NoHash}
        BY <1>6 DEF PollDelivers, NoPoll, TypeOK, Polls
    <2>2. UNCHANGED <<room, requests, hash, reply>> /\ room.at \in Nat /\ room.at >= 1
        BY <1>6, RoomAssumption DEF PollDelivers, TypeOK, RoomTypeOK, Lists
    <2>3. \/ UNCHANGED <<retry, earned>>
          \/ retry'.hash = poll[p].hash /\ earned' = earned + 1
        BY <1>6 DEF PollDelivers, start_request
    <2>4. HashesAreOld'
        BY <2>1, <2>2, <2>3 DEF NoHash
    <2>5. MovesArePaid' /\ OneMovePerTrigger'
        BY <2>2, <2>3 DEF AutoHashes, TypeOK, AutoNextTypeOK
    <2> QED
        BY <2>4, <2>5
<1>7. ASSUME NEW dir \in Directions, TriggerSwitch(dir) PROVE ForwardInv'
    <2>1. AutoHashes' = AutoHashes
        BY <1>7 DEF TriggerSwitch, AutoHashes
    <2> QED
        BY <1>7, <2>1 DEF TriggerSwitch
<1>8. CASE RoomSteps
    <2>1. /\ room' \in Lists /\ room'.at >= room.at
          /\ UNCHANGED <<requests, hash, reply, retry, poll, earned>>
        <3>1. CASE \E dir \in Directions : OtherClientMoves(dir)
            BY <1>8, <3>1, MovedIsList, RoomAssumption
            DEF RoomSteps, OtherClientMoves, Moved, TypeOK, RoomTypeOK, Lists
        <3>2. CASE QueueIsEdited
            BY <1>8, <3>2, RoomAssumption
            DEF RoomSteps, QueueIsEdited, TypeOK, RoomTypeOK, Lists
        <3> QED
            BY <1>8, <3>1, <3>2 DEF RoomSteps
    <2> QED
        BY <2>1, RoomForward
<1>9. CASE RequestSteps
    <2>1. CASE RetryIsAnswered
        <3>1. /\ NextRequest(retry.hash) \in Requests
              /\ NextRequest(retry.hash).dir = "next"
              /\ NextRequest(retry.hash).hash = retry.hash
            BY RetryRequest DEF TypeOK, AutoNextTypeOK, NextRequest
        <3>2. retry.hash \in AutoHashes
            BY <2>1 DEF RetryIsAnswered, AutoHashes
        <3> QED
            BY <1>9, <2>1, <3>1, <3>2, ServeForward DEF RequestSteps, RetryIsAnswered
    <2>2. CASE RetryIsUnanswered
        <3>1. AutoHashes' \subseteq AutoHashes
            BY <2>2 DEF RetryIsUnanswered, AutoHashes, NextRequest
        <3>2. HashesAreOld'
            BY <1>9, <2>2 DEF RequestSteps, RetryIsUnanswered, NextRequest
        <3> QED
            BY <1>9, <2>2, <3>1, <3>2 DEF RequestSteps, RetryIsUnanswered
    <2>3. CASE RetryWakes
        <3>1. AutoHashes' = AutoHashes /\ retry'.hash = retry.hash
            BY <2>3 DEF RetryWakes, AutoHashes, TypeOK, AutoNextTypeOK
        <3> QED
            BY <1>9, <2>3, <3>1 DEF RequestSteps, RetryWakes
    <2>4. ASSUME NEW req \in requests, RequestIsServed(req) PROVE ForwardInv'
        <3>1. req \in Requests /\ req.dir = "next"
            BY DEF TypeOK, RoomTypeOK
        <3>2. req.auto => req.hash \in AutoHashes
            BY DEF AutoHashes
        <3> QED
            BY <1>9, <2>4, <3>1, <3>2, ServeForward DEF RequestSteps, RequestIsServed
    <2> QED
        BY <1>9, <2>1, <2>2, <2>3, <2>4 DEF RequestSteps
<1>10. ASSUME NEW a \in Actors,
Prepares(a) \/ ChecksToken(a) \/ DeviceLoads(a) \/ PlayFails(a)
      PROVE  ForwardInv'
    BY <1>10, ForwardFrame DEF Prepares, ChecksToken, DeviceLoads, PlayFails
<1>11. CASE SyncLocks \/ RecastTimesOut \/ Seeks \/ DeviceAdvances \/ DeviceCatchesUp
             \/ WindowElapses \/ UNCHANGED vars
    BY <1>11, ForwardFrame DEF SyncLocks, RecastTimesOut, Seeks, DeviceAdvances,
        DeviceCatchesUp, WindowElapses, vars
<1> QED
    BY <1>1, <1>2, <1>3, <1>4, <1>5, <1>6, <1>7, <1>8, <1>9, <1>10, <1>11
    DEF Next, ActorSteps, PollerSteps

\* When people only move the list forward, each use of the trigger moves the
\* room at most one song on, whatever requests are lost, late or repeated.
THEOREM OneMoveEach ==
    ASSUME Directions = {"next"}
    PROVE  Spec => []OneMovePerTrigger
<1>1. Init => ForwardInv
    BY ForwardInit
<1>2. TypeOK /\ ForwardInv /\ [Next]_vars => ForwardInv'
    BY ForwardStep
<1>3. ForwardInv => OneMovePerTrigger
    BY DEF ForwardInv
<1> QED
    BY <1>1, <1>2, <1>3, TypeCorrect, PTL DEF Spec

-----------------------------------------------------------------------------
(* Playback implements SongEnd.                                            *)

\* A sample starts the automatic move only while the gate trusts the device.
LEMMA TriggerIsTrusted ==
    ASSUME NEW p \in Pollers, TriggersOn(p)
    PROVE  Trusted /\ ~fired
<1>1. AtEnd(-1, -1) = FALSE /\ \A t : AtEnd(0, t) = FALSE
    BY AutoNextAssumption DEF AtEnd
<1>2. Valid(poll[p].rev, poll[p].current, poll[p].total)
    BY <1>1 DEF TriggersOn, Shown
<1> QED
    BY <1>2 DEF Valid, Trusted, TriggersOn

\* The program starts where SongEnd starts.
LEMMA PromiseInit == Init => Promise!Init
BY DEF Init, GateInit, AutoNextInit, Promise!Init, Trusted

\* Every step of the program is a step of SongEnd or changes nothing it sees.
LEMMA PromiseStep ==
    ASSUME TypeOK, ForwardInv, [Next]_vars
    PROVE  [Promise!Next]_(Promise!vars)
<1> USE DEF gateVars, autoNextVars, roomVars, clientVars, deviceVars
<1>1. CASE UNCHANGED <<song, phase, fired, earned>>
    BY <1>1 DEF Promise!vars, Trusted
<1>2. CASE SyncApplies
    <2>1. UNCHANGED <<fired, earned>>
        BY <1>2 DEF SyncApplies
    <2>2. CASE song' = song
        BY <1>1, <1>2, <2>1, <2>2 DEF SyncApplies, update_song
    <2>3. CASE song' # song
        <3>1. song' \in SongOrNone /\ phase' = "AwaitingCommand"
            BY <1>2, <2>3, SingingIsSong DEF SyncApplies, update_song, StartsAwaiting
        <3>2. Promise!SongChanges
            BY <2>1, <2>3, <3>1 DEF Promise!SongChanges, Trusted, SongOrNone
        <3> QED
            BY <3>2 DEF Promise!Next
    <2> QED
        BY <2>2, <2>3
<1>3. CASE RecastStarts
    <2>1. /\ song # NoSong /\ phase' = "AwaitingCommand"
          /\ UNCHANGED <<song, fired, earned>>
        BY <1>3 DEF RecastStarts, begin_recast, StartsAwaiting
    <2>2. Promise!PlayAgain
        BY <2>1 DEF Promise!PlayAgain, Trusted
    <2> QED
        BY <2>2 DEF Promise!Next
<1>4. ASSUME NEW a \in Actors, PlaySucceeds(a) PROVE [Promise!Next]_(Promise!vars)
    <2>1. CASE Confirms(run[a].token)
        <3>1. /\ song # NoSong /\ phase' # "AwaitingCommand" /\ fired' = FALSE
              /\ UNCHANGED <<song, earned>>
            BY <1>4, <2>1 DEF PlaySucceeds, play_succeeded, Confirms, reset_for_playback
        <3>2. Promise!PlaybackConfirmed
            BY <3>1 DEF Promise!PlaybackConfirmed, Trusted
        <3> QED
            BY <3>2 DEF Promise!Next
    <2>2. CASE ~Confirms(run[a].token)
        BY <1>1, <1>4, <2>2 DEF PlaySucceeds, play_succeeded
    <2> QED
        BY <2>1, <2>2
<1>5. ASSUME NEW p \in Pollers, PollDelivers(p) PROVE [Promise!Next]_(Promise!vars)
    <2>1. UNCHANGED song /\ Trusted' = Trusted
        BY <1>5 DEF PollDelivers, filter, Valid, Trusted
    <2>2. CASE p \in Driving /\ TriggersOn(p)
        <3>1. fired' = TRUE /\ earned' = earned + 1
            BY <1>5, <2>2 DEF PollDelivers, start_request
        <3>2. Promise!EndHeard
            BY <2>1, <2>2, <3>1, TriggerIsTrusted DEF Promise!EndHeard
        <3> QED
            BY <3>2 DEF Promise!Next
    <2>3. CASE ~(p \in Driving /\ TriggersOn(p))
        BY <1>5, <2>1, <2>3 DEF PollDelivers, Promise!vars
    <2> QED
        BY <2>2, <2>3
<1>6. CASE WindowElapses
    BY <1>6 DEF WindowElapses, Promise!vars, Trusted
<1>7. CASE RequestSteps
    <2>1. UNCHANGED <<song, phase, fired>>
        BY <1>7 DEF RequestSteps, RetryIsAnswered, RetryIsUnanswered, RetryWakes,
                    RequestIsServed
    <2>2. CASE earned' = earned
        BY <1>1, <2>1, <2>2
    <2>3. ASSUME NEW req, earned' = earned - Spent(req), earned' # earned,
                 req.auto => req.hash \in AutoHashes
          PROVE  Promise!RoomMovesOn
        <3>1. Spent(req) = 1
            BY <2>3, SpentIsBit DEF TypeOK, AutoNextTypeOK
        <3>2. req.auto /\ req.hash = room
            BY <3>1 DEF Spent, AfterRequest, Accepts
        <3>3. earned >= 1
            BY <2>3, <3>2 DEF ForwardInv, MovesArePaid
        <3> QED
            BY <2>1, <2>3, <3>1, <3>3 DEF Promise!RoomMovesOn, Trusted, TypeOK,
               AutoNextTypeOK
    <2>4. CASE RetryIsAnswered
        <3>1. NextRequest(retry.hash).hash \in AutoHashes
            BY <2>4 DEF RetryIsAnswered, NextRequest, AutoHashes
        <3> QED
            BY <2>2, <2>3, <2>4, <3>1 DEF RetryIsAnswered, Promise!Next
    <2>5. CASE RetryIsUnanswered \/ RetryWakes
        BY <2>2, <2>5 DEF RetryIsUnanswered, RetryWakes
    <2>6. ASSUME NEW req \in requests, RequestIsServed(req)
          PROVE  [Promise!Next]_(Promise!vars)
        <3>1. req.auto => req.hash \in AutoHashes
            BY DEF AutoHashes
        <3> QED
            BY <2>2, <2>3, <2>6, <3>1 DEF RequestIsServed, Promise!Next
    <2> QED
        BY <1>7, <2>4, <2>5, <2>6 DEF RequestSteps
<1>8. CASE SyncFetches \/ SyncLocks \/ RecastTimesOut
    BY <1>1, <1>8 DEF SyncFetches, SyncLocks, RecastTimesOut
<1>9. ASSUME NEW a \in Actors,
Prepares(a) \/ ChecksToken(a) \/ DeviceLoads(a) \/ PlayFails(a)
      PROVE  [Promise!Next]_(Promise!vars)
    BY <1>1, <1>9 DEF Prepares, ChecksToken, DeviceLoads, PlayFails
<1>10. ASSUME NEW p \in Pollers, PollAsks(p) \/ PollSamples(p) \/ PollErrs(p)
       PROVE  [Promise!Next]_(Promise!vars)
    BY <1>1, <1>10 DEF PollAsks, PollSamples, PollErrs
<1>11. CASE \/ \E dir \in Directions : TriggerSwitch(dir)
            \/ Seeks \/ DeviceAdvances \/ DeviceCatchesUp
    BY <1>1, <1>11 DEF TriggerSwitch, Seeks, DeviceAdvances, DeviceCatchesUp
<1>12. CASE RoomSteps \/ UNCHANGED vars
    BY <1>1, <1>12 DEF RoomSteps, vars
<1> QED
    BY <1>2, <1>3, <1>4, <1>5, <1>6, <1>7, <1>8, <1>9, <1>10, <1>11, <1>12
    DEF Next, ActorSteps, PollerSteps

\* Playback implements SongEnd: only a confirmed playback rearms the trigger, it
\* is used only while the progress is trusted, and it pays for every automatic
\* move of the room.
THEOREM PromiseIsKept ==
    ASSUME Directions = {"next"}
    PROVE  Spec => KeepsPromise
<1>1. TypeOK /\ ForwardInv /\ [Next]_vars => ForwardInv'
    BY ForwardStep
<1>2. TypeOK /\ ForwardInv /\ [Next]_vars => [Promise!Next]_(Promise!vars)
    BY PromiseStep
<1> QED
    BY <1>1, <1>2, ForwardInit, PromiseInit, TypeCorrect, PTL
    DEF Spec, KeepsPromise, Promise!Spec

-----------------------------------------------------------------------------
(* Whose progress a sample is.                                             *)

\* Hardware progress is undisturbed: the sync task alone commands the renderer,
\* and nobody seeks.  The simulated clock needs none of this.
Undisturbed == HARDWARE => MaxRecasts = 0 /\ PlayMayFail = FALSE /\ AllowSeek = FALSE

Trusts == phase # "AwaitingCommand" /\ song # NoSong

\* A poll whose answer the gate would still take.
Current(p) == poll[p].pc # "idle" /\ poll[p].rev = revision
Answered(p) == Current(p) /\ poll[p].pc = "answered" /\ poll[p].current >= 0 /\ Trusts

\* A revision names one song and one list in which it is sung; the length of a
\* song is known before the song is played.
ViewsNameSong ==
    /\ Singing(hash) = song
    /\ \A a \in Actors : run[a].pc \in {"check", "casting", "loaded"} =>
          {run[a].song} \cap Prefilled \subseteq durations
    /\ Trusts => {song} \cap Prefilled \subseteq durations
    /\ \A p \in Pollers :
          /\ poll[p].rev =< revision
          /\ poll[p].pc = "asked" => poll[p].current = -1
          /\ Current(p) => /\ Singing(poll[p].hash) = song
                           /\ Trusts /\ song \in Prefilled => poll[p].known = song
          /\ poll[p].pc = "answered" /\ poll[p].known # NoSong /\ poll[p].current >= 0
                => poll[p].total = LENGTH[poll[p].known]

\* The simulated clock runs for the song that is trusted.
ClockIsOfSong ==
    /\ phase \notin {"Protecting", "Elapsed"}
    /\ ~lag
    /\ Trusts => heard = song
    /\ \A p \in Pollers : Answered(p) => poll[p].of = song

\* One at a time, the sync task handles the songs: while it has one in hand
\* the gate awaits the command for it.
SyncAlone ==
    /\ run["recast"].pc = "idle"
    /\ run["sync"].pc \in {"idle", "reply"} => cached = song
    /\ run["sync"].pc \in {"lock"} \cup Holding => phase = "AwaitingCommand" /\ song # NoSong
    /\ run["sync"].pc \in Holding => run["sync"].token = revision

\* Where the renderer can be.
RendererInv ==
    /\ run["sync"].pc = "loaded" => lag \/ heard = song
    /\ Trusts => media = song /\ (lag \/ heard = song)
    /\ phase \in {"Protecting", "Elapsed"} => last_current = 0
    /\ phase = "Elapsed" => ~lag
    /\ phase = "Ready" => last_current =< pos /\ (lag => pos = 0)
    /\ phase = "AwaitingCommand" =>
          /\ run["sync"].pc # "loaded" \/ lag => baseline =< pos
          /\ run["sync"].pc # "loaded" /\ lag => baseline =< 0
    /\ phase = "Protecting" /\ lag => baseline =< pos
    \* answers under way
    /\ \A p \in Pollers : Answered(p) =>
          IF poll[p].stale
          THEN /\ phase = "Protecting" => baseline =< poll[p].current
               /\ phase = "Ready" => poll[p].current = 0
               /\ phase # "Elapsed"
               /\ lag => poll[p].current = pos
          ELSE ~lag /\ poll[p].of = song /\ poll[p].current =< pos

\* The inductive invariant behind what the gate shows.
SamplesInv ==
    /\ ViewsNameSong
    /\ HARDWARE => SyncAlone /\ RendererInv
    /\ ~HARDWARE => ClockIsOfSong

\* What the steps of a poll leave in it.
LEMMA PollFields ==
    ASSUME TypeOK, NEW p \in Pollers
    PROVE  /\ PollAsks(p) =>
                 /\ poll'[p].pc = "asked" /\ poll'[p].rev = revision /\ poll'[p].hash = hash
                 /\ poll'[p].known = (IF song \in durations THEN song ELSE NoSong)
                 /\ poll'[p].current = -1
           /\ PollSamples(p) =>
                 /\ poll[p].pc = "asked" /\ poll'[p].pc = "answered"
                 /\ poll'[p].rev = poll[p].rev /\ poll'[p].hash = poll[p].hash
                 /\ poll'[p].known = poll[p].known
                 /\ poll'[p].current = pos /\ poll'[p].of = heard /\ poll'[p].stale = lag
                 /\ poll[p].known # NoSong => poll'[p].total = LENGTH[poll[p].known]
           /\ PollErrs(p) =>
                 /\ poll[p].pc = "asked" /\ poll'[p].pc = "answered"
                 /\ poll'[p].rev = poll[p].rev /\ poll'[p].hash = poll[p].hash
                 /\ poll'[p].known = poll[p].known /\ poll'[p].current = poll[p].current
           /\ PollDelivers(p) => poll[p].pc = "answered" /\ poll'[p].pc = "idle" /\ poll'[p].rev = 0
           /\ PollAsks(p) \/ PollSamples(p) \/ PollErrs(p) \/ PollDelivers(p) =>
                 \A q \in Pollers : q # p => poll'[q] = poll[q]
<1>1. poll \in [Pollers -> Polls] /\ poll[p] \in Polls
    BY DEF TypeOK
<1>2. ASSUME PollAsks(p)
      PROVE  /\ poll'[p].pc = "asked" /\ poll'[p].rev = revision /\ poll'[p].hash = hash
             /\ poll'[p].known = (IF song \in durations THEN song ELSE NoSong)
             /\ poll'[p].current = -1
             /\ \A q \in Pollers : q # p => poll'[q] = poll[q]
    BY <1>1, <1>2 DEF PollAsks, NoPoll
<1>3. ASSUME PollSamples(p)
      PROVE  /\ poll[p].pc = "asked" /\ poll'[p].pc = "answered"
             /\ poll'[p].rev = poll[p].rev /\ poll'[p].hash = poll[p].hash
             /\ poll'[p].known = poll[p].known
             /\ poll'[p].current = pos /\ poll'[p].of = heard /\ poll'[p].stale = lag
             /\ poll[p].known # NoSong => poll'[p].total = LENGTH[poll[p].known]
             /\ \A q \in Pollers : q # p => poll'[q] = poll[q]
    <2>9. Announced \subseteq Nat
        BY PlaybackAssumption DEF TypeOK, Announced, SongOrNone
    <2>10. poll[p].known # NoSong => LENGTH[poll[p].known] \in Nat
        BY <1>1, PlaybackAssumption DEF SongOrNone, Polls
    <2>1. PICK total \in Nat :
             poll' = [poll EXCEPT ![p].pc = "answered", ![p].current = pos, ![p].total = total,
                                  ![p].of = heard, ![p].stale = lag]
        BY <1>3, <2>9, <2>10, ZenonT(60) DEF PollSamples
    <2>2. poll'[p] = [poll[p] EXCEPT !.pc = "answered", !.current = pos, !.total = total,
                                     !.of = heard, !.stale = lag]
        BY <1>1, <2>1
    <2>3. \A q \in Pollers : q # p => poll'[q] = poll[q]
        BY <1>1, <2>1
    <2>4. poll[p].pc = "asked"
        BY <1>3 DEF PollSamples
    <2>8. ASSUME poll[p].known # NoSong PROVE poll'[p].total = LENGTH[poll[p].known]
        <3>1. poll' = [poll EXCEPT ![p].pc = "answered", ![p].current = pos,
                                   ![p].total = LENGTH[poll[p].known],
                                   ![p].of = heard, ![p].stale = lag]
            BY <1>3, <2>8 DEF PollSamples
        <3> QED
            BY <1>1, <3>1 DEF Polls
    <2>5. lag \in BOOLEAN
        BY DEF TypeOK
    <2>6. /\ poll'[p].pc = "answered"
          /\ poll'[p].rev = poll[p].rev /\ poll'[p].hash = poll[p].hash
          /\ poll'[p].known = poll[p].known
          /\ poll'[p].current = pos /\ poll'[p].of = heard
        BY <1>1, <2>2 DEF Polls
    <2>7. poll'[p].stale = lag
        BY <1>1, <2>2, <2>5 DEF Polls
    <2> QED
        BY <2>3, <2>4, <2>6, <2>7, <2>8
<1>4. ASSUME PollErrs(p)
      PROVE  /\ poll[p].pc = "asked" /\ poll'[p].pc = "answered"
             /\ poll'[p].rev = poll[p].rev /\ poll'[p].hash = poll[p].hash
             /\ poll'[p].known = poll[p].known /\ poll'[p].current = poll[p].current
             /\ \A q \in Pollers : q # p => poll'[q] = poll[q]
    BY <1>1, <1>4 DEF PollErrs, Polls
<1>5. ASSUME PollDelivers(p)
      PROVE  /\ poll[p].pc = "answered" /\ poll'[p].pc = "idle" /\ poll'[p].rev = 0
             /\ \A q \in Pollers : q # p => poll'[q] = poll[q]
    BY <1>1, <1>5 DEF PollDelivers, NoPoll
<1> QED
    BY <1>2, <1>3, <1>4, <1>5

-----------------------------------------------------------------------------
(* What a revision names.                                                  *)

\* Nothing but these variables matters to it.
LEMMA ViewsFrame ==
    ASSUME ViewsNameSong, UNCHANGED <<hash, song, run, durations, phase, revision, poll>>
    PROVE  ViewsNameSong'
BY DEF ViewsNameSong, Current, Trusts

\* A step that outdates every poll under way.
LEMMA ViewsOutdated ==
    ASSUME TypeOK, ViewsNameSong, UNCHANGED poll, revision' = revision + 1,
           Singing(hash')  = song',
           \A a \in Actors : run'[a].pc \in {"check", "casting", "loaded"} =>
               {run'[a].song} \cap Prefilled \subseteq durations',
           Trusts' => {song'} \cap Prefilled \subseteq durations'
    PROVE  ViewsNameSong'
<1>1. revision \in Nat /\ \A p \in Pollers : poll[p].rev \in Nat
    BY DEF TypeOK, GateTypeOK, Polls
<1>2. \A p \in Pollers : ~Current(p)' /\ poll'[p].rev =< revision'
    BY <1>1 DEF ViewsNameSong, Current
<1>3. Singing(hash)' = song'
    BY DEF Singing
<1> QED
    BY <1>2, <1>3 DEF ViewsNameSong

\* Every step keeps what a revision names: the gate changes its song and its
\* revision together, and a song is prepared before it is played.
LEMMA ViewsStep ==
    ASSUME TypeOK, Coordination, ViewsNameSong, [Next]_vars
    PROVE  ViewsNameSong'
<1> USE DEF gateVars, clientVars, deviceVars
<1>0. ASSUME UNCHANGED <<hash, song, durations, phase, revision, poll>>, NEW a \in Actors,
             \A b \in Actors : b # a => run'[b] = run[b],
             run'[a].pc \in {"check", "casting", "loaded"} =>
                 run[a].pc \in {"check", "casting", "loaded"} /\ run'[a].song = run[a].song
      PROVE  ViewsNameSong'
    BY <1>0 DEF ViewsNameSong, Current, Trusts
<1>1. CASE SyncFetches
    BY <1>0, <1>1 DEF SyncFetches, Goes, TypeOK, Actors
<1>2. CASE SyncApplies
    <2>1. Singing(hash') = song'
        BY <1>2 DEF SyncApplies, update_song, ViewsNameSong
    <2>2. /\ \A a \in Actors : run'[a].pc \in {"check", "casting", "loaded"} => run'[a] = run[a]
          /\ UNCHANGED <<durations, poll>>
        BY <1>2 DEF SyncApplies, Idle, TypeOK, Actors
    <2>3. CASE song' = song
        <3>1. UNCHANGED <<phase, revision>>
            BY <1>2, <2>3 DEF SyncApplies, update_song
        <3>2. Singing(hash)' = song'
            BY <2>1 DEF Singing
        <3> QED
            BY <2>2, <2>3, <3>1, <3>2 DEF ViewsNameSong, Current, Trusts
    <2>4. CASE song' # song
        <3>1. phase' = "AwaitingCommand" /\ revision' = revision + 1
            BY <1>2, <2>4 DEF SyncApplies, update_song, StartsAwaiting
        <3>2. \A a \in Actors : run'[a].pc \in {"check", "casting", "loaded"} =>
                 {run'[a].song} \cap Prefilled \subseteq durations'
            BY <2>2 DEF ViewsNameSong
        <3> QED
            BY <2>1, <2>2, <3>1, <3>2, ViewsOutdated DEF Trusts
    <2> QED
        BY <2>3, <2>4
<1>3. CASE SyncLocks
    <2>1. /\ UNCHANGED <<hash, song, durations, phase, revision, poll>>
          /\ \A b \in Actors : b # "sync" => run'[b] = run[b]
          /\ run'["sync"].pc \notin {"check", "casting", "loaded"}
        BY <1>3 DEF SyncLocks, Finishes, Idle, TypeOK, Actors, Runs
    <2> QED
        BY <1>0, <2>1 DEF Actors
<1>4. CASE RecastStarts
    <2>1. revision' = revision + 1 /\ phase' = "AwaitingCommand" /\ UNCHANGED <<poll, song, hash, durations>>
        BY <1>4 DEF RecastStarts, begin_recast, StartsAwaiting
    <2>2. \A a \in Actors : run'[a].pc \in {"check", "casting", "loaded"} => run'[a] = run[a]
        BY <1>4 DEF RecastStarts, TypeOK, Actors
    <2> QED
        BY <2>1, <2>2, ViewsOutdated DEF ViewsNameSong, Trusts
<1>5. CASE RecastTimesOut
    BY <1>0, <1>5 DEF RecastTimesOut, Finishes, Idle, TypeOK, Actors
<1>6. ASSUME NEW a \in Actors, Prepares(a) PROVE ViewsNameSong'
    <2>1. durations \subseteq durations' /\ {run[a].song} \cap Prefilled \subseteq durations'
        BY <1>6 DEF Prepares
    <2>2. /\ \A b \in Actors : b # a => run'[b] = run[b]
          /\ run'[a].song = run[a].song
          /\ UNCHANGED <<hash, song, phase, revision, poll>>
        BY <1>6 DEF Prepares, Goes, TypeOK, Runs
    <2> QED
        BY <2>1, <2>2 DEF ViewsNameSong, Current, Trusts
<1>7. ASSUME NEW a \in Actors, ChecksToken(a) \/ DeviceLoads(a) \/ PlayFails(a) PROVE ViewsNameSong'
    <2>1. /\ UNCHANGED <<hash, song, durations, phase, revision, poll>>
          /\ \A b \in Actors : b # a => run'[b] = run[b]
          /\ run'[a].pc \in {"check", "casting", "loaded"} =>
                 run[a].pc \in {"check", "casting", "loaded"} /\ run'[a].song = run[a].song
        BY <1>7 DEF ChecksToken, DeviceLoads, PlayFails, Goes, Finishes, Idle, TypeOK, Runs
    <2> QED
        BY <1>0, <2>1
<1>8. ASSUME NEW a \in Actors, PlaySucceeds(a) PROVE ViewsNameSong'
    <2>1. /\ \A b \in Actors : b # a => run'[b] = run[b]
          /\ run'[a].pc = "idle" /\ UNCHANGED <<hash, durations, poll>>
        BY <1>8 DEF PlaySucceeds, Finishes, Idle, TypeOK
    <2>2. CASE ~Confirms(run[a].token)
        BY <1>0, <1>8, <2>1, <2>2 DEF PlaySucceeds, play_succeeded
    <2>3. CASE Confirms(run[a].token)
        <3>1. revision' = revision + 1 /\ song' = song
            BY <1>8, <2>3 DEF PlaySucceeds, play_succeeded
        <3>2. run[a].song = song /\ run[a].pc = "loaded"
            BY <1>8, <2>3 DEF PlaySucceeds, Confirms, Coordination, TokensNameSong, Holding
        <3> QED
            BY <2>1, <3>1, <3>2, ViewsOutdated DEF ViewsNameSong
    <2> QED
        BY <2>2, <2>3
<1>9. ASSUME NEW p \in Pollers, PollAsks(p) PROVE ViewsNameSong'
    <2>1. UNCHANGED <<hash, song, run, durations, phase, revision>>
        BY <1>9 DEF PollAsks
    <2>2. revision \in Nat
        BY DEF TypeOK, GateTypeOK
    <2> QED
        BY <1>9, <2>1, <2>2, PollFields DEF ViewsNameSong, Current, Trusts
<1>10. ASSUME NEW p \in Pollers, PollSamples(p) PROVE ViewsNameSong'
    <2>1. UNCHANGED <<hash, song, run, durations, phase, revision>>
        BY <1>10 DEF PollSamples
    <2> QED
        BY <1>10, <2>1, PollFields DEF ViewsNameSong, Current, Trusts
<1>11. ASSUME NEW p \in Pollers, PollErrs(p) PROVE ViewsNameSong'
    <2>1. UNCHANGED <<hash, song, run, durations, phase, revision>>
        BY <1>11 DEF PollErrs
    <2> QED
        BY <1>11, <2>1, PollFields DEF ViewsNameSong, Current, Trusts
<1>12. ASSUME NEW p \in Pollers, PollDelivers(p) PROVE ViewsNameSong'
    <2>1. UNCHANGED <<hash, song, run, durations>> /\ (Trusts' => Trusts)
          /\ revision' \in {revision, revision + 1}
        BY <1>12 DEF PollDelivers, filter, Valid, Trusts
    <2>2. revision \in Nat /\ \A q \in Pollers : poll[q].rev \in Nat
        BY DEF TypeOK, GateTypeOK, Polls
    <2> QED
        BY <1>12, <2>1, <2>2, PollFields DEF ViewsNameSong, Current
<1>13. CASE WindowElapses
    BY <1>13 DEF WindowElapses, ViewsNameSong, Current, Trusts
<1>14. CASE \/ \E dir \in Directions : TriggerSwitch(dir)
            \/ Seeks \/ DeviceAdvances \/ DeviceCatchesUp
            \/ RoomSteps \/ RequestSteps
            \/ UNCHANGED vars
    BY <1>14, ViewsFrame DEF TriggerSwitch, Seeks, DeviceAdvances, DeviceCatchesUp, RoomSteps, RequestSteps, vars
<1> QED
    BY <1>1, <1>2, <1>3, <1>4, <1>5, <1>6, <1>7, <1>8, <1>9, <1>10, <1>11, <1>12, <1>13, <1>14
    DEF Next, ActorSteps, PollerSteps

-----------------------------------------------------------------------------
(* The simulated clock.                                                    *)

\* A step that trusts no song on which it did not agree before.
LEMMA ClockFrame ==
    ASSUME ClockIsOfSong, phase' \notin {"Protecting", "Elapsed"},
           Trusts' => Trusts /\ UNCHANGED <<song, revision, heard>>,
           UNCHANGED <<poll, lag>>
    PROVE  ClockIsOfSong'
BY DEF ClockIsOfSong, Answered, Current

\* Every step keeps the simulated clock on the song that is trusted: it is
\* restarted by whoever holds the lock, and a token that is no longer current
\* finds the gate trusting nothing or that very song.
LEMMA ClockStep ==
    ASSUME TypeOK, Coordination, ViewsNameSong, ClockIsOfSong, ~HARDWARE, [Next]_vars
    PROVE  ClockIsOfSong'
<1> USE DEF gateVars, clientVars, deviceVars
<1>0. /\ HARDWARE = FALSE
      /\ phase \notin {"Protecting", "Elapsed"} /\ lag = FALSE
      /\ revision \in Nat
      /\ \A p \in Pollers : poll[p].rev \in Nat /\ poll[p].rev =< revision
    BY ProgressGateAssumption DEF ClockIsOfSong, TypeOK, GateTypeOK, Polls, ViewsNameSong
<1>1. ASSUME UNCHANGED <<phase, song, revision, heard, poll, lag>> PROVE ClockIsOfSong'
    BY <1>0, <1>1, ClockFrame DEF Trusts
<1>2. CASE SyncFetches \/ SyncLocks \/ RecastTimesOut
    BY <1>1, <1>2 DEF SyncFetches, SyncLocks, RecastTimesOut
<1>3. CASE SyncApplies
    <2>1. UNCHANGED <<heard, poll, lag>>
        BY <1>3 DEF SyncApplies
    <2>2. UNCHANGED <<phase, song, revision>> \/ phase' = "AwaitingCommand"
        BY <1>3 DEF SyncApplies, update_song, StartsAwaiting
    <2> QED
        BY <1>1, <2>1, <2>2, ClockFrame DEF Trusts
<1>4. CASE RecastStarts
    <2>1. UNCHANGED <<poll, lag>> /\ phase' = "AwaitingCommand"
        BY <1>4 DEF RecastStarts, begin_recast, StartsAwaiting
    <2> QED
        BY <2>1, ClockFrame DEF Trusts
<1>5. ASSUME NEW a \in Actors, Prepares(a) \/ ChecksToken(a) \/ DeviceLoads(a) \/ PlayFails(a)
      PROVE  ClockIsOfSong'
    <2>1. UNCHANGED <<phase, song, revision, heard, poll>>
        BY <1>0, <1>5 DEF Prepares, ChecksToken, DeviceLoads, PlayFails
    <2>2. lag' = lag
        BY <1>0, <1>5 DEF Prepares, ChecksToken, DeviceLoads, PlayFails
    <2> QED
        BY <1>1, <2>1, <2>2
<1>6. ASSUME NEW a \in Actors, PlaySucceeds(a) PROVE ClockIsOfSong'
    <2>1. UNCHANGED <<poll, lag, song>> /\ heard' = run[a].song
        BY <1>6 DEF PlaySucceeds, play_succeeded
    <2>2. CASE Confirms(run[a].token)
        <3>1. phase' = "Ready" /\ revision' = revision + 1 /\ run[a].song = song
            BY <1>6, <2>2 DEF PlaySucceeds, play_succeeded, Confirms, Coordination, TokensNameSong, Holding
        <3>2. \A p \in Pollers : ~Current(p)'
            BY <1>0, <2>1, <3>1 DEF Current
        <3> QED
            BY <1>0, <2>1, <3>1, <3>2 DEF ClockIsOfSong, Answered
    <2>3. CASE ~Confirms(run[a].token)
        <3>1. UNCHANGED <<phase, revision>>
            BY <1>6, <2>3 DEF PlaySucceeds, play_succeeded
        <3>2. Trusts => run[a].song = song
            BY <1>6 DEF PlaySucceeds, Trusts, Coordination, SyncIsOnSong, RecastIsMasked, Holding, Actors
        <3>3. Trusts' = Trusts
            BY <2>1, <3>1 DEF Trusts
        <3> QED
            BY <1>0, <2>1, <3>1, <3>2, <3>3, ClockFrame DEF ClockIsOfSong
    <2> QED
        BY <2>2, <2>3
<1>7. ASSUME NEW p \in Pollers, PollAsks(p) PROVE ClockIsOfSong'
    <2>1. UNCHANGED <<phase, song, revision, heard, lag>>
        BY <1>7 DEF PollAsks
    <2> QED
        BY <1>7, <2>1, PollFields DEF ClockIsOfSong, Answered, Current, Trusts
<1>8. ASSUME NEW p \in Pollers, PollSamples(p) PROVE ClockIsOfSong'
    <2>1. UNCHANGED <<phase, song, revision, heard, lag>>
        BY <1>8 DEF PollSamples
    <2> QED
        BY <1>8, <2>1, PollFields DEF ClockIsOfSong, Answered, Current, Trusts
<1>9. ASSUME NEW p \in Pollers, PollErrs(p) PROVE ClockIsOfSong'
    BY <1>9 DEF PollErrs
<1>10. ASSUME NEW p \in Pollers, PollDelivers(p) PROVE ClockIsOfSong'
    <2>1. UNCHANGED <<song, revision, heard, lag, phase>>
        BY <1>0, <1>10 DEF PollDelivers, filter, Valid, TypeOK, GateTypeOK, Phases
    <2> QED
        BY <1>10, <2>1, PollFields DEF ClockIsOfSong, Answered, Current, Trusts
<1>11. CASE WindowElapses \/ DeviceCatchesUp
    BY <1>0, <1>11 DEF WindowElapses, DeviceCatchesUp
<1>12. CASE \/ \E dir \in Directions : TriggerSwitch(dir)
            \/ Seeks \/ DeviceAdvances \/ RoomSteps \/ RequestSteps \/ UNCHANGED vars
    BY <1>1, <1>12 DEF TriggerSwitch, Seeks, DeviceAdvances, RoomSteps, RequestSteps, vars
<1> QED
    BY <1>2, <1>3, <1>4, <1>5, <1>6, <1>7, <1>8, <1>9, <1>10, <1>11, <1>12
    DEF Next, ActorSteps, PollerSteps

-----------------------------------------------------------------------------
(* The renderer.                                                           *)

\* Nobody but the sync task commands the renderer, no command fails, nobody seeks.
LEMMA OnlySync ==
    ASSUME Undisturbed, HARDWARE, TypeOK, SyncAlone
    PROVE  /\ ~RecastStarts /\ ~RecastTimesOut /\ ~Seeks
           /\ \A a \in Actors : ~PlayFails(a)
           /\ ~ActorSteps("recast")
<1>1. MaxRecasts = 0 /\ recasts \in Nat /\ recasts =< MaxRecasts /\ run["recast"].pc = "idle"
      /\ PlayMayFail = FALSE /\ AllowSeek = FALSE
    BY PlaybackAssumption DEF Undisturbed, TypeOK, SyncAlone
<1>2. ~RecastStarts
    BY <1>1 DEF RecastStarts
<1>3. ~RecastTimesOut
    BY <1>1 DEF RecastTimesOut
<1>4. ~Seeks /\ \A a \in Actors : ~PlayFails(a)
    BY <1>1 DEF Seeks, PlayFails
<1>5. ~ActorSteps("recast")
    BY <1>1 DEF ActorSteps, Prepares, ChecksToken, DeviceLoads, PlaySucceeds, PlayFails
<1> QED
    BY <1>2, <1>3, <1>4, <1>5

\* Nothing but these variables matters to it.
LEMMA AloneFrame ==
    ASSUME SyncAlone, UNCHANGED <<run, cached, song, phase, revision>>
    PROVE  SyncAlone'
BY DEF SyncAlone

\* Every step leaves the sync task alone with the renderer: its token stays
\* current until the renderer has answered.
LEMMA AloneStep ==
    ASSUME Undisturbed, HARDWARE, TypeOK, Coordination, SyncAlone, [Next]_vars
    PROVE  SyncAlone'
<1> USE DEF gateVars, clientVars, deviceVars
<1>0. run["sync"].pc \in {"lock"} \cup Holding => run["sync"].song = song
    BY DEF Coordination, SyncIsOnSong
<1>1. CASE SyncFetches
    BY <1>1 DEF SyncFetches, Goes, SyncAlone, TypeOK, Actors, Holding
<1>2. CASE SyncApplies
    <2>1. run["sync"].pc = "reply" /\ cached = song /\ run["recast"].pc = "idle"
        BY <1>2 DEF SyncApplies, SyncAlone
    <2>2. CASE song' \in {NoSong, cached}
        <3>1. cached' = song' /\ run' = [run EXCEPT !["sync"] = Idle]
            BY <1>2, <2>2 DEF SyncApplies, update_song
        <3> QED
            BY <2>1, <3>1 DEF SyncAlone, Idle, Holding, TypeOK, Actors
    <2>3. CASE song' \notin {NoSong, cached}
        <3>1. phase' = "AwaitingCommand" /\ run'["sync"].pc = "lock" /\ run'["recast"] = run["recast"]
            BY <1>2, <2>1, <2>3 DEF SyncApplies, update_song, StartsAwaiting, TypeOK, Actors
        <3> QED
            BY <2>1, <2>3, <3>1 DEF SyncAlone, Holding
    <2> QED
        BY <2>2, <2>3
<1>3. CASE SyncLocks
    <2>1. /\ run["sync"].pc = "lock" /\ UNCHANGED <<phase, song, revision>>
          /\ run' = [run EXCEPT !["sync"].pc = "prepare", !["sync"].token = revision]
        BY <1>0, <1>3 DEF SyncLocks
    <2>2. run'["sync"].pc = "prepare" /\ run'["sync"].token = revision /\ run'["recast"] = run["recast"]
        BY <2>1 DEF TypeOK, Actors, Runs
    <2> QED
        BY <2>1, <2>2 DEF SyncAlone, Holding
<1>4. CASE ActorSteps("sync")
    <2>1. CASE Prepares("sync") \/ DeviceLoads("sync")
        <3>1. /\ run'["sync"].pc \in Holding /\ run'["sync"].token = run["sync"].token
              /\ run'["recast"] = run["recast"]
              /\ run["sync"].pc \in Holding /\ UNCHANGED <<phase, song, revision>>
            BY ZenonT(60), <2>1 DEF Prepares, DeviceLoads, Goes, TypeOK, Actors, Runs, Holding
        <3> QED
            BY <3>1 DEF SyncAlone, Holding
    <2>2. CASE ChecksToken("sync")
        <3>1. run["sync"].pc = "check" /\ run["sync"].token = revision
            BY <2>2 DEF ChecksToken, SyncAlone, Holding
        <3>2. /\ run'["sync"].pc = "casting" /\ run'["sync"].token = revision
              /\ run'["recast"] = run["recast"] /\ UNCHANGED <<phase, song, revision>>
            BY <2>2, <3>1 DEF ChecksToken, Goes, TypeOK, Actors, Runs
        <3> QED
            BY <3>1, <3>2 DEF SyncAlone, Holding
    <2>3. CASE PlaySucceeds("sync")
        <3>1. /\ cached' = run["sync"].song /\ run' = [run EXCEPT !["sync"] = Idle] /\ song' = song
              /\ run["sync"].pc = "loaded"
            BY <2>3 DEF PlaySucceeds, play_succeeded, Finishes
        <3>2. cached' = song'
            BY <1>0, <3>1 DEF Holding
        <3> QED
            BY <3>1, <3>2 DEF SyncAlone, Idle, Holding, TypeOK, Actors
    <2>4. ~PlayFails("sync")
        BY OnlySync DEF Actors
    <2> QED
        BY <1>4, <2>1, <2>2, <2>3, <2>4 DEF ActorSteps
<1>5. ASSUME NEW p \in Pollers, PollAsks(p) \/ PollSamples(p) \/ PollErrs(p) PROVE SyncAlone'
    <2>1. UNCHANGED <<run, cached, song, phase, revision>>
        <3>1. CASE PollAsks(p)
            BY <3>1 DEF PollAsks
        <3>2. CASE PollSamples(p)
            BY <3>2 DEF PollSamples
        <3>3. CASE PollErrs(p)
            BY <3>3 DEF PollErrs
        <3> QED
            BY <1>5, <3>1, <3>2, <3>3
    <2> QED
        BY <2>1, AloneFrame
<1>6. ASSUME NEW p \in Pollers, PollDelivers(p) PROVE SyncAlone'
    <2>1. UNCHANGED <<run, cached, song>>
        BY <1>6 DEF PollDelivers, filter
    <2>2. phase = "AwaitingCommand" => UNCHANGED <<phase, revision>>
        BY <1>6 DEF PollDelivers, filter, Valid
    <2> QED
        BY <2>1, <2>2 DEF SyncAlone
<1>7. CASE WindowElapses
    <2>1. phase = "Protecting" /\ UNCHANGED <<run, cached, song, revision>>
        BY <1>7 DEF WindowElapses
    <2> QED
        BY <2>1 DEF SyncAlone, Holding
<1>8. CASE \/ \E dir \in Directions : TriggerSwitch(dir)
           \/ DeviceAdvances \/ DeviceCatchesUp \/ RoomSteps \/ RequestSteps \/ UNCHANGED vars
    BY <1>8, AloneFrame DEF TriggerSwitch, DeviceAdvances, DeviceCatchesUp, RoomSteps, RequestSteps, vars
<1> QED
    BY <1>1, <1>2, <1>3, <1>4, <1>5, <1>6, <1>7, <1>8, OnlySync
    DEF Next, Actors, PollerSteps

\* Nothing but these variables matters to it.
LEMMA RendererFrame ==
    ASSUME RendererInv,
           UNCHANGED <<song, phase, last_current, baseline, revision, poll, deviceVars>>,
           run'["sync"].pc = "loaded" <=> run["sync"].pc = "loaded"
    PROVE  RendererInv'
BY DEF RendererInv, Trusts, Answered, Current, deviceVars

\* A step that leaves the gate awaiting a command: nothing is trusted, and what
\* remains is where the position may be.
LEMMA RendererAwaits ==
    ASSUME phase' = "AwaitingCommand",
           run'["sync"].pc = "loaded" => lag' \/ heard' = song',
           run'["sync"].pc # "loaded" \/ lag' => baseline' =< pos',
           run'["sync"].pc # "loaded" /\ lag' => baseline' =< 0
    PROVE  RendererInv'
BY DEF RendererInv, Trusts, Answered

\* A step of the gate that outdates every answer under way.
LEMMA AnswersOutdated ==
    ASSUME TypeOK, ViewsNameSong, UNCHANGED poll, revision' = revision + 1
    PROVE  \A p \in Pollers : ~Answered(p)'
BY DEF TypeOK, GateTypeOK, Polls, ViewsNameSong, Answered, Current

\* What a sample the gate would use says of the renderer.
LEMMA UsedSample ==
    ASSUME TypeOK, ProgressGateAssumption, NEW p \in Pollers, poll[p].pc = "answered",
           Valid(poll[p].rev, poll[p].current, poll[p].total), ~Masked(poll[p].current),
           RendererInv
    PROVE  /\ Answered(p) /\ media = song
           /\ poll[p].current =< pos /\ (lag => pos = 0)
           /\ poll[p].current # 0 => poll[p].of = song
<1>1. Answered(p) /\ Trusts
    BY DEF Answered, Current, Trusts, Valid
<1>2. phase \in Phases /\ poll[p].current \in Nat \cup {-1} /\ pos \in Nat /\ baseline \in Nat \cup {-1}
    BY DEF TypeOK, GateTypeOK, Polls, Unknown
<1>3. CASE poll[p].stale
    <2>1. poll[p].current = 0
        BY <1>1, <1>2, <1>3 DEF RendererInv, Trusts, Phases, Masked, Rewound, Unknown
    <2> QED
        BY <1>1, <1>2, <1>3, <2>1 DEF RendererInv
<1>4. CASE ~poll[p].stale
    BY <1>1, <1>4 DEF RendererInv
<1> QED
    BY <1>1, <1>3, <1>4 DEF RendererInv

\* Every step keeps the renderer where the gate can tell its old song from the
\* new one: the old song never falls behind the baseline.
LEMMA RendererStep ==
    ASSUME Undisturbed, HARDWARE, TypeOK, Coordination, ViewsNameSong, SyncAlone, RendererInv,
           [Next]_vars
    PROVE  RendererInv'
<1> USE DEF gateVars, clientVars, deviceVars
<1>0. /\ pos \in Nat /\ last_current \in Nat \cup {-1} /\ baseline \in Nat \cup {-1}
      /\ phase \in Phases /\ lag \in BOOLEAN
    BY DEF TypeOK, GateTypeOK, Unknown
<1>1. CASE SyncFetches
    BY <1>1, RendererFrame DEF SyncFetches, Goes, TypeOK, Actors
<1>2. CASE SyncApplies
    <2>1. /\ run["sync"].pc = "reply" /\ run'["sync"].pc \in {"idle", "lock"}
          /\ UNCHANGED <<poll, media, pos, heard, lag>>
        BY <1>2 DEF SyncApplies, Idle, TypeOK, Actors
    <2>2. CASE UNCHANGED <<song, last_current, baseline, phase, revision>>
        BY <2>1, <2>2, RendererFrame
    <2>3. CASE StartsAwaiting
        <3>1. phase' = "AwaitingCommand" /\ baseline' \in {baseline, last_current}
            BY <2>3 DEF StartsAwaiting
        <3>2. baseline' =< pos /\ (lag => baseline' =< 0)
            BY <1>0, <2>1, <2>3 DEF StartsAwaiting, RendererInv, Phases
        <3> QED
            BY <2>1, <3>1, <3>2, RendererAwaits
    <2> QED
        BY <1>2, <2>2, <2>3 DEF SyncApplies, update_song
<1>3. CASE SyncLocks
    <2>1. run["sync"].pc = "lock" /\ run'["sync"].pc # "loaded"
        BY <1>3 DEF SyncLocks, Finishes, Idle, TypeOK, Actors, Runs
    <2> QED
        BY <1>3, <2>1, RendererFrame DEF SyncLocks
<1>4. CASE Prepares("sync") \/ ChecksToken("sync")
    <2>1. run["sync"].pc # "loaded" /\ run'["sync"].pc # "loaded"
        BY <1>4 DEF Prepares, ChecksToken, Goes, Finishes, Idle, TypeOK, Actors, Runs
    <2> QED
        BY <1>4, <2>1, RendererFrame DEF Prepares, ChecksToken
<1>5. CASE DeviceLoads("sync")
    <2>1. /\ run["sync"].pc = "casting" /\ run'["sync"].pc = "loaded"
          /\ UNCHANGED <<song, baseline, phase>>
          /\ \/ lag' = FALSE /\ heard' = run["sync"].song
             \/ UNCHANGED pos /\ lag' = HARDWARE
        BY <1>5 DEF DeviceLoads, Goes, TypeOK, Actors, Runs
    <2>2. run["sync"].song = song /\ phase = "AwaitingCommand"
        BY <2>1 DEF Coordination, SyncIsOnSong, SyncAlone, Holding
    <2>3. baseline =< pos
        BY <2>1, <2>2 DEF RendererInv
    <2>4. lag' \/ heard' = song'
        BY <2>1, <2>2
    <2>5. lag' => baseline' =< pos'
        BY <2>1, <2>3
    <2> QED
        BY <2>1, <2>2, <2>4, <2>5, RendererAwaits
<1>6. CASE PlaySucceeds("sync")
    <2>1. /\ run["sync"].pc = "loaded" /\ run'["sync"].pc = "idle"
          /\ UNCHANGED <<poll, media, pos, heard, lag>>
        BY <1>6 DEF PlaySucceeds, Finishes, Idle, TypeOK, Actors
    <2>2. run["sync"].song = song /\ media = song /\ song # NoSong /\ phase = "AwaitingCommand"
          /\ run["sync"].token = revision
        BY <2>1 DEF Coordination, SyncIsOnSong, LoadedIsOnDevice, SyncAlone, Holding, Actors
    <2>3. /\ phase' = "Protecting" /\ last_current' = 0 /\ revision' = revision + 1
          /\ UNCHANGED <<song, baseline>>
        BY <1>6, <2>2 DEF PlaySucceeds, play_succeeded, Confirms
    <2>4. (lag \/ heard = song) /\ (lag => baseline =< pos)
        BY <2>1, <2>2 DEF RendererInv
    <2>5. \A p \in Pollers : ~Answered(p)'
        BY <2>1, <2>3, AnswersOutdated
    <2> QED
        BY <2>1, <2>2, <2>3, <2>4, <2>5 DEF RendererInv, Trusts
<1>7. ASSUME NEW p \in Pollers, PollAsks(p) PROVE RendererInv'
    <2>1. UNCHANGED <<run, song, last_current, baseline, phase, revision, media, pos, heard, lag>>
        BY <1>7 DEF PollAsks
    <2>2. \A q \in Pollers : Answered(q)' => Answered(q) /\ poll'[q] = poll[q]
        BY <1>7, <2>1, PollFields DEF Answered, Current, Trusts
    <2> QED
        BY <2>1, <2>2 DEF RendererInv, Trusts
<1>8. ASSUME NEW p \in Pollers, PollSamples(p) PROVE RendererInv'
    <2>1. UNCHANGED <<run, song, last_current, baseline, phase, revision, media, pos, heard, lag>>
        BY <1>8 DEF PollSamples
    <2>2. \A q \in Pollers : q # p /\ Answered(q)' => Answered(q) /\ poll'[q] = poll[q]
        BY <1>8, <2>1, PollFields DEF Answered, Current, Trusts
    <2>3. poll'[p].current = pos /\ poll'[p].of = heard /\ poll'[p].stale = lag
        BY <1>8, PollFields
    <2>4. Answered(p)' => Trusts
        BY <2>1 DEF Answered, Trusts
    <2> QED
        BY <1>0, <2>1, <2>2, <2>3, <2>4 DEF RendererInv, Trusts, Phases
<1>9. ASSUME NEW p \in Pollers, PollErrs(p) PROVE RendererInv'
    <2>1. UNCHANGED <<run, song, last_current, baseline, phase, revision, media, pos, heard, lag>>
        BY <1>9 DEF PollErrs
    <2>2. poll'[p].current = -1
        BY <1>9, PollFields DEF ViewsNameSong
    <2>3. \A q \in Pollers : Answered(q)' => Answered(q) /\ poll'[q] = poll[q]
        BY <1>9, <2>1, <2>2, PollFields DEF Answered, Current, Trusts
    <2> QED
        BY <2>1, <2>3 DEF RendererInv, Trusts
<1>10. ASSUME NEW p \in Pollers, PollDelivers(p) PROVE RendererInv'
    <2> DEFINE used == Valid(poll[p].rev, poll[p].current, poll[p].total) /\ ~Masked(poll[p].current)
    <2>1. /\ poll[p].pc = "answered" /\ UNCHANGED <<run, song, baseline, media, pos, heard, lag>>
          /\ used => /\ last_current' = poll[p].current /\ phase' = "Ready"
                     /\ revision' = IF phase = "Ready" THEN revision ELSE revision + 1
                     /\ phase # "AwaitingCommand"
          /\ ~used => UNCHANGED <<last_current, phase, revision>>
        BY <1>10 DEF PollDelivers, filter, Valid
    <2>2. \A q \in Pollers : Answered(q)' => poll'[q] = poll[q] /\ poll[q].pc = "answered" /\ q # p
        BY <1>10, PollFields DEF Answered
    <2>3. CASE ~used
        <3>1. \A q \in Pollers : Answered(q)' => Answered(q) /\ poll'[q] = poll[q]
            BY <2>1, <2>2, <2>3 DEF Answered, Current, Trusts
        <3> QED
            BY <2>1, <2>3, <3>1 DEF RendererInv, Trusts
    <2>4. CASE used
        <3>1. Answered(p) /\ poll[p].current =< pos /\ (lag => pos = 0)
            BY <2>1, <2>4, ProgressGateAssumption, UsedSample
        <3>2. Trusts /\ Trusts'
            BY <2>1, <2>4, <3>1 DEF Answered, Trusts
        <3>3. \A q \in Pollers : Answered(q)' => Answered(q) /\ poll'[q] = poll[q] /\ phase = "Ready"
            <4>1. revision \in Nat /\ \A q \in Pollers : poll[q].rev \in Nat /\ poll[q].rev =< revision
                BY DEF TypeOK, GateTypeOK, Polls, ViewsNameSong
            <4>2. \A q \in Pollers : Answered(q)' => phase = "Ready"
                BY <2>1, <2>2, <2>4, <4>1 DEF Answered, Current
            <4> QED
                BY <2>1, <2>2, <2>4, <3>2, <4>2 DEF Answered, Current
        <3> QED
            BY <2>1, <2>4, <3>1, <3>2, <3>3 DEF RendererInv
    <2> QED
        BY <2>3, <2>4
<1>11. CASE WindowElapses
    <2>1. /\ phase = "Protecting" /\ phase' = "Elapsed" /\ ~lag
          /\ UNCHANGED <<run, song, last_current, baseline, revision, poll, media, pos, heard, lag>>
          /\ \A p \in Pollers : poll[p].pc = "answered" /\ poll[p].rev = revision => ~poll[p].stale
        BY <1>11 DEF WindowElapses
    <2>2. \A p \in Pollers : Answered(p)' => Answered(p) /\ ~poll[p].stale
        BY <2>1 DEF Answered, Current, Trusts
    <2> QED
        BY <2>1, <2>2 DEF RendererInv, Trusts
<1>12. CASE DeviceAdvances
    <2>1. /\ ~lag /\ pos' = pos + 1
          /\ UNCHANGED <<run, song, last_current, baseline, phase, revision, poll, media, heard, lag>>
        BY <1>12 DEF DeviceAdvances
    <2>2. \A p \in Pollers : Answered(p)' => Answered(p) /\ poll[p].current \in Nat
        BY <2>1 DEF Answered, Current, Trusts, TypeOK, Polls
    <2> QED
        BY <1>0, <2>1, <2>2 DEF RendererInv, Trusts
<1>13. CASE DeviceCatchesUp
    <2>1. /\ lag /\ lag' = FALSE /\ pos' = 0 /\ heard' = media
          /\ UNCHANGED <<run, song, last_current, baseline, phase, revision, poll, media>>
        BY <1>13 DEF DeviceCatchesUp
    <2>2. run["sync"].pc = "loaded" => media = song
        BY DEF Coordination, SyncIsOnSong, LoadedIsOnDevice, Holding, Actors
    <2>3. \A p \in Pollers : Answered(p)' => Answered(p) /\ poll[p].stale
        BY <2>1 DEF Answered, Current, Trusts, RendererInv
    <2> QED
        BY <1>0, <2>1, <2>2, <2>3 DEF RendererInv, Trusts
<1>14. CASE (\E dir \in Directions : TriggerSwitch(dir)) \/ RoomSteps \/ RequestSteps \/ UNCHANGED vars
    BY <1>14, RendererFrame DEF TriggerSwitch, RoomSteps, RequestSteps, vars
<1>15. \A a \in Actors : ActorSteps(a) =>
          \/ Prepares("sync") \/ ChecksToken("sync") \/ DeviceLoads("sync") \/ PlaySucceeds("sync")
    BY OnlySync DEF ActorSteps, Actors
<1> QED
    BY <1>1, <1>2, <1>3, <1>4, <1>5, <1>6, <1>7, <1>8, <1>9, <1>10, <1>11, <1>12, <1>13, <1>14, <1>15,
       OnlySync
    DEF Next, PollerSteps

-----------------------------------------------------------------------------
(* What the gate shows and what uses the trigger.                          *)

\* At the start no sample is under way.
LEMMA SamplesInit == Init => SamplesInv
<1> SUFFICES ASSUME Init PROVE SamplesInv
    OBVIOUS
<1>1. /\ song = NoSong /\ phase = "Ready" /\ last_current = -1 /\ revision = 0
      /\ hash = NoHash /\ lag = FALSE /\ cached = NoSong /\ pos \in Nat
      /\ \A a \in Actors : run[a] = Idle
      /\ \A p \in Pollers : poll[p] = NoPoll
    BY PlaybackAssumption DEF Init, GateInit, Unknown
<1>2. Singing(NoHash) = NoSong
    BY DEF Singing, NoHash, Songs, NoSong
<1>3. ViewsNameSong
    BY <1>1, <1>2 DEF ViewsNameSong, Idle, NoPoll, Current, Trusts
<1>4. SyncAlone
    BY <1>1 DEF SyncAlone, Idle, Holding, Actors
<1>5. RendererInv /\ ClockIsOfSong
    BY <1>1 DEF RendererInv, ClockIsOfSong, Answered, Current, NoPoll, Trusts, Idle, Actors
<1> QED
    BY <1>3, <1>4, <1>5 DEF SamplesInv

\* SamplesInv is inductive beside PlaybackInv.
LEMMA SamplesStep ==
    ASSUME Undisturbed, PlaybackInv, SamplesInv, [Next]_vars
    PROVE  SamplesInv'
<1>1. TypeOK /\ Coordination /\ ViewsNameSong
    BY DEF PlaybackInv, SamplesInv
<1>2. ViewsNameSong'
    BY <1>1, ViewsStep
<1>3. HARDWARE => SyncAlone' /\ RendererInv'
    BY <1>1, AloneStep, RendererStep DEF SamplesInv
<1>4. ~HARDWARE => ClockIsOfSong'
    BY <1>1, ClockStep DEF SamplesInv
<1> QED
    BY <1>2, <1>3, <1>4 DEF SamplesInv

\* A sample the gate would show as it is, other than zero, is of its song.
LEMMA ShownSample ==
    ASSUME PlaybackInv, SamplesInv, NEW p \in Pollers, poll[p].pc = "answered",
           Shown(poll[p].rev, poll[p].current, poll[p].total)[1] > 0
    PROVE  /\ poll[p].of = song
           /\ Shown(poll[p].rev, poll[p].current, poll[p].total) = <<poll[p].current, poll[p].total>>
           /\ Answered(p)
<1>1. TypeOK /\ ViewsNameSong
    BY DEF PlaybackInv, SamplesInv
<1>2. /\ Valid(poll[p].rev, poll[p].current, poll[p].total) /\ ~Masked(poll[p].current)
      /\ poll[p].current > 0
      /\ Shown(poll[p].rev, poll[p].current, poll[p].total) = <<poll[p].current, poll[p].total>>
    BY DEF Shown
<1>3. Answered(p) /\ Trusts
    BY <1>2 DEF Answered, Current, Trusts, Valid
<1>4. CASE HARDWARE
    <2>1. RendererInv
        BY <1>4 DEF SamplesInv
    <2> QED
        BY <1>1, <1>2, <1>3, <2>1, UsedSample, ProgressGateAssumption
<1>5. CASE ~HARDWARE
    BY <1>2, <1>3, <1>5 DEF SamplesInv, ClockIsOfSong
<1> QED
    BY <1>4, <1>5

\* Only the answer to a driving poll uses the trigger.
LEMMA TriggerIsUsed ==
    ASSUME Next, fired', ~fired
    PROVE  \E q \in Pollers : PollDelivers(q) /\ TriggersOn(q)
<1> USE DEF gateVars, autoNextVars, roomVars, clientVars, deviceVars
<1>1. ASSUME NEW q \in Pollers, PollDelivers(q) PROVE TriggersOn(q)
    BY <1>1 DEF PollDelivers
<1>2. ~(SyncFetches \/ SyncApplies \/ SyncLocks \/ RecastStarts \/ RecastTimesOut)
    BY DEF SyncFetches, SyncApplies, SyncLocks, RecastStarts, begin_recast, RecastTimesOut
<1>3. ASSUME NEW a \in Actors PROVE ~ActorSteps(a)
    <2>1. ~PlaySucceeds(a)
        BY DEF PlaySucceeds, play_succeeded, reset_for_playback
    <2> QED
        BY <2>1 DEF ActorSteps, Prepares, ChecksToken, DeviceLoads, PlayFails
<1>4. ASSUME NEW q \in Pollers PROVE ~PollAsks(q) /\ ~PollSamples(q) /\ ~PollErrs(q)
    <2>1. ~PollAsks(q)
        BY DEF PollAsks
    <2>2. ASSUME PollSamples(q) PROVE FALSE
        <3>1. UNCHANGED fired
            BY <2>2 DEF PollSamples
        <3> QED
            BY <3>1
    <2>3. ~PollErrs(q)
        BY DEF PollErrs
    <2> QED
        BY <2>1, <2>2, <2>3
<1>5. ~((\E dir \in Directions : TriggerSwitch(dir)) \/ Seeks \/ DeviceAdvances \/ DeviceCatchesUp
        \/ WindowElapses \/ RoomSteps)
    BY DEF TriggerSwitch, Seeks, DeviceAdvances, DeviceCatchesUp, WindowElapses, RoomSteps
<1>6. ~RequestSteps
    BY DEF RequestSteps, RetryIsAnswered, RetryIsUnanswered, RetryWakes, RequestIsServed
<1> QED
    BY <1>1, <1>2, <1>3, <1>4, <1>5, <1>6 DEF Next, PollerSteps

\* SamplesInv is an invariant of the undisturbed program.
LEMMA SamplesInvariant ==
    ASSUME Undisturbed
    PROVE  Spec => [](PlaybackInv /\ SamplesInv)
<1>1. PlaybackInv /\ SamplesInv /\ [Next]_vars => SamplesInv'
    BY SamplesStep
<1> QED
    BY <1>1, SamplesInit, PlaybackInvariant, PTL DEF Spec

\* Progress other than zero is shown only if it is progress of the song the gate
\* shows: on the simulated clock whatever happens, on a renderer as long as the
\* sync task alone commands it, no command fails and nobody seeks.
THEOREM ShownStaysOfSong ==
    ASSUME Undisturbed
    PROVE  Spec => ShownIsOfSong
<1>1. ASSUME PlaybackInv, SamplesInv, [Next]_vars, NEW p \in Pollers,
             poll[p].pc = "answered" /\ poll'[p].pc = "idle",
             Shown(poll[p].rev, poll[p].current, poll[p].total)[1] > 0
      PROVE  poll[p].of = song
    BY <1>1, ShownSample
<1>2. PlaybackInv /\ SamplesInv /\ [Next]_vars =>
         [\A p \in Pollers :
             /\ poll[p].pc = "answered" /\ poll'[p].pc = "idle"
             /\ Shown(poll[p].rev, poll[p].current, poll[p].total)[1] > 0
             => poll[p].of = song]_vars
    BY <1>1
<1> QED
    BY <1>2, SamplesInvariant, PTL DEF Spec, ShownIsOfSong

\* Under the same conditions the trigger is used only at the end of the song the
\* gate shows, with the hash of a list in which this song is sung; and where
\* prepare_duration knows the song's length, at its real end.
THEOREM AutoNextStaysEarned ==
    ASSUME Undisturbed
    PROVE  Spec => AutoNextIsEarned
<1>1. ASSUME PlaybackInv, SamplesInv, Next, NEW p \in Pollers,
             fired' /\ ~fired /\ poll[p].pc = "answered" /\ poll'[p].pc = "idle"
      PROVE  /\ poll[p].of = song
             /\ Singing(poll[p].hash) = song
             /\ song \in Prefilled => AtEnd(poll[p].current, LENGTH[song])
    <2>1. TypeOK /\ ViewsNameSong
        BY <1>1 DEF PlaybackInv, SamplesInv
    <2>2. PICK q \in Pollers : PollDelivers(q) /\ TriggersOn(q)
        BY <1>1, TriggerIsUsed
    <2>3. p = q
        BY <1>1, <2>1, <2>2, PollFields
    <2> DEFINE shown == Shown(poll[p].rev, poll[p].current, poll[p].total)
    <2>4. AtEnd(shown[1], shown[2]) /\ poll[p].pc = "answered"
        BY <2>2, <2>3 DEF TriggersOn, PollDelivers
    <2>5. shown[1] > 0
        <3>1. shown[1] \in Int
            BY <2>1 DEF TypeOK, Polls, Shown
        <3> QED
            BY <2>4, <3>1, AutoNextAssumption DEF AtEnd
    <2>6. poll[p].of = song /\ shown = <<poll[p].current, poll[p].total>> /\ Answered(p)
        BY <1>1, <2>4, <2>5, ShownSample
    <2>7. Singing(poll[p].hash) = song
        BY <2>1, <2>6 DEF ViewsNameSong, Answered
    <2>8. ASSUME song \in Prefilled PROVE AtEnd(poll[p].current, LENGTH[song])
        <3>1. poll[p].known = song /\ song # NoSong
            BY <2>1, <2>6, <2>8 DEF ViewsNameSong, Answered, Trusts
        <3>2. poll[p].total = LENGTH[song]
            BY <2>1, <2>6, <3>1 DEF ViewsNameSong, Answered
        <3> QED
            BY <2>4, <2>6, <3>2
    <2> QED
        BY <2>6, <2>7, <2>8
<1>2. PlaybackInv /\ SamplesInv /\ [Next]_vars =>
         [\A p \in Pollers :
             fired' /\ ~fired /\ poll[p].pc = "answered" /\ poll'[p].pc = "idle" =>
                 /\ poll[p].of = song
                 /\ Singing(poll[p].hash) = song
                 /\ song \in Prefilled => AtEnd(poll[p].current, LENGTH[song])]_vars
    BY <1>1
<1> QED
    BY <1>2, SamplesInvariant, PTL DEF Spec, AutoNextIsEarned

=============================================================================
