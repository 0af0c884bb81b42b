--------------------------- MODULE RoomSyncProofs ---------------------------
(***************************************************************************)
(* What MCRoomSync checks on a small room, proved for every room: any      *)
(* songs and parts, any number of callers and of changes.  The proofs go   *)
(* through three inductive invariants: the types, what the task has        *)
(* handled, and what the calls of the part selection have under way.       *)
(***************************************************************************)
EXTENDS MCRoomSync, SequenceTheorems, TLAPS

-----------------------------------------------------------------------------
(* Types.                                                                  *)

LEMMA TypeInit == Init => TypeOK
<1> SUFFICES ASSUME Init PROVE TypeOK
    OBVIOUS
<1> USE RoomSyncAssumption DEF Init, SongOrNone
<1>1. /\ room \in SongOrNone /\ changes \in 0 .. MaxChanges
      /\ mode \in {"WS", "POLLING"} /\ link \in {"none", "up", "broken"}
      /\ frames \in Seq(SongOrNone)
      /\ hash \in SongOrNone \cup {NoHash}
      /\ gate \in SongOrNone /\ cached \in SongOrNone
    OBVIOUS
<1>2. task \in Task /\ task.pc # "calling"
    BY DEF Task, Idle, NoAnswer
<1>3. /\ calls \in [Callers -> Call]
      /\ \A c \in Callers : calls[c].pc # "checking"
    BY DEF Call, NoCall, Results
<1>4. /\ posted \subseteq [caller : Callers, snap : Songs, page : Pages]
      /\ restarts \in [song : SongOrNone, left : BOOLEAN]
    OBVIOUS
<1> QED
    BY <1>1, <1>2, <1>3, <1>4 DEF TypeOK

\* The steps of the task leave the calls and the room alone.
LEMMA SyncTypes ==
    ASSUME TypeOK, Sync
    PROVE  TypeOK'
<1>1. UNCHANGED <<room, changes, mode, calls, posted>>
    BY DEF Sync, Connects, ConnectFails, PauseEnds, Ticks, LosesConnection, FrameArrives,
           FetchIsAnswered, FetchFails, FetchIsApplied, CallbackEnds, roomVars, partVars
<1>2. link' \in {"none", "up", "broken"}
    BY DEF Sync, Connects, ConnectFails, PauseEnds, Ticks, LosesConnection, FrameArrives,
           FetchIsAnswered, FetchFails, FetchIsApplied, CallbackEnds, TypeOK
<1>3. frames' \in Seq(SongOrNone)
  <2>1. frames' \in {frames, <<>>} \/ (frames # <<>> /\ frames' = Tail(frames))
    BY DEF Sync, Connects, ConnectFails, PauseEnds, Ticks, LosesConnection, FrameArrives,
           FetchIsAnswered, FetchFails, FetchIsApplied, CallbackEnds, roomVars
  <2>2. frames \in Seq(SongOrNone)
    BY DEF TypeOK
  <2>3. ASSUME frames # <<>> PROVE Tail(frames) \in Seq(SongOrNone)
    BY <2>2, <2>3, HeadTailProperties
  <2>4. <<>> \in Seq(SongOrNone)
    OBVIOUS
  <2> QED
    BY <2>1, <2>2, <2>3, <2>4
<1>4. task.answer.song \in SongOrNone /\ NoSong \in SongOrNone
    BY DEF TypeOK, Task, SongOrNone
<1>5. hash' \in SongOrNone \cup {NoHash} /\ gate' \in SongOrNone /\ cached' \in SongOrNone
    BY <1>4 DEF Sync, Connects, ConnectFails, PauseEnds, Ticks, LosesConnection, FrameArrives,
           FetchIsAnswered, FetchFails, FetchIsApplied, CallbackEnds, TypeOK
<1>6. restarts' \in [song : SongOrNone, left : BOOLEAN]
  <2>1. CASE FetchIsApplied
    <3>1. restarts.song \in SongOrNone /\ restarts.left \in BOOLEAN
      BY DEF TypeOK
    <3>2. CASE restarts' = [song |-> task.answer.song, left |-> FALSE]
      BY <1>4, <3>2
    <3>3. CASE Sees(task.answer.song)
      <4>1. (restarts.left \/ task.answer.song # restarts.song) \in BOOLEAN
        OBVIOUS
      <4> QED
        BY <3>3, <4>1 DEF Sees, TypeOK
    <3> QED
      BY <2>1, <3>2, <3>3 DEF FetchIsApplied
  <2>2. CASE ~FetchIsApplied
    BY <2>2 DEF Sync, Connects, ConnectFails, PauseEnds, Ticks, LosesConnection, FrameArrives,
           FetchIsAnswered, FetchFails, CallbackEnds, TypeOK
  <2> QED
    BY <2>1, <2>2
<1>7. task' \in Task /\ (task'.pc = "calling" => task'.answer.song # NoSong)
  <2> USE DEF TypeOK, Task
  <2>1. CASE Connects \/ ConnectFails \/ PauseEnds \/ Ticks \/ LosesConnection \/ FrameArrives \/ FetchFails
    BY <2>1 DEF Connects, ConnectFails, PauseEnds, Ticks, LosesConnection, FrameArrives, FetchFails, Goes
  <2>2. CASE FetchIsAnswered
    <3>1. (hash # room) \in BOOLEAN /\ (IF hash = room THEN gate ELSE room) \in SongOrNone
      OBVIOUS
    <3> QED
      BY <2>2, <3>1 DEF FetchIsAnswered
  <2>3. CASE FetchIsApplied
    <3>1. CASE task' = Idle
      BY <1>4, <3>1 DEF Idle, NoAnswer
    <3>2. CASE Goes("calling") /\ task.answer.song # NoSong
      BY <3>2 DEF Goes
    <3> QED
      BY <2>3, <3>1, <3>2 DEF FetchIsApplied
  <2>4. CASE CallbackEnds
    BY <1>4, <2>4 DEF CallbackEnds, Idle, NoAnswer
  <2> QED
    BY <2>1, <2>2, <2>3, <2>4 DEF Sync
<1> QED
    BY <1>1, <1>2, <1>3, <1>5, <1>6, <1>7 DEF TypeOK

\* The steps of one call of the part selection.
CallStep(c) ==
    \/ ListsParts(c) \/ SelectBegins(c) \/ Snapshot(c) \/ LookupFails(c) \/ PartsArrive(c)
    \/ EditIsAnswered(c) \/ EditIsTurnedDown(c) \/ EditIsUnanswered(c)

\* A call that ends keeps its type.
LEMMA EndsTypes ==
    ASSUME TypeOK, NEW c \in Callers, NEW result \in Results, Ends(c, result)
    PROVE  calls' \in [Callers -> Call]
<1>1. [calls[c] EXCEPT !.pc = "idle", !.result = result] \in Call
    BY DEF TypeOK, Call
<1> QED
    BY <1>1 DEF Ends, TypeOK

LEMMA CallTypes ==
    ASSUME TypeOK, NEW c \in Callers, CallStep(c)
    PROVE  TypeOK'
<1>0. UNCHANGED <<roomVars, syncVars>>
    BY DEF CallStep, ListsParts, SelectBegins, Snapshot, LookupFails, PartsArrive,
           EditIsAnswered, EditIsTurnedDown, EditIsUnanswered
<1>1. calls' \in [Callers -> Call]
  <2>0. \A result \in Results : Ends(c, result) => calls' \in [Callers -> Call]
    BY EndsTypes
  <2>1. CASE ListsParts(c)
    <3>1. [NoCall EXCEPT !.chosen = room, !.result = "listed"] \in Call
      BY DEF NoCall, Call, Results, SongOrNone, TypeOK
    <3> QED
      BY <2>1, <3>1 DEF ListsParts, TypeOK
  <2>2. CASE SelectBegins(c)
    <3>1. \A page \in Pages : [calls[c] EXCEPT !.pc = "selecting", !.page = page, !.result = "none"] \in Call
      BY ZenonT(60) DEF Call, Results, TypeOK
    <3> QED
      BY <2>2, <3>1 DEF SelectBegins, TypeOK
  <2>3. CASE Snapshot(c)
    <3>1. [calls[c] EXCEPT !.pc = "checking", !.snap = room] \in Call
      BY DEF Call, TypeOK
    <3> QED
      BY <2>0, <2>3, <3>1 DEF Snapshot, TypeOK, Results
  <2>4. CASE LookupFails(c)
    BY <2>0, <2>4 DEF LookupFails, Results
  <2>5. CASE PartsArrive(c)
    <3>1. [calls[c] EXCEPT !.pc = "posted"] \in Call
      BY DEF Call, TypeOK
    <3>2. [calls EXCEPT ![c].pc = "posted"] \in [Callers -> Call]
      BY <3>1 DEF TypeOK
    <3> QED
      BY <2>0, <2>5, <3>2 DEF PartsArrive, Results
  <2>6. CASE EditIsAnswered(c) \/ EditIsTurnedDown(c) \/ EditIsUnanswered(c)
    BY <2>0, <2>6 DEF EditIsAnswered, EditIsTurnedDown, EditIsUnanswered, Results
  <2> QED
    BY <2>1, <2>2, <2>3, <2>4, <2>5, <2>6 DEF CallStep
<1>2. posted' \subseteq [caller : Callers, snap : Songs, page : Pages]
  <2>1. CASE PartsArrive(c)
    <3>1. calls[c].snap \in Songs /\ calls[c].page \in Pages \cup {0}
      BY <2>1 DEF PartsArrive, TypeOK, Call, SongOrNone
    <3>2. calls[c].page \in PagesOf[calls[c].snap.id] => calls[c].page \in Pages
      BY <3>1, RoomSyncAssumption DEF Songs
    <3> QED
      BY <2>1, <3>1, <3>2 DEF PartsArrive, TypeOK
  <2>2. CASE ~PartsArrive(c)
    BY <2>2 DEF CallStep, ListsParts, SelectBegins, Snapshot, LookupFails,
           EditIsAnswered, EditIsTurnedDown, EditIsUnanswered, TypeOK
  <2> QED
    BY <2>1, <2>2
<1>3. \A d \in Callers : calls'[d].pc = "checking" => calls'[d].snap # NoSong
  <2> SUFFICES ASSUME NEW d \in Callers, calls'[d].pc = "checking"
               PROVE  calls'[d].snap # NoSong
    OBVIOUS
  <2>1. d # c => calls'[d] = calls[d]
    BY DEF CallStep, ListsParts, SelectBegins, Snapshot, LookupFails, PartsArrive, Ends,
           EditIsAnswered, EditIsTurnedDown, EditIsUnanswered, TypeOK
  <2>2. CASE d = c /\ Snapshot(c)
    BY ZenonT(60), <2>2 DEF Snapshot, Ends, TypeOK, Call
  <2>3. CASE d = c /\ ~Snapshot(c)
    <3>1. calls'[c].pc # "checking"
      <4>0. calls \in [Callers -> Call]
        BY DEF TypeOK
      <4>1. CASE ListsParts(c)
        BY <4>0, <4>1 DEF ListsParts, NoCall
      <4>2. CASE SelectBegins(c)
        BY <4>0, <4>2 DEF SelectBegins, Call
      <4>3. \A result : Ends(c, result) => calls'[c].pc = "idle"
        BY <4>0 DEF Ends, Call
      <4>4. CASE PartsArrive(c)
        BY <4>0, <4>3, <4>4 DEF PartsArrive, Call
      <4>5. CASE LookupFails(c) \/ EditIsAnswered(c) \/ EditIsTurnedDown(c) \/ EditIsUnanswered(c)
        BY <4>3, <4>5 DEF LookupFails, EditIsAnswered, EditIsTurnedDown, EditIsUnanswered
      <4> QED
        BY <2>3, <4>1, <4>2, <4>4, <4>5 DEF CallStep
    <3> QED
      BY <2>3, <3>1
  <2> QED
    BY <2>1, <2>2, <2>3 DEF TypeOK
<1> QED
    BY <1>0, <1>1, <1>2, <1>3 DEF roomVars, syncVars, TypeOK

\* The server's dealing with an edit.
LEMMA EditTypes ==
    ASSUME TypeOK, NEW e \in posted, EditIsServed(e) \/ EditIsLost(e)
    PROVE  TypeOK'
<1>1. e.caller \in Callers /\ e.snap \in Songs /\ e.page \in Pages
    BY DEF TypeOK
<1>2. CASE EditIsLost(e)
    BY <1>2 DEF EditIsLost, TypeOK, roomVars, syncVars
<1>3. CASE EditIsServed(e) /\ e.snap = room
  <2>1. room' \in Songs
    BY <1>1, <1>3 DEF EditIsServed, Songs
  <2>2. frames' \in Seq(SongOrNone)
    <3>1. frames \in Seq(SongOrNone) /\ room' \in SongOrNone
      BY <2>1 DEF TypeOK, SongOrNone
    <3>2. Append(frames, room') \in Seq(SongOrNone)
      BY <3>1
    <3> QED
      BY <1>3, <3>1, <3>2 DEF EditIsServed, Pushes
  <2> DEFINE old == calls[e.caller]
             new == [old EXCEPT !.done = TRUE, !.pc = IF old.pc = "posted" THEN "executed" ELSE old.pc]
  <2>6. old \in Call
    BY <1>1 DEF TypeOK
  <2> HIDE DEF old
  <2>3. /\ new \in Call /\ new.snap = old.snap
        /\ new.pc = "checking" => old.pc = "checking"
    BY <2>6 DEF Call
  <2>4. calls' = [calls EXCEPT ![e.caller] = new]
    BY <1>3 DEF EditIsServed, old
  <2> HIDE DEF new
  <2>5. /\ calls' \in [Callers -> Call]
        /\ \A d \in Callers : calls'[d].pc = "checking" => calls[d].pc = "checking" /\ calls'[d].snap = calls[d].snap
    BY <1>1, <2>3, <2>4 DEF TypeOK, old
  <2> QED
    BY <1>3, <2>1, <2>2, <2>5 DEF EditIsServed, TypeOK, syncVars, SongOrNone
<1>4. CASE EditIsServed(e) /\ e.snap # room
  <2> DEFINE old == calls[e.caller]
             new == [old EXCEPT !.pc = IF old.pc = "posted" THEN "refused" ELSE old.pc]
  <2>6. old \in Call
    BY <1>1 DEF TypeOK
  <2> HIDE DEF old
  <2>3. /\ new \in Call /\ new.snap = old.snap
        /\ new.pc = "checking" => old.pc = "checking"
    BY <2>6 DEF Call
  <2>4. calls' = [calls EXCEPT ![e.caller] = new]
    BY <1>4 DEF EditIsServed, old
  <2> HIDE DEF new
  <2>5. /\ calls' \in [Callers -> Call]
        /\ \A d \in Callers : calls'[d].pc = "checking" => calls[d].pc = "checking" /\ calls'[d].snap = calls[d].snap
    BY <1>1, <2>3, <2>4 DEF TypeOK, old
  <2> QED
    BY <1>4, <2>5 DEF EditIsServed, TypeOK, syncVars
<1> QED
    BY <1>2, <1>3, <1>4

\* Every step keeps every variable in its type.
LEMMA TypeStep == TypeOK /\ [Next]_vars => TypeOK'
<1> SUFFICES ASSUME TypeOK, [Next]_vars PROVE TypeOK'
    OBVIOUS
<1>1. CASE RoomChanges
  <2>1. frames' \in Seq(SongOrNone)
    BY <1>1 DEF RoomChanges, Pushes, TypeOK
  <2> QED
    BY <1>1, <2>1, RoomSyncAssumption DEF RoomChanges, TypeOK, syncVars, partVars
<1>2. CASE LinkBreaks
  <2>1. <<>> \in Seq(SongOrNone)
    OBVIOUS
  <2>2. frames' \in Seq(SongOrNone)
    BY <1>2, <2>1 DEF LinkBreaks, TypeOK
  <2> QED
    BY <1>2, <2>2 DEF LinkBreaks, TypeOK, partVars
<1>3. CASE UNCHANGED vars
    BY <1>3 DEF TypeOK, vars
<1>4. CASE Sync
    BY <1>4, SyncTypes
<1>5. CASE Parts
    BY <1>5, CallTypes, EditTypes DEF Parts, CallStep
<1> QED
    BY <1>1, <1>2, <1>3, <1>4, <1>5 DEF Next

\* Every variable keeps its type, whatever the room, its songs and its parts.
THEOREM TypeCorrect == Spec => []TypeOK
BY TypeInit, TypeStep, PTL DEF Spec

-----------------------------------------------------------------------------
(* What the task has handled.  Between two answers the cache and the gate  *)
(* name the same song; while a callback runs the gate is ahead of it.  The *)
(* list hash is the gate's song once a list has been seen, so an answer    *)
(* "not changed" is the gate's song, as FetchIsAnswered reads it.          *)

Handled ==
    /\ task.pc # "calling" => cached = gate
    /\ task.pc = "calling" => task.answer.song = gate
    /\ hash \in {gate, NoHash}
    /\ task.pc = "answered" /\ ~task.answer.changed => task.answer.song = gate /\ hash # NoHash
    /\ task.pc = "answered" /\ task.answer.changed => task.answer.song # NoHash
    /\ restarts.left \/ restarts.song = gate

\* No song of the room is the song nobody has seen.
LEMMA SongIsNoHash == NoHash \notin SongOrNone
BY RoomSyncAssumption DEF NoHash, SongOrNone, Songs, NoSong

LEMMA HandledStep ==
    ASSUME TypeOK, Handled, [Next]_vars
    PROVE  Handled'
<1>1. CASE RoomChanges \/ LinkBreaks \/ UNCHANGED vars
  <2>1. UNCHANGED <<task, gate, cached, hash, restarts>>
    BY <1>1 DEF RoomChanges, LinkBreaks, vars, syncVars
  <2> QED
    BY <2>1 DEF Handled
<1>2. CASE Parts
  <2>1. UNCHANGED syncVars
    BY <1>2 DEF Parts, ListsParts, SelectBegins, Snapshot, LookupFails, PartsArrive,
           EditIsAnswered, EditIsTurnedDown, EditIsUnanswered, EditIsServed, EditIsLost
  <2> QED
    BY <2>1 DEF Handled, syncVars
<1>3. CASE Connects \/ ConnectFails \/ PauseEnds \/ Ticks \/ LosesConnection \/ FrameArrives \/ FetchFails
  <2>1. /\ UNCHANGED <<gate, cached, hash, restarts>>
        /\ task.pc \notin {"calling", "answered"} /\ task'.pc \notin {"calling", "answered"}
    BY <1>3 DEF Connects, ConnectFails, PauseEnds, Ticks, LosesConnection, FrameArrives, FetchFails,
           Goes, TypeOK, Task
  <2> QED
    BY <2>1 DEF Handled
<1>4. CASE FetchIsAnswered
  <2>1. room # NoHash
    BY SongIsNoHash DEF TypeOK
  <2>2. /\ task'.pc = "answered" /\ task'.answer.changed = (hash # room)
        /\ task'.answer.song = IF hash = room THEN gate ELSE room
    BY <1>4 DEF FetchIsAnswered
  <2>3. UNCHANGED <<gate, cached, hash, restarts>> /\ task.pc # "calling"
    BY <1>4 DEF FetchIsAnswered
  <2> QED
    BY <2>1, <2>2, <2>3 DEF Handled
<1>5. CASE FetchIsApplied
  <2>1. /\ gate' = task.answer.song
        /\ hash' \in {gate', NoHash}
    BY <1>5 DEF FetchIsApplied, Handled
  <2>2. CASE task.answer.song # cached /\ task.answer.song # NoSong
    <3>1. task' = [task EXCEPT !.pc = "calling"] /\ restarts' = [song |-> task.answer.song, left |-> FALSE]
      BY <1>5, <2>2 DEF FetchIsApplied, Goes
    <3>2. task'.pc = "calling" /\ task'.answer = task.answer
      BY <3>1 DEF TypeOK, Task
    <3> QED
      BY <2>1, <3>1, <3>2 DEF Handled
  <2>3. CASE ~(task.answer.song # cached /\ task.answer.song # NoSong)
    <3>1. task' = Idle /\ cached' = task.answer.song /\ Sees(task.answer.song)
      BY <1>5, <2>3 DEF FetchIsApplied
    <3>2. restarts'.left \/ restarts'.song = task.answer.song
      BY <3>1 DEF Sees, TypeOK
    <3> QED
      BY <2>1, <3>1, <3>2 DEF Handled, Idle
  <2> QED
    BY <2>2, <2>3
<1>6. CASE CallbackEnds
  BY <1>6 DEF CallbackEnds, Handled, Idle
<1> QED
  BY <1>1, <1>2, <1>3, <1>4, <1>5, <1>6 DEF Next, Sync

LEMMA HandledAlways == Spec => [](TypeOK /\ Handled)
<1>1. Init => TypeOK /\ Handled
  BY TypeInit DEF Init, Handled, Idle, NoAnswer
<1>2. TypeOK /\ Handled /\ [Next]_vars => (TypeOK /\ Handled)'
  BY TypeStep, HandledStep
<1> QED
  BY <1>1, <1>2, PTL DEF Spec

\* A song that has been handled is not started again unless the client has
\* seen the room without it in between.
THEOREM NoRestartHolds == Spec => NoRestart
<1> DEFINE Step == task.pc = "answered" /\ task'.pc = "calling" =>
                     restarts.left \/ restarts.song # task.answer.song
<1>1. TypeOK /\ Handled /\ [Next]_vars => [Step]_vars
  <2> SUFFICES ASSUME TypeOK, Handled, Next, task.pc = "answered", task'.pc = "calling",
                      ~restarts.left, restarts.song = task.answer.song
               PROVE  FALSE
    BY DEF vars
  <2>1. FetchIsApplied
    BY DEF Next, Sync, Parts, Connects, ConnectFails, PauseEnds, Ticks, LosesConnection, FrameArrives,
           FetchIsAnswered, FetchFails, CallbackEnds, RoomChanges, LinkBreaks, syncVars,
           ListsParts, SelectBegins, Snapshot, LookupFails, PartsArrive,
           EditIsAnswered, EditIsTurnedDown, EditIsUnanswered, EditIsServed, EditIsLost
  <2>2. task.answer.song = cached
    BY DEF Handled
  <2> QED
    BY <2>1, <2>2 DEF FetchIsApplied, Idle
<1> QED
  BY <1>1, HandledAlways, PTL DEF Spec, NoRestart

-----------------------------------------------------------------------------
(* The task implements SongFollower: an answered fetch is a look, the      *)
(* application of an answer without a song to play and the end of a        *)
(* callback are its dealing with what it saw.                              *)

LEMMA StepsMap ==
    ASSUME TypeOK, Handled, [Next]_vars
    PROVE  [Follower!Next]_(Follower!vars)
<1> USE DEF Follower!Next, Follower!vars
<1>1. CASE RoomChanges
  BY <1>1 DEF RoomChanges, Follower!RoomChanges, SongOrNone, syncVars
<1>2. CASE LinkBreaks \/ UNCHANGED vars
  BY <1>2 DEF LinkBreaks, vars
<1>3. CASE Parts
  <2>1. UNCHANGED syncVars /\ (room' = room \/ room' \in SongOrNone)
    BY <1>3, TypeStep DEF Parts, ListsParts, SelectBegins, Snapshot, LookupFails, PartsArrive, TypeOK,
           EditIsAnswered, EditIsTurnedDown, EditIsUnanswered, EditIsServed, EditIsLost, Next
  <2> QED
    BY <2>1 DEF Follower!RoomChanges, SongOrNone, syncVars
<1>4. CASE Connects \/ ConnectFails \/ PauseEnds \/ Ticks \/ LosesConnection \/ FrameArrives \/ FetchFails
  <2>1. /\ UNCHANGED <<room, gate, cached>>
        /\ task.pc # "answered" /\ task'.pc # "answered"
    BY <1>4 DEF Connects, ConnectFails, PauseEnds, Ticks, LosesConnection, FrameArrives, FetchFails,
           Goes, TypeOK, Task, roomVars
  <2> QED
    BY <2>1
<1>5. CASE FetchIsAnswered
  <2>1. task.pc = "fetching" /\ cached = gate
    BY <1>5 DEF FetchIsAnswered, Handled
  <2>2. hash = room => gate = room
    BY SongIsNoHash DEF Handled, TypeOK
  <2>3. task'.pc = "answered" /\ task'.answer.song = room /\ UNCHANGED <<room, cached>>
    BY <1>5, <2>2 DEF FetchIsAnswered, roomVars
  <2> QED
    BY <2>1, <2>3 DEF Follower!Looks
<1>6. CASE FetchIsApplied
  <2>1. /\ task.pc = "answered" /\ gate' = task.answer.song /\ UNCHANGED room
        /\ cached' \in {cached, task.answer.song}
    BY <1>6 DEF FetchIsApplied, roomVars
  <2>2. task'.pc # "answered"
    BY <1>6 DEF FetchIsApplied, Goes, Idle, TypeOK, Task
  <2> QED
    BY <2>1, <2>2 DEF Follower!Handles
<1>7. CASE CallbackEnds
  <2>1. /\ task.pc = "calling" /\ task' = Idle /\ cached' = task.answer.song
        /\ UNCHANGED <<room, gate>>
    BY <1>7 DEF CallbackEnds, roomVars
  <2> QED
    BY <2>1 DEF Follower!Handles, Idle, Handled
<1> QED
  BY <1>1, <1>2, <1>3, <1>4, <1>5, <1>6, <1>7 DEF Next, Sync

\* The songs are handled in the order the room sang them, none is made up.
THEOREM RoomIsFollowed == Spec => FollowsInOrder
<1>1. Init => Follower!Init
  BY DEF Init, Follower!Init, Idle, SongOrNone
<1>2. TypeOK /\ Handled /\ [Next]_vars => [Follower!Next]_(Follower!vars)
  BY StepsMap
<1> QED
  BY <1>1, <1>2, HandledAlways, PTL DEF Spec, FollowsInOrder, Follower!Spec

-----------------------------------------------------------------------------
(* What the calls of the part selection have under way.  A call is either  *)
(* before its edit, or its edit is with the server and nothing else of it  *)
(* is, or its outcome is known to the server and its answer on its way.    *)

Honest(r) ==
    /\ r.pc \in {"selecting", "checking", "posted", "refused"} => ~r.done
    /\ r.pc = "executed" => r.done
    /\ r.pc # "idle" => r.result = "none"
    /\ r.pc = "idle" /\ r.result \notin {"submitted", "RESULT_UNKNOWN"} => ~r.done
    /\ r.pc = "idle" /\ r.result = "submitted" => r.done
    /\ r.pc = "checking" => r.snap.id = r.chosen.id

\* An edit on its way: its caller waits for it or has given it up.
Waits(r) == r.pc = "posted" \/ (r.pc = "idle" /\ r.result = "RESULT_UNKNOWN")

OnItsWay ==
    /\ \A e \in posted :
          /\ Waits(calls[e.caller])
          /\ e.snap.id = calls[e.caller].chosen.id
          /\ e.page \in PagesOf[e.snap.id]
    /\ \A e, f \in posted : e.caller = f.caller => e = f

CallsInv == (\A c \in Callers : Honest(calls[c])) /\ OnItsWay

\* A call that ends answers its result and keeps the rest.
LEMMA EndsAnswers ==
    ASSUME TypeOK, NEW c \in Callers, NEW result, Ends(c, result)
    PROVE  /\ calls'[c].pc = "idle" /\ calls'[c].result = result
           /\ calls'[c].done = calls[c].done /\ calls'[c].chosen = calls[c].chosen
           /\ \A d \in Callers \ {c} : calls'[d] = calls[d]
<1>1. calls[c] \in Call
  BY DEF TypeOK
<1>2. calls' = [calls EXCEPT ![c] = [calls[c] EXCEPT !.pc = "idle", !.result = result]]
  BY DEF Ends
<1> QED
  BY <1>1, <1>2 DEF TypeOK, Call

LEMMA CallIsHonest ==
    ASSUME TypeOK, CallsInv, NEW c \in Callers, CallStep(c)
    PROVE  Honest(calls'[c]) /\ \A d \in Callers \ {c} : calls'[d] = calls[d]
<1>0. calls \in [Callers -> Call] /\ calls[c] \in Call /\ Honest(calls[c])
  BY DEF TypeOK, CallsInv
<1>1. CASE ListsParts(c)
  BY <1>0, <1>1 DEF ListsParts, NoCall, Honest
<1>2. CASE SelectBegins(c)
  <2>1. PICK page \in Pages :
           calls' = [calls EXCEPT ![c] = [calls[c] EXCEPT !.pc = "selecting", !.page = page, !.result = "none"]]
    BY <1>2 DEF SelectBegins
  <2>2. ~calls[c].done
    BY <1>0, <1>2 DEF SelectBegins, Honest
  <2> QED
    BY <1>0, <2>1, <2>2 DEF Honest, Call
<1>3. CASE Snapshot(c) /\ calls' = [calls EXCEPT ![c] = [@ EXCEPT !.pc = "checking", !.snap = room]]
  <2>1. room.id = calls[c].chosen.id /\ calls[c].pc = "selecting"
    <3>1. calls'[c].pc = "checking"
      BY <1>0, <1>3 DEF Call
    <3>2. \A result : Ends(c, result) => calls'[c].pc = "idle"
      BY EndsAnswers
    <3> QED
      BY <1>3, <3>1, <3>2 DEF Snapshot
  <2>2. calls'[c] = [calls[c] EXCEPT !.pc = "checking", !.snap = room]
    BY <1>0, <1>3
  <2>3. \A d \in Callers \ {c} : calls'[d] = calls[d]
    BY <1>0, <1>3
  <2> QED
    BY <1>0, <2>1, <2>2, <2>3 DEF Honest, Call
<1>4. CASE PartsArrive(c) /\ calls' = [calls EXCEPT ![c].pc = "posted"]
  <2>1. calls[c].pc = "checking"
    BY <1>4 DEF PartsArrive
  <2> QED
    BY <1>0, <1>4, <2>1 DEF Honest, Call
<1>5. ASSUME NEW result \in Results \ {"none", "submitted", "RESULT_UNKNOWN"}, Ends(c, result), ~calls[c].done
      PROVE  Honest(calls'[c]) /\ \A d \in Callers \ {c} : calls'[d] = calls[d]
  BY <1>5, EndsAnswers DEF Honest
<1>6. CASE LookupFails(c) \/ EditIsTurnedDown(c)
  <2>1. ~calls[c].done
    BY <1>0, <1>6 DEF LookupFails, EditIsTurnedDown, Honest
  <2> QED
    BY <1>5, <1>6, <2>1 DEF LookupFails, EditIsTurnedDown, Results
<1>7. CASE Snapshot(c) /\ (Ends(c, "NO_CURRENT_SONG") \/ Ends(c, "STALE_CONTEXT"))
  <2>1. ~calls[c].done
    BY <1>0, <1>7 DEF Snapshot, Honest
  <2> QED
    BY <1>5, <1>7, <2>1 DEF Results
<1>8. CASE PartsArrive(c) /\ (Ends(c, "INVALID_PART") \/ Ends(c, "unchanged"))
  <2>1. ~calls[c].done
    BY <1>0, <1>8 DEF PartsArrive, Honest
  <2> QED
    BY <1>5, <1>8, <2>1 DEF Results
<1>9. CASE EditIsAnswered(c)
  <2>1. CASE calls[c].pc = "executed" /\ Ends(c, "submitted")
    BY <1>0, <2>1, EndsAnswers DEF Honest
  <2>2. CASE calls[c].pc = "refused" /\ Ends(c, "STALE_CONTEXT")
    BY <1>0, <1>5, <2>2 DEF Honest, Results
  <2> QED
    BY <1>9, <2>1, <2>2 DEF EditIsAnswered
<1>10. CASE EditIsUnanswered(c)
  BY <1>10, EndsAnswers DEF EditIsUnanswered, Honest
<1> QED
  BY <1>1, <1>2, <1>3, <1>4, <1>6, <1>7, <1>8, <1>9, <1>10 DEF CallStep, Snapshot, PartsArrive

\* The edits on their way stay those of calls that wait or gave up.
LEMMA CallKeepsEdits ==
    ASSUME TypeOK, CallsInv, NEW c \in Callers, CallStep(c)
    PROVE  OnItsWay'
<1>0. \A d \in Callers \ {c} : calls'[d] = calls[d]
  BY CallIsHonest
<1>1. calls[c] \in Call /\ posted \subseteq [caller : Callers, snap : Songs, page : Pages]
  BY DEF TypeOK
<1>2. CASE PartsArrive(c) /\ calls' = [calls EXCEPT ![c].pc = "posted"]
  <2> DEFINE edit == [caller |-> c, snap |-> calls[c].snap, page |-> calls[c].page]
  <2>1. calls'[c].pc = "posted" /\ calls'[c].chosen = calls[c].chosen
    BY <1>1, <1>2 DEF TypeOK, Call
  <2>2. \A e \in posted : e.caller # c
    BY <1>2 DEF PartsArrive, CallsInv, OnItsWay, Waits
  <2>3. posted' = posted \cup {edit} /\ edit.page \in PagesOf[edit.snap.id]
    <3>1. \A result : ~Ends(c, result)
      BY <2>1, EndsAnswers
    <3> QED
      BY <1>2, <3>1 DEF PartsArrive
  <2>4. edit.snap.id = calls[c].chosen.id
    BY <1>2 DEF PartsArrive, CallsInv, Honest
  <2>5. \A e \in posted : calls'[e.caller] = calls[e.caller]
    BY <1>0, <1>1, <2>2
  <2>6. edit.caller = c
    OBVIOUS
  <2> HIDE DEF edit
  <2>7. \A e \in posted' : e = edit \/ e \in posted
    BY <2>3
  <2>8. \A e \in posted' : /\ Waits(calls'[e.caller])
                          /\ e.snap.id = calls'[e.caller].chosen.id
                          /\ e.page \in PagesOf[e.snap.id]
    <3>1. Waits(calls'[c]) /\ edit.snap.id = calls'[c].chosen.id /\ edit.page \in PagesOf[edit.snap.id]
      BY <2>1, <2>3, <2>4 DEF Waits
    <3>2. \A e \in posted : /\ Waits(calls'[e.caller])
                           /\ e.snap.id = calls'[e.caller].chosen.id
                           /\ e.page \in PagesOf[e.snap.id]
      BY <2>5 DEF CallsInv, OnItsWay
    <3> QED
      BY <2>6, <2>7, <3>1, <3>2
  <2>9. \A e, f \in posted' : e.caller = f.caller => e = f
    BY <2>2, <2>6, <2>7 DEF CallsInv, OnItsWay
  <2> QED
    BY <2>8, <2>9 DEF OnItsWay, Waits
<1>3. CASE EditIsUnanswered(c)
  <2>1. posted' = posted /\ Waits(calls'[c]) /\ calls'[c].chosen = calls[c].chosen
    BY <1>3, EndsAnswers DEF EditIsUnanswered, Waits
  <2> QED
    BY <1>0, <1>1, <2>1 DEF CallsInv, OnItsWay
<1>4. CASE EditIsTurnedDown(c)
  <2>1. posted' \subseteq posted /\ \A e \in posted' : e.caller # c
    BY <1>4 DEF EditIsTurnedDown
  <2> QED
    BY <1>0, <1>1, <2>1 DEF CallsInv, OnItsWay
<1>5. CASE posted' = posted /\ ~Waits(calls[c])
  <2>1. \A e \in posted : e.caller # c
    BY <1>5 DEF CallsInv, OnItsWay
  <2> QED
    BY <1>0, <1>1, <1>5, <2>1 DEF CallsInv, OnItsWay
<1> QED
  BY <1>2, <1>3, <1>4, <1>5 DEF CallStep, ListsParts, SelectBegins, Snapshot, LookupFails, PartsArrive,
     EditIsAnswered, Waits

\* What the server's dealing with an edit does to the call it belongs to.
LEMMA EditChangesItsCall ==
    ASSUME TypeOK, CallsInv, NEW e \in posted, EditIsServed(e)
    PROVE  /\ calls'[e.caller].chosen = calls[e.caller].chosen
           /\ Honest(calls'[e.caller])
           /\ \A d \in Callers \ {e.caller} : calls'[d] = calls[d]
           /\ calls'[e.caller].done /\ ~calls[e.caller].done => e.snap = room
<1>0. /\ e.caller \in Callers /\ calls \in [Callers -> Call] /\ calls[e.caller] \in Call
      /\ Honest(calls[e.caller]) /\ Waits(calls[e.caller])
  BY DEF TypeOK, CallsInv, OnItsWay
<1> DEFINE old == calls[e.caller]
           made == [old EXCEPT !.done = TRUE, !.pc = IF old.pc = "posted" THEN "executed" ELSE old.pc]
           left == [old EXCEPT !.pc = IF old.pc = "posted" THEN "refused" ELSE old.pc]
<1>1. old \in Call /\ Honest(old) /\ Waits(old)
  BY <1>0
<1>2. CASE e.snap = room
  <2>1. calls' = [calls EXCEPT ![e.caller] = made]
    BY <1>2 DEF EditIsServed
  <2>2. calls'[e.caller] = made /\ \A d \in Callers \ {e.caller} : calls'[d] = calls[d]
    BY <1>0, <2>1
  <2> HIDE DEF old
  <2>3. Honest(made) /\ made.chosen = old.chosen
    BY <1>1 DEF Honest, Waits, Call
  <2> QED
    BY <1>2, <2>2, <2>3 DEF old
<1>3. CASE e.snap # room
  <2>1. calls' = [calls EXCEPT ![e.caller] = left]
    BY <1>3 DEF EditIsServed
  <2>2. calls'[e.caller] = left /\ \A d \in Callers \ {e.caller} : calls'[d] = calls[d]
    BY <1>0, <2>1
  <2> HIDE DEF old
  <2>3. Honest(left) /\ left.chosen = old.chosen /\ left.done = old.done
    BY <1>1 DEF Honest, Waits, Call
  <2> QED
    BY <2>2, <2>3 DEF old
<1> QED
  BY <1>2, <1>3

LEMMA CallsStep ==
    ASSUME TypeOK, CallsInv, [Next]_vars
    PROVE  CallsInv'
<1>1. CASE Sync \/ RoomChanges \/ LinkBreaks \/ UNCHANGED vars
  <2>1. UNCHANGED partVars
    BY <1>1 DEF Sync, Connects, ConnectFails, PauseEnds, Ticks, LosesConnection, FrameArrives,
           FetchIsAnswered, FetchFails, FetchIsApplied, CallbackEnds, RoomChanges, LinkBreaks, vars, partVars
  <2> QED
    BY <2>1 DEF partVars, CallsInv, OnItsWay
<1>2. ASSUME NEW c \in Callers, CallStep(c) PROVE CallsInv'
  <2>1. OnItsWay'
    BY <1>2, CallKeepsEdits
  <2>2. \A d \in Callers : Honest(calls'[d])
    BY <1>2, CallIsHonest DEF CallsInv
  <2> QED
    BY <2>1, <2>2 DEF CallsInv
<1>3. ASSUME NEW e \in posted, EditIsServed(e) PROVE CallsInv'
  <2>1. \A d \in Callers : Honest(calls'[d])
    BY <1>3, EditChangesItsCall DEF CallsInv
  <2>2. \A f \in posted' : f \in posted /\ f.caller # e.caller /\ calls'[f.caller] = calls[f.caller]
    BY <1>3, EditChangesItsCall DEF EditIsServed, CallsInv, OnItsWay, TypeOK
  <2> QED
    BY <2>1, <2>2 DEF CallsInv, OnItsWay
<1>4. ASSUME NEW e \in posted, EditIsLost(e) PROVE CallsInv'
  BY <1>4 DEF EditIsLost, CallsInv, OnItsWay
<1> QED
  BY <1>1, <1>2, <1>3, <1>4 DEF Next, Parts, CallStep

LEMMA CallsAlways == Spec => [](TypeOK /\ CallsInv)
<1>1. Init => TypeOK /\ CallsInv
  <2>1. Init => \A c \in Callers : Honest(calls[c])
    BY DEF Init, NoCall, Honest
  <2>2. Init => OnItsWay
    BY DEF Init, OnItsWay
  <2> QED
    BY <2>1, <2>2, TypeInit DEF CallsInv
<1>2. TypeOK /\ CallsInv /\ [Next]_vars => (TypeOK /\ CallsInv)'
  BY TypeStep, CallsStep
<1> QED
  BY <1>1, <1>2, PTL DEF Spec

\* "Submitted" is answered only for an edit the room has made, and a failure
\* other than "result unknown" only for one it will never make.
THEOREM AnswersHold == Spec => []AnswersAreHonest
<1>1. TypeOK /\ CallsInv => AnswersAreHonest
  BY DEF CallsInv, Honest, AnswersAreHonest
<1> QED
  BY <1>1, CallsAlways, PTL

\* An edit changes only the song the app showed, and only to a part it has.
THEOREM EditIsSafe == Spec => EditHitsItsSong
<1> DEFINE Step == \A c \in Callers : calls'[c].done /\ ~calls[c].done =>
                     /\ room.id = calls[c].chosen.id /\ room'.id = room.id
                     /\ room'.page \in PagesOf[room.id]
<1>1. TypeOK /\ CallsInv /\ [Next]_vars => [Step]_vars
  <2> SUFFICES ASSUME TypeOK, CallsInv, Next, NEW c \in Callers, calls'[c].done, ~calls[c].done
               PROVE  /\ room.id = calls[c].chosen.id /\ room'.id = room.id
                      /\ room'.page \in PagesOf[room.id]
    BY DEF vars
  <2>1. ASSUME NEW d \in Callers, CallStep(d) PROVE FALSE
    <3>1. c = d /\ Honest(calls'[c])
      BY <2>1, CallIsHonest
    <3>2. CASE \E result : Ends(c, result)
      BY <3>2, EndsAnswers
    <3>3. CASE \A result : ~Ends(c, result)
      <4> DEFINE Before == /\ calls'[c].pc \in {"idle", "selecting", "checking", "posted"}
                           /\ calls'[c].pc = "idle" => calls'[c].result = "listed"
      <4>0. calls \in [Callers -> Call] /\ calls[c] \in Call
        BY DEF TypeOK
      <4>2. CASE ListsParts(c)
        BY <4>0, <4>2 DEF ListsParts, NoCall
      <4>3. CASE SelectBegins(c)
        BY <4>0, <4>3 DEF SelectBegins, Call
      <4>4. CASE Snapshot(c)
        BY ZenonT(60), <3>3, <4>0, <4>4 DEF Snapshot, Call
      <4>5. CASE PartsArrive(c)
        BY <3>3, <4>0, <4>5 DEF PartsArrive, Call
      <4>6. CASE LookupFails(c) \/ EditIsAnswered(c) \/ EditIsTurnedDown(c) \/ EditIsUnanswered(c)
        BY <3>3, <4>6 DEF LookupFails, EditIsAnswered, EditIsTurnedDown, EditIsUnanswered
      <4>7. Before
        BY <2>1, <3>1, <4>2, <4>3, <4>4, <4>5, <4>6 DEF CallStep
      <4> QED
        BY <3>1, <4>7 DEF Honest
    <3> QED
      BY <3>2, <3>3
  <2>2. ASSUME NEW e \in posted, EditIsServed(e)
        PROVE  /\ room.id = calls[c].chosen.id /\ room'.id = room.id
               /\ room'.page \in PagesOf[room.id]
    <3>1. e.caller = c /\ e.snap = room
      BY <2>2, EditChangesItsCall
    <3>2. room.id = calls[c].chosen.id /\ e.page \in PagesOf[room.id]
      BY <3>1 DEF CallsInv, OnItsWay
    <3>3. room' = [room EXCEPT !.page = e.page] /\ room \in Songs
      BY <2>2, <3>1 DEF EditIsServed, TypeOK
    <3> QED
      BY <3>2, <3>3 DEF Songs
  <2>3. CASE Sync \/ RoomChanges \/ LinkBreaks \/ \E e \in posted : EditIsLost(e)
    BY <2>3 DEF Sync, Connects, ConnectFails, PauseEnds, Ticks, LosesConnection, FrameArrives,
       FetchIsAnswered, FetchFails, FetchIsApplied, CallbackEnds, RoomChanges, LinkBreaks, EditIsLost, partVars
  <2> QED
    BY <2>1, <2>2, <2>3 DEF Next, Parts, CallStep
<1> QED
  BY <1>1, CallsAlways, PTL DEF Spec, EditHitsItsSong
=============================================================================
