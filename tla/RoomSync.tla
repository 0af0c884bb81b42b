------------------------------ MODULE RoomSync ------------------------------
(***************************************************************************)
(* The task that keeps the client on the room's song (start_sync of        *)
(* playlist_manager.rs) and the selection of a part of that song           *)
(* (bilibili_parts.rs), which goes to the same room by itself.             *)
(*                                                                         *)
(* The server is modelled from its answers.  As in Room, its list hash is  *)
(* represented by the state it stands for: the song and the part being     *)
(* sung.  WebSocket frames that are not UPDATEs change nothing and are     *)
(* left out.                                                               *)
(***************************************************************************)
EXTENDS Integers, Sequences

CONSTANTS
    Ids,         \* the songs of the room
    Pages,       \* the parts a song may have
    PagesOf,     \* the parts each song has upstream
    Callers,     \* calls of the part selection by the app
    MaxChanges   \* bound: changes of the room by other clients

ASSUME RoomSyncAssumption ==
    /\ Pages \subseteq Nat
    /\ PagesOf \in [Ids -> SUBSET Pages]
    /\ MaxChanges \in Nat
    /\ {"none", "unseen"} \cap Ids = {}

VARIABLES
    room,     \* the song and the part the room sings
    changes,  \* changes of the room by other clients so far
    mode,     \* KTV_SYNC_MODE
    link,     \* the WebSocket connection
    frames,   \* the hashes of the UPDATE frames on their way
    hash,     \* PlaylistManager::hash
    gate,     \* the progress gate's song
    cached,   \* song_playing_cached of the task
    task,     \* what the task is at
    calls,    \* the calls of the part selection
    posted,   \* edits the server has not served yet
    restarts  \* for NoRestart: the last song played and whether the client
              \* has seen another one since

roomVars == <<room, changes, frames>>
syncVars == <<mode, link, hash, gate, cached, task, restarts>>
partVars == <<calls, posted>>
vars == <<room, changes, mode, link, frames, hash, gate, cached, task, calls, posted, restarts>>

Songs == [id : Ids, page : Pages]
NoSong == [id |-> "none", page |-> 0]
SongOrNone == Songs \cup {NoSong}
\* No list seen yet: "EMPTY_LIST_HASH".
NoHash == [id |-> "unseen", page |-> 0]

\* An answer that says "changed: false" stands for the song of the gate.
NoAnswer == [changed |-> FALSE, song |-> NoSong]
Idle == [pc |-> "listening", answer |-> NoAnswer]
Task == [pc : {"connecting", "pausing", "listening", "fetching", "answered", "calling"},
         answer : [changed : BOOLEAN, song : SongOrNone]]

\* chosen: what the app showed last; snap: current_song_snapshot of the call.
NoCall == [pc |-> "idle", chosen |-> NoSong, page |-> 0, snap |-> NoSong, result |-> "none", done |-> FALSE]
Results == {"none", "listed", "submitted", "unchanged", "STALE_CONTEXT", "NO_CURRENT_SONG",
            "ROOM_ERROR", "UPSTREAM_ERROR", "INVALID_PART", "RESULT_UNKNOWN"}
Call == [pc : {"idle", "selecting", "checking", "posted", "executed", "refused"}, chosen : SongOrNone,
         page : Pages \cup {0}, snap : SongOrNone, result : Results, done : BOOLEAN]

Init ==
    /\ room \in SongOrNone
    /\ changes = 0
    /\ mode \in {"WS", "POLLING"}
    /\ link = "none"
    /\ frames = <<>>
    /\ hash = NoHash
    /\ gate = NoSong
    /\ cached = NoSong
    /\ task = [Idle EXCEPT !.pc = IF mode = "WS" THEN "connecting" ELSE "fetching"]
    /\ calls = [c \in Callers |-> NoCall]
    /\ posted = {}
    /\ restarts = [song |-> NoSong, left |-> TRUE]

-----------------------------------------------------------------------------
\* The room and the connection to it.

\* An UPDATE goes to every open connection, and may be lost with it.
Pushes(song) ==
    \/ link = "up" /\ frames' = Append(frames, song)
    \/ frames' = frames

\* Other people move the list, replace the song or choose another part of it.
RoomChanges ==
    /\ changes < MaxChanges
    /\ room' \in SongOrNone \ {room}
    /\ changes' = changes + 1
    /\ Pushes(room')
    /\ UNCHANGED <<syncVars, partVars>>

\* The connection is gone; the client finds out when it reads or pings.
LinkBreaks ==
    /\ link = "up"
    /\ link' = "broken"
    /\ frames' \in {<<>>, frames}
    /\ UNCHANGED <<room, changes, mode, hash, gate, cached, task, restarts, partVars>>

-----------------------------------------------------------------------------
\* The task: start_ws_update, start_periodic_update.

Goes(pc) == task' = [task EXCEPT !.pc = pc]

\* Faulty: a new connection starts with a fresh cache.
ConnectsAnew ==
    /\ task.pc = "connecting"
    /\ link' = "up"
    /\ frames' = <<>>
    /\ Goes("fetching")
    /\ cached' = NoSong
    /\ UNCHANGED <<room, changes, mode, hash, gate, restarts, partVars>>

\* connect_async, and the first sync of the connection.
Connects ==
    /\ task.pc = "connecting"
    /\ link' = "up"
    /\ frames' = <<>>
    /\ Goes("fetching")
    /\ UNCHANGED <<room, changes, mode, hash, gate, cached, restarts, partVars>>

ConnectFails ==
    /\ task.pc = "connecting"
    /\ Goes("pausing")
    /\ UNCHANGED <<roomVars, mode, link, hash, gate, cached, restarts, partVars>>

\* The three seconds before the next attempt are over.
PauseEnds ==
    /\ task.pc = "pausing"
    /\ Goes("connecting")
    /\ UNCHANGED <<roomVars, mode, link, hash, gate, cached, restarts, partVars>>

\* Faulty: the heartbeat only keeps the connection alive.
OnlyPings ==
    /\ task.pc = "listening" /\ mode = "WS"
    /\ UNCHANGED vars

\* The heartbeat: a ping the connection takes, broken or not, and a sync; in
\* polling mode the tick of the interval.
Ticks ==
    /\ task.pc = "listening"
    /\ Goes("fetching")
    /\ UNCHANGED <<roomVars, mode, link, hash, gate, cached, restarts, partVars>>

\* A ping or a read fails, or the server closes: the connection is dropped.
LosesConnection ==
    /\ task.pc = "listening" /\ mode = "WS"
    /\ link = "broken"
    /\ link' = "none"
    /\ frames' = <<>>
    /\ Goes("pausing")
    /\ UNCHANGED <<room, changes, mode, hash, gate, cached, restarts, partVars>>

\* An UPDATE is read; one that names the list already fetched is ignored.
FrameArrives ==
    /\ task.pc = "listening" /\ mode = "WS"
    /\ frames # <<>>
    /\ frames' = Tail(frames)
    /\ IF Head(frames) = hash THEN task' = task ELSE Goes("fetching")
    /\ UNCHANGED <<room, changes, mode, link, hash, gate, cached, restarts, partVars>>

\* fetch_playlist: the server reads the list.
FetchIsAnswered ==
    /\ task.pc = "fetching"
    /\ task' = [pc |-> "answered", answer |-> [changed |-> hash # room, song |-> IF hash = room THEN gate ELSE room]]
    /\ UNCHANGED <<roomVars, mode, link, hash, gate, cached, restarts, partVars>>

\* Faulty: no answer counts as an empty list.
FailureIsNoSong ==
    /\ task.pc = "fetching"
    /\ Goes("listening")
    /\ cached' = NoSong
    /\ UNCHANGED <<roomVars, mode, link, hash, gate, restarts, partVars>>

\* The request or the answer is lost or cannot be read: logged, no more.
FetchFails ==
    /\ task.pc = "fetching"
    /\ Goes("listening")
    /\ UNCHANGED <<roomVars, mode, link, hash, gate, cached, restarts, partVars>>

Sees(song) == restarts' = [restarts EXCEPT !.left = @ \/ song # restarts.song]

\* The answer is applied; a song other than the last one handled is played.
FetchIsApplied ==
    /\ task.pc = "answered"
    /\ LET song == task.answer.song IN
       /\ gate' = song
       /\ hash' = IF task.answer.changed THEN song ELSE hash
       /\ IF song # cached /\ song # NoSong
          THEN /\ Goes("calling")
               /\ restarts' = [song |-> song, left |-> FALSE]
               /\ UNCHANGED cached
          ELSE /\ task' = Idle
               /\ Sees(song)
               /\ cached' = song
    /\ UNCHANGED <<roomVars, mode, link, partVars>>

\* The callback has played the song or given up; only now is it handled.
CallbackEnds ==
    /\ task.pc = "calling"
    /\ cached' = task.answer.song
    /\ task' = Idle
    /\ UNCHANGED <<roomVars, mode, link, hash, gate, restarts, partVars>>

-----------------------------------------------------------------------------
\* The part selection.

Ends(c, result) == calls' = [calls EXCEPT ![c] = [@ EXCEPT !.pc = "idle", !.result = result]]

\* get_current_bilibili_parts_core: the app shows the current song's parts.
ListsParts(c) ==
    /\ calls[c].pc = "idle" /\ calls[c].result \in {"none", "listed"}
    /\ room # NoSong /\ room.page \in PagesOf[room.id]
    /\ calls' = [calls EXCEPT ![c] = [NoCall EXCEPT !.chosen = room, !.result = "listed"]]
    /\ UNCHANGED <<roomVars, syncVars, posted>>

\* select_current_bilibili_part_core is called for a song the app has shown.
SelectBegins(c) ==
    /\ calls[c].pc = "idle" /\ calls[c].result = "listed"
    /\ \E page \in Pages :
          calls' = [calls EXCEPT ![c] = [@ EXCEPT !.pc = "selecting", !.page = page, !.result = "none"]]
    /\ UNCHANGED <<roomVars, syncVars, posted>>

\* Faulty: whatever is sung now is edited.
SnapshotOfAny(c) ==
    /\ calls[c].pc = "selecting"
    /\ IF room = NoSong THEN Ends(c, "NO_CURRENT_SONG")
       ELSE calls' = [calls EXCEPT ![c] = [@ EXCEPT !.pc = "checking", !.snap = room]]
    /\ UNCHANGED <<roomVars, syncVars, posted>>

\* current_song_snapshot, and the comparison with the song that was chosen.
Snapshot(c) ==
    /\ calls[c].pc = "selecting"
    /\ IF room = NoSong THEN Ends(c, "NO_CURRENT_SONG")
       ELSE IF room.id = calls[c].chosen.id
       THEN calls' = [calls EXCEPT ![c] = [@ EXCEPT !.pc = "checking", !.snap = room]]
       ELSE Ends(c, "STALE_CONTEXT")
    /\ UNCHANGED <<roomVars, syncVars, posted>>

\* The room or the upstream does not answer, or the song is not one of
\* Bilibili's.
LookupFails(c) ==
    /\ \/ calls[c].pc = "selecting" /\ Ends(c, "ROOM_ERROR")
       \/ calls[c].pc = "checking" /\ Ends(c, "UPSTREAM_ERROR")
    /\ UNCHANGED <<roomVars, syncVars, posted>>

\* The parts have arrived: the page is compared, the edit sent.
PartsArrive(c) ==
    /\ calls[c].pc = "checking"
    /\ IF calls[c].page \notin PagesOf[calls[c].snap.id]
       THEN Ends(c, "INVALID_PART") /\ UNCHANGED posted
       ELSE IF calls[c].page = calls[c].snap.page
       THEN Ends(c, "unchanged") /\ UNCHANGED posted
       ELSE /\ calls' = [calls EXCEPT ![c].pc = "posted"]
            /\ posted' = posted \cup {[caller |-> c, snap |-> calls[c].snap, page |-> calls[c].page]}
    /\ UNCHANGED <<roomVars, syncVars>>

\* editCurrentSong on the server: the song and the hash must still be those
\* of the request.
EditIsServed(e) ==
    /\ posted' = posted \ {e}
    /\ IF e.snap = room
       THEN /\ room' = [room EXCEPT !.page = e.page]
            /\ Pushes(room')
            /\ calls' = [calls EXCEPT ![e.caller].done = TRUE, ![e.caller].pc = IF @ = "posted" THEN "executed" ELSE @]
       ELSE /\ UNCHANGED <<room, frames>>
            /\ calls' = [calls EXCEPT ![e.caller].pc = IF @ = "posted" THEN "refused" ELSE @]
    /\ UNCHANGED <<changes, syncVars>>

\* The request does not reach the server.
EditIsLost(e) ==
    /\ posted' = posted \ {e}
    /\ UNCHANGED <<roomVars, syncVars, calls>>

\* The server's answer reaches the client.
EditIsAnswered(c) ==
    /\ \/ calls[c].pc = "executed" /\ Ends(c, "submitted")
       \/ calls[c].pc = "refused" /\ Ends(c, "STALE_CONTEXT")
    /\ UNCHANGED <<roomVars, syncVars, posted>>

\* The server turns the request down before it looks at it (a 4xx status, or
\* a refusal for another reason).
EditIsTurnedDown(c) ==
    /\ calls[c].pc = "posted"
    /\ posted' = {e \in posted : e.caller # c}
    /\ Ends(c, "ROOM_ERROR")
    /\ UNCHANGED <<roomVars, syncVars>>

\* Faulty: no answer counts as a refusal.
SilenceIsRefusal(c) ==
    /\ calls[c].pc \in {"posted", "executed", "refused"}
    /\ Ends(c, "ROOM_ERROR")
    /\ UNCHANGED <<roomVars, syncVars, posted>>

\* No usable answer: a timeout, a 5xx status, an answer that cannot be read.
EditIsUnanswered(c) ==
    /\ calls[c].pc \in {"posted", "executed", "refused"}
    /\ Ends(c, "RESULT_UNKNOWN")
    /\ UNCHANGED <<roomVars, syncVars, posted>>

-----------------------------------------------------------------------------

Sync ==
    \/ Connects \/ ConnectFails \/ PauseEnds \/ Ticks \/ LosesConnection \/ FrameArrives
    \/ FetchIsAnswered \/ FetchFails \/ FetchIsApplied \/ CallbackEnds

Parts ==
    \/ \E c \in Callers :
          \/ ListsParts(c) \/ SelectBegins(c) \/ Snapshot(c) \/ LookupFails(c) \/ PartsArrive(c)
          \/ EditIsAnswered(c) \/ EditIsTurnedDown(c) \/ EditIsUnanswered(c)
    \/ \E e \in posted : EditIsServed(e) \/ EditIsLost(e)

Next == Sync \/ Parts \/ RoomChanges \/ LinkBreaks

Spec == Init /\ [][Next]_vars

\* The task's own steps are taken by the runtime; connecting and fetching may
\* fail any number of times, but not for ever.
FairSpec ==
    /\ Spec
    /\ WF_vars(PauseEnds) /\ WF_vars(Ticks) /\ WF_vars(LosesConnection)
    /\ WF_vars(FetchIsApplied) /\ WF_vars(CallbackEnds)
    /\ SF_vars(Connects) /\ SF_vars(FetchIsAnswered)
=============================================================================
