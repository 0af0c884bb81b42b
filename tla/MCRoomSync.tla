----------------------------- MODULE MCRoomSync -----------------------------
(***************************************************************************)
(* The properties of RoomSync and its small instance.                      *)
(***************************************************************************)
EXTENDS RoomSync

\* The first song has two parts, the other one.
FewParts == [id \in Ids |-> IF id = "a" THEN {0, 1} ELSE {0}]

\* Types; no callback and no lookup of parts without a song.
TypeOK ==
    /\ room \in SongOrNone
    /\ changes \in 0 .. MaxChanges
    /\ mode \in {"WS", "POLLING"}
    /\ link \in {"none", "up", "broken"}
    /\ frames \in Seq(SongOrNone)
    /\ hash \in SongOrNone \cup {NoHash}
    /\ gate \in SongOrNone /\ cached \in SongOrNone
    /\ task \in Task
    /\ task.pc = "calling" => task.answer.song # NoSong
    /\ calls \in [Callers -> Call]
    /\ \A c \in Callers : calls[c].pc = "checking" => calls[c].snap # NoSong
    /\ posted \subseteq [caller : Callers, snap : Songs, page : Pages]
    /\ restarts \in [song : SongOrNone, left : BOOLEAN]

\* A song that has been handled is not started again from its beginning,
\* however often the connection breaks or the list is fetched, unless the
\* client has seen the room without it in between (song_playing_cached of
\* start_ws_update).
NoRestart ==
    [][task.pc = "answered" /\ task'.pc = "calling" =>
         restarts.left \/ restarts.song # task.answer.song]_vars

\* Whatever frames and connections are lost, and whatever the part selection
\* reads in the meantime, the client ends up with the song and part the room
\* stays on (the heartbeat's sync, current_song_snapshot).
FollowsRoom == <>[](cached = room)

\* The songs are handled in the order the room sang them, none is made up:
\* the task implements SongFollower.
Follower == INSTANCE SongFollower WITH
    singing <- room,
    seen    <- IF task.pc = "answered" THEN task.answer.song ELSE gate,
    handled <- cached
FollowsInOrder == Follower!Spec

\* An edit changes only the song the app showed when the part was chosen, and
\* only to a part it has (select_current_bilibili_part_core).
EditHitsItsSong ==
    [][\A c \in Callers : calls'[c].done /\ ~calls[c].done =>
         /\ room.id = calls[c].chosen.id /\ room'.id = room.id
         /\ room'.page \in PagesOf[room.id]]_vars

\* "1" is answered only for an edit the room has made, and a failure other
\* than "result unknown" only for one it will never make
\* (PlaylistManager::edit_current_part).
AnswersAreHonest ==
    \A c \in Callers :
        /\ calls[c].result = "submitted" => calls[c].done
        /\ calls[c].result \notin {"none", "listed", "submitted", "RESULT_UNKNOWN"} => ~calls[c].done

=============================================================================
