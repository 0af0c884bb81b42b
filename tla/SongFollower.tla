---------------------------- MODULE SongFollower ----------------------------
(***************************************************************************)
(* What the client promises about the room's songs, whatever connections   *)
(* break and messages are lost: it asks the room one question at a time    *)
(* and deals with what it has seen before it looks again, so the songs it  *)
(* deals with come in the order the room sang them and none is made up.    *)
(* RoomSync is shown to implement this.                                    *)
(***************************************************************************)
CONSTANTS Songs, NoSong

VARIABLES
    singing,  \* the song the room sings
    seen,     \* what the client saw when it last looked
    handled   \* the song the client has dealt with

vars == <<singing, seen, handled>>

Init ==
    /\ singing \in Songs \cup {NoSong}
    /\ seen = NoSong
    /\ handled = NoSong

RoomChanges ==
    /\ singing' \in Songs \cup {NoSong}
    /\ UNCHANGED <<seen, handled>>

Looks ==
    /\ handled = seen
    /\ seen' = singing
    /\ UNCHANGED <<singing, handled>>

Handles ==
    /\ handled' = seen
    /\ UNCHANGED <<singing, seen>>

Next == RoomChanges \/ Looks \/ Handles

Spec == Init /\ [][Next]_vars
=============================================================================
