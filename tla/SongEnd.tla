------------------------------- MODULE SongEnd ------------------------------
(***************************************************************************)
(* What the client promises about moving on by itself, whatever polls,     *)
(* commands and lost messages interleave: one use of the trigger for each  *)
(* time the device has confirmed a playback, only while the progress of    *)
(* that playback is trusted, and at most one move of the room for each     *)
(* use.  Playback is shown to implement this.                              *)
(***************************************************************************)
EXTENDS Integers

CONSTANTS Songs, NoSong

VARIABLES
    song,     \* the song the room wants
    trusted,  \* the device's progress is progress of this song
    armed,    \* the end of this playback has not been acted on
    owed      \* moves the room may still make on the client's account

vars == <<song, trusted, armed, owed>>

Init ==
    /\ song = NoSong
    /\ trusted = FALSE
    /\ armed = TRUE
    /\ owed = 0

\* The room wants another song (or none): trust is lost, nothing is rearmed.
SongChanges ==
    /\ song' \in (Songs \cup {NoSong}) \ {song}
    /\ trusted' = FALSE
    /\ UNCHANGED <<armed, owed>>

\* The song is to be played again.
PlayAgain ==
    /\ song # NoSong
    /\ trusted' = FALSE
    /\ UNCHANGED <<song, armed, owed>>

\* The device confirms that it plays the song: only this rearms the trigger.
PlaybackConfirmed ==
    /\ song # NoSong
    /\ trusted' = TRUE
    /\ armed' = TRUE
    /\ UNCHANGED <<song, owed>>

\* The end of the song is heard and acted on.
EndHeard ==
    /\ trusted /\ armed
    /\ armed' = FALSE
    /\ owed' = owed + 1
    /\ UNCHANGED <<song, trusted>>

\* The room makes a move the client has asked for.
RoomMovesOn ==
    /\ owed > 0
    /\ owed' = owed - 1
    /\ UNCHANGED <<song, trusted, armed>>

Next == SongChanges \/ PlayAgain \/ PlaybackConfirmed \/ EndHeard \/ RoomMovesOn

Spec == Init /\ [][Next]_vars

=============================================================================
