-------------------------------- MODULE Room --------------------------------
(***************************************************************************)
(* The song-request room, as the casting client sees it.  The server is    *)
(* not in the repository: it is modelled from how playlist_manager.rs uses *)
(* it (songListInfo, nextSong, prevSong).                                  *)
(*                                                                         *)
(* The room is a list of songs and the place of the one being sung.  The   *)
(* list hash the server hands out ("idArrayHash") determines that state,   *)
(* so the hash is represented by the state itself: going back to an        *)
(* earlier list gives the earlier hash again.                              *)
(***************************************************************************)
EXTENDS Integers

CONSTANTS
    LastSong,    \* the songs of the list are 1 .. LastSong, sung in this order
    Directions,  \* the ways people move the list: a subset of {"next", "prev"}
    MaxMoves,    \* bound: moves made by people, from this client or another
    MaxEdits     \* bound: list edits that leave the song being sung in place

ASSUME RoomAssumption ==
    /\ LastSong \in Nat \ {0}
    /\ Directions \subseteq {"next", "prev"}
    /\ MaxMoves \in Nat
    /\ MaxEdits \in Nat

VARIABLES
    room,      \* the state of the list on the server
    requests,  \* switch requests on the wire that no task waits for any more
    moves      \* moves made by people so far

roomVars == <<room, requests, moves>>

NoSong == 0
Songs == 1 .. LastSong
SongOrNone == Songs \cup {NoSong}

\* at = LastSong + 1: every song has been sung and "singing" is null.
Lists == [at : 1 .. LastSong + 1, edits : 0 .. MaxEdits]
Hashes == Lists

\* "EMPTY_LIST_HASH": what a client that has seen no list yet reports.
NoHash == [at |-> 0, edits |-> 0]

\* The song being sung in the list with hash h.
Singing(h) == IF h.at \in Songs THEN h.at ELSE NoSong

KnownHashes == Hashes \cup {NoHash}

Requests == [dir : {"next", "prev"}, hash : KnownHashes, auto : BOOLEAN]

-----------------------------------------------------------------------------

Moved(list, dir) ==
    CASE dir = "next" /\ list.at =< LastSong -> [list EXCEPT !.at = @ + 1]
      [] dir = "prev" /\ list.at > 1         -> [list EXCEPT !.at = @ - 1]
      [] OTHER                               -> list

\* nextSong and prevSong act only on the list whose hash the request names.
Accepts(req) == req.hash = room

AfterRequest(req) == IF Accepts(req) THEN Moved(room, req.dir) ELSE room

-----------------------------------------------------------------------------

RoomInit ==
    /\ room \in [at : 1 .. LastSong + 1, edits : {0}]
    /\ requests = {}
    /\ moves = 0

\* Somebody else moves the list, from another client.
OtherClientMoves(dir) ==
    /\ moves < MaxMoves
    /\ room' = Moved(room, dir)
    /\ room' # room
    /\ moves' = moves + 1
    /\ UNCHANGED requests

\* Somebody queues, removes or reorders songs: the hash changes, the song
\* being sung does not.
QueueIsEdited ==
    /\ room.edits < MaxEdits
    /\ room' = [room EXCEPT !.edits = @ + 1]
    /\ UNCHANGED <<requests, moves>>

RoomTypeOK ==
    /\ room \in Lists
    /\ requests \subseteq Requests
    /\ moves \in 0 .. MaxMoves

=============================================================================
