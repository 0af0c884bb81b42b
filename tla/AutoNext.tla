------------------------------ MODULE AutoNext ------------------------------
(***************************************************************************)
(* AutoNextSong (auto_next.rs): the one-shot trigger that asks the room    *)
(* for the next song when the current one is about to end, and the task    *)
(* that repeats this request with its original hash until it is answered.  *)
(***************************************************************************)
EXTENDS Room

CONSTANTS
    MIN_CURRENT,      \* a sample counts only past this position (5 s)
    END_MARGIN_SECS   \* "about to end": at most this far from the end (2 s)

ASSUME AutoNextAssumption ==
    /\ MIN_CURRENT \in Nat
    /\ END_MARGIN_SECS \in Nat

VARIABLES
    fired,   \* the trigger has been used for this playback
    retry,   \* the task behind the JoinHandle: its state and its hash
    earned   \* history: triggers started, less automatic moves the room made

autoNextVars == <<fired, retry, earned>>

NoRetry == [pc |-> "none", hash |-> NoHash]

\* What an automatic request with this hash looks like on the wire.
NextRequest(hash) == [dir |-> "next", hash |-> hash, auto |-> TRUE]

\* The part of the history an automatic request adds when the room serves it.
Spent(req) == IF req.auto /\ AfterRequest(req) # room THEN 1 ELSE 0

-----------------------------------------------------------------------------

AutoNextInit ==
    /\ fired = FALSE
    /\ retry = NoRetry
    /\ earned = 0

\* The task is aborted.  A request it has already sent stays on the wire.
cancel_pending_request ==
    /\ retry' = NoRetry
    /\ requests' = IF retry.pc = "sending"
                   THEN requests \cup {NextRequest(retry.hash)}
                   ELSE requests

\* Faulty: the request for the song before outlives the new playback.
ResetWithoutAbort ==
    /\ fired' = FALSE
    /\ UNCHANGED <<retry, requests>>

\* Faulty: a new playback does not rearm the trigger.
ResetWithoutRearming ==
    /\ cancel_pending_request
    /\ UNCHANGED fired

reset_for_playback ==
    /\ fired' = FALSE
    /\ cancel_pending_request

\* observe() returns TRUE, and uses the trigger up, exactly on this condition.
AtEnd(current, total) ==
    /\ current > MIN_CURRENT
    /\ total > 0
    /\ total - current =< END_MARGIN_SECS

\* The handle is overwritten without an abort; OneLiveRetry (Playback) says
\* that it never holds a live task at this point.
start_request(hash) ==
    /\ retry' = [pc |-> "sending", hash |-> hash]
    /\ earned' = earned + 1

-----------------------------------------------------------------------------
(* The task, retry_next_song.  Every step leaves the gate alone.           *)

\* The room answers: success ends the task, and so does a rejection.
RetryIsAnswered ==
    /\ retry.pc = "sending"
    /\ room' = AfterRequest(NextRequest(retry.hash))
    /\ earned' = earned - Spent(NextRequest(retry.hash))
    /\ retry' = NoRetry
    /\ UNCHANGED <<fired, requests, moves>>

\* No answer (or a 5xx, a 408, a 429, no JSON): the task waits a second and
\* repeats the request.  The room may yet serve the one it gave up on, at any
\* later time, or never.
RetryIsUnanswered ==
    /\ retry.pc = "sending"
    /\ retry' = [retry EXCEPT !.pc = "sleeping"]
    /\ requests' = requests \cup {NextRequest(retry.hash)}
    /\ UNCHANGED <<room, moves, fired, earned>>

\* Faulty: the request is repeated for whatever list is current by now.
WakesWithNewHash ==
    /\ retry.pc = "sleeping"
    /\ retry' = [pc |-> "sending", hash |-> room]
    /\ UNCHANGED <<room, requests, moves, fired, earned>>

\* "1 秒后使用原 hash 重试": again, with the hash the task started with.
RetryWakes ==
    /\ retry.pc = "sleeping"
    /\ retry' = [retry EXCEPT !.pc = "sending"]
    /\ UNCHANGED <<room, requests, moves, fired, earned>>

\* The room serves a request nobody waits for: one that was aborted or went
\* unanswered, or a manual switch (trigger_next_song, trigger_prev_song).  A
\* request that is lost is one that is never served.
RequestIsServed(req) ==
    /\ room' = AfterRequest(req)
    /\ earned' = earned - Spent(req)
    /\ requests' = requests \ {req}
    /\ UNCHANGED <<moves, fired, retry>>

AutoNextTypeOK ==
    /\ fired \in BOOLEAN
    /\ retry \in [pc : {"none", "sending", "sleeping"}, hash : KnownHashes]
    /\ earned \in Int

=============================================================================
