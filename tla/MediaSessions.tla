--------------------------- MODULE MediaSessions ---------------------------
(***************************************************************************)
(* MediaSessions and MediaSession (media_session.rs): one current session  *)
(* per song and quality, named by its generation, and the preparation of   *)
(* its media, which the caster and the renderer's requests share.          *)
(***************************************************************************)
EXTENDS Integers, Sequences

CONSTANTS
    Preparers,       \* those who call prepare()
    MaxGeneration,   \* bound: sessions
    Kinds,           \* what a song may resolve to: "direct", "seekable"
    PrepareMayFail   \* resolve() may fail

ASSUME MediaSessionsAssumption ==
    /\ MaxGeneration \in Nat \ {0}
    /\ Kinds \subseteq {"direct", "seekable"} /\ Kinds # {}
    /\ PrepareMayFail \in BOOLEAN

VARIABLES
    sessions,   \* every session made so far; its generation is its index
    current,    \* MediaSessions::current, or NoGeneration
    prep        \* where each preparer stands

sessionVars == <<sessions, current, prep>>

NoGeneration == 0
Generations == 1 .. Len(sessions)
NotPreparing == [pc |-> "idle", gen |-> NoGeneration]

\* ready: the OnceCell; cancelled: its cache refuses further reads.
NewSession(song) ==
    [song |-> song, stopped |-> FALSE, ready |-> "empty", cancelled |-> FALSE]

SessionsInit ==
    /\ sessions = <<>>
    /\ current = NoGeneration
    /\ prep = [p \in Preparers |-> NotPreparing]

is_stopped(g) == sessions[g].stopped

\* MediaSessions::get: only the current session can be reached by its path.
get(g) == g = current /\ g # NoGeneration /\ ~is_stopped(g)

\* The first half of cancel(): whoever prepares or loads the session sees it.
Stop(g) == IF g = NoGeneration THEN sessions ELSE [sessions EXCEPT ![g].stopped = TRUE]

\* The second half: a cache that is ready is cancelled.
CancelCache(g) ==
    [sessions EXCEPT ![g].cancelled = @ \/ sessions[g].ready = "seekable"]

\* The previous session is stopped here; its cache is cancelled by the caller
\* in a step of its own.
activate(song) ==
    /\ Len(sessions) < MaxGeneration
    /\ sessions' = Append(Stop(current), NewSession(song))
    /\ current' = Len(sessions) + 1

clear ==
    /\ sessions' = IF current = NoGeneration THEN sessions
                   ELSE [CancelCache(current) EXCEPT ![current].stopped = TRUE]
    /\ current' = NoGeneration

-----------------------------------------------------------------------------
(* prepare().                                                              *)

PrepGoes(p, pc) == prep' = [prep EXCEPT ![p].pc = pc]

\* A session already stopped is refused; otherwise the caller joins the cell.
PrepareBegins(p) ==
    /\ prep[p].pc = "prepare"
    /\ PrepGoes(p, IF is_stopped(prep[p].gen) THEN "err" ELSE "wait")
    /\ UNCHANGED <<sessions, current>>

\* get_or_try_init: one caller resolves, the others wait for it, and one of
\* them takes over if it fails or is dropped.
ResolveBegins(p) ==
    /\ prep[p].pc = "wait"
    /\ sessions[prep[p].gen].ready = "empty"
    /\ \A q \in Preparers :
          prep[q].gen = prep[p].gen => prep[q].pc \notin {"resolve", "commit"}
    /\ PrepGoes(p, "resolve")
    /\ UNCHANGED <<sessions, current>>

\* The media is there; a session stopped meanwhile does not get it.
ResolveEnds(p) ==
    /\ prep[p].pc = "resolve"
    /\ \/ PrepGoes(p, IF is_stopped(prep[p].gen) THEN "err" ELSE "commit")
       \/ PrepareMayFail /\ PrepGoes(p, "err")
    /\ UNCHANGED <<sessions, current>>

\* The cell is filled.  The session may have been stopped since the last look.
Commits(p) ==
    /\ prep[p].pc = "commit"
    /\ \E kind \in Kinds :
          sessions' = [sessions EXCEPT ![prep[p].gen].ready = kind]
    /\ PrepGoes(p, "check")
    /\ UNCHANGED current

WaitIsOver(p) ==
    /\ prep[p].pc = "wait"
    /\ sessions[prep[p].gen].ready # "empty"
    /\ PrepGoes(p, "check")
    /\ UNCHANGED <<sessions, current>>

\* select! is biased: a stop wins over waiting and resolving.
Interrupted(p) ==
    /\ prep[p].pc \in {"wait", "resolve"}
    /\ is_stopped(prep[p].gen)
    /\ PrepGoes(p, "err")
    /\ UNCHANGED <<sessions, current>>

\* Faulty: the session is not looked at again after the cell is filled.
TrustsTheCell(p) ==
    /\ prep[p].pc = "check"
    /\ PrepGoes(p, "ok")
    /\ UNCHANGED <<sessions, current>>

\* "Cancellation may race with committing OnceCell."
Checks(p) ==
    /\ prep[p].pc = "check"
    /\ IF is_stopped(prep[p].gen)
       THEN sessions' = CancelCache(prep[p].gen) /\ PrepGoes(p, "err")
       ELSE PrepGoes(p, "ok") /\ UNCHANGED sessions
    /\ UNCHANGED current

PrepareSteps(p) ==
    \/ PrepareBegins(p) \/ ResolveBegins(p) \/ ResolveEnds(p) \/ Commits(p)
    \/ WaitIsOver(p) \/ Interrupted(p) \/ Checks(p)
=============================================================================
