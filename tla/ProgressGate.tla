---------------------------- MODULE ProgressGate ----------------------------
(***************************************************************************)
(* ProgressGate (progress_gate.rs): which song the room wants, and whether *)
(* the progress the device reports may be taken for progress of that song. *)
(* Every operation below runs under the gate's mutex, so it is one atomic  *)
(* piece of the step that calls it.                                        *)
(*                                                                         *)
(* Phase::ProtectingUntil(deadline) is two phases here: "Protecting"       *)
(* before the deadline and "Elapsed" after it (WindowElapses moves from    *)
(* one to the other); the deadline is read only by comparing it with now.  *)
(***************************************************************************)
EXTENDS AutoNext

CONSTANTS
    HARDWARE   \* capabilities().hardware_progress: a DLNA renderer reports
               \* its own progress, the Bilibili caster simulates it

ASSUME ProgressGateAssumption ==
    HARDWARE \in BOOLEAN

VARIABLES
    song,          \* the song of the room, as last fetched
    last_current,  \* the last position trusted, or Unknown
    baseline,      \* last_current when the song stopped being trusted
    phase,
    revision       \* names a sample's or a command's view of the gate

gateVars == <<song, last_current, baseline, phase, revision>>

Unknown == -1
Phases == {"Ready", "AwaitingCommand", "Protecting", "Elapsed"}

-----------------------------------------------------------------------------

GateInit ==
    /\ song = NoSong
    /\ last_current = Unknown
    /\ baseline = Unknown
    /\ phase = "Ready"
    /\ revision = 0

\* Stop trusting the device, and remember where it was last trusted to be.
StartsAwaiting ==
    /\ baseline' = IF phase = "AwaitingCommand" THEN baseline ELSE last_current
    /\ phase' = "AwaitingCommand"
    /\ revision' = revision + 1

\* Only a song change counts; a list edit around the same song does not.
update_song(new) ==
    IF new = song
    THEN UNCHANGED gateVars
    ELSE /\ StartsAwaiting
         /\ song' = new
         /\ UNCHANGED last_current

\* begin_recast keeps the trigger used up but gives up its pending request.
begin_recast ==
    /\ song # NoSong
    /\ StartsAwaiting
    /\ cancel_pending_request
    /\ UNCHANGED <<song, last_current, fired>>

\* Faulty: the answer to an outdated play command counts.
ConfirmsAnyToken(token) == song # NoSong

\* The device has accepted a play command that was given for this token.
Confirms(token) == token = revision /\ song # NoSong

play_succeeded(token) ==
    IF Confirms(token)
    THEN /\ phase' = IF HARDWARE THEN "Protecting" ELSE "Ready"
         /\ last_current' = 0
         /\ revision' = revision + 1
         /\ reset_for_playback
         /\ UNCHANGED <<song, baseline>>
    ELSE UNCHANGED <<gateVars, fired, retry, requests>>

\* Faulty: the old song may still be at the position it was last seen at.
NotAdvanced(current) ==
    current = 0 \/ (baseline # Unknown /\ current =< baseline)

\* A position the old song cannot have: the device has started the new one.
Rewound(current) ==
    current = 0 \/ (baseline # Unknown /\ current < baseline)

\* Faulty: an answer to a query sent before the gate changed is used.
ValidForAnyRevision(rev, current, total) ==
    /\ song # NoSong
    /\ current >= 0
    /\ total > 0
    /\ phase # "AwaitingCommand"

\* Faulty: progress is used before the device has confirmed the song.
ValidWhileAwaiting(rev, current, total) ==
    /\ rev = revision
    /\ song # NoSong
    /\ current >= 0
    /\ total > 0

Valid(rev, current, total) ==
    /\ rev = revision
    /\ song # NoSong
    /\ current >= 0
    /\ total > 0
    /\ phase # "AwaitingCommand"

Masked(current) == phase = "Protecting" /\ ~Rewound(current)

\* What filter() answers for a sample: nothing, zero, or the sample itself.
Shown(rev, current, total) ==
    IF ~Valid(rev, current, total) THEN <<-1, -1>>
    ELSE IF Masked(current) THEN <<0, total>>
    ELSE <<current, total>>

\* The first sample trusted after a play command ends the protection and
\* invalidates the queries sent before it.
filter(rev, current, total) ==
    IF Valid(rev, current, total) /\ ~Masked(current)
    THEN /\ last_current' = current
         /\ phase' = "Ready"
         /\ revision' = IF phase = "Ready" THEN revision ELSE revision + 1
         /\ UNCHANGED <<song, baseline>>
    ELSE UNCHANGED gateVars

GateTypeOK ==
    /\ song \in SongOrNone
    /\ last_current \in Nat \cup {Unknown}
    /\ baseline \in Nat \cup {Unknown}
    /\ phase \in Phases
    /\ revision \in Nat

=============================================================================
