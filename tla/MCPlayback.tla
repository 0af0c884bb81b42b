----------------------------- MODULE MCPlayback -----------------------------
(* Values of Playback's constants for the runs.                            *)
EXTENDS Playback

\* The first song is longer than the second: a position of the first may lie
\* at the end of the second.
LongerFirst == <<2, 1>>

\* Songs that end at their first tick.
OneTickEach == <<1, 1>>

=============================================================================
