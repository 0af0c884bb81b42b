---------------------------- MODULE MCSongCache ----------------------------
(* Values of SongCache's constants for the runs.                           *)
EXTENDS SongCache, TLC

\* No block differs from another.
Alike == Permutations(Keys)

=============================================================================
