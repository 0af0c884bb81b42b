---------------------------- MODULE MCDlnaCaster ----------------------------
(* Values of DlnaCaster's constants for the runs.                          *)
EXTENDS DlnaCaster, TLC

AllPreparers == {"player", "setter"} \cup Getters

\* Songs meet seeks and several streams, or they meet switches and changes of the
\* direct mode.
SeeksOrSwitches ==
    \/ left.switches = MaxSwitches /\ left.toggles = MaxToggles
    \/ left.seeks = MaxSeeks /\ \A g \in DOMAIN stream_id : stream_id[g] =< 1

Seeks == Permutations(Seekers)

=============================================================================
