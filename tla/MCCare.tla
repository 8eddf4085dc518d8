------------------------------- MODULE MCCare -------------------------------
(* Instances of Care for TLC. *)
EXTENDS Care, TLC

CONSTANTS r1, r2, t1, j1, j2, d1, d2, k1, g1, g2

Every == {[km |-> 2, ticks |-> 1], [km |-> 1, ticks |-> 0]}
Due == {<<1, 1>>}
Aged == -10
OneSide == {{"alerts"}, {"alerts", "notes"}, {"notes"}, {"schedule"}, {"papers"}}
RunsAlike == Permutations(Runs)
Enabled == {{}, {"SMS"}}
=============================================================================
