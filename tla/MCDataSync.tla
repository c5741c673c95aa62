------------------------------ MODULE MCDataSync ------------------------------
(* A calendar with a closed day, model values and symmetry for TLC.         *)
EXTENDS DataSync, TLC

CONSTANTS r1, r2, r3

MCRuns == {r1, r2, r3}
MCTradingDays == {1, 2, 4}
Symmetry == Permutations(MCRuns)
=============================================================================
