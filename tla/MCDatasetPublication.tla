-------------------------- MODULE MCDatasetPublication --------------------------
(* Three requests of one dataset: q2 follows q1 and has a report of its own    *)
(* with the same content; q3 follows q2 and did not pass.                      *)
EXTENDS DatasetPublication, TLC

CONSTANTS p1, p2, q1, q2, q3, a1, a2, a3, c1, c2

MCPublishers == {p1, p2}
MCRequests == {q1, q2, q3}
MCArtifact == (q1 :> a1) @@ (q2 :> a2) @@ (q3 :> a3)
MCContent == (a1 :> c1) @@ (a2 :> c1) @@ (a3 :> c2)
MCPrevious == (q1 :> None) @@ (q2 :> q1) @@ (q3 :> q2)
Symmetry == Permutations(MCPublishers)
=============================================================================
