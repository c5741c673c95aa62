-------------------------- MODULE MCFactorRepository --------------------------
(* Two clients and two contents that claim one semantic version.             *)
EXTENDS FactorRepository

CONSTANTS s1, s2, v1

MCSemanticOf == [s \in {s1, s2} |-> v1]
===============================================================================
