-------------------------- MODULE MCKnowledgeRelease --------------------------
(* Bundles whose entries share the pointer, the list and the cache's index.    *)
EXTENDS KnowledgeRelease

CONSTANTS a, b, c1, c2, s1, s2

(* What the publisher has done, a revocation of a released version counted twice, *)
(* and the faults.                                                               *)
Acts == MapThenSumSet(LAMBDA x : Len(history[x]) + Cardinality(revoked[x]), Bundles) + faults

(* Four of these in all; and agents are alike and take turns, so that the second *)
(* one is of interest only beside the first.                                     *)
FewActs == Acts <= 4 /\ (cycle[c2].at # "idle" => cycle[c1].at # "idle")
===============================================================================
