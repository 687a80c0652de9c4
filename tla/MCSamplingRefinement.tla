------------------------ MODULE MCSamplingRefinement ------------------------
(***************************************************************************)
(* Instances on which TLC checks the refinement.                           *)
(***************************************************************************)
EXTENDS SamplingRefinement, TLC

CONSTANTS t0, t1, t2

TwoNodes == [p \in {0, 1, 2} |-> IF p = 2 THEN "node1" ELSE "node0"]

Pair     == (t0 :> 1) @@ (t1 :> 0)
=============================================================================
