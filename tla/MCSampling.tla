----------------------------- MODULE MCSampling -----------------------------
(***************************************************************************)
(* Teams and machines on which TLC checks Sampling.                        *)
(***************************************************************************)
EXTENDS Sampling, TLC

CONSTANTS t0, t1, t2

(* PUs 0 and 1 are below the first location, PU 2 below the second.        *)
TwoNodes == [p \in {0, 1, 2} |-> IF p = 2 THEN "node1" ELSE "node0"]

Alone    == (t0 :> 1)

(* The master and the second thread share PU 1.                            *)
SharedPU == (t0 :> 1) @@ (t1 :> 1) @@ (t2 :> 2)

(* Fewer PUs than threads: two of them always share one, and each PU is    *)
(* below a location of its own.                                            *)
Crowded  == (t0 :> 0) @@ (t1 :> 0) @@ (t2 :> 1)
TwoPUs   == [p \in {0, 1} |-> IF p = 1 THEN "node1" ELSE "node0"]
=============================================================================
