------------------------------- MODULE MCTeam -------------------------------
(***************************************************************************)
(* What the threads of a team run apart from their barriers.  First they   *)
(* bind themselves, in roofline_set_root().  Then roofline_memory() and    *)
(* roofline_fpeak() (src/src/roofline.c) have each of them run a benchmark *)
(* function: the latency loop on its linked buffer for latency loads, the  *)
(* kernels of the back end for every other operation.  The three share no  *)
(* variable, so that each behaviour is of one of them.                     *)
(***************************************************************************)
EXTENDS SetRoot, Kernels, LatencyStream, TLC

(* A machine of four leaves: the machine itself, the group of its first    *)
(* two leaves and the group of the last.                                   *)
ThreeRoots == {"machine", "group0", "group1"}
LeafCount  == ("machine" :> 4) @@ ("group0" :> 2) @@ ("group1" :> 1)
LeafOf     == [r \in ThreeRoots |-> [l \in 0 .. 3 |-> IF r = "group1" THEN 3 ELSE l]]

VARIABLE function  \* the one that runs

MCInit == /\ RootInit /\ KernelInit /\ Init
          /\ function \in {"set_root", "kernel", "latency"}

MCNext ==
    /\ UNCHANGED function
    /\ \/ function = "set_root" /\ RootNext /\ UNCHANGED <<kernelVars, vars>>
       \/ function = "kernel" /\ KernelNext /\ UNCHANGED <<rootVars, vars>>
       \/ function = "latency" /\ Next /\ UNCHANGED <<rootVars, kernelVars>>

MCSpec == MCInit /\ [][MCNext]_<<rootVars, kernelVars, vars, function>>
=============================================================================
