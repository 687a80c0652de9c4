------------------------- MODULE SamplingRefinement -------------------------
(***************************************************************************)
(* Sampling implements SamplingReport when every thread is bound to a PU   *)
(* of its own.  The mapping forgets the samples: a thread is "inside" from *)
(* the moment it leaves start until it enters stop, and "printed" once the *)
(* thread that claimed the single construct has printed the lines.         *)
(***************************************************************************)
EXTENDS Sampling

OwnPU == Bound = Threads /\ \A t, u \in Threads : Pin[t] = Pin[u] => t = u

PhaseOf(t) ==
    CASE pc[t] = "idle" -> "out"
      [] pc[t] \in {"caller", "start_failed", "count", "start_barrier", "set_work", "first", "start_timer"}
         -> "called"
      [] pc[t] \in {"region", "stop_caller", "stop_failed", "stop"} -> "inside"
      [] pc[t] \in {"last", "stop_timer", "stop_barrier", "single", "reset", "end"}
         -> IF Claimed THEN "printed" ELSE "left"

Promise == INSTANCE SamplingReport WITH phase <- [t \in Threads |-> PhaseOf(t)]

(* Every behaviour of the library is one the header promises: the printed  *)
(* lines hold each thread's contribution exactly once, after all of them   *)
(* have left the region.                                                   *)
KeepsPromise == Promise!Spec
=============================================================================
