------------------------------ MODULE MCBench ------------------------------
(***************************************************************************)
(* Machines and programs on which TLC checks Bench.                        *)
(***************************************************************************)
EXTENDS Bench, TLC

CONSTANTS t0, t1, t2

(* Two threads below the first memory group, one below the second, none    *)
(* below the third.                                                        *)
ThreeGroups == (t0 :> 0) @@ (t1 :> 0) @@ (t2 :> 1)

(* Rounding has left one size below the bounds and repeated another.       *)
RoundedSizes == <<1, 2, 2, 3>>
MovStages    == <<"overhead", "measure">>

(* roofline_fpeak() on the same machine.  Its rounds are numbered like the *)
(* sizes that roofline_memory() keeps, so that the invariants of Bench say *)
(* of both programs what their lines must be.                              *)
Peak == INSTANCE Bench WITH Kind <- "peak", Sizes <- <<2, 3>>, LowSize <- 0,
                            Stages <- <<"measure", "overhead">>, Limit <- 5, Overheads <- {0, 1}

VARIABLE peak  \* which of the two programs runs

MCInit == \/ peak = FALSE /\ Init
          \/ peak = TRUE /\ Peak!Init
MCNext == /\ UNCHANGED peak
          /\ IF peak THEN Peak!Next ELSE Next

MCSpec ==
    /\ MCInit /\ [][MCNext]_<<vars, peak>>
    /\ \A t \in Threads : WF_vars(~peak /\ Step(t)) /\ WF_vars(peak /\ Peak!Step(t))
    /\ WF_vars(IF peak THEN Peak!Barrier ELSE Barrier)
    /\ WF_vars(IF peak THEN Peak!ForkTeam ELSE ForkTeam)
=============================================================================
