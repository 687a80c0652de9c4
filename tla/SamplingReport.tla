--------------------------- MODULE SamplingReport ---------------------------
(***************************************************************************)
(* What the sampling library promises (src/src/sampling.h) to a program    *)
(* whose threads are each bound to a PU of their own: a region is printed  *)
(* once, after all its threads have left it, and the line of a location    *)
(* holds exactly what the threads of its PUs contributed: the bytes handed *)
(* to each, one thread each, and the longest time one of them spent        *)
(* between start and stop.  There are no samples, barriers or atomic       *)
(* counters here; Sampling implements it (SamplingRefinement).             *)
(***************************************************************************)
EXTENDS Integers, FiniteSets, FiniteSetsExt, Functions

CONSTANTS Threads, Master, PUs, Locations, LocationOf, Pin, Modes, Work,
          MaxRegions, MaxClock

VARIABLES mode, regions, declared, clock, began, stopped,
          phase,   \* "out", "called", "inside", "left" or "printed"
          report

program == <<mode, regions, declared>>
vars    == <<program, clock, began, stopped, phase, report>>

TeamOf(m) == IF m = "none" THEN {} ELSE IF m = "seq" THEN {Master} ELSE Threads
Team == TeamOf(mode)

(* The bytes each thread of the team is accountable for.                   *)
Share(t) == IF mode = "forced" THEN declared[Master] \div Cardinality(Team)
                               ELSE declared[t]

(* What a PU contributes: the work of the thread of the team bound to it.  *)
Busy(p)   == \E t \in Team : Pin[t] = p
Owner(p)  == CHOOSE t \in Team : Pin[t] = p
BytesOf   == [p \in PUs |-> IF Busy(p) THEN Share(Owner(p)) ELSE 0]
ThreadsOf == [p \in PUs |-> IF Busy(p) THEN 1 ELSE 0]
TimeOf(p) == IF Busy(p) THEN stopped[Owner(p)] - began[Owner(p)] ELSE 0

On(l) == {p \in PUs : LocationOf[p] = l}
Line(l) == [nanos     |-> Max({0} \cup {TimeOf(p) : p \in On(l)}),
            bytes     |-> SumFunctionOnSet(BytesOf, On(l)),
            n_threads |-> SumFunctionOnSet(ThreadsOf, On(l))]

-----------------------------------------------------------------------------
Init ==
    /\ mode = "none" /\ regions = 0
    /\ declared = [t \in Threads |-> 0]
    /\ clock = [t \in Threads |-> 0]
    /\ began = clock /\ stopped = clock
    /\ phase = [t \in Threads |-> "out"]
    /\ report = [l \in Locations |-> Line(l)]

Tick(t) ==
    /\ clock[t] < MaxClock
    /\ clock' = [clock EXCEPT ![t] = @ + 1]
    /\ UNCHANGED <<program, began, stopped, phase, report>>

Arguments(m) == IF m = "inpar" THEN [Threads -> Work]
                ELSE {[t \in Threads |-> IF t = Master THEN w ELSE 0] : w \in Work}

BeginRegion(m) ==
    /\ mode = "none" /\ regions < MaxRegions
    /\ mode' = m /\ regions' = regions + 1
    /\ declared' \in Arguments(m)
    /\ phase' = [t \in Threads |-> IF t \in TeamOf(m) THEN "called" ELSE "out"]
    /\ UNCHANGED <<clock, began, stopped, report>>

(* The thread's time starts as start returns ...                           *)
Enter(t) ==
    /\ phase[t] = "called"
    /\ phase' = [phase EXCEPT ![t] = "inside"]
    /\ began' = [began EXCEPT ![t] = clock[t]]
    /\ UNCHANGED <<program, clock, stopped, report>>

(* ... and ends as it calls stop.                                          *)
Leave(t) ==
    /\ phase[t] = "inside"
    /\ phase' = [phase EXCEPT ![t] = "left"]
    /\ stopped' = [stopped EXCEPT ![t] = clock[t]]
    /\ UNCHANGED <<program, clock, began, report>>

(* Once all have left, the lines are printed, once for the region.         *)
Publish ==
    /\ Team # {} /\ \A t \in Team : phase[t] = "left"
    /\ phase' = [t \in Threads |-> IF t \in Team THEN "printed" ELSE "out"]
    /\ report' = [l \in Locations |-> Line(l)]
    /\ UNCHANGED <<program, clock, began, stopped>>

EndRegion ==
    /\ Team # {} /\ \A t \in Team : phase[t] = "printed"
    /\ phase' = [t \in Threads |-> "out"]
    /\ mode' = "none"
    /\ UNCHANGED <<regions, declared, clock, began, stopped, report>>

Next == \/ \E m \in Modes : BeginRegion(m)
        \/ \E t \in Threads : Tick(t) \/ Enter(t) \/ Leave(t)
        \/ Publish \/ EndRegion

Spec == Init /\ [][Next]_vars
=============================================================================
