------------------------------ MODULE Sampling ------------------------------
(***************************************************************************)
(* The sampling library (src/src/sampling.c, built without PAPI and with   *)
(* OpenMP).  A program brackets a region of its code with                  *)
(* roofline_sampling_start() and roofline_sampling_stop().  Every          *)
(* processing unit (PU) owns one sample; the threads of the region find    *)
(* the sample of the PU they run on, count themselves on it, and the first *)
(* one to arrive starts its timer, the last one to leave stops it.  At the *)
(* end one thread sums the samples of every location, prints a line for    *)
(* each location and resets the samples.                                   *)
(*                                                                         *)
(* A region is opened in one of three modes:                               *)
(*   "inpar"  every thread of a parallel region calls start and stop;      *)
(*   "forced" the master calls start(1,..) and stop(NULL,..) from          *)
(*            sequential code and the library forks the team for each;     *)
(*   "seq"    the master alone calls start(0,..) and stop(s,..).           *)
(*                                                                         *)
(* The counters flops and bytes are handled by the same statements on      *)
(* adjacent lines; "bytes" stands for both.  An OpenMP barrier is one      *)
(* action that moves the whole team.                                       *)
(***************************************************************************)
EXTENDS Integers, FiniteSets, FiniteSetsExt, Functions

CONSTANTS Threads,     \* the threads of the OpenMP team
          Master,      \* the thread numbered 0
          PUs,         \* the logical indices of the processing units
          Locations,   \* the objects at the reduction depth
          LocationOf,  \* the location above each PU
          Bound,       \* the threads bound to a single PU
          Pin,         \* where each thread starts; bound threads stay there
          MayFail,     \* the threads whose PU the system may fail to tell
          Modes,       \* how this program opens its regions
          Work,        \* the byte counts the program declares
          MaxRegions,  \* bound: regions of a run
          MaxClock     \* bound: ticks of each thread's CPU clock

ASSUME TeamAssumption == IsFiniteSet(Threads) /\ Master \in Threads
ASSUME PlaceAssumption ==
    /\ IsFiniteSet(PUs) /\ PUs \subseteq Nat /\ 0 \in PUs
    /\ IsFiniteSet(Locations)
    /\ LocationOf \in [PUs -> Locations]
    /\ Bound \subseteq Threads /\ MayFail \subseteq Threads
    /\ Pin \in [Threads -> PUs]
ASSUME ProgramAssumption ==
    /\ Modes \subseteq {"inpar", "forced", "seq"}
    /\ Work \subseteq Nat
    /\ MaxRegions \in Nat
    /\ MaxClock \in Nat

VARIABLES mode,         \* mode of the open region, "none" between regions
          regions,      \* how many regions were opened
          declared,     \* the bytes argument of each thread that calls start
          cpu,          \* the PU each thread runs on
          clock,        \* CLOCK_THREAD_CPUTIME_ID of each thread
          pc,           \* where each thread is in start or stop
          bindings,     \* bindings[]: the PU found by each thread's last lookup
          sample,       \* the sample pointer s of each thread
          stopped,      \* t in stop: the clock read when the thread entered it
          began,        \* history: the clock when the thread left start
          n_threads, last_thread, s_nano, e_nano, bytes,  \* fields of a sample
          report        \* the lines the last stop printed

program   == <<mode, regions, declared>>
placement == <<cpu, bindings, sample>>
timing    == <<clock, stopped, began>>
samples   == <<n_threads, last_thread, s_nano, e_nano, bytes>>
vars      == <<program, placement, timing, pc, samples, report>>

-----------------------------------------------------------------------------
TeamOf(m) == IF m = "none" THEN {} ELSE IF m = "seq" THEN {Master} ELSE Threads
Team == TeamOf(mode)

(* The bytes a thread hands to roofline_sequential_sampling_start(): in a  *)
(* forced region the master's total is divided among the team.             *)
Share(t) == IF mode = "forced" THEN declared[Master] \div Cardinality(Team)
                               ELSE declared[t]

(* The PU of the calling thread: the one it is bound to, or else the one   *)
(* sched_getcpu() says it runs on right now.                               *)
Here(t) == IF t \in Bound THEN Pin[t] ELSE cpu[t]

(* The line roofline_samples_reduce() prints for a location: the time of   *)
(* the slowest sample and the sums of the counters.                        *)
On(l) == {p \in PUs : LocationOf[p] = l}
Elapsed(p) == e_nano[p] - s_nano[p]

Line(l) == [nanos     |-> Max({0} \cup {Elapsed(p) : p \in On(l)}),
            bytes     |-> SumFunctionOnSet(bytes, On(l)),
            n_threads |-> SumFunctionOnSet(n_threads, On(l))]

Goto(t, label) == pc' = [pc EXCEPT ![t] = label]
AllAt(label) == Team # {} /\ \A t \in Team : pc[t] = label
MoveTeam(label) == pc' = [t \in Threads |-> IF t \in Team THEN label ELSE pc[t]]

-----------------------------------------------------------------------------
Zero == [p \in PUs |-> 0]

Init ==
    /\ mode = "none" /\ regions = 0
    /\ declared = [t \in Threads |-> 0]
    /\ cpu = Pin
    /\ bindings = [t \in Threads |-> 0] /\ sample = bindings
    /\ clock = [t \in Threads |-> 0]
    /\ stopped = clock /\ began = clock
    /\ pc = [t \in Threads |-> "idle"]
    /\ n_threads = Zero /\ last_thread = Zero
    /\ s_nano = Zero /\ e_nano = Zero /\ bytes = Zero
    /\ report = [l \in Locations |-> Line(l)]

-----------------------------------------------------------------------------
(* The environment: CPU clocks run, the scheduler moves unbound threads    *)
(* and the program opens a region when the last one is closed.             *)
Tick(t) ==
    /\ clock[t] < MaxClock
    /\ clock' = [clock EXCEPT ![t] = @ + 1]
    /\ UNCHANGED <<program, placement, stopped, began, pc, samples, report>>

Migrate(t) ==
    /\ t \notin Bound
    /\ \E p \in PUs \ {cpu[t]} : cpu' = [cpu EXCEPT ![t] = p]
    /\ UNCHANGED <<program, bindings, sample, timing, pc, samples, report>>

(* roofline_sampling_start(): the team that will run the sequential start  *)
(* and the argument of each caller.                                        *)
Arguments(m) == IF m = "inpar" THEN [Threads -> Work]
                ELSE {[t \in Threads |-> IF t = Master THEN w ELSE 0] : w \in Work}

BeginRegion(m) ==
    /\ mode = "none" /\ regions < MaxRegions
    /\ mode' = m /\ regions' = regions + 1
    /\ declared' \in Arguments(m)
    /\ pc' = [t \in Threads |-> IF t \in TeamOf(m) THEN "caller" ELSE "idle"]
    /\ UNCHANGED <<placement, timing, samples, report>>

-----------------------------------------------------------------------------
(* roofline_sequential_sampling_start().  A thread whose lookup finds no   *)
(* PU (neither hwloc_get_cpubind() nor sched_getcpu() answers) returns     *)
(* before the barrier of start, and one in stop before that of stop: it    *)
(* stays at "start_failed" or "stop_failed", and the team waits for it at  *)
(* a barrier it never meets.                                               *)
StartFails(t) ==
    /\ pc[t] = "caller" /\ t \in MayFail
    /\ Goto(t, "start_failed")
    /\ UNCHANGED <<program, placement, timing, samples, report>>

StartCaller(t) ==
    /\ pc[t] = "caller"
    /\ bindings' = [bindings EXCEPT ![t] = Here(t)]
    /\ sample' = [sample EXCEPT ![t] = Here(t)]
    /\ Goto(t, "count")
    /\ UNCHANGED <<program, cpu, timing, samples, report>>

\* Slip: the thread sets the count to one instead of adding itself.
CountAssigned(t) ==
    /\ pc[t] = "count"
    /\ n_threads' = [n_threads EXCEPT ![sample[t]] = 1]
    /\ Goto(t, "start_barrier")
    /\ UNCHANGED <<program, placement, timing, last_thread, s_nano, e_nano, bytes, report>>

CountThread(t) ==
    /\ pc[t] = "count"
    /\ n_threads' = [n_threads EXCEPT ![sample[t]] = @ + 1]
    /\ Goto(t, "start_barrier")
    /\ UNCHANGED <<program, placement, timing, last_thread, s_nano, e_nano, bytes, report>>

StartBarrier ==
    /\ AllAt("start_barrier")
    /\ MoveTeam("set_work")
    /\ UNCHANGED <<program, placement, timing, samples, report>>

SetWork(t) ==
    /\ pc[t] = "set_work"
    /\ bytes' = [bytes EXCEPT ![sample[t]] = Share(t)]
    /\ Goto(t, "first")
    /\ UNCHANGED <<program, placement, timing, n_threads, last_thread, s_nano, e_nano, report>>

FirstThread(t) ==
    /\ pc[t] = "first"
    /\ last_thread' = [last_thread EXCEPT ![sample[t]] = @ + 1]
    /\ \/ /\ last_thread[sample[t]] = 0
          /\ Goto(t, "start_timer")
          /\ UNCHANGED began
       \/ /\ last_thread[sample[t]] # 0
          /\ Goto(t, "region")
          /\ began' = [began EXCEPT ![t] = clock[t]]
    /\ UNCHANGED <<program, placement, clock, stopped, n_threads, s_nano, e_nano, bytes, report>>

StartTimer(t) ==
    /\ pc[t] = "start_timer"
    /\ s_nano' = [s_nano EXCEPT ![sample[t]] = clock[t]]
    /\ began' = [began EXCEPT ![t] = clock[t]]
    /\ Goto(t, "region")
    /\ UNCHANGED <<program, placement, clock, stopped, n_threads, last_thread, e_nano, bytes, report>>

-----------------------------------------------------------------------------
(* roofline_sampling_stop().  A forced region forks the team again, after  *)
(* the whole team has left start; every thread then looks its sample up:   *)
(* the workers in bindings[], the master (id 0) as it did in start.        *)
ForkStop ==
    /\ mode = "forced" /\ AllAt("region")
    /\ MoveTeam("stop_caller")
    /\ UNCHANGED <<program, placement, timing, samples, report>>

\* Slip: every thread of the team looks up the entry of the master.
StopCallerOfMaster(t) ==
    /\ pc[t] = "stop_caller"
    /\ sample' = [sample EXCEPT ![t] = bindings[Master]]
    /\ Goto(t, "stop")
    /\ UNCHANGED <<program, cpu, bindings, timing, samples, report>>

(* Only the master's lookup asks the system, and so can fail.              *)
StopFails(t) ==
    /\ pc[t] = "stop_caller" /\ t = Master /\ t \in MayFail
    /\ Goto(t, "stop_failed")
    /\ UNCHANGED <<program, placement, timing, samples, report>>

StopCaller(t) ==
    /\ pc[t] = "stop_caller"
    /\ \/ /\ t = Master
          /\ bindings' = [bindings EXCEPT ![t] = Here(t)]
          /\ sample' = [sample EXCEPT ![t] = Here(t)]
       \/ /\ t # Master
          /\ sample' = [sample EXCEPT ![t] = bindings[t]]
          /\ UNCHANGED bindings
    /\ Goto(t, "stop")
    /\ UNCHANGED <<program, cpu, timing, samples, report>>

\* Slip: stop looks the sample up again instead of using the pointer.
EnterStopLooksUp(t) ==
    /\ pc[t] = "stop" \/ (pc[t] = "region" /\ mode # "forced")
    /\ stopped' = [stopped EXCEPT ![t] = clock[t]]
    /\ sample' = [sample EXCEPT ![t] = Here(t)]
    /\ Goto(t, "last")
    /\ UNCHANGED <<program, cpu, bindings, clock, began, samples, report>>

(* roofline_sequential_sampling_stop(): the clock is read first.           *)
EnterStop(t) ==
    /\ pc[t] = "stop" \/ (pc[t] = "region" /\ mode # "forced")
    /\ stopped' = [stopped EXCEPT ![t] = clock[t]]
    /\ Goto(t, "last")
    /\ UNCHANGED <<program, placement, clock, began, samples, report>>

LastThread(t) ==
    /\ pc[t] = "last"
    /\ last_thread' = [last_thread EXCEPT ![sample[t]] = @ - 1]
    /\ \/ last_thread[sample[t]] = 1 /\ Goto(t, "stop_timer")
       \/ last_thread[sample[t]] # 1 /\ Goto(t, "stop_barrier")
    /\ UNCHANGED <<program, placement, timing, n_threads, s_nano, e_nano, bytes, report>>

StopTimer(t) ==
    /\ pc[t] = "stop_timer"
    /\ e_nano' = [e_nano EXCEPT ![sample[t]] = stopped[t]]
    /\ Goto(t, "stop_barrier")
    /\ UNCHANGED <<program, placement, timing, n_threads, last_thread, s_nano, bytes, report>>

\* Slip: no barrier before the single construct.
NoStopBarrier ==
    /\ \E t \in Team : pc[t] = "stop_barrier" /\ Goto(t, "single")
    /\ UNCHANGED <<program, placement, timing, samples, report>>

StopBarrier ==
    /\ AllAt("stop_barrier")
    /\ MoveTeam("single")
    /\ UNCHANGED <<program, placement, timing, samples, report>>

(* omp single: the first thread to arrive prints and resets, the others    *)
(* wait for it at the barrier that ends the construct.                     *)
Claimed == \E t \in Team : pc[t] \in {"reset", "end"}

\* Slip: without the single construct, every thread prints.
PublishByAll(t) ==
    /\ pc[t] = "single"
    /\ report' = [l \in Locations |-> Line(l)]
    /\ Goto(t, "reset")
    /\ UNCHANGED <<program, placement, timing, samples>>

Publish(t) ==
    /\ pc[t] = "single" /\ ~Claimed
    /\ report' = [l \in Locations |-> Line(l)]
    /\ Goto(t, "reset")
    /\ UNCHANGED <<program, placement, timing, samples>>

\* Slip: the end of the timer is not reset.
ResetKeepsEnd(t) ==
    /\ pc[t] = "reset"
    /\ n_threads' = Zero /\ s_nano' = Zero /\ bytes' = Zero
    /\ Goto(t, "end")
    /\ UNCHANGED <<program, placement, timing, last_thread, e_nano, report>>

(* roofline_sample_reset() on every sample: last_thread is left alone.     *)
ResetSamples(t) ==
    /\ pc[t] = "reset"
    /\ n_threads' = Zero /\ s_nano' = Zero /\ e_nano' = Zero /\ bytes' = Zero
    /\ Goto(t, "end")
    /\ UNCHANGED <<program, placement, timing, last_thread, report>>

\* Slip: a thread that comes after the claim tries again.
SkipRetries(t) ==
    /\ pc[t] = "single" /\ Claimed
    /\ Goto(t, "single")
    /\ UNCHANGED <<program, placement, timing, samples, report>>

SkipSingle(t) ==
    /\ pc[t] = "single" /\ Claimed
    /\ Goto(t, "end")
    /\ UNCHANGED <<program, placement, timing, samples, report>>

EndRegion ==
    /\ AllAt("end")
    /\ MoveTeam("idle")
    /\ mode' = "none"
    /\ UNCHANGED <<regions, declared, placement, timing, samples, report>>

(* The program has closed its last region.                                 *)
Exit ==
    /\ mode = "none" /\ regions = MaxRegions
    /\ UNCHANGED vars

-----------------------------------------------------------------------------
StartStep(t) == \/ StartFails(t) \/ StartCaller(t) \/ CountThread(t) \/ SetWork(t)
                \/ FirstThread(t) \/ StartTimer(t)
StopStep(t)  == \/ StopFails(t) \/ StopCaller(t) \/ EnterStop(t) \/ LastThread(t) \/ StopTimer(t)
                \/ Publish(t) \/ ResetSamples(t) \/ SkipSingle(t)
TeamStep     == StartBarrier \/ ForkStop \/ StopBarrier \/ EndRegion

Next ==
    \/ \E m \in Modes : BeginRegion(m)
    \/ \E t \in Threads : Tick(t) \/ Migrate(t) \/ StartStep(t) \/ StopStep(t)
    \/ TeamStep
    \/ Exit

Spec == Init /\ [][Next]_vars

(* The operating system keeps running every thread of the team and the     *)
(* code between start and stop ends.                                       *)
Fairness == /\ \A t \in Threads : WF_vars(StartStep(t)) /\ WF_vars(StopStep(t))
            /\ WF_vars(TeamStep)
FairSpec == Spec /\ Fairness

-----------------------------------------------------------------------------
Labels == {"idle", "caller", "start_failed", "stop_failed", "count", "start_barrier", "set_work", "first",
           "start_timer", "region", "stop_caller", "stop", "last", "stop_timer",
           "stop_barrier", "single", "reset", "end"}

(* Types.  In particular last_thread, a signed int in the code, never      *)
(* becomes negative: no thread leaves a sample it did not enter.           *)
TypeOK ==
    /\ mode \in Modes \cup {"none"}
    /\ regions \in 0 .. MaxRegions
    /\ declared \in [Threads -> Nat]
    /\ cpu \in [Threads -> PUs]
    /\ bindings \in [Threads -> PUs] /\ sample \in [Threads -> PUs]
    /\ clock \in [Threads -> 0 .. MaxClock]
    /\ stopped \in [Threads -> 0 .. MaxClock] /\ began \in [Threads -> 0 .. MaxClock]
    /\ pc \in [Threads -> Labels]
    /\ n_threads \in [PUs -> Nat] /\ last_thread \in [PUs -> Nat]
    /\ s_nano \in [PUs -> Nat] /\ e_nano \in [PUs -> Nat] /\ bytes \in [PUs -> Nat]

(* The lines of the region have just been printed.                         *)
Printed == \E t \in Team : pc[t] = "reset"

(* Every thread of the team is counted on exactly one printed line, however*)
(* the threads share PUs and wherever the scheduler moves them.            *)
ThreadsCountedOnce ==
    Printed => SumFunctionOnSet([l \in Locations |-> report[l].n_threads], Locations)
                 = Cardinality(Team)

(* last_thread counts exactly the threads between start and stop on the    *)
(* sample, so that the first and the last of them are told apart.          *)
Inside(p) == {t \in Team : /\ sample[t] = p
                           /\ pc[t] \in {"start_timer", "region", "stop_caller",
                                       "stop_failed", "stop", "last"}}
TimersBalanced == \A p \in PUs : last_thread[p] = Cardinality(Inside(p))

(* The next region starts from clean samples: the timers are re-armed      *)
(* (last_thread is back to 0 although nothing resets it) and no counter of *)
(* the last region is left.                                                *)
CleanBetweenRegions ==
    mode = "none" => /\ n_threads = Zero /\ last_thread = Zero
                     /\ s_nano = Zero /\ e_nano = Zero /\ bytes = Zero

(* A line is printed from samples that no thread is still updating, and    *)
(* they are not touched before the reset.                                  *)
PrintedIsFinal == Printed => report = [l \in Locations |-> Line(l)]

(* Nanoseconds is the time between start and stop (sampling.h:65): that of *)
(* the slowest thread of the location.                                     *)
ThreadsOn(l) == {t \in Team : LocationOf[sample[t]] = l}
NanosIsElapsed ==
    Printed => \A l \in Locations :
        report[l].nanos = Max({0} \cup {stopped[t] - began[t] : t \in ThreadsOn(l)})

(* The printed bytes are those the program declared for the region.        *)
BytesAsDeclared ==
    Printed => SumFunctionOnSet([l \in Locations |-> report[l].bytes], Locations)
                 = SumFunctionOnSet(declared, Threads)

(* A region that was opened is printed and closed, unless a thread of the  *)
(* team did not find its sample: nothing else keeps it from a barrier.     *)
LookupFailed == \E t \in Team : pc[t] \in {"start_failed", "stop_failed"}
RegionsEnd == mode # "none" ~> mode = "none" \/ LookupFailed

=============================================================================
