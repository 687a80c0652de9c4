-------------------------------- MODULE Bench --------------------------------
(***************************************************************************)
(* One call of roofline_memory() or roofline_fpeak() (src/src/roofline.c)  *)
(* with the automatic choice of the number of repetitions                  *)
(* (roofline_autoset_repeat() in src/src/stats.c) and the aggregation of   *)
(* the results (src/src/output.c).                                         *)
(*                                                                         *)
(* Every thread of the team runs the same loop over the sizes.  For each   *)
(* size the team chooses repeat: it measures NSamples samples with 1, 2,   *)
(* 4... repetitions until one thread, the one that executes the single     *)
(* construct, finds that its samples lasted Limit cycles (half a second).  *)
(* Then the benchmark proper is measured, every thread adds its result to  *)
(* that of the memory group it is bound in, and one thread prints the      *)
(* groups and clears them.                                                 *)
(*                                                                         *)
(* Kind "peak" (roofline_fpeak) chooses repeat once, by the master alone   *)
(* and before the team is forked, and has no sizes to skip: Sizes then     *)
(* stands for the flops of a repetition in each of the rounds.             *)
(*                                                                         *)
(* Barriers follow libgomp: a barrier counts the threads of the team that  *)
(* arrive, at whatever barrier of the program, and releases them all when  *)
(* the last one comes.  That they all came to the same one is a property.  *)
(***************************************************************************)
EXTENDS Integers, Sequences, FiniteSets, SequencesExt, Order

CONSTANTS Threads, Master,
          Groups,         \* the logical indices of the memory groups
          GroupOf,        \* the group above the PU each thread is bound to
          Kind,           \* "memory" or "peak"
          Sizes,          \* the sizes of roofline_linear_sizes(), none below the one before
          LowSize,        \* low_size
          Stages,         \* what a benchmark measures, in this order
          NSamples,       \* n_samples of stats.c (5 in the code)
          InitialRepeat,  \* initial value of repeat (100 in the code)
          Limit,          \* cycles that make 500 ms
          Costs,          \* the cycles a repetition may take
          Overheads       \* the cycles an overhead measure may take

ASSUME BenchTeam == /\ Master \in Threads /\ IsFiniteSet(Threads)
                    /\ "none" \notin Threads /\ "free" \notin Threads
ASSUME BenchPlaces == Groups \subseteq Nat /\ GroupOf \in [Threads -> Groups]
ASSUME BenchProgram ==
    /\ Kind \in {"memory", "peak"}
    /\ Sizes \in Seq(Nat) /\ LowSize \in Nat
    /\ Kind = "peak" => Sizes # << >>
    /\ Kind = "memory" => \A i, j \in 1 .. Len(Sizes) : i <= j => Sizes[i] <= Sizes[j]
    /\ Stages \in Seq({"overhead", "measure"})
    /\ \E j \in 1 .. Len(Stages) : Stages[j] = "measure"
    /\ NSamples \in Nat \ {0} /\ InitialRepeat \in Nat \ {0, 1}
    /\ Limit \in Nat /\ Costs \subseteq Nat \ {0} /\ Overheads \subseteq Nat

VARIABLES pc,
          team,       \* the threads of the parallel region
          idx,        \* i: the size each thread is at
          task,       \* "autoset" or "bench": what each thread measures for
          rep,        \* the repetitions each thread was asked for
          k, stage,   \* the sample and the stage each thread measures
          total,      \* cycles of autoset_repeat, one count per thread
          repeat,     \* shared: repeat of roofline_memory
          test_stop,  \* shared: static test_stop of autoset_repeat
          single,     \* the thread that executes the current single construct, or "none"
          lock,       \* the thread in the critical section, or "free"
          seen,       \* what each thread last read from its group
          local_out,  \* the work in each thread's local_out
          out,        \* shared: count and work of each group
          lines       \* history: the lines printed so far

control == <<pc, team, idx, task, k, stage>>
shared  == <<repeat, test_stop>>
results == <<lock, seen, local_out, out, lines>>
vars    == <<control, rep, total, shared, single, results>>

-----------------------------------------------------------------------------
Empty == [n |-> 0, work |-> 0]
Used  == {GroupOf[t] : t \in Threads}

\* Slip: a size equal to the one before is measured again.
KeepsRepeatedSizes(i) == Kind = "memory" /\ Sizes[i] < LowSize

(* The sizes roofline_memory() passes over.                                *)
Skipped(i) == Kind = "memory" /\ \/ Sizes[i] < LowSize
                                 \/ i > 1 /\ Sizes[i] = Sizes[i - 1]

Goto(t, label) == pc' = [pc EXCEPT ![t] = label]

Init ==
    /\ team = IF Kind = "memory" THEN Threads ELSE {Master}
    /\ pc = [t \in Threads |-> IF Kind = "memory" THEN "start"
                               ELSE IF t = Master THEN "begin" ELSE "idle"]
    /\ idx = [t \in Threads |-> 1]
    /\ task = [t \in Threads |-> "autoset"]
    /\ rep = [t \in Threads |-> 1]
    /\ k = [t \in Threads |-> 1] /\ stage = k
    /\ total = [t \in Threads |-> 0]
    /\ repeat = InitialRepeat
    /\ test_stop \in {0, 1}          \* as the last call left it
    /\ single = "none"
    /\ lock = "free" /\ seen = [t \in Threads |-> Empty]
    /\ local_out = [t \in Threads |-> 0]
    /\ out = [g \in Groups |-> Empty]
    /\ lines = << >>

-----------------------------------------------------------------------------
(* Where a thread continues when the barrier it waits at releases it.      *)
Barriers == {"start", "announce", "begin", "end", "decided", "rejoin",
             "settle", "aggregated", "printed"}
After == [start |-> "size", announce |-> "test_repeat", begin |-> "timed",
          end |-> "measured", decided |-> "rejoin", rejoin |-> "test",
          settle |-> "aggregate", aggregated |-> "print", printed |-> "size"]

\* Slip: no barrier before the clock is read.
BeginWithoutBarrier ==
    \/ \E t \in team : pc[t] = "begin" /\ Goto(t, "timed")
          /\ UNCHANGED <<team, idx, task, k, stage, rep, total, shared, single, results>>
    \/ /\ \A t \in team : pc[t] \in Barriers \ {"begin"}
       /\ pc' = [t \in Threads |-> IF t \in team THEN After[pc[t]] ELSE pc[t]]
       /\ idx' = [t \in Threads |-> IF t \in team /\ pc[t] = "printed" THEN idx[t] + 1 ELSE idx[t]]
       /\ single' = "none"
       /\ UNCHANGED <<team, task, k, stage, rep, total, shared, results>>

Barrier ==
    /\ \A t \in team : pc[t] \in Barriers
    /\ pc' = [t \in Threads |-> IF t \in team THEN After[pc[t]] ELSE pc[t]]
    /\ idx' = [t \in Threads |-> IF t \in team /\ pc[t] = "printed" THEN idx[t] + 1 ELSE idx[t]]
    /\ single' = "none"
    /\ UNCHANGED <<team, task, k, stage, rep, total, shared, results>>

-----------------------------------------------------------------------------
(* The loop over the sizes.  The empty single construct (without DEBUG2)   *)
(* after the size is set still ends in a barrier.                          *)
EndLoop(t) ==
    /\ pc[t] = "size" /\ idx[t] > Len(Sizes)
    /\ Goto(t, "done")
    /\ UNCHANGED <<team, idx, task, k, stage, rep, total, shared, single, results>>

SkipSize(t) ==
    /\ pc[t] = "size" /\ idx[t] <= Len(Sizes) /\ Skipped(idx[t])
    /\ idx' = [idx EXCEPT ![t] = @ + 1]
    /\ UNCHANGED <<pc, team, task, k, stage, rep, total, shared, single, results>>

SetSize(t) ==
    /\ pc[t] = "size" /\ idx[t] <= Len(Sizes) /\ ~Skipped(idx[t])
    /\ Goto(t, IF Kind = "memory" THEN "announce" ELSE "bench")
    /\ UNCHANGED <<team, idx, task, k, stage, rep, total, shared, single, results>>

(* if(repeat>1) repeat = roofline_autoset_repeat(..)                       *)
TestRepeat(t) ==
    /\ pc[t] = "test_repeat"
    /\ \/ /\ repeat > 1
          /\ task' = [task EXCEPT ![t] = "autoset"]
          /\ rep' = [rep EXCEPT ![t] = 1]
          /\ total' = [total EXCEPT ![t] = 0]
          /\ k' = [k EXCEPT ![t] = 1] /\ stage' = [stage EXCEPT ![t] = 1]
          /\ Goto(t, "begin")
       \/ /\ repeat <= 1
          /\ Goto(t, "bench")
          /\ UNCHANGED <<task, rep, total, k, stage>>
    /\ UNCHANGED <<team, idx, shared, single, results>>

(* roofline_output_clear(local_out) and the call of the benchmark.         *)
StartBench(t) ==
    /\ pc[t] = "bench"
    /\ local_out' = [local_out EXCEPT ![t] = 0]
    /\ task' = [task EXCEPT ![t] = "bench"]
    /\ rep' = [rep EXCEPT ![t] = repeat]
    /\ k' = [k EXCEPT ![t] = 1] /\ stage' = [stage EXCEPT ![t] = 1]
    /\ Goto(t, "begin")
    /\ UNCHANGED <<team, idx, total, shared, single, lock, seen, out, lines>>

-----------------------------------------------------------------------------
(* The benchmark between begin_measure and end_measure.  The fields that   *)
(* end_measure sets are the thread's own: they are set here, before the    *)
(* barrier of end_measure, and nobody can tell the difference.             *)
Measure(t) ==
    /\ pc[t] = "timed"
    /\ \/ /\ Stages[stage[t]] = "overhead"
          /\ \E o \in Overheads : total' = [total EXCEPT ![t] = @ + o]
          /\ UNCHANGED local_out
       \/ /\ Stages[stage[t]] = "measure"
          /\ \E c \in Costs : total' = [total EXCEPT ![t] = @ + c * rep[t]]
          /\ local_out' = [local_out EXCEPT ![t] = Sizes[idx[t]] * rep[t]]
    /\ Goto(t, "end")
    /\ UNCHANGED <<team, idx, task, k, stage, rep, shared, single, lock, seen, out, lines>>

\* Slip: one sample more than there are.
OneSampleMore(t) ==
    /\ pc[t] = "measured"
    /\ \/ /\ stage[t] < Len(Stages)
          /\ stage' = [stage EXCEPT ![t] = @ + 1]
          /\ Goto(t, "begin")
          /\ UNCHANGED k
       \/ /\ stage[t] = Len(Stages) /\ task[t] = "bench"
          /\ Goto(t, IF Kind = "memory" THEN "aggregate" ELSE "settle")
          /\ UNCHANGED <<k, stage>>
       \/ /\ stage[t] = Len(Stages) /\ task[t] = "autoset" /\ k[t] <= NSamples
          /\ k' = [k EXCEPT ![t] = @ + 1]
          /\ stage' = [stage EXCEPT ![t] = 1]
          /\ Goto(t, "begin")
    /\ UNCHANGED <<team, idx, task, rep, total, shared, single, results>>

(* The next stage of the benchmark, the next sample, or what comes after.  *)
NextStage(t) ==
    /\ pc[t] = "measured"
    /\ \/ /\ stage[t] < Len(Stages)
          /\ stage' = [stage EXCEPT ![t] = @ + 1]
          /\ Goto(t, "begin")
          /\ UNCHANGED k
       \/ /\ stage[t] = Len(Stages) /\ task[t] = "bench"
          /\ Goto(t, IF Kind = "memory" THEN "aggregate" ELSE "settle")
          /\ UNCHANGED <<k, stage>>
       \/ /\ stage[t] = Len(Stages) /\ task[t] = "autoset" /\ k[t] < NSamples
          /\ k' = [k EXCEPT ![t] = @ + 1]
          /\ stage' = [stage EXCEPT ![t] = 1]
          /\ Goto(t, "begin")
       \/ /\ stage[t] = Len(Stages) /\ task[t] = "autoset" /\ k[t] = NSamples
          /\ Goto(t, "decide")
          /\ UNCHANGED <<k, stage>>
    /\ UNCHANGED <<team, idx, task, rep, total, shared, single, results>>

(* The values test_stop may get in the single construct: below the limit   *)
(* the last test wins, above it the first; on the limit the median and the *)
(* variance of the samples decide.                                         *)
Verdicts(n) == IF n < Limit THEN {0} ELSE IF n > Limit THEN {1} ELSE {0, 1}

Decide(t) ==
    /\ pc[t] = "decide"
    /\ \/ /\ single = "none"
          /\ single' = t
          /\ test_stop' \in Verdicts(total[t])
       \/ /\ single # "none"
          /\ UNCHANGED <<single, test_stop>>
    /\ Goto(t, "decided")
    /\ UNCHANGED <<team, idx, task, k, stage, rep, total, repeat, results>>

\* Slip: every thread decides from its own samples.
TestOwnSamples(t) ==
    /\ pc[t] = "test"
    /\ \/ /\ total[t] >= Limit
          /\ repeat' = rep[t]
          /\ Goto(t, IF Kind = "memory" THEN "bench" ELSE "fork")
          /\ UNCHANGED <<rep, total, k, stage>>
       \/ /\ total[t] < Limit
          /\ rep' = [rep EXCEPT ![t] = @ * 2]
          /\ total' = [total EXCEPT ![t] = 0]
          /\ k' = [k EXCEPT ![t] = 1] /\ stage' = [stage EXCEPT ![t] = 1]
          /\ Goto(t, "begin")
          /\ UNCHANGED repeat
    /\ UNCHANGED <<team, idx, task, test_stop, single, results>>

\* Slip: the next samples are measured with as many repetitions.
TestKeepsRepeat(t) ==
    /\ pc[t] = "test"
    /\ \/ /\ test_stop = 1
          /\ repeat' = rep[t]
          /\ Goto(t, IF Kind = "memory" THEN "bench" ELSE "fork")
          /\ UNCHANGED <<total, k, stage>>
       \/ /\ test_stop = 0
          /\ total' = [total EXCEPT ![t] = 0]
          /\ k' = [k EXCEPT ![t] = 1] /\ stage' = [stage EXCEPT ![t] = 1]
          /\ Goto(t, "begin")
          /\ UNCHANGED repeat
    /\ UNCHANGED <<rep, team, idx, task, test_stop, single, results>>

(* After the barrier every thread reads test_stop: either it returns its   *)
(* own repeat, and the caller stores it in the shared one, or it doubles   *)
(* it and measures again.                                                  *)
Test(t) ==
    /\ pc[t] = "test"
    /\ \/ /\ test_stop = 1
          /\ repeat' = rep[t]
          /\ Goto(t, IF Kind = "memory" THEN "bench" ELSE "fork")
          /\ UNCHANGED <<rep, total, k, stage>>
       \/ /\ test_stop = 0
          /\ rep' = [rep EXCEPT ![t] = @ * 2]
          /\ total' = [total EXCEPT ![t] = 0]
          /\ k' = [k EXCEPT ![t] = 1] /\ stage' = [stage EXCEPT ![t] = 1]
          /\ Goto(t, "begin")
          /\ UNCHANGED repeat
    /\ UNCHANGED <<team, idx, task, test_stop, single, results>>

(* roofline_fpeak() forks its team once repeat is known.                   *)
ForkTeam ==
    /\ pc[Master] = "fork"
    /\ team' = Threads
    /\ pc' = [t \in Threads |-> "size"]
    /\ UNCHANGED <<idx, task, k, stage, rep, total, shared, single, results>>

-----------------------------------------------------------------------------
(* The critical section: roofline_output_aggregate_result() reads the      *)
(* counters of the thread's group and writes them back.                    *)

\* Slip: no critical section.
ReadGroupUnlocked(t) ==
    /\ pc[t] = "aggregate"
    /\ lock' = t
    /\ seen' = [seen EXCEPT ![t] = out[GroupOf[t]]]
    /\ Goto(t, "accumulate")
    /\ UNCHANGED <<team, idx, task, k, stage, rep, total, shared, single, local_out, out, lines>>

ReadGroup(t) ==
    /\ pc[t] = "aggregate"
    /\ lock = "free" /\ lock' = t
    /\ seen' = [seen EXCEPT ![t] = out[GroupOf[t]]]
    /\ Goto(t, "accumulate")
    /\ UNCHANGED <<team, idx, task, k, stage, rep, total, shared, single, local_out, out, lines>>

WriteGroup(t) ==
    /\ pc[t] = "accumulate"
    /\ out' = [out EXCEPT ![GroupOf[t]] = [n    |-> seen[t].n + 1,
                                             work |-> seen[t].work + local_out[t]]]
    /\ lock' = "free"
    /\ Goto(t, "aggregated")
    /\ UNCHANGED <<team, idx, task, k, stage, rep, total, shared, single, seen, local_out, lines>>

(* roofline_print_outputs(): the groups with a count, in logical order.    *)
NonEmpty == {g \in Groups : out[g].n > 0}
LinesFor(t) ==
    [j \in 1 .. Cardinality(NonEmpty) |->
        LET g == Ascending(NonEmpty)[j]
        IN [size |-> Sizes[idx[t]], group |-> g, repeat |-> repeat,
            n |-> out[g].n, work |-> out[g].work]]

Publish(t) ==
    /\ pc[t] = "print"
    /\ \/ /\ single = "none"
          /\ single' = t
          /\ lines' = lines \o LinesFor(t)
          /\ out' = [g \in Groups |-> Empty]
       \/ single # "none" /\ UNCHANGED <<single, lines, out>>
    /\ Goto(t, "printed")
    /\ UNCHANGED <<team, idx, task, k, stage, rep, total, shared, lock, seen, local_out>>

AllDone == \A t \in Threads : pc[t] = "done"
Return == AllDone /\ UNCHANGED vars

-----------------------------------------------------------------------------
Step(t) == \/ EndLoop(t) \/ SkipSize(t) \/ SetSize(t) \/ TestRepeat(t)
           \/ StartBench(t) \/ Measure(t) \/ NextStage(t) \/ Decide(t) \/ Test(t)
           \/ ReadGroup(t) \/ WriteGroup(t) \/ Publish(t)

Next == \/ \E t \in Threads : Step(t)
        \/ Barrier \/ ForkTeam \/ Return

Spec == Init /\ [][Next]_vars

(* Every thread has a PU of its own and keeps running.  A thread enters    *)
(* the critical section once between two barriers, so that weak fairness   *)
(* is enough for the one that waits.                                       *)
Fairness == /\ \A t \in Threads : WF_vars(Step(t))
            /\ WF_vars(Barrier) /\ WF_vars(ForkTeam)
FairSpec == Spec /\ Fairness

-----------------------------------------------------------------------------
Labels == Barriers \cup {"idle", "size", "test_repeat", "bench", "timed", "measured",
                         "decide", "test", "fork", "aggregate", "accumulate", "print", "done"}

TypeOK ==
    /\ pc \in [Threads -> Labels] /\ team \in SUBSET Threads
    /\ idx \in [Threads -> 1 .. Len(Sizes) + 1]
    /\ task \in [Threads -> {"autoset", "bench"}]
    /\ rep \in [Threads -> Nat \ {0}]
    /\ k \in [Threads -> 1 .. NSamples] /\ stage \in [Threads -> 1 .. Len(Stages)]
    /\ total \in [Threads -> Nat] /\ local_out \in [Threads -> Nat]
    /\ repeat \in Nat \ {0} /\ test_stop \in {0, 1} /\ single \in Threads \cup {"none"}
    /\ lock \in Threads \cup {"free"}
    /\ seen \in [Threads -> [n : Nat, work : Nat]]
    /\ out \in [Groups -> [n : Nat, work : Nat]]

(* Threads that a barrier releases together all wait at the same barrier   *)
(* of the same measurement: although every thread decides for itself which *)
(* sizes to skip, whether to choose repeat again and when to stop doubling *)
(* it, they never disagree.                                                *)
Place(t) == <<pc[t], idx[t], task[t], rep[t], k[t], stage[t]>>
BarriersMatch ==
    (\A t \in team : pc[t] \in Barriers) => \A t, u \in team : Place(t) = Place(u)

(* What is timed on one thread runs beside the same code, on a buffer of   *)
(* the same size with the same repetitions, on all the others.             *)
MeasuredTogether ==
    \A t, u \in team : pc[t] = "timed" =>
        /\ pc[u] \in {"timed", "end"}
        /\ <<idx[u], task[u], rep[u], k[u], stage[u]>> = <<idx[t], task[t], rep[t], k[t], stage[t]>>

(* A printed line holds the work of each thread of its group exactly once, *)
(* all for the line's size and with the repetitions the team agreed on.    *)
ThreadsOf(g) == {t \in Threads : GroupOf[t] = g}
LinesComplete ==
    \A j \in 1 .. Len(lines) :
        LET line == lines[j]
        IN /\ line.n = Cardinality(ThreadsOf(line.group))
           /\ line.work = line.n * line.size * line.repeat

(* When the call returns it has printed every size in the bounds once for  *)
(* every group that has a thread: by increasing size, then by group.       *)
SizesInBounds == {s \in ToSet(Sizes) : s >= LowSize}
SizesToPrint == IF Kind = "memory" THEN Ascending(SizesInBounds) ELSE Sizes
Rows(n) == Cardinality(Used) * n
EveryLineOnce ==
    AllDone =>
        /\ Len(lines) = Rows(Len(SizesToPrint))
        /\ \A i \in 1 .. Len(SizesToPrint), j \in 1 .. Cardinality(Used) :
              LET line == lines[Rows(i - 1) + j]
              IN line.size = SizesToPrint[i] /\ line.group = Ascending(Used)[j]

(* The call returns: repeat is not doubled for ever and no thread is left  *)
(* behind at a barrier.                                                    *)
Returns == <>AllDone
=============================================================================
