----------------------------- MODULE BenchProofs -----------------------------
(***************************************************************************)
(* For every team, list of sizes and timing of the threads: the team meets *)
(* at the same barriers, what is timed on one thread runs beside the same  *)
(* on all others, and the lines hold the work of every thread, once, for   *)
(* every size in the bounds, once.                                         *)
(*                                                                         *)
(* The threads are not in the same place between two barriers, and the     *)
(* numbers they took there differ.  What they share is where they will     *)
(* wait next: Meet(t) computes it from the thread's own variables and the  *)
(* two shared ones.  A step of a thread leaves its Meet as it is, and      *)
(* changes a shared variable only when no other thread's Meet depends on   *)
(* it; a barrier moves threads whose places agree.  The sizes ahead stand  *)
(* for the index in it, since threads pass over skipped sizes one by one.  *)
(* On top of that a second invariant follows the work of the threads into  *)
(* the groups and from there into the lines.                               *)
(***************************************************************************)
EXTENDS Bench, SetLemmas

Kept(i)  == i \in 1 .. Len(Sizes) /\ ~Skipped(i)
Ahead(i) == {j \in i .. Len(Sizes) : ~Skipped(j)}

(* Where a thread in the given place waits next, and with what.            *)
MeetFrom(p, i, ta, r, kk, s) ==
    IF p \in Barriers THEN <<p, Ahead(i), ta, r, kk, s>>
    ELSE IF p = "size" THEN
        IF Ahead(i) = {} THEN <<"done", {}, "bench", 1, 1, 1>>
        ELSE IF Kind = "memory" THEN <<"announce", Ahead(i), ta, r, kk, s>>
        ELSE <<"begin", Ahead(i), "bench", repeat, 1, 1>>
    ELSE IF p = "done" THEN <<"done", {}, "bench", 1, 1, 1>>
    ELSE IF p = "test_repeat" THEN
        IF repeat > 1 THEN <<"begin", Ahead(i), "autoset", 1, 1, 1>>
        ELSE <<"begin", Ahead(i), "bench", repeat, 1, 1>>
    ELSE IF p = "bench" THEN <<"begin", Ahead(i), "bench", repeat, 1, 1>>
    ELSE IF p = "timed" THEN <<"end", Ahead(i), ta, r, kk, s>>
    ELSE IF p = "measured" THEN
        IF s < Len(Stages) THEN <<"begin", Ahead(i), ta, r, kk, s + 1>>
        ELSE IF ta = "bench" THEN
            <<IF Kind = "memory" THEN "aggregated" ELSE "settle", Ahead(i), ta, r, kk, s>>
        ELSE IF kk < NSamples THEN <<"begin", Ahead(i), ta, r, kk + 1, 1>>
        ELSE <<"decided", Ahead(i), ta, r, kk, s>>
    ELSE IF p = "decide" THEN <<"decided", Ahead(i), ta, r, kk, s>>
    ELSE IF p = "test" THEN
        IF test_stop = 0 THEN <<"begin", Ahead(i), "autoset", r * 2, 1, 1>>
        ELSE IF Kind = "memory" THEN <<"begin", Ahead(i), "bench", r, 1, 1>>
        ELSE <<"fork", Ahead(i), ta, r, kk, s>>
    ELSE IF p \in {"aggregate", "accumulate"} THEN <<"aggregated", Ahead(i), ta, r, kk, s>>
    ELSE IF p = "print" THEN <<"printed", Ahead(i), ta, r, kk, s>>
    ELSE <<p, Ahead(i), ta, r, kk, s>>

Meet(t) == MeetFrom(pc[t], idx[t], task[t], rep[t], k[t], stage[t])
InStep  == \A t, u \in team : Meet(t) = Meet(u)

(* Which sizes and tasks go with which place.                              *)
Choosing  == {"decide", "decided", "rejoin", "test", "fork"}
Reporting == {"settle", "aggregate", "accumulate", "aggregated", "print", "printed"}
PlaceOK(t) ==
    /\ pc[t] \in {"start", "idle"} => idx[t] = 1
    /\ pc[t] \notin {"start", "idle", "size", "done"} => Kept(idx[t])
    /\ pc[t] \in Choosing \cup {"idle"} => task[t] = "autoset"
    /\ pc[t] \in Reporting => task[t] = "bench"
    /\ Kind = "memory" => pc[t] \notin {"fork", "idle"}
    /\ Kind = "peak" => /\ pc[t] \notin {"start", "announce", "test_repeat"}
                        /\ task[t] = "autoset" => idx[t] = 1

(* The team of roofline_fpeak() while the master chooses repeat.           *)
TeamOK ==
    /\ Master \in team
    /\ Kind = "memory" => team = Threads
    /\ \A t \in Threads \ team : pc[t] = "idle"
    /\ Kind = "peak" /\ team # {Master} =>
          /\ team = Threads
          /\ \A t \in Threads : /\ pc[t] \notin Choosing
                                /\ pc[t] \in {"begin", "timed", "end", "measured"} => task[t] = "bench"

IInv == TypeOK /\ TeamOK /\ (\A t \in Threads : PlaceOK(t)) /\ InStep

-----------------------------------------------------------------------------
LEMMA AheadOfSkipped ==
    ASSUME NEW i \in Nat, Skipped(i) PROVE Ahead(i + 1) = Ahead(i)
BY BenchProgram, SMT DEF Ahead

LEMMA AheadOfKept ==
    ASSUME NEW i \in Nat, i <= Len(Sizes), ~Skipped(i) PROVE i \in Ahead(i) /\ Ahead(i) # {}
BY BenchProgram, SMT DEF Ahead

LEMMA NothingAhead == ASSUME NEW i \in Nat, i > Len(Sizes) PROVE Ahead(i) = {}
BY BenchProgram, SMT DEF Ahead

(* Among kept sizes, the sizes ahead tell the index.                       *)
LEMMA AheadTells ==
    ASSUME NEW i, NEW j, Kept(i), Kept(j), Ahead(i) = Ahead(j) PROVE i = j
<1>1. i \in Nat /\ j \in Nat /\ i <= Len(Sizes) /\ j <= Len(Sizes)
  BY BenchProgram, SMT DEF Kept
<1>2. i \in Ahead(j) /\ j \in Ahead(i)
  BY <1>1, AheadOfKept DEF Kept
<1>3. i >= j /\ j >= i
  BY <1>1, <1>2, BenchProgram, SMT DEF Ahead
<1> QED BY <1>1, <1>3, SMT

(* Where threads wait at barriers, InStep says that their places agree.    *)
LEMMA PlacesAgree ==
    ASSUME IInv, \A t \in team : pc[t] \in Barriers
    PROVE  \A t, u \in team : Place(t) = Place(u)
<1> SUFFICES ASSUME NEW t \in team, NEW u \in team PROVE Place(t) = Place(u)
  OBVIOUS
<1>1. t \in Threads /\ u \in Threads
  BY DEF IInv, TypeOK
<1>2. Meet(t) = <<pc[t], Ahead(idx[t]), task[t], rep[t], k[t], stage[t]>>
  BY DEF Meet, MeetFrom
<1>3. Meet(u) = <<pc[u], Ahead(idx[u]), task[u], rep[u], k[u], stage[u]>>
  BY DEF Meet, MeetFrom
<1>4. Meet(t) = Meet(u)
  BY DEF IInv, InStep
<1>5. /\ pc[t] = pc[u] /\ Ahead(idx[t]) = Ahead(idx[u])
      /\ task[t] = task[u] /\ rep[t] = rep[u] /\ k[t] = k[u] /\ stage[t] = stage[u]
  BY <1>2, <1>3, <1>4, SMT
<1>6. idx[t] = idx[u]
  <2>1. CASE pc[t] = "start"
    BY <1>1, <1>5, <2>1 DEF IInv, PlaceOK
  <2>2. CASE pc[t] # "start"
    <3>1. pc[t] \notin {"start", "idle", "size", "done"}
      BY <2>2 DEF Barriers
    <3>2. Kept(idx[t]) /\ Kept(idx[u])
      BY <1>1, <1>5, <3>1 DEF IInv, PlaceOK
    <3> QED BY <1>5, <3>2, AheadTells
  <2> QED BY <2>1, <2>2
<1> QED BY <1>5, <1>6 DEF Place

-----------------------------------------------------------------------------
(* Types.                                                                  *)
LEMMA InitType == Init => TypeOK
BY BenchTeam, BenchPlaces, BenchProgram, SMT DEF Init, TypeOK, Labels, Barriers, Empty

(* The parts of TypeOK, by the assumptions they rest on.                   *)
TypeControl ==
    /\ pc \in [Threads -> Labels] /\ team \in SUBSET Threads
    /\ task \in [Threads -> {"autoset", "bench"}]
    /\ test_stop \in {0, 1} /\ single \in Threads \cup {"none"}
    /\ lock \in Threads \cup {"free"}
TypeIndices ==
    /\ idx \in [Threads -> 1 .. Len(Sizes) + 1]
    /\ k \in [Threads -> 1 .. NSamples] /\ stage \in [Threads -> 1 .. Len(Stages)]
TypeCounts ==
    /\ rep \in [Threads -> Nat \ {0}] /\ repeat \in Nat \ {0}
    /\ total \in [Threads -> Nat] /\ local_out \in [Threads -> Nat]
TypeResults ==
    /\ seen \in [Threads -> [n : Nat, work : Nat]]
    /\ out \in [Groups -> [n : Nat, work : Nat]]

LEMMA TypeParts == TypeOK <=> TypeControl /\ TypeIndices /\ TypeCounts /\ TypeResults
BY Zenon DEF TypeOK, TypeControl, TypeIndices, TypeCounts, TypeResults

LEMMA Ranges == /\ NSamples \in Nat /\ NSamples >= 1
                /\ Len(Stages) \in Nat /\ Len(Stages) >= 1 /\ Len(Sizes) \in Nat
BY BenchProgram, SMT

LEMMA Firsts == 1 \in 1 .. NSamples /\ 1 \in 1 .. Len(Stages)
BY Ranges, SMT

LEMMA GroupsTyped == ASSUME NEW t \in Threads PROVE GroupOf[t] \in Groups
BY BenchPlaces, SMT

LEMMA ControlStep == ASSUME TypeControl, NEW t \in Threads, Step(t) PROVE TypeControl'
<1>1. CASE EndLoop(t)
  BY <1>1, SMT DEF TypeControl, EndLoop, Goto, Labels, Barriers, control, shared, results
<1>2. CASE SkipSize(t)
  BY <1>2, SMT DEF TypeControl, SkipSize, Goto, Labels, Barriers, control, shared, results
<1>3. CASE SetSize(t)
  BY <1>3, SMT DEF TypeControl, SetSize, Goto, Labels, Barriers, control, shared, results
<1>4. CASE TestRepeat(t)
  BY <1>4, SMT DEF TypeControl, TestRepeat, Goto, Labels, Barriers, control, shared, results
<1>5. CASE StartBench(t)
  BY <1>5, SMT DEF TypeControl, StartBench, Goto, Labels, Barriers, control, shared, results
<1>6. CASE Measure(t)
  BY <1>6, SMT DEF TypeControl, Measure, Goto, Labels, Barriers, control, shared, results
<1>7. CASE NextStage(t)
  BY <1>7, SMT DEF TypeControl, NextStage, Goto, Labels, Barriers, control, shared, results
<1>8. CASE Decide(t)
  BY <1>8, SMT DEF TypeControl, Decide, Goto, Labels, Barriers, control, shared, results, Verdicts
<1>9. CASE Test(t)
  BY <1>9, SMT DEF TypeControl, Test, Goto, Labels, Barriers, control, shared, results
<1>10. CASE ReadGroup(t)
  BY <1>10, SMT DEF TypeControl, ReadGroup, Goto, Labels, Barriers, control, shared, results
<1>11. CASE WriteGroup(t)
  BY <1>11, SMT DEF TypeControl, WriteGroup, Goto, Labels, Barriers, control, shared, results
<1>12. CASE Publish(t)
  BY <1>12, SMT DEF TypeControl, Publish, Goto, Labels, Barriers, control, shared, results
<1> QED BY <1>1, <1>2, <1>3, <1>4, <1>5, <1>6, <1>7, <1>8, <1>9, <1>10, <1>11, <1>12 DEF Step

LEMMA IndicesStep == ASSUME TypeIndices, NEW t \in Threads, Step(t) PROVE TypeIndices'
<1>1. CASE EndLoop(t)
  BY <1>1, SMT DEF TypeIndices, EndLoop, Goto, control, shared, results
<1>2. CASE SkipSize(t)
  BY <1>2, Ranges, SMT DEF TypeIndices, SkipSize, Goto, control, shared, results
<1>3. CASE SetSize(t)
  BY <1>3, SMT DEF TypeIndices, SetSize, Goto, control, shared, results
<1>4. CASE TestRepeat(t)
  <2>1. k' \in {k, [k EXCEPT ![t] = 1]} /\ stage' \in {stage, [stage EXCEPT ![t] = 1]} /\ idx' = idx
    BY <1>4 DEF TestRepeat
  <2>2. [k EXCEPT ![t] = 1] \in [Threads -> 1 .. NSamples]
    BY Firsts DEF TypeIndices
  <2>3. [stage EXCEPT ![t] = 1] \in [Threads -> 1 .. Len(Stages)]
    BY Firsts DEF TypeIndices
  <2> QED BY <2>1, <2>2, <2>3 DEF TypeIndices
<1>5. CASE StartBench(t)
  BY <1>5, Ranges, SMT DEF TypeIndices, StartBench, Goto, control, shared, results
<1>6. CASE Measure(t)
  BY <1>6, SMT DEF TypeIndices, Measure, Goto, control, shared, results
<1>7. CASE NextStage(t)
  <2>1. CASE stage[t] < Len(Stages) /\ stage' = [stage EXCEPT ![t] = @ + 1] /\ k' = k
    BY <1>7, <2>1, Ranges, SMT DEF TypeIndices, NextStage
  <2>2. CASE k' = k /\ stage' = stage
    BY <1>7, <2>2, SMT DEF TypeIndices, NextStage
  <2>3. CASE k[t] < NSamples /\ k' = [k EXCEPT ![t] = @ + 1] /\ stage' = [stage EXCEPT ![t] = 1]
    BY <1>7, <2>3, Ranges, Firsts, SMT DEF TypeIndices, NextStage
  <2> QED BY <1>7, <2>1, <2>2, <2>3, Zenon DEF NextStage
<1>8. CASE Decide(t)
  BY <1>8, SMT DEF TypeIndices, Decide, Goto, control, shared, results
<1>9. CASE Test(t)
  <2>1. k' \in {k, [k EXCEPT ![t] = 1]} /\ stage' \in {stage, [stage EXCEPT ![t] = 1]} /\ idx' = idx
    BY <1>9 DEF Test
  <2>2. [k EXCEPT ![t] = 1] \in [Threads -> 1 .. NSamples]
    BY Firsts DEF TypeIndices
  <2>3. [stage EXCEPT ![t] = 1] \in [Threads -> 1 .. Len(Stages)]
    BY Firsts DEF TypeIndices
  <2> QED BY <2>1, <2>2, <2>3 DEF TypeIndices
<1>10. CASE ReadGroup(t)
  BY <1>10, SMT DEF TypeIndices, ReadGroup, Goto, control, shared, results
<1>11. CASE WriteGroup(t)
  BY <1>11, SMT DEF TypeIndices, WriteGroup, Goto, control, shared, results
<1>12. CASE Publish(t)
  BY <1>12, SMT DEF TypeIndices, Publish, Goto, control, shared, results
<1> QED BY <1>1, <1>2, <1>3, <1>4, <1>5, <1>6, <1>7, <1>8, <1>9, <1>10, <1>11, <1>12 DEF Step

LEMMA CountsStep ==
    ASSUME TypeIndices, TypeCounts, NEW t \in Threads, PlaceOK(t), Step(t) PROVE TypeCounts'
<1>1. CASE EndLoop(t)
  BY <1>1, SMT DEF TypeCounts, EndLoop, Goto, control, shared, results
<1>2. CASE SkipSize(t)
  BY <1>2, SMT DEF TypeCounts, SkipSize, Goto, control, shared, results
<1>3. CASE SetSize(t)
  BY <1>3, SMT DEF TypeCounts, SetSize, Goto, control, shared, results
<1>4. CASE TestRepeat(t)
  BY <1>4, SMT DEF TypeCounts, TestRepeat, Goto, control, shared, results
<1>5. CASE StartBench(t)
  BY <1>5, SMT DEF TypeCounts, StartBench, Goto, control, shared, results
<1>6. CASE Measure(t)
  <2>1. rep[t] \in Nat /\ total[t] \in Nat /\ Sizes[idx[t]] \in Nat
    <3>1. idx[t] \in 1 .. Len(Sizes)
      BY <1>6 DEF PlaceOK, Measure, Kept
    <3>2. Sizes[idx[t]] \in Nat
      BY <3>1, BenchProgram, SMT
    <3> QED BY <3>2, SMT DEF TypeCounts
  <2>2. PICK n \in Nat : total' = [total EXCEPT ![t] = @ + n]
    <3>1. ASSUME NEW c \in Costs PROVE c * rep[t] \in Nat
      BY <2>1, BenchProgram, SMT
    <3>2. Overheads \subseteq Nat
      BY BenchProgram
    <3> QED BY <1>6, <3>1, <3>2, Zenon DEF Measure
  <2>3. Sizes[idx[t]] * rep[t] \in Nat
    BY <2>1, SMT
  <2>4. local_out' \in {local_out, [local_out EXCEPT ![t] = Sizes[idx[t]] * rep[t]]} /\ rep' = rep /\ repeat' = repeat
    BY <1>6 DEF Measure, shared
  <2> QED BY <2>2, <2>3, <2>4, SMT DEF TypeCounts
<1>7. CASE NextStage(t)
  BY <1>7, SMT DEF TypeCounts, NextStage, Goto, control, shared, results
<1>8. CASE Decide(t)
  BY <1>8, SMT DEF TypeCounts, Decide, Goto, control, shared, results
<1>9. CASE Test(t)
  BY <1>9, SMT DEF TypeCounts, Test, Goto, control, shared, results
<1>10. CASE ReadGroup(t)
  BY <1>10, SMT DEF TypeCounts, ReadGroup, Goto, control, shared, results
<1>11. CASE WriteGroup(t)
  BY <1>11, SMT DEF TypeCounts, WriteGroup, Goto, control, shared, results
<1>12. CASE Publish(t)
  BY <1>12, SMT DEF TypeCounts, Publish, Goto, control, shared, results
<1> QED BY <1>1, <1>2, <1>3, <1>4, <1>5, <1>6, <1>7, <1>8, <1>9, <1>10, <1>11, <1>12 DEF Step

LEMMA ResultsStep == ASSUME TypeCounts, TypeResults, NEW t \in Threads, Step(t) PROVE TypeResults'
<1>1. CASE EndLoop(t)
  BY <1>1, SMT DEF TypeResults, EndLoop, Goto, control, shared, results
<1>2. CASE SkipSize(t)
  BY <1>2, SMT DEF TypeResults, SkipSize, Goto, control, shared, results
<1>3. CASE SetSize(t)
  BY <1>3, SMT DEF TypeResults, SetSize, Goto, control, shared, results
<1>4. CASE TestRepeat(t)
  BY <1>4, SMT DEF TypeResults, TestRepeat, Goto, control, shared, results
<1>5. CASE StartBench(t)
  BY <1>5, SMT DEF TypeResults, StartBench, Goto, control, shared, results
<1>6. CASE Measure(t)
  BY <1>6, SMT DEF TypeResults, Measure, Goto, control, shared, results
<1>7. CASE NextStage(t)
  BY <1>7, SMT DEF TypeResults, NextStage, Goto, control, shared, results
<1>8. CASE Decide(t)
  BY <1>8, SMT DEF TypeResults, Decide, Goto, control, shared, results
<1>9. CASE Test(t)
  BY <1>9, SMT DEF TypeResults, Test, Goto, control, shared, results
<1>10. CASE ReadGroup(t)
  BY <1>10, GroupsTyped, SMT DEF TypeResults, ReadGroup, Goto, control, shared, results
<1>11. CASE WriteGroup(t)
  BY <1>11, BenchPlaces, SMT DEF TypeResults, WriteGroup, Goto, control, shared, results, TypeCounts
<1>12. CASE Publish(t)
  BY <1>12, SMT DEF TypeResults, Publish, Goto, control, shared, results, Empty
<1> QED BY <1>1, <1>2, <1>3, <1>4, <1>5, <1>6, <1>7, <1>8, <1>9, <1>10, <1>11, <1>12 DEF Step

LEMMA StepType == ASSUME TypeOK, NEW t \in Threads, PlaceOK(t), Step(t) PROVE TypeOK'
<1>1. TypeControl' /\ TypeIndices' /\ TypeCounts' /\ TypeResults'
  BY TypeParts, ControlStep, IndicesStep, CountsStep, ResultsStep
<1> QED BY <1>1, Zenon DEF TypeOK, TypeControl, TypeIndices, TypeCounts, TypeResults

-----------------------------------------------------------------------------
(* Steps of a thread leave the others where they are.                      *)
Stays(u) == /\ pc'[u] = pc[u] /\ idx'[u] = idx[u] /\ task'[u] = task[u]
            /\ rep'[u] = rep[u] /\ k'[u] = k[u] /\ stage'[u] = stage[u]

LEMMA OthersStay ==
    ASSUME TypeOK, NEW t \in Threads, Step(t), NEW u \in Threads, u # t
    PROVE  team' = team /\ Stays(u)
<1> USE DEF Goto, control, shared, results
<1>0. /\ pc \in [Threads -> Labels] /\ DOMAIN idx = Threads /\ DOMAIN task = Threads
      /\ DOMAIN rep = Threads /\ DOMAIN k = Threads /\ DOMAIN stage = Threads
  BY DEF TypeOK
<1>1. CASE EndLoop(t)
  BY <1>1, <1>0, SMT DEF Stays, EndLoop
<1>2. CASE SkipSize(t)
  BY <1>2, <1>0, SMT DEF Stays, SkipSize
<1>3. CASE SetSize(t)
  BY <1>3, <1>0, SMT DEF Stays, SetSize
<1>4. CASE TestRepeat(t)
  <2>1. CASE repeat > 1
    BY <1>4, <2>1, <1>0, Zenon DEF Stays, TestRepeat
  <2>2. CASE repeat <= 1
    BY <1>4, <2>2, <1>0, Zenon DEF Stays, TestRepeat
  <2> QED BY <1>4, <2>1, <2>2, Zenon DEF TestRepeat
<1>5. CASE StartBench(t)
  BY <1>5, <1>0, SMT DEF Stays, StartBench
<1>6. CASE Measure(t)
  BY <1>6, <1>0, SMT DEF Stays, Measure
<1>7. CASE NextStage(t)
  BY <1>7, <1>0, Zenon DEF Stays, NextStage
<1>8. CASE Decide(t)
  BY <1>8, <1>0, SMT DEF Stays, Decide
<1>9. CASE Test(t)
  <2>1. CASE test_stop = 1
    BY <1>9, <2>1, <1>0, Zenon DEF Stays, Test
  <2>2. CASE test_stop = 0
    BY <1>9, <2>2, <1>0, Zenon DEF Stays, Test
  <2> QED BY <1>9, <2>1, <2>2, Zenon DEF Test
<1>10. CASE ReadGroup(t)
  BY <1>10, <1>0, SMT DEF Stays, ReadGroup
<1>11. CASE WriteGroup(t)
  BY <1>11, <1>0, SMT DEF Stays, WriteGroup
<1>12. CASE Publish(t)
  BY <1>12, <1>0, SMT DEF Stays, Publish
<1> QED BY <1>1, <1>2, <1>3, <1>4, <1>5, <1>6, <1>7, <1>8, <1>9, <1>10, <1>11, <1>12 DEF Step

(* A place decides where a thread meets the others, and only repeat and    *)
(* test_stop can change that under it.                                     *)
LEMMA SamePlaceMeets ==
    ASSUME NEW u, Stays(u), repeat' = repeat, test_stop' = test_stop
    PROVE  Meet(u)' = Meet(u)
BY SMT DEF Stays, Meet, MeetFrom, Ahead, Skipped

(* The thread that moves still goes to meet the others at the same place.  *)
LEMMA OwnMeet ==
    ASSUME TypeOK, NEW t \in Threads, PlaceOK(t), Step(t)
    PROVE  Meet(t)' = Meet(t)
<1> USE DEF Meet, Goto, control, shared, results
<1>0. /\ pc \in [Threads -> Labels] /\ DOMAIN idx = Threads /\ DOMAIN task = Threads
      /\ DOMAIN rep = Threads /\ DOMAIN k = Threads /\ DOMAIN stage = Threads
  BY DEF TypeOK
<1>1. CASE EndLoop(t)
  BY <1>1, NothingAhead, SMT DEF TypeOK, EndLoop, MeetFrom, Barriers, PlaceOK, Reporting, Choosing
<1>2. CASE SkipSize(t)
  <2>1. idx'[t] = idx[t] + 1 /\ idx[t] \in Nat /\ Skipped(idx[t])
    BY <1>2, SMT DEF TypeOK, SkipSize
  <2>2. Ahead(idx'[t]) = Ahead(idx[t])
    BY <2>1, AheadOfSkipped
  <2>3. /\ pc[t] = "size" /\ pc' = pc /\ task' = task /\ rep' = rep
        /\ k' = k /\ stage' = stage /\ repeat' = repeat
    BY <1>2 DEF SkipSize
  <2> QED BY <2>2, <2>3, Zenon DEF MeetFrom
<1>3. CASE SetSize(t)
  <2>1. idx[t] \in Nat /\ Ahead(idx[t]) # {}
    BY <1>3, AheadOfKept, SMT DEF TypeOK, SetSize
  <2>2. /\ pc[t] = "size" /\ idx' = idx /\ task' = task /\ rep' = rep
        /\ k' = k /\ stage' = stage /\ repeat' = repeat
        /\ pc'[t] = IF Kind = "memory" THEN "announce" ELSE "bench"
    BY <1>3, SMT DEF TypeOK, SetSize
  <2> QED BY <2>1, <2>2, SMT DEF MeetFrom, Barriers
<1>4. CASE TestRepeat(t)
  <2>0. repeat > 1 <=> ~(repeat <= 1)
    BY SMT DEF TypeOK
  <2>1. CASE repeat > 1
    <3>1. /\ pc[t] = "test_repeat" /\ idx' = idx /\ repeat' = repeat
          /\ pc'[t] = "begin" /\ task'[t] = "autoset" /\ rep'[t] = 1 /\ k'[t] = 1 /\ stage'[t] = 1
      BY <1>4, <2>0, <2>1, <1>0, Zenon DEF TestRepeat
    <3> QED BY <2>1, <3>1, SMT DEF MeetFrom, Barriers
  <2>2. CASE repeat <= 1
    <3>1. /\ pc[t] = "test_repeat" /\ idx' = idx /\ repeat' = repeat /\ pc'[t] = "bench"
      BY <1>4, <2>0, <2>2, <1>0, Zenon DEF TestRepeat
    <3> QED BY <2>0, <2>2, <3>1, Zenon DEF MeetFrom, Barriers
  <2> QED BY <1>4, <2>1, <2>2, Zenon DEF TestRepeat
<1>5. CASE StartBench(t)
  BY <1>5, SMT DEF TypeOK, StartBench, MeetFrom, Barriers, PlaceOK, Reporting, Choosing
<1>6. CASE Measure(t)
  BY <1>6, SMT DEF TypeOK, Measure, MeetFrom, Barriers, PlaceOK, Reporting, Choosing
<1>7. CASE NextStage(t)
  <2>0. /\ pc[t] = "measured" /\ idx' = idx /\ task' = task /\ rep' = rep /\ repeat' = repeat
    BY <1>7 DEF NextStage
  <2>1. CASE stage[t] < Len(Stages)
    <3>1. pc'[t] = "begin" /\ stage'[t] = stage[t] + 1 /\ k' = k
      BY <1>7, <2>1, <1>0, Ranges, SMT DEF NextStage
    <3> QED BY <2>0, <2>1, <3>1, SMT DEF MeetFrom, Barriers
  <2>2. CASE stage[t] = Len(Stages) /\ task[t] = "bench"
    <3>1. ~(stage[t] < Len(Stages)) /\ task[t] # "autoset"
      BY <2>2, Ranges, SMT
    <3>2. pc' = [pc EXCEPT ![t] = IF Kind = "memory" THEN "aggregate" ELSE "settle"]
      BY <1>7, <3>1, Zenon DEF NextStage
    <3>3. k' = k /\ stage' = stage
      BY <1>7, <3>1, Zenon DEF NextStage
    <3>4. pc'[t] = IF Kind = "memory" THEN "aggregate" ELSE "settle"
      BY <3>2, <1>0
    <3>5. Meet(t) = <<IF Kind = "memory" THEN "aggregated" ELSE "settle", Ahead(idx[t]),
                      task[t], rep[t], k[t], stage[t]>>
      BY <2>0, <2>2, <3>1, SMT DEF MeetFrom, Barriers
    <3>6. CASE Kind = "memory"
      BY <2>0, <3>3, <3>4, <3>5, <3>6, SMT DEF MeetFrom, Barriers
    <3>7. CASE Kind # "memory"
      BY <2>0, <3>3, <3>4, <3>5, <3>7, SMT DEF MeetFrom, Barriers
    <3> QED BY <3>6, <3>7
  <2>3. CASE stage[t] = Len(Stages) /\ task[t] = "autoset" /\ k[t] < NSamples
    <3>1. pc'[t] = "begin" /\ stage'[t] = 1 /\ k'[t] = k[t] + 1
      BY <1>7, <2>3, <1>0, Ranges, SMT DEF NextStage
    <3> QED BY <2>0, <2>3, <3>1, Ranges, SMT DEF MeetFrom, Barriers
  <2>4. CASE stage[t] = Len(Stages) /\ task[t] = "autoset" /\ k[t] = NSamples
    <3>1. pc'[t] = "decide" /\ k' = k /\ stage' = stage
      BY <1>7, <2>4, <1>0, Ranges, SMT DEF NextStage
    <3> QED BY <2>0, <2>4, <3>1, Ranges, SMT DEF MeetFrom, Barriers
  <2> QED BY <1>7, <2>1, <2>2, <2>3, <2>4, Zenon DEF NextStage
<1>8. CASE Decide(t)
  BY <1>8, SMT DEF TypeOK, Decide, MeetFrom, Barriers, PlaceOK, Reporting, Choosing
<1>9. CASE Test(t)
  <2>0. test_stop = 0 => test_stop # 1
    OBVIOUS
  <2>1. CASE test_stop = 1
    <3>1. /\ pc[t] = "test" /\ idx' = idx /\ task' = task /\ rep' = rep /\ k' = k /\ stage' = stage
          /\ repeat' = rep[t] /\ pc'[t] = IF Kind = "memory" THEN "bench" ELSE "fork"
      BY <1>9, <2>1, <1>0, SMT DEF Test
    <3> QED BY <2>1, <3>1, SMT DEF MeetFrom, Barriers
  <2>2. CASE test_stop = 0
    <3>1. /\ pc[t] = "test" /\ idx' = idx /\ task' = task /\ task[t] = "autoset"
          /\ rep'[t] = rep[t] * 2 /\ k'[t] = 1 /\ stage'[t] = 1 /\ pc'[t] = "begin"
      BY <1>9, <2>2, <2>0, <1>0, Zenon DEF Test, PlaceOK, Choosing
    <3> QED BY <2>2, <3>1, SMT DEF MeetFrom, Barriers
  <2> QED BY <1>9, <2>1, <2>2, Zenon DEF Test
<1>10. CASE ReadGroup(t)
  BY <1>10, SMT DEF TypeOK, ReadGroup, MeetFrom, Barriers, PlaceOK, Reporting, Choosing
<1>11. CASE WriteGroup(t)
  BY <1>11, SMT DEF TypeOK, WriteGroup, MeetFrom, Barriers, PlaceOK, Reporting, Choosing
<1>12. CASE Publish(t)
  BY <1>12, SMT DEF TypeOK, Publish, MeetFrom, Barriers, PlaceOK, Reporting, Choosing
<1> QED BY <1>1, <1>2, <1>3, <1>4, <1>5, <1>6, <1>7, <1>8, <1>9, <1>10, <1>11, <1>12 DEF Step

(* A thread that moves is in the team.                                    *)
LEMMA MovesInTeam == ASSUME TeamOK, NEW t \in Threads, Step(t) PROVE t \in team
<1>1. pc[t] # "idle"
  BY Zenon DEF Step, EndLoop, SkipSize, SetSize, TestRepeat, StartBench, Measure, NextStage, Decide, Test,
               ReadGroup, WriteGroup, Publish
<1> QED BY <1>1 DEF TeamOK

(* Nobody else depends on what a step does to repeat and test_stop.  The   *)
(* thread that sets test_stop still has the barrier before it that every   *)
(* reader of it is past; the one that sets repeat sets it to the value     *)
(* that those who have read it already found.                              *)
LEMMA OthersMeet ==
    ASSUME IInv, NEW t \in Threads, Step(t), NEW u \in team, u # t
    PROVE  Meet(u)' = Meet(u)
<1>1. TypeOK /\ u \in Threads /\ t \in team /\ PlaceOK(t) /\ PlaceOK(u)
  BY MovesInTeam DEF IInv, TypeOK
<1>2. Stays(u) /\ Meet(u) = Meet(t)
  BY <1>1, OthersStay DEF IInv, InStep
<1>3. CASE UNCHANGED shared
  <2>1. repeat' = repeat /\ test_stop' = test_stop
    BY <1>3 DEF shared
  <2> QED BY <1>2, <2>1, SamePlaceMeets
<1>4. CASE Decide(t)
  <2>1. pc[t] = "decide" /\ repeat' = repeat
    BY <1>4 DEF Decide
  <2>2. Meet(t) = <<"decided", Ahead(idx[t]), task[t], rep[t], k[t], stage[t]>>
    BY <2>1, SMT DEF Meet, MeetFrom, Barriers
  <2>3. pc[u] # "test"
    <3>1. SUFFICES ASSUME pc[u] = "test" PROVE FALSE
      OBVIOUS
    <3>2. Meet(u) \in {<<"begin", Ahead(idx[u]), "autoset", rep[u] * 2, 1, 1>>,
                       <<"begin", Ahead(idx[u]), "bench", rep[u], 1, 1>>,
                       <<"fork", Ahead(idx[u]), task[u], rep[u], k[u], stage[u]>>}
      BY <3>1, SMT DEF Meet, MeetFrom, Barriers
    <3> QED BY <1>2, <2>2, <3>2, SMT
  <2> QED BY <1>2, <2>1, <2>3, SMT DEF Stays, Meet, MeetFrom, Ahead, Skipped
<1>5. CASE Test(t)
  <2>1. pc[t] = "test" /\ test_stop' = test_stop
    BY <1>5 DEF Test
  <2>2. Kind = "memory"
    <3>1. Kind = "peak" => team = {Master}
      BY <1>1, <2>1, Zenon DEF IInv, TeamOK, Choosing
    <3> QED BY <1>1, <3>1, BenchProgram
  <2>3. CASE repeat' = repeat
    BY <1>2, <2>1, <2>3, SamePlaceMeets
  <2>4. CASE repeat' # repeat
    <3>1. repeat' = rep[t] /\ test_stop = 1
      BY <1>5, <2>4 DEF Test
    <3>2. Meet(t) = <<"begin", Ahead(idx[t]), "bench", rep[t], 1, 1>>
      BY <2>1, <2>2, <3>1, SMT DEF Meet, MeetFrom, Barriers
    <3>3. pc[u] # "bench"
      <4>1. pc[u] = "bench" => Meet(u) = <<"begin", Ahead(idx[u]), "bench", repeat, 1, 1>>
        BY SMT DEF Meet, MeetFrom, Barriers
      <4> QED BY <1>2, <2>4, <3>1, <3>2, <4>1, SMT
    <3>4. pc[u] # "test_repeat"
      <4>1. pc[u] = "test_repeat" =>
               Meet(u) \in {<<"begin", Ahead(idx[u]), "autoset", 1, 1, 1>>,
                            <<"begin", Ahead(idx[u]), "bench", repeat, 1, 1>>}
        BY SMT DEF Meet, MeetFrom, Barriers
      <4> QED BY <1>2, <2>4, <3>1, <3>2, <4>1, SMT
    <3> QED BY <1>2, <2>1, <2>2, <3>3, <3>4, SMT DEF Stays, Meet, MeetFrom, Ahead, Skipped
  <2> QED BY <2>3, <2>4
<1> QED BY <1>3, <1>4, <1>5
        DEF Step, EndLoop, SkipSize, SetSize, TestRepeat, StartBench, Measure, NextStage,
            ReadGroup, WriteGroup, Publish

LEMMA StepInStep == ASSUME IInv, NEW t \in Threads, Step(t) PROVE InStep'
<1>1. TypeOK /\ PlaceOK(t) /\ team \subseteq Threads
  BY DEF IInv, TypeOK
<1>2. team' = team
  BY Zenon DEF Step, EndLoop, SkipSize, SetSize, TestRepeat, StartBench, Measure, NextStage, Decide, Test,
               ReadGroup, WriteGroup, Publish
<1>3. ASSUME NEW u \in team PROVE Meet(u)' = Meet(u)
  BY <1>1, OwnMeet, OthersMeet
<1> QED BY <1>2, <1>3 DEF IInv, InStep

-----------------------------------------------------------------------------
(* Places.                                                                 *)
LEMMA OwnPlace ==
    ASSUME TypeOK, NEW t \in Threads, PlaceOK(t), Step(t) PROVE PlaceOK(t)'
<1> USE DEF PlaceOK, Goto, control, shared, results, Choosing, Reporting
<1>0. /\ pc \in [Threads -> Labels] /\ DOMAIN idx = Threads /\ DOMAIN task = Threads
      /\ task[t] \in {"autoset", "bench"}
  BY DEF TypeOK
<1>i. idx[t] \in 1 .. Len(Sizes) + 1
  BY DEF TypeOK
<1>l. idx[t] \in Nat /\ idx[t] >= 1
  BY <1>i, Ranges, SMT
<1>1. CASE EndLoop(t)
  BY <1>1, <1>0, <1>l, SMT DEF EndLoop
<1>2. CASE SkipSize(t)
  BY <1>2, <1>0, <1>l, BenchProgram, SMT DEF SkipSize, Kept, Skipped
<1>3. CASE SetSize(t)
  BY <1>3, <1>0, <1>l, BenchProgram, SMT DEF SetSize, Kept, Skipped
<1>4. CASE TestRepeat(t)
  BY <1>4, <1>0, <1>l, SMT DEF TestRepeat
<1>5. CASE StartBench(t)
  BY <1>5, <1>0, <1>l, SMT DEF StartBench
<1>6. CASE Measure(t)
  BY <1>6, <1>0, <1>l, SMT DEF Measure
<1>7. CASE NextStage(t)
  BY <1>7, <1>0, <1>l, SMT DEF NextStage
<1>8. CASE Decide(t)
  BY <1>8, <1>0, <1>l, SMT DEF Decide
<1>9. CASE Test(t)
  BY <1>9, <1>0, <1>l, SMT DEF Test
<1>10. CASE ReadGroup(t)
  BY <1>10, <1>0, <1>l, SMT DEF ReadGroup
<1>11. CASE WriteGroup(t)
  BY <1>11, <1>0, <1>l, SMT DEF WriteGroup
<1>12. CASE Publish(t)
  BY <1>12, <1>0, <1>l, SMT DEF Publish
<1> QED BY <1>1, <1>2, <1>3, <1>4, <1>5, <1>6, <1>7, <1>8, <1>9, <1>10, <1>11, <1>12 DEF Step

(* A step changes the team only at the fork.                              *)
LEMMA OwnTeam ==
    ASSUME TypeOK, TeamOK, NEW t \in Threads, PlaceOK(t), Step(t), Kind = "peak", team # {Master}
    PROVE  /\ (pc[t] \notin Choosing)'
           /\ (pc[t] \in {"begin", "timed", "end", "measured"} => task[t] = "bench")'
<1> USE DEF Goto, control, shared, results, Choosing
<1>0. /\ pc \in [Threads -> Labels] /\ DOMAIN task = Threads
      /\ pc[t] \notin Choosing
      /\ pc[t] \in {"begin", "timed", "end", "measured"} => task[t] = "bench"
      /\ pc[t] # "test_repeat" /\ Kind = "peak"
  BY DEF TypeOK, TeamOK, PlaceOK
<1>1. CASE EndLoop(t)
  BY <1>1, <1>0, SMT DEF EndLoop
<1>2. CASE SkipSize(t)
  BY <1>2, <1>0, SMT DEF SkipSize
<1>3. CASE SetSize(t)
  BY <1>3, <1>0, SMT DEF SetSize
<1>4. CASE TestRepeat(t)
  BY <1>4, <1>0, Zenon DEF TestRepeat
<1>5. CASE StartBench(t)
  BY <1>5, <1>0, SMT DEF StartBench
<1>6. CASE Measure(t)
  BY <1>6, <1>0, SMT DEF Measure
<1>7. CASE NextStage(t)
  BY <1>7, <1>0, SMT DEF NextStage
<1>8. CASE Decide(t)
  BY <1>8, <1>0, Zenon DEF Decide
<1>9. CASE Test(t)
  BY <1>9, <1>0, Zenon DEF Test
<1>10. CASE ReadGroup(t)
  BY <1>10, <1>0, SMT DEF ReadGroup
<1>11. CASE WriteGroup(t)
  BY <1>11, <1>0, SMT DEF WriteGroup
<1>12. CASE Publish(t)
  BY <1>12, <1>0, SMT DEF Publish
<1> QED BY <1>1, <1>2, <1>3, <1>4, <1>5, <1>6, <1>7, <1>8, <1>9, <1>10, <1>11, <1>12 DEF Step

LEMMA StepInv == ASSUME IInv, NEW t \in Threads, Step(t) PROVE IInv'
<1>1. TypeOK /\ TeamOK /\ PlaceOK(t) /\ t \in team
  BY MovesInTeam DEF IInv
<1>2. team' = team
  BY Zenon DEF Step, EndLoop, SkipSize, SetSize, TestRepeat, StartBench, Measure, NextStage, Decide, Test,
               ReadGroup, WriteGroup, Publish
<1>3. TypeOK'
  BY <1>1, StepType
<1>4. ASSUME NEW u \in Threads PROVE PlaceOK(u)'
  <2>1. CASE u = t
    BY <1>1, <2>1, OwnPlace
  <2>2. CASE u # t
    BY <1>1, <2>2, OthersStay DEF IInv, PlaceOK, Stays, Kept, Skipped
  <2> QED BY <2>1, <2>2
<1>5. TeamOK'
  <2>1. ASSUME NEW u \in Threads \ team PROVE pc'[u] = "idle"
    BY <1>1, <2>1, OthersStay DEF Stays, TeamOK
  <2>2. ASSUME Kind = "peak", team # {Master}, NEW u \in Threads
        PROVE  /\ pc'[u] \notin Choosing
               /\ pc'[u] \in {"begin", "timed", "end", "measured"} => task'[u] = "bench"
    <3>1. CASE u = t
      BY <1>1, <2>2, <3>1, OwnTeam
    <3>2. CASE u # t
      BY <1>1, <2>2, <3>2, OthersStay DEF Stays, TeamOK
    <3> QED BY <3>1, <3>2
  <2> QED BY <1>1, <1>2, <2>1, <2>2 DEF TeamOK
<1> QED BY <1>3, <1>4, <1>5, StepInStep DEF IInv

-----------------------------------------------------------------------------
(* The start, a barrier and the fork.                                      *)
LEMMA InitInv == Init => IInv
<1> SUFFICES ASSUME Init PROVE IInv
  OBVIOUS
<1>1. TypeOK
  BY InitType
<1>2. /\ Kind = "memory" => team = Threads /\ \A t \in Threads : pc[t] = "start"
      /\ Kind # "memory" => /\ team = {Master} /\ pc[Master] = "begin"
                            /\ \A t \in Threads \ {Master} : pc[t] = "idle"
      /\ \A t \in Threads : idx[t] = 1 /\ task[t] = "autoset" /\ rep[t] = 1 /\ k[t] = 1 /\ stage[t] = 1
  BY BenchTeam, SMT DEF Init
<1>3. Kind # "memory" => Kind = "peak" /\ Kept(1)
  <2>1. Kind # "memory" => Len(Sizes) >= 1 /\ Len(Sizes) \in Nat
    BY BenchProgram, SMT
  <2> QED BY <2>1, BenchProgram, SMT DEF Kept, Skipped
<1>4. TeamOK
  BY <1>2, <1>3, BenchTeam DEF TeamOK
<1>5. ASSUME NEW t \in Threads PROVE PlaceOK(t)
  BY <1>2, <1>3 DEF PlaceOK, Choosing, Reporting
<1>6. InStep
  <2>1. ASSUME NEW t \in team, NEW u \in team PROVE Meet(t) = Meet(u)
    <3>1. pc[t] = pc[u] /\ t \in Threads /\ u \in Threads
      BY <1>1, <1>2 DEF TypeOK
    <3> QED BY <1>2, <3>1 DEF Meet
  <2> QED BY <2>1 DEF InStep
<1> QED BY <1>1, <1>4, <1>5, <1>6 DEF IInv

(* All that a barrier releases were in one place, and still are.           *)
LEMMA BarrierInv == ASSUME IInv, Barrier PROVE IInv'
<1>1. /\ \A t \in team : pc[t] \in Barriers
      /\ pc' = [t \in Threads |-> IF t \in team THEN After[pc[t]] ELSE pc[t]]
      /\ idx' = [t \in Threads |-> IF t \in team /\ pc[t] = "printed" THEN idx[t] + 1 ELSE idx[t]]
      /\ single' = "none"
      /\ UNCHANGED <<team, task, k, stage, rep, total, repeat, test_stop, lock, seen, local_out, out, lines>>
  BY DEF Barrier, shared, results
<1>2. TypeOK /\ TeamOK /\ team \subseteq Threads
  BY DEF IInv, TypeOK
<1>3. \A t, u \in team : Place(t) = Place(u)
  BY <1>1, PlacesAgree
<1>4. ASSUME NEW t \in team, NEW u \in team PROVE Meet(t)' = Meet(u)'
  <2>1. /\ pc[t] = pc[u] /\ idx[t] = idx[u] /\ task[t] = task[u]
        /\ rep[t] = rep[u] /\ k[t] = k[u] /\ stage[t] = stage[u]
    BY <1>3, SMT DEF Place
  <2>2. pc'[t] = pc'[u] /\ idx'[t] = idx'[u]
    BY <1>1, <1>2, <2>1
  <2> QED BY <1>1, <2>1, <2>2 DEF Meet
<1>5. ASSUME NEW t \in Threads PROVE PlaceOK(t)'
  <2>1. CASE t \in team
    <3>1. PlaceOK(t) /\ pc[t] \in Barriers /\ pc'[t] = After[pc[t]] /\ task'[t] = task[t]
      BY <1>1, <2>1 DEF IInv
    <3>2. idx'[t] = IF pc[t] = "printed" THEN idx[t] + 1 ELSE idx[t]
      BY <1>1, <2>1
    <3>3. pc'[t] = "size" \/ (pc'[t] # "size" /\ idx'[t] = idx[t])
      BY <3>1, <3>2 DEF Barriers, After
    <3> QED BY <3>1, <3>2, <3>3, SMT DEF PlaceOK, Barriers, After, Choosing, Reporting, Kept, Skipped
  <2>2. CASE t \notin team
    BY <1>1, <2>2 DEF IInv, PlaceOK, Kept, Skipped
  <2> QED BY <2>1, <2>2
<1>6. TypeOK'
  <2>1. /\ pc' \in [Threads -> Labels] /\ team' \in SUBSET Threads
        /\ single' \in Threads \cup {"none"}
    <3>1. ASSUME NEW t \in Threads PROVE pc'[t] \in Labels
      <4>1. CASE t \in team
        <5>1. pc[t] \in Barriers /\ pc'[t] = After[pc[t]]
          BY <1>1, <4>1
        <5> QED BY <5>1, SMT DEF Barriers, After, Labels
      <4>2. CASE t \notin team
        BY <1>1, <1>2, <4>2 DEF TypeOK
      <4> QED BY <4>1, <4>2
    <3> QED BY <1>1, <1>2, <3>1
  <2>2. idx' \in [Threads -> 1 .. Len(Sizes) + 1]
    <3>1. ASSUME NEW t \in Threads PROVE idx'[t] \in 1 .. Len(Sizes) + 1
      <4>1. CASE t \in team /\ pc[t] = "printed"
        <5>1. idx[t] \in 1 .. Len(Sizes) /\ idx'[t] = idx[t] + 1
          BY <1>1, <4>1 DEF IInv, PlaceOK, Kept
        <5> QED BY <5>1, Ranges, SMT
      <4>2. CASE ~(t \in team /\ pc[t] = "printed")
        BY <1>1, <1>2, <4>2 DEF TypeOK
      <4> QED BY <4>1, <4>2
    <3> QED BY <1>1, <3>1
  <2> QED BY <1>1, <1>2, <2>1, <2>2, Zenon DEF TypeOK
<1>7. TeamOK'
  <2>1. ASSUME NEW t \in Threads \ team PROVE pc'[t] = "idle"
    BY <1>1, <1>2 DEF TeamOK
  <2>2. ASSUME Kind = "peak", team # {Master}, NEW t \in Threads
        PROVE  /\ pc'[t] \notin Choosing
               /\ pc'[t] \in {"begin", "timed", "end", "measured"} => task'[t] = "bench"
    <3>1. /\ pc[t] \notin Choosing /\ PlaceOK(t) /\ t \in team
          /\ pc[t] \in {"begin", "timed", "end", "measured"} => task[t] = "bench"
      BY <1>2, <2>2 DEF TeamOK, IInv
    <3>2. pc[t] \in Barriers /\ pc'[t] = After[pc[t]] /\ task' = task
      BY <1>1, <3>1
    <3> QED BY <3>1, <3>2, <2>2, SMT DEF PlaceOK, Barriers, After, Choosing
  <2> QED BY <1>1, <1>2, <2>1, <2>2 DEF TeamOK
<1> QED BY <1>1, <1>4, <1>5, <1>6, <1>7 DEF IInv, InStep

(* The team of roofline_fpeak() starts with the first round.               *)
LEMMA ForkInv == ASSUME IInv, ForkTeam PROVE IInv'
<1>1. /\ pc[Master] = "fork" /\ team' = Threads /\ pc' = [t \in Threads |-> "size"]
      /\ UNCHANGED <<idx, task, k, stage, rep, total, repeat, test_stop, single, lock, seen, local_out, out, lines>>
  BY DEF ForkTeam, shared, results
<1>2. Kind = "peak" /\ team = {Master}
  BY <1>1, BenchTeam, BenchProgram, Zenon DEF IInv, PlaceOK, TeamOK, Choosing
<1>3. ASSUME NEW t \in Threads PROVE idx[t] = 1
  <2>1. CASE t = Master
    BY <1>1, <1>2, <2>1, BenchTeam DEF IInv, PlaceOK, Choosing
  <2>2. CASE t # Master
    BY <1>2, <2>2 DEF IInv, PlaceOK, TeamOK
  <2> QED BY <2>1, <2>2
<1>4. TypeOK'
  <2>1. pc' \in [Threads -> Labels] /\ team' \in SUBSET Threads
    BY <1>1 DEF Labels
  <2> QED BY <1>1, <2>1, Zenon DEF IInv, TypeOK
<1>5. TeamOK'
  BY <1>1, BenchTeam, SMT DEF TeamOK, Choosing
<1>6. ASSUME NEW t \in Threads PROVE PlaceOK(t)'
  BY <1>1, <1>2, <1>3, SMT DEF PlaceOK, Choosing, Reporting
<1>7. InStep'
  <2>1. ASSUME NEW t \in Threads, NEW u \in Threads PROVE Meet(t)' = Meet(u)'
    <3>1. pc'[t] = "size" /\ pc'[u] = "size" /\ idx'[t] = 1 /\ idx'[u] = 1
      BY <1>1, <1>3
    <3>2. "size" \notin Barriers
      BY DEF Barriers
    <3> QED BY <1>2, <3>1, <3>2, SMT DEF Meet, MeetFrom
  <2> QED BY <1>1, <2>1 DEF InStep
<1> QED BY <1>4, <1>5, <1>6, <1>7 DEF IInv

-----------------------------------------------------------------------------
(* IInv is inductive.                                                      *)
THEOREM Inductive == Spec => []IInv
<1>1. ASSUME IInv, UNCHANGED vars PROVE IInv'
  <2>1. UNCHANGED <<pc, team, idx, task, rep, k, stage, total, repeat, test_stop, single, lock, seen,
                    local_out, out>>
    BY <1>1 DEF vars, control, shared, results
  <2>2. TypeOK' /\ TeamOK'
    BY <1>1, <2>1, Zenon DEF IInv, TypeOK, TeamOK
  <2>3. \A t \in Threads : PlaceOK(t)'
    BY <1>1, <2>1, Zenon DEF IInv, PlaceOK, Kept, Skipped
  <2>4. \A t \in Threads : Meet(t)' = Meet(t)
    BY <2>1, SamePlaceMeets DEF Stays
  <2>5. InStep'
    BY <1>1, <2>1, <2>4 DEF IInv, InStep, TypeOK
  <2> QED BY <2>2, <2>3, <2>5 DEF IInv
<1>2. IInv /\ [Next]_vars => IInv'
  BY <1>1, StepInv, BarrierInv, ForkInv DEF Next, Return, AllDone
<1> QED BY InitInv, <1>2, PTL DEF Spec

(* The counters stay in the loops and the results are counts.              *)
THEOREM TypeCorrect == Spec => []TypeOK
BY Inductive, PTL DEF IInv

(* Whatever the sizes and the timing, the threads that a barrier of        *)
(* roofline_memory() or roofline_fpeak() releases together came to the     *)
(* same barrier for the same sample of the same size.                      *)
THEOREM InLockStep == Spec => []BarriersMatch
<1>1. IInv => BarriersMatch
  BY PlacesAgree DEF BarriersMatch
<1> QED BY Inductive, <1>1, PTL

(* Whenever a thread is between its two reads of the clock, every other    *)
(* one measures the same size with the same repetitions.                   *)
THEOREM NobodyMeasuresAlone == Spec => []MeasuredTogether
<1>1. IInv => MeasuredTogether
  <2> SUFFICES ASSUME IInv, NEW t \in team, NEW u \in team, pc[t] = "timed"
               PROVE  /\ pc[u] \in {"timed", "end"}
                      /\ idx[u] = idx[t] /\ task[u] = task[t] /\ rep[u] = rep[t]
                      /\ k[u] = k[t] /\ stage[u] = stage[t]
    BY DEF MeasuredTogether
  <2>1. t \in Threads /\ u \in Threads /\ PlaceOK(t) /\ PlaceOK(u) /\ pc[u] \in Labels
    BY DEF IInv, TypeOK
  <2>2. Meet(t) = <<"end", Ahead(idx[t]), task[t], rep[t], k[t], stage[t]>> /\ Meet(u) = Meet(t)
    <3>1. Meet(t) = <<"end", Ahead(idx[t]), task[t], rep[t], k[t], stage[t]>>
      BY SMT DEF Meet, MeetFrom, Barriers
    <3> QED BY <3>1 DEF IInv, InStep
  <2>3. pc[u] \in {"timed", "end"}
    <3>1. SUFFICES ASSUME pc[u] \notin {"timed", "end"} PROVE Meet(u)[1] # "end"
      BY <2>2, SMT
    <3> QED BY <2>1, <3>1, SMT DEF Meet, MeetFrom, Labels, Barriers
  <2>4. Meet(u) = <<"end", Ahead(idx[u]), task[u], rep[u], k[u], stage[u]>>
    BY <2>3, SMT DEF Meet, MeetFrom, Barriers
  <2>5. /\ Ahead(idx[u]) = Ahead(idx[t]) /\ task[u] = task[t] /\ rep[u] = rep[t]
        /\ k[u] = k[t] /\ stage[u] = stage[t]
    BY <2>2, <2>4, SMT
  <2>6. Kept(idx[t]) /\ Kept(idx[u])
    BY <2>1, <2>3 DEF PlaceOK
  <2> QED BY <2>3, <2>5, <2>6, AheadTells
<1> QED BY Inductive, <1>1, PTL

-----------------------------------------------------------------------------
(* What the lines hold.  The work of a thread is there from its measure    *)
(* on, a group has the work of the threads that have added theirs, and     *)
(* what a thread in the critical section has read is still true.           *)
AtBench == {"begin", "timed", "end", "measured"} \cup Reporting
RepOK(t) == t \in team /\ task[t] = "bench" /\ pc[t] \in AtBench => rep[t] = repeat

MeasuredBy(s) == \E j \in 1 .. s : Stages[j] = "measure"
HasWork(t) == /\ task[t] = "bench"
              /\ \/ pc[t] \in {"begin", "timed"} /\ MeasuredBy(stage[t] - 1)
                 \/ pc[t] \in {"end", "measured"} /\ MeasuredBy(stage[t])
                 \/ pc[t] \in {"settle", "aggregate", "accumulate"}
WorkOK(t) == HasWork(t) => local_out[t] = Sizes[idx[t]] * rep[t]

LockOK(t)   == pc[t] = "accumulate" => lock = t /\ seen[t] = out[GroupOf[t]]
SingleOK(t) == pc[t] = "printed" => single # "none"

(* The team is forked when the master is past the choice of repeat.        *)
ForkOK == team # Threads => /\ task[Master] = "autoset"
                            /\ pc[Master] \in {"begin", "timed", "end", "measured"} \cup Choosing

HasAdded(t) == pc[t] = "aggregated" \/ (pc[t] = "print" /\ single = "none")
Added(g) == {t \in ThreadsOf(g) : HasAdded(t)}
GroupHolds(g) ==
    /\ out[g].n = Cardinality(Added(g))
    /\ \A u \in Added(g) : out[g].work = out[g].n * (Sizes[idx[u]] * rep[u])
    /\ out[g].n = 0 => out[g].work = 0

ThreadInv == ForkOK /\ \A t \in Threads : RepOK(t) /\ WorkOK(t) /\ LockOK(t) /\ SingleOK(t)
GroupInv  == \A g \in Groups : GroupHolds(g)

(* Threads of the team that go to meet at different places.                *)
LEMMA MeetsElsewhere ==
    ASSUME IInv, NEW t \in team, NEW u \in team
    PROVE  /\ pc[t] = "decide" => pc[u] \notin {"aggregated", "print", "printed"}
           /\ pc[t] = "accumulate" => pc[u] \notin {"print", "printed"}
           /\ pc[t] = "print" => pc[u] \in {"print", "printed"}
           /\ pc[t] \in {"accumulate", "aggregated"} /\ pc[u] = "aggregated"
                 => idx[u] = idx[t] /\ rep[u] = rep[t]
           /\ pc[t] = "print" /\ pc[u] = "print" => idx[u] = idx[t] /\ rep[u] = rep[t]
<1>1. Meet(t) = Meet(u) /\ t \in Threads /\ u \in Threads /\ pc[t] \in Labels /\ pc[u] \in Labels
  BY DEF IInv, InStep, TypeOK
<1>2. PlaceOK(t) /\ PlaceOK(u)
  BY <1>1 DEF IInv
<1>3. \A v \in team :
         /\ pc[v] = "decide" => Meet(v) = <<"decided", Ahead(idx[v]), task[v], rep[v], k[v], stage[v]>>
         /\ pc[v] \in {"accumulate", "aggregated"} =>
               Meet(v) = <<"aggregated", Ahead(idx[v]), task[v], rep[v], k[v], stage[v]>>
         /\ pc[v] \in {"print", "printed"} =>
               Meet(v) = <<"printed", Ahead(idx[v]), task[v], rep[v], k[v], stage[v]>>
  BY SMT DEF Meet, MeetFrom, Barriers
<1>4. pc[u] \notin {"print", "printed"} => Meet(u)[1] # "printed"
  BY <1>1, SMT DEF Meet, MeetFrom, Labels, Barriers
<1>5. pc[t] = "decide" => pc[u] \notin {"aggregated", "print", "printed"}
  BY <1>1, <1>3, SMT
<1>6. pc[t] = "accumulate" => pc[u] \notin {"print", "printed"}
  BY <1>1, <1>3, SMT
<1>7. pc[t] = "print" => pc[u] \in {"print", "printed"}
  BY <1>1, <1>3, <1>4, SMT
<1>8. \/ pc[t] \in {"accumulate", "aggregated"} /\ pc[u] = "aggregated"
      \/ pc[t] = "print" /\ pc[u] = "print"
      => idx[u] = idx[t] /\ rep[u] = rep[t]
  <2>1. SUFFICES ASSUME \/ pc[t] \in {"accumulate", "aggregated"} /\ pc[u] = "aggregated"
                        \/ pc[t] = "print" /\ pc[u] = "print"
                 PROVE  idx[u] = idx[t] /\ rep[u] = rep[t]
    OBVIOUS
  <2>2. Ahead(idx[u]) = Ahead(idx[t]) /\ rep[u] = rep[t]
    BY <1>1, <1>3, <2>1, SMT
  <2>3. Kept(idx[t]) /\ Kept(idx[u])
    BY <1>2, <2>1 DEF PlaceOK
  <2> QED BY <2>2, <2>3, AheadTells
<1> QED BY <1>5, <1>6, <1>7, <1>8, Zenon

LEMMA StepsTeam == ASSUME NEW t, Step(t) PROVE team' = team
BY Zenon DEF Step, EndLoop, SkipSize, SetSize, TestRepeat, StartBench, Measure, NextStage, Decide, Test,
             ReadGroup, WriteGroup, Publish

(* Only the end of the choice sets repeat, when no other thread is past    *)
(* the place where it reads it with another value.                         *)
LEMMA RepStep ==
    ASSUME IInv, \A u \in Threads : RepOK(u), NEW t \in Threads, Step(t), NEW u \in Threads
    PROVE  RepOK(u)'
<1>1. TypeOK /\ PlaceOK(t) /\ t \in team /\ team' = team /\ RepOK(t) /\ RepOK(u)
  BY MovesInTeam, StepsTeam DEF IInv
<1>2. CASE u = t
  <2> USE DEF RepOK, AtBench, Reporting, Goto, control, shared, results
  <2>0. /\ pc \in [Threads -> Labels] /\ DOMAIN task = Threads /\ DOMAIN rep = Threads
    BY <1>1 DEF TypeOK
  <2>1. CASE EndLoop(t) \/ SkipSize(t) \/ SetSize(t)
    BY <1>1, <1>2, <2>0, <2>1, SMT DEF EndLoop, SkipSize, SetSize
  <2>2. CASE TestRepeat(t)
    BY <1>1, <1>2, <2>0, <2>2, SMT DEF TestRepeat
  <2>3. CASE StartBench(t)
    BY <1>1, <1>2, <2>0, <2>3, SMT DEF StartBench
  <2>4. CASE Measure(t)
    BY <1>1, <1>2, <2>0, <2>4, SMT DEF Measure
  <2>5. CASE NextStage(t)
    BY <1>1, <1>2, <2>0, <2>5, SMT DEF NextStage
  <2>6. CASE Decide(t)
    BY <1>1, <1>2, <2>0, <2>6, SMT DEF Decide
  <2>7. CASE Test(t)
    <3>1. task'[t] = "autoset"
      BY <1>1, <2>7 DEF PlaceOK, Choosing, Test
    <3> QED BY <1>2, <3>1
  <2>8. CASE ReadGroup(t) \/ WriteGroup(t) \/ Publish(t)
    BY <1>1, <1>2, <2>0, <2>8, SMT DEF ReadGroup, WriteGroup, Publish
  <2> QED BY <2>1, <2>2, <2>3, <2>4, <2>5, <2>6, <2>7, <2>8 DEF Step
<1>3. CASE u # t
  <2>1. Stays(u)
    BY <1>1, <1>3, OthersStay
  <2>2. CASE repeat' = repeat
    BY <1>1, <2>1, <2>2 DEF RepOK, Stays
  <2>3. CASE repeat' # repeat
    <3>1. Test(t)
      BY <2>3, Zenon DEF Step, EndLoop, SkipSize, SetSize, TestRepeat, StartBench, Measure, NextStage,
                  Decide, ReadGroup, WriteGroup, Publish, shared
    <3>2. pc[t] = "test" /\ test_stop = 1 /\ repeat' = rep[t]
      BY <2>3, <3>1, Zenon DEF Test
    <3>3. CASE u \notin team \/ task[u] # "bench" \/ pc[u] \notin AtBench
      BY <1>1, <2>1, <3>3 DEF RepOK, Stays
    <3>4. CASE u \in team /\ task[u] = "bench" /\ pc[u] \in AtBench
      <4>1. Meet(u) = Meet(t)
        BY <1>1, <3>4 DEF IInv, InStep
      <4>2. Kind = "memory"
        <5>1. Kind = "peak" => team = {Master}
          BY <1>1, <3>2, Zenon DEF IInv, TeamOK, Choosing
        <5> QED BY <1>1, <1>3, <3>4, <5>1, BenchProgram
      <4>3. Meet(t) = <<"begin", Ahead(idx[t]), "bench", rep[t], 1, 1>>
        BY <3>2, <4>2, SMT DEF Meet, MeetFrom, Barriers
      <4>4. stage[u] \in Nat /\ stage[u] >= 1
        <5>1. stage[u] \in 1 .. Len(Stages)
          BY <1>1 DEF TypeOK
        <5> QED BY <5>1, Ranges, SMT
      <4>5. pc[u] = "begin" \/ Meet(u)[1] # "begin" \/ Meet(u)[6] # 1
        BY <3>4, <4>4, SMT DEF Meet, MeetFrom, Barriers, AtBench, Reporting
      <4>6. pc[u] = "begin"
        BY <4>1, <4>3, <4>5
      <4>7. Meet(u) = <<"begin", Ahead(idx[u]), task[u], rep[u], k[u], stage[u]>>
        BY <4>6, SMT DEF Meet, MeetFrom, Barriers
      <4>8. rep[u] = rep[t]
        BY <4>1, <4>3, <4>7, SMT
      <4> QED BY <2>1, <3>2, <4>8 DEF RepOK, Stays
    <3> QED BY <3>3, <3>4
  <2> QED BY <2>2, <2>3
<1> QED BY <1>2, <1>3

(* A thread has the work of its size from the measure to the critical      *)
(* section: every benchmark measures something.                            *)
LEMMA WorkStep ==
    ASSUME IInv, NEW t \in Threads, WorkOK(t), Step(t)
    PROVE  WorkOK(t)'
<1> USE DEF Goto, control, shared, results
<1>1. TypeOK /\ PlaceOK(t)
  BY DEF IInv
<1>2. /\ pc \in [Threads -> Labels] /\ DOMAIN task = Threads /\ DOMAIN rep = Threads
      /\ DOMAIN stage = Threads /\ DOMAIN local_out = Threads /\ DOMAIN idx = Threads
  BY <1>1 DEF TypeOK
<1>3. stage[t] \in Int /\ stage[t] >= 1
  <2>1. stage[t] \in 1 .. Len(Stages)
    BY <1>1 DEF TypeOK
  <2> QED BY <2>1, Ranges, SMT
<1>4. CASE EndLoop(t) \/ SkipSize(t) \/ SetSize(t) \/ Decide(t) \/ WriteGroup(t) \/ Publish(t)
  <2>1. pc'[t] \in {"done", "size", "announce", "bench", "decided", "aggregated", "printed"}
    BY <1>2, <1>4, SMT DEF EndLoop, SkipSize, SetSize, Decide, WriteGroup, Publish
  <2> QED BY <2>1 DEF WorkOK, HasWork
<1>5. CASE TestRepeat(t)
  <2>1. pc'[t] = "bench" \/ task'[t] = "autoset"
    BY <1>2, <1>5, SMT DEF TestRepeat
  <2> QED BY <2>1 DEF WorkOK, HasWork
<1>6. CASE StartBench(t)
  <2>1. pc'[t] = "begin" /\ stage'[t] = 1
    BY <1>2, <1>6, SMT DEF StartBench
  <2>2. ~MeasuredBy(1 - 1)
    BY SMT DEF MeasuredBy
  <2> QED BY <2>1, <2>2 DEF WorkOK, HasWork, MeasuredBy
<1>7. CASE Measure(t)
  <2>1. pc[t] = "timed" /\ pc'[t] = "end" /\ stage' = stage /\ task' = task /\ idx' = idx /\ rep' = rep
    BY <1>2, <1>7, SMT DEF Measure
  <2>2. CASE Stages[stage[t]] = "measure"
    <3>1. local_out' = [local_out EXCEPT ![t] = Sizes[idx[t]] * rep[t]]
      BY <1>7, <2>2, Zenon DEF Measure
    <3> QED BY <1>2, <2>1, <3>1 DEF WorkOK
  <2>3. CASE Stages[stage[t]] # "measure"
    <3>1. local_out' = local_out
      BY <1>7, <2>3, Zenon DEF Measure
    <3>2. MeasuredBy(stage[t]) => MeasuredBy(stage[t] - 1)
      BY <1>3, <2>3, SMT DEF MeasuredBy
    <3> QED BY <2>1, <3>1, <3>2 DEF WorkOK, HasWork, MeasuredBy
  <2> QED BY <2>2, <2>3
<1>8. CASE NextStage(t)
  <2>1. pc[t] = "measured" /\ UNCHANGED <<task, idx, rep, local_out>>
    BY <1>8 DEF NextStage
  <2>2. CASE task[t] # "bench"
    BY <2>1, <2>2 DEF WorkOK, HasWork
  <2>3. CASE task[t] = "bench" /\ stage[t] < Len(Stages)
    <3>1. pc'[t] = "begin" /\ stage'[t] - 1 = stage[t]
      BY <1>2, <1>3, <1>8, <2>3, Ranges, SMT DEF NextStage
    <3>2. MeasuredBy(stage'[t] - 1) => MeasuredBy(stage[t])
      BY <3>1
    <3> QED BY <2>1, <3>1, <3>2 DEF WorkOK, HasWork, MeasuredBy
  <2>4. CASE task[t] = "bench" /\ ~(stage[t] < Len(Stages))
    <3>1. stage[t] = Len(Stages)
      BY <1>8, <2>4, Zenon DEF NextStage
    <3>2. MeasuredBy(stage[t])
      BY <3>1, BenchProgram DEF MeasuredBy
    <3> QED BY <2>1, <2>4, <3>2 DEF WorkOK, HasWork
  <2> QED BY <2>2, <2>3, <2>4
<1>9. CASE Test(t)
  <2>1. task'[t] = "autoset"
    BY <1>1, <1>9 DEF PlaceOK, Choosing, Test
  <2> QED BY <2>1 DEF WorkOK, HasWork
<1>10. CASE ReadGroup(t)
  <2>1. /\ pc[t] = "aggregate"
        /\ UNCHANGED <<task, idx, rep, local_out>>
    BY <1>10 DEF ReadGroup
  <2> QED BY <2>1 DEF WorkOK, HasWork
<1> QED BY <1>4, <1>5, <1>6, <1>7, <1>8, <1>9, <1>10 DEF Step

LEMMA OthersWork ==
    ASSUME IInv, NEW t \in Threads, Step(t), NEW u \in Threads, u # t, WorkOK(u)
    PROVE  WorkOK(u)'
<1>1. Stays(u) /\ DOMAIN local_out = Threads
  BY OthersStay DEF IInv, TypeOK
<1>2. local_out'[u] = local_out[u]
  BY <1>1, Zenon DEF Step, EndLoop, SkipSize, SetSize, TestRepeat, StartBench, Measure, NextStage, Decide,
                     Test, ReadGroup, WriteGroup, Publish, results
<1> QED BY <1>1, <1>2 DEF WorkOK, HasWork, MeasuredBy, Stays

(* Only one thread at a time is between its read of a group and its write. *)
LEMMA LockStep ==
    ASSUME IInv, \A u \in Threads : LockOK(u), NEW t \in Threads, Step(t), NEW u \in Threads
    PROVE  LockOK(u)'
<1> USE DEF LockOK, Goto, control, shared, results
<1>0. /\ DOMAIN pc = Threads /\ DOMAIN seen = Threads /\ TypeOK /\ "free" \notin Threads
      /\ LockOK(u) /\ LockOK(t)
  BY BenchTeam DEF IInv, TypeOK
<1>1. u # t => pc'[u] = pc[u]
  BY <1>0, OthersStay DEF Stays
<1>2. CASE ReadGroup(t)
  BY <1>0, <1>1, <1>2, SMT DEF ReadGroup
<1>3. CASE WriteGroup(t)
  <2>1. pc[t] = "accumulate" /\ pc'[t] = "aggregated"
    BY <1>0, <1>3 DEF WriteGroup
  <2>2. u # t => pc[u] # "accumulate"
    BY <1>0, <2>1
  <2> QED BY <1>1, <2>1, <2>2
<1>4. CASE Publish(t)
  <2>1. pc[t] = "print" /\ pc'[t] = "printed" /\ t \in team
    BY <1>0, <1>4, MovesInTeam DEF Publish, IInv
  <2>2. pc[u] # "accumulate"
    <3>1. u \in team => pc[u] # "accumulate"
      BY <2>1, MeetsElsewhere
    <3>2. u \notin team => pc[u] = "idle"
      BY DEF IInv, TeamOK
    <3> QED BY <3>1, <3>2
  <2> QED BY <1>1, <2>1, <2>2
<1>5. CASE ~ (ReadGroup(t) \/ WriteGroup(t) \/ Publish(t))
  <2>1. lock' = lock /\ seen' = seen /\ out' = out
    BY <1>5, Zenon DEF Step, EndLoop, SkipSize, SetSize, TestRepeat, StartBench, Measure, NextStage, Decide, Test
  <2>2. pc'[t] # "accumulate"
    BY <1>0, <1>5, SMT DEF Step, EndLoop, SkipSize, SetSize, TestRepeat, StartBench, Measure, NextStage,
                         Decide, Test
  <2> QED BY <1>0, <1>1, <2>1, <2>2
<1> QED BY <1>2, <1>3, <1>4, <1>5

LEMMA SingleStep ==
    ASSUME IInv, NEW t \in Threads, Step(t), NEW u \in Threads, SingleOK(u)
    PROVE  SingleOK(u)'
<1> USE DEF SingleOK, Goto, control, shared, results
<1>0. DOMAIN pc = Threads /\ TypeOK /\ "none" \notin Threads
  BY BenchTeam DEF IInv, TypeOK
<1>1. u # t => pc'[u] = pc[u]
  BY <1>0, OthersStay DEF Stays
<1>2. single' = single \/ single' = t
  BY Zenon DEF Step, EndLoop, SkipSize, SetSize, TestRepeat, StartBench, Measure, NextStage, Decide, Test,
               ReadGroup, WriteGroup, Publish
<1>3. pc'[t] = "printed" => single' # "none"
  <2>1. CASE Publish(t)
    BY <1>0, <2>1 DEF Publish
  <2>2. CASE ~Publish(t)
    BY <1>0, <2>2, SMT DEF Step, EndLoop, SkipSize, SetSize, TestRepeat, StartBench, Measure, NextStage, Decide,
                         Test, ReadGroup, WriteGroup
  <2> QED BY <2>1, <2>2
<1> QED BY <1>0, <1>1, <1>2, <1>3

LEMMA ForkStep ==
    ASSUME IInv, ForkOK, NEW t \in Threads, Step(t)
    PROVE  ForkOK'
<1> USE DEF Goto, control, shared, results, Choosing
<1>0. /\ pc \in [Threads -> Labels] /\ DOMAIN task = Threads /\ Master \in Threads /\ team' = team
  BY BenchTeam, StepsTeam DEF IInv, TypeOK
<1>1. CASE team = Threads
  BY <1>0, <1>1 DEF ForkOK
<1>2. CASE team # Threads /\ t # Master
  BY <1>0, <1>2, OthersStay DEF ForkOK, Stays, IInv
<1>3. CASE team # Threads /\ t = Master
  <2>1. task[t] = "autoset" /\ pc[t] \in {"begin", "timed", "end", "measured"} \cup Choosing
    BY <1>3 DEF ForkOK
  <2>2. Kind = "peak"
    BY <1>3, BenchProgram DEF IInv, TeamOK
  <2>3. task'[t] = "autoset" /\ pc'[t] \in {"begin", "timed", "end", "measured"} \cup Choosing
    BY <1>0, <2>1, <2>2, SMT DEF Step, EndLoop, SkipSize, SetSize, TestRepeat, StartBench, Measure, NextStage,
         Decide, Test, ReadGroup, WriteGroup, Publish
  <2> QED BY <1>0, <1>3, <2>3 DEF ForkOK
<1> QED BY <1>1, <1>2, <1>3

LEMMA ThreadStep ==
    ASSUME IInv, ThreadInv, NEW t \in Threads, Step(t)
    PROVE  ThreadInv'
<1>1. /\ ForkOK /\ \A u \in Threads : RepOK(u) /\ LockOK(u) /\ WorkOK(u) /\ SingleOK(u)
  BY DEF ThreadInv
<1>2. ForkOK'
  BY <1>1, ForkStep
<1>3. \A u \in Threads : RepOK(u)'
  BY <1>1, RepStep
<1>4. \A u \in Threads : LockOK(u)'
  BY <1>1, LockStep
<1>5. \A u \in Threads : WorkOK(u)'
  BY <1>1, WorkStep, OthersWork
<1>6. \A u \in Threads : SingleOK(u)'
  BY <1>1, SingleStep
<1> QED BY <1>2, <1>3, <1>4, <1>5, <1>6 DEF ThreadInv

-----------------------------------------------------------------------------
(* What a group holds is the work of the threads that have added theirs.   *)
LEMMA ThreadsFinite == \A g : IsFiniteSet(ThreadsOf(g)) /\ IsFiniteSet(Added(g))
<1>1. \A g : ThreadsOf(g) \in SUBSET Threads /\ Added(g) \in SUBSET Threads
  BY DEF ThreadsOf, Added
<1> QED BY <1>1, BenchTeam, FS_Subset

(* A step that takes no thread to the barrier after the critical section.  *)
LEMMA SameAdded ==
    ASSUME GroupInv, out' = out,
           \A u \in Threads : HasAdded(u)' = HasAdded(u),
           \A u \in Threads : HasAdded(u) => idx'[u] = idx[u] /\ rep'[u] = rep[u]
    PROVE  GroupInv'
<1> SUFFICES ASSUME NEW g \in Groups PROVE GroupHolds(g)'
  BY DEF GroupInv
<1>1. Added(g)' = Added(g)
  BY DEF Added, ThreadsOf
<1>2. \A u \in Added(g) : idx'[u] = idx[u] /\ rep'[u] = rep[u]
  BY DEF Added, ThreadsOf
<1>3. GroupHolds(g)
  BY DEF GroupInv
<1> QED BY <1>1, <1>2, <1>3 DEF GroupHolds

LEMMA QuietStep ==
    ASSUME IInv, GroupInv, NEW t \in Threads, Step(t), ~WriteGroup(t), ~Publish(t), ~Decide(t)
    PROVE  GroupInv'
<1>1. TypeOK /\ DOMAIN pc = Threads
  BY DEF IInv, TypeOK
<1>2. out' = out /\ single' = single
  BY Zenon DEF Step, EndLoop, SkipSize, SetSize, TestRepeat, StartBench, Measure, NextStage, Test, ReadGroup,
               results
<1>3. pc[t] \notin {"aggregated", "print"} /\ pc'[t] \notin {"aggregated", "print"}
  BY <1>1, SMT DEF Step, EndLoop, SkipSize, SetSize, TestRepeat, StartBench, Measure, NextStage, Test,
                   ReadGroup, Goto
<1>4. \A u \in Threads : u # t => Stays(u)
  BY <1>1, OthersStay
<1>5. \A u \in Threads : HasAdded(u)' = HasAdded(u)
  BY <1>2, <1>3, <1>4, Zenon DEF HasAdded, Stays
<1>6. \A u \in Threads : HasAdded(u) => idx'[u] = idx[u] /\ rep'[u] = rep[u]
  BY <1>3, <1>4, Zenon DEF HasAdded, Stays
<1> QED BY <1>2, <1>5, <1>6, SameAdded

(* While a single construct is executed before the barrier of autoset no   *)
(* thread waits to print.                                                  *)
LEMMA DecideGroup ==
    ASSUME IInv, GroupInv, NEW t \in Threads, Decide(t)
    PROVE  GroupInv'
<1>1. TypeOK /\ DOMAIN pc = Threads /\ t \in team /\ Step(t) /\ TeamOK
  BY MovesInTeam DEF IInv, TypeOK, Step
<1>2. out' = out /\ pc[t] = "decide" /\ pc'[t] = "decided"
  BY <1>1 DEF Decide, results, Goto
<1>3. ASSUME NEW u \in Threads PROVE ~HasAdded(u)
  BY <1>1, <1>2, MeetsElsewhere DEF HasAdded, TeamOK
<1>4. ASSUME NEW u \in Threads PROVE ~HasAdded(u)'
  <2>1. u # t => pc'[u] = pc[u]
    BY <1>1, OthersStay DEF Stays
  <2>2. pc[u] \notin {"aggregated", "print"}
    BY <1>1, <1>2, MeetsElsewhere DEF TeamOK
  <2>3. pc'[u] \notin {"aggregated", "print"}
    BY <1>2, <2>1, <2>2
  <2>4. pc'[u] # "aggregated" /\ pc'[u] # "print"
    BY <2>3
  <2> QED BY <2>4 DEF HasAdded
<1>5. \A u \in Threads : HasAdded(u)' = HasAdded(u)
  BY <1>3, <1>4 DEF HasAdded
<1> QED BY <1>2, <1>3, <1>5, SameAdded

LEMMA WriteAdds ==
    ASSUME IInv, ThreadInv, GroupInv, NEW t \in Threads, WriteGroup(t)
    PROVE  GroupInv'
<1> DEFINE G == GroupOf[t]
           w == Sizes[idx[t]] * rep[t]
<1>1. TypeOK /\ PlaceOK(t) /\ t \in team /\ Step(t) /\ TeamOK /\ WorkOK(t) /\ LockOK(t)
  BY MovesInTeam DEF IInv, Step, ThreadInv
<1>2. /\ pc[t] = "accumulate" /\ pc' = [pc EXCEPT ![t] = "aggregated"] /\ pc'[t] = "aggregated"
      /\ single' = single /\ idx' = idx /\ rep' = rep
  BY <1>1 DEF WriteGroup, Goto, TypeOK
<1>3. G \in Groups /\ out \in [Groups -> [n : Nat, work : Nat]]
  BY <1>1, GroupsTyped DEF TypeOK
<1>4. local_out[t] = w /\ seen[t] = out[G] /\ w \in Nat
  <2>1. task[t] = "bench" /\ idx[t] \in 1 .. Len(Sizes) /\ rep[t] \in Nat /\ Sizes \in Seq(Nat)
    BY <1>1, <1>2, BenchProgram DEF PlaceOK, Kept, Reporting, TypeOK
  <2>2. Sizes[idx[t]] \in Nat
    BY <2>1
  <2>3. w \in Nat
    BY <2>1, <2>2, SMT
  <2> QED BY <1>1, <1>2, <2>1, <2>3 DEF WorkOK, HasWork, LockOK
<1>5. out' = [out EXCEPT ![G] = [n |-> out[G].n + 1, work |-> out[G].work + w]]
  BY <1>4 DEF WriteGroup
<1>6. \A u \in Threads : HasAdded(u)' <=> u = t \/ HasAdded(u)
  BY <1>1, <1>2, Zenon DEF HasAdded, TypeOK
<1>7. ~HasAdded(t)
  BY <1>2 DEF HasAdded
<1>8. ASSUME NEW g \in Groups PROVE GroupHolds(g)'
  <2>1. GroupHolds(g)
    BY DEF GroupInv
  <2>2. CASE g # G
    <3>1. Added(g)' = Added(g) /\ out'[g] = out[g]
      BY <1>3, <1>5, <1>6, <2>2 DEF Added, ThreadsOf
    <3> QED BY <1>2, <2>1, <3>1 DEF GroupHolds
  <2>3. CASE g = G
    <3>1. Added(g)' = Added(g) \cup {t} /\ t \notin Added(g)
      BY <1>6, <1>7, <2>3 DEF Added, ThreadsOf
    <3>2. /\ out'[g].n = out[g].n + 1 /\ out'[g].work = out[g].work + w
          /\ out[g].n \in Nat /\ out[g].work \in Nat
      BY <1>3, <1>5, <2>3
    <3>3. Cardinality(Added(g) \cup {t}) = Cardinality(Added(g)) + 1
      BY <3>1, ThreadsFinite, FS_AddElement
    <3>4. \A u \in Added(g) : idx[u] = idx[t] /\ rep[u] = rep[t]
      <4> SUFFICES ASSUME NEW u \in Added(g) PROVE idx[u] = idx[t] /\ rep[u] = rep[t]
        OBVIOUS
      <4>1. u \in Threads /\ HasAdded(u)
        BY DEF Added, ThreadsOf
      <4>2. u \in team
        BY <1>1, <4>1 DEF TeamOK, HasAdded
      <4> QED BY <1>1, <1>2, <4>1, <4>2, MeetsElsewhere DEF HasAdded
    <3>5. out[g].work = out[g].n * w
      <4>1. CASE Added(g) = {}
        <5>1. out[g].n = 0 /\ out[g].work = 0
          BY <2>1, <4>1, FS_EmptySet DEF GroupHolds
        <5> QED BY <1>4, <5>1, SMT
      <4>2. CASE Added(g) # {}
        <5>1. PICK u \in Added(g) : TRUE
          BY <4>2
        <5> QED BY <2>1, <3>4, <5>1 DEF GroupHolds
      <4> QED BY <4>1, <4>2
    <3>6. out'[g].work = out'[g].n * w
      <4> HIDE DEF w
      <4>1. out[g].n * w + w = (out[g].n + 1) * w
        BY <1>4, <3>2, SMT
      <4> QED BY <3>2, <3>5, <4>1
    <3>7. \A u \in Added(g)' : Sizes[idx'[u]] * rep'[u] = w
      BY <1>2, <3>1, <3>4
    <3>8. out'[g].n = Cardinality(Added(g)')
      BY <2>1, <3>1, <3>2, <3>3 DEF GroupHolds
    <3>9. out'[g].n # 0
      BY <3>2, SMT
    <3> HIDE DEF w
    <3> QED BY <3>6, <3>7, <3>8, <3>9 DEF GroupHolds
  <2> QED BY <2>2, <2>3
<1> QED BY <1>8 DEF GroupInv

(* When a thread executes the single construct before the printing, all    *)
(* threads of the machine wait with it and all have added their work.      *)
LEMMA AllHaveAdded ==
    ASSUME IInv, ThreadInv, GroupInv, NEW t \in Threads, Publish(t), single = "none"
    PROVE  /\ team = Threads
           /\ \A u \in Threads : pc[u] = "print" /\ idx[u] = idx[t] /\ rep[u] = repeat
           /\ NonEmpty = Used
           /\ \A g \in Groups : out[g].n = Cardinality(ThreadsOf(g))
           /\ \A g \in Used : out[g].work = out[g].n * (Sizes[idx[t]] * repeat)
<1>1. /\ TypeOK /\ TeamOK /\ t \in team /\ pc[t] = "print" /\ ForkOK /\ Master \in team
      /\ \A u \in Threads : PlaceOK(u) /\ RepOK(u) /\ SingleOK(u)
  BY MovesInTeam DEF IInv, Step, ThreadInv, Publish, TeamOK
<1>2. \A u \in team : u \in Threads /\ pc[u] = "print"
  BY <1>1, MeetsElsewhere DEF SingleOK, TypeOK
<1>3. team = Threads
  BY <1>1, <1>2 DEF ForkOK, Choosing
<1>4. \A u \in Threads : pc[u] = "print" /\ idx[u] = idx[t] /\ rep[u] = repeat
  BY <1>1, <1>2, <1>3, MeetsElsewhere DEF RepOK, PlaceOK, Reporting, AtBench
<1>5. \A g \in Groups : Added(g) = ThreadsOf(g)
  BY <1>4 DEF Added, ThreadsOf, HasAdded
<1>6. \A g \in Groups : out[g].n = Cardinality(ThreadsOf(g))
  BY <1>5 DEF GroupInv, GroupHolds
<1>7. NonEmpty = Used
  <2>1. ASSUME NEW g \in Groups PROVE Cardinality(ThreadsOf(g)) > 0 <=> g \in Used
    <3>1. g \in Used <=> ThreadsOf(g) # {}
      BY DEF Used, ThreadsOf
    <3>2. Cardinality(ThreadsOf(g)) \in Nat /\ (Cardinality(ThreadsOf(g)) = 0 <=> ThreadsOf(g) = {})
      BY ThreadsFinite, FS_CardinalityType, FS_EmptySet
    <3> QED BY <3>1, <3>2
  <2>2. Used \subseteq Groups
    BY GroupsTyped DEF Used
  <2> QED BY <1>6, <2>1, <2>2 DEF NonEmpty
<1>8. ASSUME NEW g \in Used PROVE out[g].work = out[g].n * (Sizes[idx[t]] * repeat)
  <2>1. PICK u \in Threads : GroupOf[u] = g
    BY DEF Used
  <2>2. g \in Groups /\ u \in Added(g)
    BY <1>5, <2>1, GroupsTyped DEF ThreadsOf
  <2>3. Sizes[idx[u]] * rep[u] = Sizes[idx[t]] * repeat
    BY <1>4
  <2> QED BY <2>2, <2>3 DEF GroupInv, GroupHolds
<1> QED BY <1>3, <1>4, <1>6, <1>7, <1>8

LEMMA PublishGroup ==
    ASSUME IInv, ThreadInv, GroupInv, NEW t \in Threads, Publish(t)
    PROVE  GroupInv'
<1>1. /\ TypeOK /\ pc[t] = "print" /\ pc' = [pc EXCEPT ![t] = "printed"] /\ pc'[t] = "printed"
      /\ idx' = idx /\ rep' = rep /\ "none" \notin Threads /\ t \in team /\ TeamOK /\ DOMAIN pc = Threads
  BY MovesInTeam, BenchTeam DEF IInv, Publish, Goto, TypeOK, Step
<1>2. CASE single = "none"
  <2>1. single' = t /\ out' = [g \in Groups |-> Empty]
    BY <1>2 DEF Publish
  <2>2. \A u \in Threads : pc'[u] \in {"print", "printed"}
    BY <1>1, <1>2, AllHaveAdded
  <2>3. \A g : Added(g)' = {}
    BY <1>1, <2>1, <2>2 DEF Added, HasAdded, ThreadsOf
  <2>4. \A g \in Groups : out'[g].n = 0 /\ out'[g].work = 0
    BY <2>1 DEF Empty
  <2> QED BY <2>3, <2>4, FS_EmptySet DEF GroupInv, GroupHolds
<1>3. CASE single # "none"
  <2>1. single' = single /\ out' = out
    BY <1>3 DEF Publish
  <2>2. \A u \in Threads : HasAdded(u)' = HasAdded(u)
    BY <1>1, <1>3, <2>1, Zenon DEF HasAdded
  <2> QED BY <1>1, <2>1, <2>2, SameAdded
<1> QED BY <1>2, <1>3

LEMMA GroupStep ==
    ASSUME IInv, ThreadInv, GroupInv, NEW t \in Threads, Step(t)
    PROVE  GroupInv'
BY QuietStep, DecideGroup, WriteAdds, PublishGroup

(* A barrier and the fork keep what the threads have.                      *)
LEMMA BarrierResults ==
    ASSUME IInv, ThreadInv, GroupInv, Barrier
    PROVE  ThreadInv' /\ GroupInv'
<1>1. /\ \A t \in team : pc[t] \in Barriers
      /\ pc' = [t \in Threads |-> IF t \in team THEN After[pc[t]] ELSE pc[t]]
      /\ idx' = [t \in Threads |-> IF t \in team /\ pc[t] = "printed" THEN idx[t] + 1 ELSE idx[t]]
      /\ single' = "none"
      /\ UNCHANGED <<team, task, stage, rep, repeat, lock, seen, local_out, out>>
  BY DEF Barrier, shared, results
<1>2. TypeOK /\ TeamOK /\ team \subseteq Threads /\ Master \in Threads
  BY BenchTeam DEF IInv, TypeOK
<1>3. ASSUME NEW t \in Threads
      PROVE  /\ pc[t] \in Barriers \cup {"idle"}
             /\ pc'[t] = IF pc[t] \in Barriers THEN After[pc[t]] ELSE "idle"
             /\ idx'[t] = IF pc[t] = "printed" THEN idx[t] + 1 ELSE idx[t]
  <2>1. t \notin team => pc[t] = "idle" /\ "idle" \notin Barriers
    BY <1>2 DEF TeamOK, Barriers
  <2> QED BY <1>1, <2>1
<1>4. ASSUME NEW t \in Threads PROVE RepOK(t)'
  <2>1. pc'[t] \in AtBench => pc[t] \in AtBench
    BY <1>3, SMT DEF Barriers, After, AtBench, Reporting
  <2> QED BY <1>1, <2>1 DEF ThreadInv, RepOK
<1>5. ASSUME NEW t \in Threads PROVE WorkOK(t)'
  <2>1. HasWork(t)' => HasWork(t) /\ pc[t] # "printed"
    BY <1>1, <1>3, SMT DEF Barriers, After, HasWork, MeasuredBy
  <2> QED BY <1>1, <1>3, <2>1 DEF ThreadInv, WorkOK
<1>6. ASSUME NEW t \in Threads PROVE LockOK(t)' /\ SingleOK(t)'
  BY <1>3, SMT DEF Barriers, After, LockOK, SingleOK
<1>7. ForkOK'
  <2>1. pc[Master] \in {"begin", "timed", "end", "measured"} \cup Choosing
           => pc'[Master] \in {"begin", "timed", "end", "measured"} \cup Choosing
    BY <1>2, <1>3, SMT DEF Barriers, After, Choosing
  <2> QED BY <1>1, <2>1 DEF ThreadInv, ForkOK
<1>8. \A t \in Threads : HasAdded(t)' = HasAdded(t)
  BY <1>1, <1>3, SMT DEF Barriers, After, HasAdded
<1>9. \A t \in Threads : HasAdded(t) => idx'[t] = idx[t] /\ rep'[t] = rep[t]
  BY <1>1, <1>3 DEF HasAdded
<1>10. GroupInv'
  BY <1>1, <1>8, <1>9, SameAdded
<1> QED BY <1>4, <1>5, <1>6, <1>7, <1>10 DEF ThreadInv

LEMMA ForkResults ==
    ASSUME IInv, ThreadInv, GroupInv, ForkTeam
    PROVE  ThreadInv' /\ GroupInv'
<1>1. /\ pc[Master] = "fork" /\ team' = Threads /\ pc' = [t \in Threads |-> "size"]
      /\ UNCHANGED <<idx, rep, single, out>>
  BY DEF ForkTeam, results
<1>2. team = {Master} /\ TeamOK /\ Master \in Threads
  BY <1>1, BenchTeam, BenchProgram, Zenon DEF IInv, PlaceOK, TeamOK, Choosing
<1>3. ThreadInv'
  BY <1>1 DEF ThreadInv, ForkOK, RepOK, WorkOK, HasWork, LockOK, SingleOK, AtBench, Reporting
<1>4. \A t \in Threads : pc[t] \in {"fork", "idle"}
  BY <1>1, <1>2 DEF TeamOK
<1>5. \A t \in Threads : ~HasAdded(t) /\ ~HasAdded(t)'
  BY <1>1, <1>4 DEF HasAdded
<1>6. \A t \in Threads : HasAdded(t)' = HasAdded(t)
  BY <1>5 DEF HasAdded
<1>7. GroupInv'
  BY <1>1, <1>5, <1>6, SameAdded
<1> QED BY <1>3, <1>7

LEMMA InitResults == Init => ThreadInv /\ GroupInv
<1> SUFFICES ASSUME Init PROVE ThreadInv /\ GroupInv
  OBVIOUS
<1>1. /\ \A t \in Threads : pc[t] \in {"start", "begin", "idle"} /\ task[t] = "autoset"
      /\ team # Threads => pc[Master] = "begin"
      /\ out = [g \in Groups |-> Empty] /\ Master \in Threads
  BY BenchTeam DEF Init
<1>2. ThreadInv
  BY <1>1, Zenon DEF ThreadInv, ForkOK, RepOK, WorkOK, HasWork, LockOK, SingleOK, AtBench, Reporting, Choosing
<1>3. ASSUME NEW g \in Groups PROVE GroupHolds(g)
  <2>1. Added(g) = {}
    BY <1>1 DEF Added, HasAdded, ThreadsOf
  <2>2. out[g].n = 0 /\ out[g].work = 0
    BY <1>1 DEF Empty
  <2> QED BY <2>1, <2>2, FS_EmptySet DEF GroupHolds
<1> QED BY <1>2, <1>3 DEF GroupInv

-----------------------------------------------------------------------------
(* The sizes a thread has passed tell how many have been printed: they are *)
(* those below the size it is at, each counted once.                       *)
Passed(i)  == {s \in SizesInBounds : \E j \in 1 .. i - 1 : Sizes[j] = s}
NPassed(i) == IF Kind = "memory" THEN Cardinality(Passed(i)) ELSE i - 1

LEMMA SizesFinite ==
    /\ SizesInBounds \subseteq Nat /\ IsFiniteSet(SizesInBounds)
    /\ \A i : IsFiniteSet(Passed(i)) /\ Cardinality(Passed(i)) \in Nat
<1>1. Sizes \in [1 .. Len(Sizes) -> Nat] /\ Len(Sizes) \in Nat
  BY BenchProgram
<1>2. ToSet(Sizes) = {Sizes[j] : j \in 1 .. Len(Sizes)}
  BY <1>1 DEF ToSet
<1>3. ToSet(Sizes) \subseteq Nat
  BY <1>1, <1>2
<1>4. Sizes \in Surjection(1 .. Len(Sizes), ToSet(Sizes))
  BY <1>1, <1>2, Fun_IsSurj
<1>5. IsFiniteSet(1 .. Len(Sizes))
  BY <1>1, FS_Interval
<1>6. IsFiniteSet(ToSet(Sizes))
  BY <1>4, <1>5, FS_Surjection
<1>7. SizesInBounds \in SUBSET ToSet(Sizes)
  BY DEF SizesInBounds
<1>8. IsFiniteSet(SizesInBounds)
  BY <1>6, <1>7, FS_Subset
<1>9. \A i : Passed(i) \in SUBSET SizesInBounds
  BY DEF Passed
<1> QED BY <1>3, <1>7, <1>8, <1>9, FS_Subset, FS_CardinalityType

LEMMA SizesAscend ==
    /\ \A i \in 1 .. Len(Sizes) : Sizes[i] \in Nat
    /\ Kind = "memory" => \A i, j \in 1 .. Len(Sizes) : i <= j => Sizes[i] <= Sizes[j]
    /\ Kind = "memory" => \A i \in 1 .. Len(Sizes) : Sizes[i] >= LowSize => Sizes[i] \in SizesInBounds
    /\ LowSize \in Nat /\ Len(Sizes) \in Nat
<1>1. Sizes \in [1 .. Len(Sizes) -> Nat] /\ Len(Sizes) \in Nat
  BY BenchProgram
<1>2. ToSet(Sizes) = {Sizes[j] : j \in 1 .. Len(Sizes)}
  BY <1>1 DEF ToSet
<1> QED BY <1>1, <1>2, BenchProgram DEF SizesInBounds

LEMMA NothingPassed == NPassed(1) = 0
<1>1. Passed(1) = {}
  BY DEF Passed
<1> QED BY <1>1, FS_EmptySet DEF NPassed

(* A size that is passed over is below the bounds or has been printed.     *)
LEMMA SkippedPassed ==
    ASSUME NEW i \in 1 .. Len(Sizes), Skipped(i)
    PROVE  NPassed(i + 1) = NPassed(i)
<1>1. Kind = "memory" /\ i \in Nat /\ i >= 1
  BY SizesAscend DEF Skipped
<1>2. Sizes[i] \in SizesInBounds => \E j \in 1 .. i - 1 : Sizes[j] = Sizes[i]
  <2>1. CASE Sizes[i] < LowSize
    BY <2>1, SizesAscend DEF SizesInBounds
  <2>2. CASE i > 1 /\ Sizes[i] = Sizes[i - 1]
    <3>1. i - 1 \in 1 .. i - 1
      BY <1>1, <2>2
    <3> QED BY <2>2, <3>1
  <2> QED BY <2>1, <2>2 DEF Skipped
<1>3. Passed(i + 1) = Passed(i)
  <2>1. ASSUME NEW s \in SizesInBounds
        PROVE  (\E j \in 1 .. i : Sizes[j] = s) <=> \E j \in 1 .. i - 1 : Sizes[j] = s
    <3>1. \A j : j \in 1 .. i <=> j \in 1 .. i - 1 \/ j = i
      BY <1>1
    <3> QED BY <1>2, <2>1, <3>1
  <2>2. (i + 1) - 1 = i
    BY <1>1
  <2> QED BY <2>1, <2>2 DEF Passed
<1> QED BY <1>1, <1>3 DEF NPassed

(* A size that is not is the next one to print.                            *)
LEMMA KeptPassed ==
    ASSUME NEW i, Kept(i)
    PROVE  /\ NPassed(i) \in Nat /\ NPassed(i + 1) = NPassed(i) + 1
           /\ SizesToPrint[NPassed(i) + 1] = Sizes[i]
<1>1. i \in 1 .. Len(Sizes) /\ i \in Nat /\ i >= 1 /\ ~Skipped(i)
  BY SizesAscend DEF Kept
<1>2. CASE Kind # "memory"
  <2>1. NPassed(i) = i - 1 /\ NPassed(i + 1) = (i + 1) - 1 /\ SizesToPrint = Sizes
    BY <1>2 DEF NPassed, SizesToPrint
  <2>2. i - 1 \in Nat /\ (i - 1) + 1 = i /\ (i + 1) - 1 = i
    BY <1>1
  <2> QED BY <2>1, <2>2
<1>3. CASE Kind = "memory"
  <2>1. Sizes[i] \in SizesInBounds
    BY <1>1, <1>3, SizesAscend DEF Skipped
  <2>2. ASSUME NEW j \in 1 .. i - 1 PROVE Sizes[j] < Sizes[i]
    <3>1. i > 1 /\ j <= i - 1 /\ j \in 1 .. Len(Sizes) /\ i - 1 \in 1 .. Len(Sizes) /\ i - 1 <= i
      BY <1>1, SizesAscend
    <3>2. Sizes[j] <= Sizes[i - 1] /\ Sizes[i - 1] <= Sizes[i] /\ Sizes[i - 1] # Sizes[i]
      BY <1>1, <1>3, <3>1, SizesAscend DEF Skipped
    <3>3. Sizes[j] \in Nat /\ Sizes[i - 1] \in Nat /\ Sizes[i] \in Nat
      BY <1>1, <3>1, SizesAscend
    <3> QED BY <3>2, <3>3, SMT
  <2>3. Passed(i) = Smaller(SizesInBounds, Sizes[i])
    <3>1. ASSUME NEW s \in SizesInBounds
          PROVE  (\E j \in 1 .. i - 1 : Sizes[j] = s) <=> s < Sizes[i]
      <4>1. PICK k0 \in 1 .. Len(Sizes) : Sizes[k0] = s
        BY SizesAscend DEF SizesInBounds, ToSet
      <4>2. s < Sizes[i] => k0 \in 1 .. i - 1
        <5>1. k0 >= i => Sizes[i] <= Sizes[k0]
          BY <1>1, <1>3, SizesAscend
        <5>2. s \in Nat /\ Sizes[i] \in Nat /\ k0 \in Nat
          BY <1>1, <4>1, SizesAscend
        <5> QED BY <1>1, <4>1, <5>1, <5>2, SMT
      <4> QED BY <2>2, <4>1, <4>2
    <3> QED BY <3>1 DEF Passed, Smaller
  <2>4. Sizes[i] \notin Passed(i)
    <3>1. ~(Sizes[i] < Sizes[i])
      BY <1>1, SizesAscend
    <3> QED BY <2>3, <3>1 DEF Smaller
  <2>5. Passed(i + 1) = Passed(i) \cup {Sizes[i]}
    <3>1. \A j : j \in 1 .. (i + 1) - 1 <=> j \in 1 .. i - 1 \/ j = i
      BY <1>1
    <3> QED BY <2>1, <3>1 DEF Passed
  <2>6. Cardinality(Passed(i + 1)) = Cardinality(Passed(i)) + 1 /\ Cardinality(Passed(i)) \in Nat
    BY <2>4, <2>5, SizesFinite, FS_AddElement
  <2>7. Ascending(SizesInBounds)[Cardinality(Passed(i)) + 1] = Sizes[i]
    BY <2>1, <2>3, SizesFinite, AscendingGoesThrough
  <2> QED BY <1>3, <2>6, <2>7 DEF NPassed, SizesToPrint
<1> QED BY <1>2, <1>3

LEMMA AllPassed == NPassed(Len(Sizes) + 1) = Len(SizesToPrint)
<1>1. CASE Kind # "memory"
  BY <1>1, SizesAscend DEF NPassed, SizesToPrint
<1>2. CASE Kind = "memory"
  <2>1. Passed(Len(Sizes) + 1) = SizesInBounds
    <3>1. (Len(Sizes) + 1) - 1 = Len(Sizes) /\ DOMAIN Sizes = 1 .. Len(Sizes)
      BY BenchProgram
    <3> QED BY <3>1 DEF Passed, SizesInBounds, ToSet
  <2>2. Cardinality(SizesInBounds) \in Nat
    BY SizesFinite, FS_CardinalityType
  <2>3. Len(Ascending(SizesInBounds)) = Cardinality(SizesInBounds)
    BY <2>2 DEF Ascending
  <2> QED BY <1>2, <2>1, <2>3 DEF NPassed, SizesToPrint
<1> QED BY <1>1, <1>2

(* The lines printed so far: one row for each size that a thread of the    *)
(* team has passed, and for the one it is at when that is printed.         *)
Shown(t)   == pc[t] = "printed" \/ (pc[t] = "print" /\ single # "none")
CountOK(t) == t \in team => Len(lines) = Rows(NPassed(idx[t]) + IF Shown(t) THEN 1 ELSE 0)
DoneOK(t)  == pc[t] = "done" => idx[t] = Len(Sizes) + 1
LineType   == [size : Nat, group : Nat, repeat : Nat, n : Nat, work : Nat]
LineOK(line, i, j) == line.size = SizesToPrint[i] /\ line.group = Ascending(Used)[j]
RowsOK ==
    \A i \in 1 .. Len(SizesToPrint), j \in 1 .. Cardinality(Used) :
        Rows(i - 1) + j <= Len(lines) => LineOK(lines[Rows(i - 1) + j], i, j)
LinesInv == /\ \A t \in Threads : CountOK(t) /\ DoneOK(t)
            /\ lines \in Seq(LineType) /\ RowsOK /\ LinesComplete

LEMMA UsedFinite == Used \subseteq Nat /\ IsFiniteSet(Used) /\ Cardinality(Used) \in Nat
<1>1. GroupOf \in Surjection(Threads, Used)
  <2>1. GroupOf \in [Threads -> Used] /\ \A g \in Used : \E t \in Threads : GroupOf[t] = g
    BY BenchPlaces DEF Used
  <2> QED BY <2>1, Fun_IsSurj
<1>2. IsFiniteSet(Used)
  BY <1>1, BenchTeam, FS_Surjection
<1> QED BY <1>2, FS_CardinalityType, BenchPlaces DEF Used

(* Which row a line is in.                                                 *)
LEMMA RowOfLine ==
    ASSUME NEW c \in Nat, NEW N \in Nat, NEW i \in Nat, i >= 1, NEW j \in 1 .. c
    PROVE  /\ c * (i - 1) \in Nat /\ c * N \in Nat /\ c * (N + 1) = c * N + c
           /\ i - 1 < N => c * (i - 1) + j <= c * N
           /\ i - 1 > N => c * (i - 1) + j > c * (N + 1)
<1>1. j \in Nat /\ j >= 1 /\ j <= c /\ i - 1 \in Nat
  OBVIOUS
<1>2. c * (i - 1) \in Nat /\ c * N \in Nat /\ c * (N + 1) = c * N + c
  BY <1>1, SMT
<1>3. \A a, b \in Nat : a < b => c * a + c <= c * b
  <2> SUFFICES ASSUME NEW a \in Nat, NEW b \in Nat, a < b PROVE c * a + c <= c * b
    OBVIOUS
  <2>1. b = a + 1 + (b - a - 1) /\ b - a - 1 \in Nat
    OBVIOUS
  <2>2. c * b = c * a + c + c * (b - a - 1) /\ c * (b - a - 1) \in Nat /\ c * a \in Nat /\ c * b \in Nat
    BY <2>1, SMT
  <2> QED BY <2>2, SMT
<1>4. ASSUME i - 1 < N PROVE c * (i - 1) + j <= c * N
  <2>1. c * (i - 1) + c <= c * N
    BY <1>1, <1>3, <1>4
  <2> QED BY <1>1, <1>2, <2>1, SMT
<1>5. ASSUME i - 1 > N PROVE c * (i - 1) + j > c * (N + 1)
  <2>1. c * N + c <= c * (i - 1)
    BY <1>1, <1>3, <1>5
  <2> QED BY <1>1, <1>2, <2>1, SMT
<1> QED BY <1>2, <1>4, <1>5

LEMMA RowsAre == ASSUME NEW n \in Nat
                 PROVE  Rows(n) \in Nat /\ Rows(n + 1) = Rows(n) + Cardinality(Used)
BY UsedFinite, SMT DEF Rows

(* Printing appends the row of the size that all threads are at.           *)
LEMMA PublishLines ==
    ASSUME IInv, ThreadInv, GroupInv, LinesInv, NEW t \in Threads, Publish(t)
    PROVE  LinesInv'
<1>1. /\ TypeOK /\ TeamOK /\ t \in team /\ t \in Threads /\ pc[t] = "print" /\ pc'[t] = "printed"
      /\ \A u \in Threads : u # t => pc'[u] = pc[u]
      /\ team' = team /\ idx' = idx /\ team \subseteq Threads /\ "none" \notin Threads
  BY MovesInTeam, BenchTeam DEF IInv, TypeOK, Step, Publish, Goto
<1>2. ASSUME NEW u \in Threads PROVE DoneOK(u)'
  BY <1>1 DEF LinesInv, DoneOK
<1>3. CASE single # "none"
  <2>1. single' = single /\ lines' = lines
    BY <1>3 DEF Publish
  <2>2. ASSUME NEW u \in Threads PROVE CountOK(u)'
    <3>1. Shown(u)' = Shown(u)
      BY <1>1, <1>3, <2>1 DEF Shown
    <3>2. CountOK(u)
      BY DEF LinesInv
    <3> QED BY <1>1, <2>1, <3>1, <3>2 DEF CountOK, NPassed, Passed
  <2> QED BY <1>2, <2>1, <2>2 DEF LinesInv, RowsOK, LinesComplete
<1>4. CASE single = "none"
  <2> DEFINE N == NPassed(idx[t])
             c == Cardinality(Used)
             new == LinesFor(t)
  <2>1. /\ \A u \in Threads : pc[u] = "print" /\ idx[u] = idx[t]
        /\ team = Threads /\ NonEmpty = Used
        /\ \A g \in Groups : out[g].n = Cardinality(ThreadsOf(g))
        /\ \A g \in Used : out[g].work = out[g].n * (Sizes[idx[t]] * repeat)
    BY <1>4, AllHaveAdded
  <2>2. single' = t /\ lines' = lines \o new /\ single' # "none"
    BY <1>1, <1>4 DEF Publish
  <2>3. Kept(idx[t]) /\ N \in Nat /\ NPassed(idx[t] + 1) = N + 1 /\ SizesToPrint[N + 1] = Sizes[idx[t]]
    <3>1. Kept(idx[t])
      BY <1>1 DEF IInv, PlaceOK
    <3> QED BY <3>1, KeptPassed
  <2>4. Rows(N) \in Nat /\ c \in Nat /\ Rows(N) = c * N /\ Rows(N + 1) = Rows(N) + c
    <3> HIDE DEF N
    <3> QED BY <2>3, RowsAre, UsedFinite DEF Rows
  <2>5. Len(lines) = Rows(N)
    <3>1. CountOK(t) /\ ~Shown(t)
      BY <1>1, <1>4 DEF LinesInv, Shown
    <3>2. Len(lines) = Rows(NPassed(idx[t]) + 0)
      BY <1>1, <3>1 DEF CountOK
    <3> QED BY <2>3, <3>2
  <2>6. new = [j \in 1 .. c |-> [size |-> Sizes[idx[t]], group |-> Ascending(Used)[j], repeat |-> repeat,
                                 n |-> out[Ascending(Used)[j]].n, work |-> out[Ascending(Used)[j]].work]]
    BY <2>1 DEF LinesFor
  <2>7. \A j \in 1 .. c : Ascending(Used)[j] \in Used
    BY UsedFinite, AscendingGoesThrough
  <2>8. Sizes[idx[t]] \in Nat /\ repeat \in Nat /\ Used \subseteq Groups /\ Used \subseteq Nat
    <3>1. idx[t] \in 1 .. Len(Sizes) /\ Sizes[idx[t]] \in Nat
      BY <2>3, SizesAscend DEF Kept
    <3>2. repeat \in Nat /\ Used \subseteq Groups
      <4>1. repeat \in Nat
        BY <1>1 DEF TypeOK
      <4> QED BY <4>1, GroupsTyped DEF Used
    <3> QED BY <3>1, <3>2, UsedFinite
  <2>9. \A g \in Used : out[g].n \in Nat /\ out[g].work \in Nat
    BY <1>1, <2>8 DEF TypeOK
  <2>10. \A j \in 1 .. c :
            /\ new[j] \in LineType /\ LineOK(new[j], N + 1, j)
            /\ new[j].n = Cardinality(ThreadsOf(new[j].group))
            /\ new[j].work = new[j].n * new[j].size * new[j].repeat
    <3> SUFFICES ASSUME NEW j \in 1 .. c
                 PROVE  /\ new[j] \in LineType /\ LineOK(new[j], N + 1, j)
                        /\ new[j].n = Cardinality(ThreadsOf(new[j].group))
                        /\ new[j].work = new[j].n * new[j].size * new[j].repeat
      OBVIOUS
    <3> DEFINE g == Ascending(Used)[j]
    <3>1. /\ new[j] = [size |-> Sizes[idx[t]], group |-> g, repeat |-> repeat,
                       n |-> out[g].n, work |-> out[g].work]
          /\ g \in Used /\ g \in Groups
      BY <2>6, <2>7, <2>8
    <3>2. out[g].work = out[g].n * Sizes[idx[t]] * repeat
      <4>1. out[g].work = out[g].n * (Sizes[idx[t]] * repeat)
        BY <2>1, <3>1
      <4>2. \A a, b, d \in Nat : a * (b * d) = a * b * d
        BY SMT
      <4> QED BY <2>8, <2>9, <3>1, <4>1, <4>2
    <3>3. new[j] \in LineType
      BY <2>8, <2>9, <3>1 DEF LineType
    <3>4. LineOK(new[j], N + 1, j)
      BY <2>3, <3>1 DEF LineOK
    <3> HIDE DEF new, g, N
    <3> QED BY <2>1, <3>1, <3>2, <3>3, <3>4
  <2>11. new \in Seq(LineType) /\ Len(new) = c
    <3>1. new \in [1 .. c -> LineType]
      BY <2>6, <2>10
    <3> HIDE DEF new, c
    <3> QED BY <2>4, <3>1
  <2> HIDE DEF new, c, N
  <2>12. /\ lines' \in Seq(LineType) /\ Len(lines') = Rows(N + 1)
         /\ \A m \in 1 .. Rows(N) : lines'[m] = lines[m]
         /\ \A j \in 1 .. c : lines'[Rows(N) + j] = new[j]
    <3>1. lines \in Seq(LineType)
      BY DEF LinesInv
    <3>2. /\ lines \o new \in Seq(LineType) /\ Len(lines \o new) = Len(lines) + Len(new)
          /\ \A m \in 1 .. Len(lines) : (lines \o new)[m] = lines[m]
          /\ \A j \in 1 .. Len(new) : (lines \o new)[Len(lines) + j] = new[j]
      BY <2>11, <3>1, SMT
    <3> QED BY <2>2, <2>4, <2>5, <2>11, <3>2
  <2>13. ASSUME NEW u \in Threads PROVE CountOK(u)'
    <3>1. Shown(u)' /\ idx'[u] = idx[t]
      BY <1>1, <2>1, <2>2 DEF Shown
    <3>2. NPassed(idx[u])' = N
      BY <3>1 DEF N, NPassed, Passed
    <3> QED BY <2>12, <3>1, <3>2 DEF CountOK
  <2>14. RowsOK'
    <3> SUFFICES ASSUME NEW i \in 1 .. Len(SizesToPrint), NEW j \in 1 .. c, Rows(i - 1) + j <= Rows(N + 1)
                 PROVE  LineOK(lines'[Rows(i - 1) + j], i, j)
      BY <2>12 DEF RowsOK, c, LineOK
    <3>1. i \in Nat /\ i >= 1 /\ j \in Nat
      OBVIOUS
    <3>2. /\ Rows(i - 1) \in Nat
          /\ i - 1 < N => Rows(i - 1) + j <= Rows(N)
          /\ i - 1 > N => Rows(i - 1) + j > Rows(N + 1)
      BY <2>3, <2>4, <3>1, RowOfLine DEF Rows, c, N
    <3>3. CASE i - 1 < N
      <4>1. Rows(i - 1) + j \in 1 .. Rows(N)
        BY <2>4, <3>1, <3>2, <3>3
      <4> QED BY <2>5, <2>12, <4>1, <3>1, <3>2, <3>3 DEF LinesInv, RowsOK, c
    <3>4. CASE i - 1 = N
      <4>1. i = N + 1
        BY <3>1, <3>4
      <4> QED BY <2>10, <2>12, <3>4, <4>1
    <3>5. ~(i - 1 > N)
      BY <2>3, <2>4, <3>1, <3>2, SMT
    <3> QED BY <2>3, <3>1, <3>3, <3>4, <3>5, SMT DEF N
  <2>15. LinesComplete'
    <3> SUFFICES ASSUME NEW m \in 1 .. Rows(N + 1)
                 PROVE  /\ lines'[m].n = Cardinality(ThreadsOf(lines'[m].group))
                        /\ lines'[m].work = lines'[m].n * lines'[m].size * lines'[m].repeat
      BY <2>12 DEF LinesComplete, ThreadsOf
    <3>1. CASE m \in 1 .. Rows(N)
      BY <2>5, <2>12, <3>1 DEF LinesInv, LinesComplete
    <3>2. CASE m \notin 1 .. Rows(N)
      <4>1. PICK j \in 1 .. c : m = Rows(N) + j
        <5>1. m - Rows(N) \in 1 .. c /\ m = Rows(N) + (m - Rows(N))
          BY <2>4, <3>2
        <5> QED BY <5>1
      <4> QED BY <2>10, <2>12, <4>1
    <3> QED BY <3>1, <3>2
  <2> QED BY <1>2, <2>12, <2>13, <2>14, <2>15 DEF LinesInv
<1> QED BY <1>3, <1>4

(* No other step prints, or takes a thread past a size that is kept.       *)
LEMMA LinesStep ==
    ASSUME IInv, LinesInv, NEW t \in Threads, Step(t), ~Publish(t)
    PROVE  LinesInv'
<1>1. /\ TypeOK /\ TeamOK /\ t \in team /\ team' = team /\ DOMAIN pc = Threads /\ DOMAIN idx = Threads
      /\ idx[t] \in 1 .. Len(Sizes) + 1
  BY MovesInTeam, StepsTeam DEF IInv, TypeOK
<1>2. lines' = lines
  BY Zenon DEF Step, EndLoop, SkipSize, SetSize, TestRepeat, StartBench, Measure, NextStage, Decide, Test,
               ReadGroup, WriteGroup, results
<1>3. \A u \in Threads : u # t => Stays(u)
  BY <1>1, OthersStay
<1>4. pc[t] \notin {"print", "printed"} /\ pc'[t] \notin {"print", "printed"}
  BY <1>1, SMT DEF Step, EndLoop, SkipSize, SetSize, TestRepeat, StartBench, Measure, NextStage, Decide, Test,
                   ReadGroup, WriteGroup, Goto
<1>5. ASSUME NEW u \in Threads, u # t PROVE CountOK(u)' /\ DoneOK(u)'
  <2>1. CountOK(u) /\ DoneOK(u) /\ Stays(u)
    BY <1>3, <1>5 DEF LinesInv
  <2>2. CASE u \notin team
    BY <1>1, <2>1, <2>2 DEF CountOK, DoneOK, Stays
  <2>3. CASE u \in team
    <3>1. Shown(u)' = Shown(u)
      <4>1. CASE Decide(t)
        <5>1. pc[u] \notin {"print", "printed"}
          BY <1>1, <2>3, <4>1, MeetsElsewhere DEF Decide
        <5> QED BY <2>1, <5>1 DEF Shown, Stays
      <4>2. CASE ~Decide(t)
        <5>1. single' = single
          BY <4>2, Zenon DEF Step, EndLoop, SkipSize, SetSize, TestRepeat, StartBench, Measure, NextStage, Test,
                             ReadGroup, WriteGroup
        <5> QED BY <2>1, <5>1 DEF Shown, Stays
      <4> QED BY <4>1, <4>2
    <3>2. NPassed(idx[u])' = NPassed(idx[u])
      BY <2>1 DEF NPassed, Passed, Stays
    <3> QED BY <1>1, <1>2, <2>1, <3>1, <3>2 DEF CountOK, DoneOK, Stays
  <2> QED BY <2>2, <2>3
<1>6. DoneOK(t)'
  <2>1. CASE EndLoop(t)
    <3>1. idx' = idx /\ idx[t] > Len(Sizes)
      BY <2>1 DEF EndLoop
    <3>2. idx[t] = Len(Sizes) + 1
      BY <1>1, <3>1, SizesAscend
    <3> QED BY <3>1, <3>2 DEF DoneOK
  <2>2. CASE ~EndLoop(t)
    <3>1. pc'[t] # "done"
      BY <1>1, <2>2, SMT DEF Step, SkipSize, SetSize, TestRepeat, StartBench, Measure, NextStage, Decide, Test,
                       ReadGroup, WriteGroup, Goto
    <3> QED BY <3>1 DEF DoneOK
  <2> QED BY <2>1, <2>2
<1>7. CountOK(t)'
  <2>1. ~Shown(t) /\ ~Shown(t)' /\ CountOK(t)
    BY <1>4 DEF Shown, LinesInv
  <2>2. NPassed(idx[t])' = NPassed(idx[t])
    <3>1. CASE SkipSize(t)
      <4>1. idx[t] \in 1 .. Len(Sizes) /\ Skipped(idx[t]) /\ idx'[t] = idx[t] + 1
        BY <1>1, <3>1 DEF SkipSize
      <4>2. NPassed(idx[t] + 1) = NPassed(idx[t])
        BY <4>1, SkippedPassed
      <4> QED BY <4>1, <4>2 DEF NPassed, Passed
    <3>2. CASE ~SkipSize(t)
      <4>1. idx' = idx
        BY <3>2, Zenon DEF Step, EndLoop, SetSize, TestRepeat, StartBench, Measure, NextStage, Decide, Test,
                           ReadGroup, WriteGroup
      <4> QED BY <4>1 DEF NPassed, Passed
    <3> QED BY <3>1, <3>2
  <2> QED BY <1>1, <1>2, <2>1, <2>2 DEF CountOK
<1>8. (lines \in Seq(LineType) /\ RowsOK /\ LinesComplete)'
  BY <1>2 DEF LinesInv, RowsOK, LinesComplete
<1> QED BY <1>5, <1>6, <1>7, <1>8 DEF LinesInv

(* The barrier after the printing takes the team past the size.            *)
LEMMA BarrierLines == ASSUME IInv, LinesInv, Barrier PROVE LinesInv'
<1>1. /\ \A t \in team : pc[t] \in Barriers
      /\ pc' = [t \in Threads |-> IF t \in team THEN After[pc[t]] ELSE pc[t]]
      /\ idx' = [t \in Threads |-> IF t \in team /\ pc[t] = "printed" THEN idx[t] + 1 ELSE idx[t]]
      /\ single' = "none" /\ team' = team /\ lines' = lines
  BY DEF Barrier, results
<1>2. team \subseteq Threads /\ \A t \in Threads \ team : pc[t] = "idle"
  BY DEF IInv, TypeOK, TeamOK
<1>3. ASSUME NEW t \in Threads PROVE DoneOK(t)'
  <2>1. pc'[t] # "done"
    BY <1>1, <1>2, SMT DEF Barriers, After
  <2> QED BY <2>1 DEF DoneOK
<1>4. ASSUME NEW t \in Threads PROVE CountOK(t)'
  <2>1. CASE t \notin team
    BY <1>1, <2>1 DEF CountOK
  <2>2. CASE t \in team
    <3>1. CountOK(t) /\ pc[t] \in Barriers /\ pc'[t] = After[pc[t]]
      BY <1>1, <2>2 DEF LinesInv
    <3>2. ~Shown(t)'
      BY <1>1, <3>1, SMT DEF Barriers, After, Shown
    <3>3. CASE pc[t] = "printed"
      <4>1. Kept(idx[t]) /\ idx'[t] = idx[t] + 1 /\ Shown(t)
        BY <1>1, <2>2, <3>3 DEF IInv, PlaceOK, Shown
      <4>2. NPassed(idx[t] + 1) = NPassed(idx[t]) + 1 /\ NPassed(idx[t]) \in Nat
        BY <4>1, KeptPassed
      <4>3. Len(lines) = Rows(NPassed(idx[t]) + 1)
        BY <2>2, <3>1, <4>1 DEF CountOK
      <4>4. NPassed(idx[t])' = NPassed(idx[t]) + 1
        BY <4>1, <4>2 DEF NPassed, Passed
      <4> QED BY <1>1, <3>2, <4>2, <4>3, <4>4 DEF CountOK
    <3>4. CASE pc[t] # "printed"
      <4>1. ~Shown(t) /\ idx'[t] = idx[t]
        BY <1>1, <2>2, <3>1, <3>4, SMT DEF Barriers, Shown
      <4>2. NPassed(idx[t])' = NPassed(idx[t])
        BY <4>1 DEF NPassed, Passed
      <4> QED BY <1>1, <3>1, <3>2, <4>1, <4>2 DEF CountOK
    <3> QED BY <3>3, <3>4
  <2> QED BY <2>1, <2>2
<1> QED BY <1>1, <1>3, <1>4 DEF LinesInv, RowsOK, LinesComplete

LEMMA ForkLines == ASSUME IInv, LinesInv, ForkTeam PROVE LinesInv'
<1>1. /\ pc[Master] = "fork" /\ team' = Threads /\ pc' = [t \in Threads |-> "size"]
      /\ UNCHANGED <<idx, lines>>
  BY DEF ForkTeam, results
<1>2. Kind = "peak" /\ team = {Master} /\ Master \in Threads
  BY <1>1, BenchTeam, BenchProgram, Zenon DEF IInv, PlaceOK, TeamOK, Choosing
<1>3. ASSUME NEW t \in Threads PROVE idx[t] = 1
  <2>1. CASE t = Master
    BY <1>1, <1>2, <2>1 DEF IInv, PlaceOK, Choosing
  <2>2. CASE t # Master
    BY <1>2, <2>2 DEF IInv, PlaceOK, TeamOK
  <2> QED BY <2>1, <2>2
<1>4. Len(lines) = Rows(0 + 0)
  <2>1. CountOK(Master) /\ ~Shown(Master)
    BY <1>1, <1>2 DEF LinesInv, Shown
  <2> QED BY <1>2, <1>3, <2>1, NothingPassed DEF CountOK
<1>5. ASSUME NEW t \in Threads PROVE CountOK(t)' /\ DoneOK(t)'
  <2>1. pc'[t] = "size" /\ idx'[t] = 1
    BY <1>1, <1>3
  <2>2. NPassed(idx[t])' = 0
    BY <2>1, NothingPassed DEF NPassed, Passed
  <2> QED BY <1>1, <1>4, <2>1, <2>2 DEF CountOK, DoneOK, Shown
<1> QED BY <1>1, <1>5 DEF LinesInv, RowsOK, LinesComplete

LEMMA InitLines == Init => LinesInv
<1> SUFFICES ASSUME Init PROVE LinesInv
  OBVIOUS
<1>1. lines = << >> /\ \A t \in Threads : pc[t] \in {"start", "begin", "idle"} /\ idx[t] = 1
  BY DEF Init
<1>2. Rows(0) = 0 /\ \A n \in Nat : Rows(n) \in Nat
  <2>1. Rows(0) = 0
    BY UsedFinite, SMT DEF Rows
  <2> QED BY <2>1, RowsAre
<1>3. ASSUME NEW t \in Threads PROVE CountOK(t) /\ DoneOK(t)
  <2>1. NPassed(idx[t]) = 0 /\ ~Shown(t) /\ pc[t] # "done"
    BY <1>1, NothingPassed DEF Shown
  <2> QED BY <1>1, <1>2, <2>1 DEF CountOK, DoneOK
<1>4. RowsOK
  <2> SUFFICES ASSUME NEW i \in 1 .. Len(SizesToPrint), NEW j \in 1 .. Cardinality(Used),
                      Rows(i - 1) + j <= 0
               PROVE  FALSE
    BY <1>1 DEF RowsOK
  <2>1. i - 1 \in Nat /\ j \in Nat /\ j >= 1
    OBVIOUS
  <2>2. Rows(i - 1) \in Nat
    BY <1>2, <2>1
  <2> QED BY <2>1, <2>2, SMT
<1> QED BY <1>1, <1>3, <1>4 DEF LinesInv, LinesComplete

RInv == ThreadInv /\ GroupInv /\ LinesInv

(* The rounds keep what the groups and the lines hold.                     *)
LEMMA ResultsInductive == Spec => []RInv
<1>1. ASSUME IInv, RInv, UNCHANGED vars PROVE RInv'
  <2>1. UNCHANGED <<pc, team, idx, task, rep, k, stage, repeat, single, lock, seen, local_out, out, lines>>
    BY <1>1 DEF vars, control, shared, results
  <2>2. ThreadInv'
    BY <1>1, <2>1 DEF RInv, ThreadInv, ForkOK, RepOK, WorkOK, HasWork, MeasuredBy, LockOK, SingleOK
  <2>3. GroupInv'
    BY <1>1, <2>1, SameAdded DEF RInv, HasAdded
  <2>4. \A t \in Threads : CountOK(t)' /\ DoneOK(t)'
    BY <1>1, <2>1 DEF RInv, LinesInv, CountOK, DoneOK, Shown, NPassed, Passed
  <2> QED BY <1>1, <2>1, <2>2, <2>3, <2>4 DEF RInv, LinesInv, RowsOK, LinesComplete
<1>2. ASSUME IInv, RInv, NEW t \in Threads, Step(t) PROVE RInv'
  BY <1>2, ThreadStep, GroupStep, PublishLines, LinesStep DEF RInv
<1>3. IInv /\ RInv /\ [Next]_vars => RInv'
  BY <1>1, <1>2, BarrierResults, BarrierLines, ForkResults, ForkLines DEF Next, Return, RInv
<1>4. Init => RInv
  BY InitResults, InitLines DEF RInv
<1> QED BY Inductive, <1>3, <1>4, PTL DEF Spec

(* Whatever the order in which the threads of roofline_memory() leave the  *)
(* clock, enter the critical section and come to the single construct, a   *)
(* printed line holds the work of each thread of its group once, at the    *)
(* line's size and with the line's number of repetitions.                  *)
THEOREM NoWorkLost == Spec => []LinesComplete
BY ResultsInductive, PTL DEF RInv, LinesInv

(* A call that returns has printed all sizes in the bounds, smallest first *)
(* and none twice, with a line for each memory group that has threads.     *)
THEOREM OneRowPerSize == Spec => []EveryLineOnce
<1>1. IInv /\ RInv => EveryLineOnce
  <2> SUFFICES ASSUME IInv, RInv, AllDone PROVE EveryLineOnce
    BY DEF EveryLineOnce
  <2>1. Master \in team /\ Master \in Threads /\ pc[Master] = "done"
    BY BenchTeam DEF IInv, TeamOK, AllDone
  <2>2. Len(lines) = Rows(NPassed(Len(Sizes) + 1) + 0)
    BY <2>1 DEF RInv, LinesInv, CountOK, DoneOK, Shown
  <2>3. Len(SizesToPrint) \in Nat
    BY SizesAscend, SizesFinite, AllPassed DEF NPassed
  <2>4. Len(lines) = Rows(Len(SizesToPrint))
    BY <2>2, <2>3, AllPassed
  <2>5. ASSUME NEW i \in 1 .. Len(SizesToPrint), NEW j \in 1 .. Cardinality(Used)
        PROVE  LineOK(lines[Rows(i - 1) + j], i, j)
    <3>1. i - 1 \in Nat /\ j \in Nat /\ j <= Cardinality(Used) /\ (i - 1 < Len(SizesToPrint))
      BY <2>3, UsedFinite
    <3>2. Rows(i - 1) + j <= Rows(Len(SizesToPrint))
      BY <2>3, <3>1, RowOfLine, UsedFinite DEF Rows
    <3> QED BY <2>4, <3>2 DEF RInv, LinesInv, RowsOK
  <2> QED BY <2>4, <2>5 DEF EveryLineOnce, LineOK
<1> QED BY Inductive, ResultsInductive, <1>1, PTL
=============================================================================
