--------------------------- MODULE SamplingProofs ---------------------------
(***************************************************************************)
(* For every team, machine and program: the timers of the samples are      *)
(* balanced and re-armed, what is printed is final and every thread is     *)
(* counted once. With a PU for each thread the library implements          *)
(* SamplingReport.                                                         *)
(***************************************************************************)
EXTENDS SamplingRefinement, SetLemmas

(* The lookups of start and stop agree: in a forced region the workers'    *)
(* second lookup is served from bindings[], and the master, which is       *)
(* looked up anew, is bound.  Other modes keep the pointer of start.       *)
Steady == Master \in Bound \/ "forced" \notin Modes

-----------------------------------------------------------------------------
(* The inductive invariant.                                                *)

Opening == {"caller", "start_failed", "count", "start_barrier"}
Open    == {"set_work", "first", "start_timer", "region", "stop_caller", "stop_failed", "stop",
            "last", "stop_timer", "stop_barrier"}
Closing == {"single", "reset", "end"}

(* Only the threads of the team are in the library, and the two barriers   *)
(* keep the team together in one of the three parts of a region.           *)
TeamInv ==
    /\ \A t \in Threads : t \in Team <=> pc[t] # "idle"
    /\ \/ \A t \in Team : pc[t] \in Opening
       \/ \A t \in Team : pc[t] \in Open
       \/ \A t \in Team : pc[t] \in Closing
    /\ \A t \in Threads : pc[t] \in {"stop_caller", "stop"} => mode = "forced"

(* A thread's sample is the one recorded in bindings[], and that of its PU *)
(* when it is bound.                                                       *)
LookupInv ==
    \A t \in Team : pc[t] \notin {"caller", "start_failed"} =>
        sample[t] = bindings[t] /\ (t \in Bound => sample[t] = Pin[t])

(* One thread claims the single construct.                                 *)
ClaimInv == \A t, u \in Team : pc[t] = "reset" /\ pc[u] = "reset" => t = u

(* The samples hold nothing of this region: it has not set anything yet,   *)
(* or the claiming thread has reset them.                                  *)
Resetting == \E t \in Team : pc[t] = "reset"
WasReset  == ~Resetting /\ \E t \in Team : pc[t] = "end"
Untimed   == s_nano = Zero /\ e_nano = Zero /\ bytes = Zero

Counted(p) == {t \in Team : sample[t] = p /\ pc[t] \notin {"caller", "start_failed", "count"}}
CountInv ==
    \A p \in PUs : n_threads[p] = IF WasReset THEN 0 ELSE Cardinality(Counted(p))
CleanInv ==
    WasReset \/ (\A t \in Team : pc[t] \in Opening) => Untimed

IInv == TypeOK /\ TimersBalanced /\ TeamInv /\ LookupInv /\ ClaimInv /\ CountInv /\ CleanInv
-----------------------------------------------------------------------------
(* The team is a finite set of threads, and so is every part of it.        *)
LEMMA TeamFinite ==
    ASSUME mode \in Modes \cup {"none"}
    PROVE  /\ Team \subseteq Threads /\ IsFiniteSet(Team)
           /\ (mode = "none" <=> Team = {})
           /\ \A S \in SUBSET Team : IsFiniteSet(S) /\ Cardinality(S) \in Nat
<1>1. Team \subseteq Threads
  BY TeamAssumption DEF Team, TeamOf
<1>2. mode = "none" <=> Team = {}
  BY TeamAssumption, ProgramAssumption DEF Team, TeamOf
<1>3. \A S \in SUBSET Team : IsFiniteSet(S) /\ Cardinality(S) \in Nat
  BY <1>1, FS_Subset, FS_CardinalityType, TeamAssumption
<1> QED BY <1>1, <1>2, <1>3

(* What every thread of the team is handed is a natural number.            *)
LEMMA ShareNat ==
    ASSUME TypeOK PROVE \A t \in Team : Share(t) \in Nat
<1>1. CASE mode = "forced"
  <2>1. Team = Threads /\ Master \in Team
    BY <1>1, TeamAssumption DEF Team, TeamOf
  <2>2. Cardinality(Team) \in Nat \ {0}
    BY <2>1, FS_EmptySet, FS_CardinalityType, TeamAssumption
  <2>3. declared[Master] \in Nat
    BY TeamAssumption DEF TypeOK
  <2>4. \A a \in Nat, n \in Nat \ {0} : a \div n \in Nat
    OBVIOUS
  <2> QED BY <1>1, <2>2, <2>3, <2>4 DEF Share
<1>2. CASE mode # "forced"
  BY <1>2, TeamFinite DEF Share, TypeOK
<1> QED BY <1>1, <1>2

(* An action that touches neither the samples, nor the placement, nor the  *)
(* position of a thread keeps the invariant.                               *)
LEMMA QuietStep ==
    ASSUME IInv, TypeOK', UNCHANGED <<mode, bindings, sample, pc, samples>>
    PROVE  IInv'
<1>1. Team' = Team BY DEF Team, TeamOf
<1>2. /\ \A p \in PUs : Inside(p)' = Inside(p) /\ Counted(p)' = Counted(p)
      /\ Resetting' = Resetting /\ WasReset' = WasReset
  BY <1>1 DEF Inside, Counted, Resetting, WasReset
<1>3. TimersBalanced'
  BY <1>2 DEF IInv, TimersBalanced, samples
<1>4. TeamInv' /\ LookupInv' /\ ClaimInv'
  BY <1>1 DEF IInv, TeamInv, LookupInv, ClaimInv
<1>5. CountInv' /\ CleanInv'
  BY <1>1, <1>2 DEF IInv, CountInv, CleanInv, samples, Untimed, Zero
<1> QED BY <1>3, <1>4, <1>5 DEF IInv

LEMMA InitInv == Init => IInv
<1> SUFFICES ASSUME Init PROVE IInv OBVIOUS
<1>1. Team = {} BY DEF Init, Team, TeamOf
<1>2. \A p \in PUs : Inside(p) = {} /\ Counted(p) = {} BY <1>1 DEF Inside, Counted
<1>3. TypeOK
  BY PlaceAssumption, ProgramAssumption DEF Init, TypeOK, Zero, Labels
<1>4. TimersBalanced
  BY <1>2, FS_EmptySet DEF Init, TimersBalanced, Zero
<1>5. TeamInv /\ LookupInv /\ ClaimInv
  BY <1>1 DEF Init, TeamInv, LookupInv, ClaimInv, Labels
<1>6. CountInv
  BY <1>1, <1>2, FS_EmptySet DEF Init, CountInv, WasReset, Zero
<1>7. CleanInv
  BY DEF Init, CleanInv, Untimed
<1> QED BY <1>3, <1>4, <1>5, <1>6, <1>7 DEF IInv
-----------------------------------------------------------------------------
(* One thread moves within its part of the region.                         *)
SamePart(a, b) == \/ a \in Opening /\ b \in Opening
                  \/ a \in Open /\ b \in Open
                  \/ a \in Closing /\ b \in Closing

LEMMA MoveOne ==
    ASSUME IInv, NEW t \in Threads, NEW b \in Labels, Goto(t, b), UNCHANGED mode,
           SamePart(pc[t], b), b \in {"stop_caller", "stop"} => mode = "forced"
    PROVE  /\ t \in Team /\ Team' = Team /\ TeamInv'
           /\ pc' \in [Threads -> Labels]
           /\ pc'[t] = b /\ \A u \in Threads \ {t} : pc'[u] = pc[u]
<1>1. Team' = Team BY DEF Team, TeamOf
<1>2. pc \in [Threads -> Labels] BY DEF IInv, TypeOK
<1>3. /\ pc' \in [Threads -> Labels]
      /\ pc'[t] = b /\ \A u \in Threads \ {t} : pc'[u] = pc[u]
  BY <1>2 DEF Goto
<1>4. t \in Team
  BY DEF IInv, TeamInv, SamePart, Opening, Open, Closing
<1>5. Team \subseteq Threads
  BY TeamFinite DEF IInv, TypeOK
<1>6. TeamInv'
  <2>1. \A u \in Threads : u \in Team' <=> pc'[u] # "idle"
    BY <1>1, <1>3, <1>4 DEF IInv, TeamInv, SamePart, Opening, Open, Closing
  <2>2. \/ \A u \in Team' : pc'[u] \in Opening
        \/ \A u \in Team' : pc'[u] \in Open
        \/ \A u \in Team' : pc'[u] \in Closing
    BY <1>1, <1>3, <1>4, <1>5 DEF IInv, TeamInv, SamePart, Opening, Open, Closing
  <2>3. \A u \in Threads : pc'[u] \in {"stop_caller", "stop"} => mode' = "forced"
    BY <1>3 DEF IInv, TeamInv
  <2> QED BY <2>1, <2>2, <2>3 DEF TeamInv
<1> QED BY <1>1, <1>3, <1>4, <1>6

(* Such a move changes no set of counted threads when neither label crosses*)
(* the line where the thread is counted.                                   *)
InsideLabels == {"start_timer", "region", "stop_caller", "stop_failed", "stop", "last"}

LEMMA MoveKeepsInside ==
    ASSUME IInv, NEW t \in Threads, NEW b \in Labels, Goto(t, b), UNCHANGED <<mode, sample>>,
           SamePart(pc[t], b), b \in {"stop_caller", "stop"} => mode = "forced",
           pc[t] \in InsideLabels <=> b \in InsideLabels
    PROVE  \A p \in PUs : Inside(p)' = Inside(p)
BY MoveOne, TeamFinite DEF IInv, TypeOK, Inside, InsideLabels

LEMMA MoveKeepsCounted ==
    ASSUME IInv, NEW t \in Threads, NEW b \in Labels, Goto(t, b), UNCHANGED <<mode, sample>>,
           SamePart(pc[t], b), b \in {"stop_caller", "stop"} => mode = "forced",
           pc[t] \in {"caller", "start_failed", "count"} <=> b \in {"caller", "start_failed", "count"}
    PROVE  \A p \in PUs : Counted(p)' = Counted(p)
BY MoveOne, TeamFinite DEF IInv, TypeOK, Counted

(* Outside of the single construct nothing is reset.                       *)
LEMMA NoResetYet ==
    ASSUME TeamInv, Team \subseteq Threads, NEW t \in Team, pc[t] \notin Closing
    PROVE  ~WasReset /\ ~Resetting /\ \A u \in Team : pc[u] \notin Closing
BY DEF TeamInv, WasReset, Resetting, Opening, Open, Closing

-----------------------------------------------------------------------------
(* The steps of start.                                                     *)
LEMMA StartCallerInv ==
    ASSUME IInv, NEW t \in Threads, StartCaller(t) PROVE IInv'
<1> USE DEF SamePart, Opening, Labels
<1>1. Goto(t, "count") /\ UNCHANGED mode /\ pc[t] = "caller"
  BY DEF StartCaller, program
<1>2. /\ t \in Team /\ Team' = Team /\ TeamInv' /\ pc' \in [Threads -> Labels]
      /\ pc'[t] = "count" /\ \A u \in Threads \ {t} : pc'[u] = pc[u]
  BY <1>1, MoveOne
<1>3. Team \subseteq Threads BY TeamFinite DEF IInv, TypeOK
<1>4. Here(t) \in PUs BY PlaceAssumption DEF Here, IInv, TypeOK
<1>5. TypeOK'
  BY <1>2, <1>4 DEF StartCaller, IInv, TypeOK, program, timing, samples
<1>6. /\ sample'[t] = Here(t) /\ bindings'[t] = Here(t)
      /\ \A u \in Threads \ {t} : sample'[u] = sample[u] /\ bindings'[u] = bindings[u]
  BY DEF StartCaller, IInv, TypeOK
<1>7. \A p \in PUs : Inside(p)' = Inside(p) /\ Counted(p)' = Counted(p)
  BY <1>1, <1>2, <1>3, <1>6 DEF Inside, Counted
<1>8. TimersBalanced'
  BY <1>7 DEF StartCaller, samples, IInv, TimersBalanced
<1>9. LookupInv'
  BY <1>2, <1>3, <1>6 DEF IInv, LookupInv, Here
<1>10. ~WasReset /\ ~WasReset' /\ \A u \in Team : pc[u] \notin Closing /\ pc'[u] \notin Closing
  BY <1>1, <1>2, <1>3, NoResetYet DEF IInv, WasReset, Resetting, Closing, TeamInv, Open
<1>11. ClaimInv' BY <1>2, <1>10 DEF ClaimInv, Closing
<1>12. CountInv' BY <1>7, <1>10 DEF StartCaller, samples, IInv, CountInv
<1>13. CleanInv'
  BY <1>1, <1>2, <1>10, <1>3 DEF StartCaller, samples, IInv, CleanInv, Untimed, Zero, TeamInv, Open, Closing
<1> QED BY <1>5, <1>8, <1>2, <1>9, <1>11, <1>12, <1>13 DEF IInv

(* A failed lookup only moves its thread, to where it stays.               *)
LEMMA StartFailsInv ==
    ASSUME IInv, NEW t \in Threads, StartFails(t) PROVE IInv'
<1> USE DEF SamePart, Opening, Labels
<1>1. /\ Goto(t, "start_failed") /\ pc[t] = "caller"
      /\ UNCHANGED <<program, placement, timing, samples, report>>
  BY DEF StartFails
<1>2. /\ t \in Team /\ Team' = Team /\ TeamInv' /\ pc' \in [Threads -> Labels]
      /\ pc'[t] = "start_failed" /\ \A u \in Threads \ {t} : pc'[u] = pc[u]
  BY <1>1, MoveOne DEF program
<1>3. Team \subseteq Threads BY TeamFinite DEF IInv, TypeOK
<1>4. TypeOK'
  BY <1>1, <1>2 DEF IInv, TypeOK, program, placement, timing, samples
<1>5. TimersBalanced'
  BY <1>1, MoveKeepsInside DEF program, placement, samples, IInv, TimersBalanced, InsideLabels
<1>6. \A p \in PUs : Counted(p)' = Counted(p)
  BY <1>1, MoveKeepsCounted DEF program, placement
<1>7. LookupInv'
  BY <1>1, <1>2, <1>3 DEF placement, IInv, LookupInv
<1>8. ~WasReset /\ ~WasReset' /\ \A u \in Team : pc[u] \notin Closing /\ pc'[u] \notin Closing
  BY <1>1, <1>2, <1>3, NoResetYet DEF IInv, WasReset, Resetting, Closing, TeamInv, Open
<1>9. ClaimInv' BY <1>2, <1>8 DEF ClaimInv, Closing
<1>10. CountInv' BY <1>1, <1>6, <1>8 DEF samples, IInv, CountInv
<1>11. CleanInv'
  BY <1>1, <1>2, <1>8, <1>3 DEF samples, IInv, CleanInv, Untimed, Zero, TeamInv, Open, Closing
<1> QED BY <1>2, <1>4, <1>5, <1>7, <1>9, <1>10, <1>11 DEF IInv

(* A thread that joins a set of threads of the team adds one to its count. *)
LEMMA Joins ==
    ASSUME IInv, NEW S \in SUBSET Team, NEW t \in Team, t \notin S
    PROVE  Cardinality(S \cup {t}) = Cardinality(S) + 1 /\ Cardinality(S) \in Nat
BY TeamFinite, FS_AddElement DEF IInv, TypeOK

LEMMA CountThreadInv ==
    ASSUME IInv, NEW t \in Threads, CountThread(t) PROVE IInv'
<1> USE DEF SamePart, Opening, Labels
<1>1. Goto(t, "start_barrier") /\ UNCHANGED <<mode, sample>> /\ pc[t] = "count"
  BY DEF CountThread, program, placement
<1>2. /\ t \in Team /\ Team' = Team /\ TeamInv' /\ pc' \in [Threads -> Labels]
      /\ pc'[t] = "start_barrier" /\ \A u \in Threads \ {t} : pc'[u] = pc[u]
  BY <1>1, MoveOne
<1>3. Team \subseteq Threads BY TeamFinite DEF IInv, TypeOK
<1>4. TypeOK'
  BY <1>2 DEF CountThread, IInv, TypeOK, program, placement, timing
<1>5. TimersBalanced'
  BY <1>1, MoveKeepsInside DEF CountThread, IInv, TimersBalanced, InsideLabels
<1>6. LookupInv'
  BY <1>1, <1>2, <1>3 DEF CountThread, placement, IInv, LookupInv
<1>7. ~WasReset /\ ~WasReset' /\ \A u \in Team : pc[u] \notin Closing /\ pc'[u] \notin Closing
  BY <1>1, <1>2, <1>3, NoResetYet DEF IInv, WasReset, Resetting, Closing, TeamInv, Open
<1>8. ClaimInv' BY <1>2, <1>7 DEF ClaimInv, Closing
<1>9. CountInv'
  <2> SUFFICES ASSUME NEW p \in PUs PROVE n_threads'[p] = Cardinality(Counted(p)')
    BY <1>7 DEF CountInv
  <2>1. n_threads[p] = Cardinality(Counted(p)) BY <1>7 DEF IInv, CountInv
  <2>2. CASE p = sample[t]
    <3>1. Counted(p)' = Counted(p) \cup {t} /\ t \notin Counted(p) /\ Counted(p) \subseteq Team
      BY <1>1, <1>2, <1>3, <2>2 DEF Counted
    <3>2. n_threads'[p] = n_threads[p] + 1
      BY <2>2 DEF CountThread, IInv, TypeOK
    <3> QED BY <2>1, <3>1, <3>2, <1>2, Joins
  <2>3. CASE p # sample[t]
    <3>1. Counted(p)' = Counted(p)
      BY <1>1, <1>2, <1>3, <2>3 DEF Counted
    <3>2. n_threads'[p] = n_threads[p]
      BY <2>3 DEF CountThread, IInv, TypeOK
    <3> QED BY <2>1, <3>1, <3>2
  <2> QED BY <2>2, <2>3
<1>10. CleanInv'
  BY <1>1, <1>2, <1>7, <1>3 DEF CountThread, IInv, CleanInv, Untimed, Zero, TeamInv, Open, Closing
<1> QED BY <1>4, <1>5, <1>2, <1>6, <1>8, <1>9, <1>10 DEF IInv

(* Between the barriers: what is common to the steps of one thread there.  *)
LEMMA OpenStep ==
    ASSUME IInv, NEW t \in Threads, NEW b \in Open, pc[t] \in Open, Goto(t, b),
           UNCHANGED <<mode, n_threads>>, TypeOK', TimersBalanced', LookupInv',
           \A p \in PUs : Counted(p)' = Counted(p),
           b \in {"stop_caller", "stop"} => mode = "forced"
    PROVE  IInv'
<1>0. b \in Labels /\ SamePart(pc[t], b) BY DEF SamePart, Open, Labels
<1>1. /\ t \in Team /\ Team' = Team /\ TeamInv' /\ pc' \in [Threads -> Labels]
      /\ pc'[t] = b /\ \A u \in Threads \ {t} : pc'[u] = pc[u]
  BY <1>0, MoveOne
<1>2. Team \subseteq Threads BY TeamFinite DEF IInv, TypeOK
<1>3. \A u \in Team : pc[u] \in Open /\ pc'[u] \in Open
  BY <1>1, <1>2 DEF IInv, TeamInv, Opening, Open, Closing
<1>4. ~WasReset /\ ~WasReset'
  BY <1>1, <1>3 DEF WasReset, Resetting, Open
<1>5. ClaimInv' BY <1>1, <1>3 DEF ClaimInv, Open
<1>6. CountInv' BY <1>4 DEF IInv, CountInv
<1>7. CleanInv' BY <1>1, <1>3, <1>4 DEF CleanInv, Opening, Open
<1> QED BY <1>1, <1>5, <1>6, <1>7 DEF IInv

LEMMA SetWorkInv ==
    ASSUME IInv, NEW t \in Threads, SetWork(t) PROVE IInv'
<1> USE DEF SamePart, Open, Labels
<1>1. Goto(t, "first") /\ UNCHANGED <<mode, sample>> /\ pc[t] = "set_work"
  BY DEF SetWork, program, placement
<1>2. /\ t \in Team /\ Team' = Team /\ pc' \in [Threads -> Labels]
      /\ pc'[t] = "first" /\ \A u \in Threads \ {t} : pc'[u] = pc[u]
  BY <1>1, MoveOne
<1>3. Team \subseteq Threads BY TeamFinite DEF IInv, TypeOK
<1>4. TypeOK'
  BY <1>2, ShareNat DEF SetWork, IInv, TypeOK, program, placement, timing
<1>5. TimersBalanced'
  BY <1>1, MoveKeepsInside DEF SetWork, IInv, TimersBalanced, InsideLabels
<1>6. \A p \in PUs : Counted(p)' = Counted(p)
  BY <1>1, MoveKeepsCounted
<1>7. LookupInv'
  BY <1>1, <1>2, <1>3 DEF SetWork, placement, IInv, LookupInv
<1> QED BY <1>1, <1>4, <1>5, <1>6, <1>7, OpenStep DEF SetWork

LEMMA FirstThreadInv ==
    ASSUME IInv, NEW t \in Threads, FirstThread(t) PROVE IInv'
<1> USE DEF SamePart, Open, Labels
<1> DEFINE s == sample[t]
           b == IF last_thread[s] = 0 THEN "start_timer" ELSE "region"
<1>1. /\ Goto(t, b) /\ UNCHANGED <<mode, sample>> /\ pc[t] = "first"
      /\ b \in {"start_timer", "region"}
  BY DEF FirstThread, program, placement
<1>2. /\ t \in Team /\ Team' = Team /\ pc' \in [Threads -> Labels]
      /\ pc'[t] = b /\ \A u \in Threads \ {t} : pc'[u] = pc[u]
  <2> HIDE DEF b
  <2> QED BY <1>1, MoveOne
<1>3. Team \subseteq Threads BY TeamFinite DEF IInv, TypeOK
<1>4. s \in PUs /\ last_thread[s] \in Nat /\ last_thread' = [last_thread EXCEPT ![s] = @ + 1]
  BY DEF FirstThread, IInv, TypeOK
<1>5. TypeOK'
  BY <1>2, <1>4 DEF FirstThread, IInv, TypeOK, program, placement
<1>6. TimersBalanced'
  <2> SUFFICES ASSUME NEW p \in PUs PROVE last_thread'[p] = Cardinality(Inside(p)')
    BY DEF TimersBalanced
  <2>1. last_thread[p] = Cardinality(Inside(p)) BY DEF IInv, TimersBalanced
  <2>2. CASE p = s
    <3>1. Inside(p)' = Inside(p) \cup {t} /\ t \notin Inside(p) /\ Inside(p) \subseteq Team
      BY <1>1, <1>2, <1>3, <2>2 DEF Inside
    <3>2. last_thread'[p] = last_thread[p] + 1
      BY <2>2, <1>4 DEF IInv, TypeOK
    <3> QED BY <2>1, <3>1, <3>2, <1>2, Joins
  <2>3. CASE p # s
    <3>1. Inside(p)' = Inside(p)
      BY <1>1, <1>2, <1>3, <2>3 DEF Inside
    <3>2. last_thread'[p] = last_thread[p]
      BY <2>3, <1>4 DEF IInv, TypeOK
    <3> QED BY <2>1, <3>1, <3>2
  <2> QED BY <2>2, <2>3
<1>7. \A p \in PUs : Counted(p)' = Counted(p)
  <2> HIDE DEF b
  <2> QED BY <1>1, MoveKeepsCounted
<1>8. LookupInv'
  BY <1>1, <1>2, <1>3 DEF FirstThread, placement, IInv, LookupInv
<1> QED
  <2>1. b \in Open BY <1>1
  <2> HIDE DEF b
  <2> QED BY <2>1, <1>1, <1>5, <1>6, <1>7, <1>8, OpenStep DEF FirstThread

LEMMA StartTimerInv ==
    ASSUME IInv, NEW t \in Threads, StartTimer(t) PROVE IInv'
<1> USE DEF SamePart, Open, Labels
<1>1. Goto(t, "region") /\ UNCHANGED <<mode, sample>> /\ pc[t] = "start_timer"
  BY DEF StartTimer, program, placement
<1>2. /\ t \in Team /\ Team' = Team /\ pc' \in [Threads -> Labels]
      /\ pc'[t] = "region" /\ \A u \in Threads \ {t} : pc'[u] = pc[u]
  BY <1>1, MoveOne
<1>3. Team \subseteq Threads BY TeamFinite DEF IInv, TypeOK
<1>4. TypeOK'
  <2>1. clock[t] \in 0 .. MaxClock /\ clock[t] \in Nat
    BY ProgramAssumption DEF IInv, TypeOK
  <2>2. s_nano' \in [PUs -> Nat] /\ began' \in [Threads -> 0 .. MaxClock]
    BY <2>1 DEF StartTimer, IInv, TypeOK
  <2> QED BY <1>2, <2>2 DEF StartTimer, IInv, TypeOK, program, placement
<1>5. TimersBalanced'
  BY <1>1, MoveKeepsInside DEF StartTimer, IInv, TimersBalanced, InsideLabels
<1>6. \A p \in PUs : Counted(p)' = Counted(p)
  BY <1>1, MoveKeepsCounted
<1>7. LookupInv'
  BY <1>1, <1>2, <1>3 DEF StartTimer, placement, IInv, LookupInv
<1> QED BY <1>1, <1>4, <1>5, <1>6, <1>7, OpenStep DEF StartTimer

-----------------------------------------------------------------------------
(* The steps of stop.  Here the lookups must agree: the master's second    *)
(* lookup finds the sample of the first because the master is bound.       *)
LEMMA StopCallerInv ==
    ASSUME Steady, IInv, NEW t \in Threads, StopCaller(t) PROVE IInv'
<1> USE DEF SamePart, Open, Labels
<1>1. Goto(t, "stop") /\ UNCHANGED mode /\ pc[t] = "stop_caller"
  BY DEF StopCaller, program
<1>2. mode = "forced" BY <1>1 DEF IInv, TeamInv
<1>3. /\ t \in Team /\ Team' = Team /\ pc' \in [Threads -> Labels]
      /\ pc'[t] = "stop" /\ \A u \in Threads \ {t} : pc'[u] = pc[u]
  BY <1>1, <1>2, MoveOne
<1>4. Master \in Bound BY <1>2, PlaceAssumption DEF Steady, IInv, TypeOK
<1>5. sample[t] = bindings[t] /\ (t = Master => sample[t] = Here(t))
  BY <1>1, <1>3, <1>4 DEF IInv, LookupInv, Here
<1>6. UNCHANGED <<sample, bindings>>
  BY <1>5 DEF StopCaller, IInv, TypeOK
<1>7. TypeOK'
  BY <1>3, <1>6 DEF StopCaller, IInv, TypeOK, program, timing, samples
<1>8. TimersBalanced'
  BY <1>1, <1>2, <1>6, MoveKeepsInside DEF StopCaller, samples, IInv, TimersBalanced, InsideLabels
<1>9. \A p \in PUs : Counted(p)' = Counted(p)
  BY <1>1, <1>2, <1>6, MoveKeepsCounted
<1>10. Team \subseteq Threads BY TeamFinite DEF IInv, TypeOK
<1>11. LookupInv'
  BY <1>1, <1>3, <1>6, <1>10 DEF IInv, LookupInv
<1> QED BY <1>1, <1>2, <1>7, <1>8, <1>9, <1>11, OpenStep DEF StopCaller, samples

(* The thread stays counted by last_thread: nothing takes it away.         *)
LEMMA StopFailsInv ==
    ASSUME IInv, NEW t \in Threads, StopFails(t) PROVE IInv'
<1> USE DEF SamePart, Open, Labels
<1>1. /\ Goto(t, "stop_failed") /\ pc[t] = "stop_caller"
      /\ UNCHANGED <<mode, sample>> /\ UNCHANGED <<program, placement, timing, samples>>
  BY DEF StopFails, program, placement
<1>2. /\ t \in Team /\ Team' = Team /\ pc' \in [Threads -> Labels]
      /\ pc'[t] = "stop_failed" /\ \A u \in Threads \ {t} : pc'[u] = pc[u]
  BY <1>1, MoveOne
<1>3. Team \subseteq Threads BY TeamFinite DEF IInv, TypeOK
<1>4. TypeOK'
  BY <1>1, <1>2 DEF IInv, TypeOK, program, placement, timing, samples
<1>5. TimersBalanced'
  BY <1>1, MoveKeepsInside DEF samples, IInv, TimersBalanced, InsideLabels
<1>6. \A p \in PUs : Counted(p)' = Counted(p)
  BY <1>1, MoveKeepsCounted
<1>7. LookupInv'
  BY <1>1, <1>2, <1>3 DEF placement, IInv, LookupInv
<1> QED BY <1>1, <1>4, <1>5, <1>6, <1>7, OpenStep DEF samples

LEMMA EnterStopInv ==
    ASSUME IInv, NEW t \in Threads, EnterStop(t) PROVE IInv'
<1> USE DEF SamePart, Open, Labels
<1>1. Goto(t, "last") /\ UNCHANGED <<mode, sample>> /\ pc[t] \in {"region", "stop"}
  BY DEF EnterStop, program, placement
<1>2. /\ t \in Team /\ Team' = Team /\ pc' \in [Threads -> Labels]
      /\ pc'[t] = "last" /\ \A u \in Threads \ {t} : pc'[u] = pc[u]
  BY <1>1, MoveOne
<1>3. Team \subseteq Threads BY TeamFinite DEF IInv, TypeOK
<1>4. TypeOK'
  BY <1>2 DEF EnterStop, IInv, TypeOK, program, placement, samples
<1>5. TimersBalanced'
  BY <1>1, MoveKeepsInside DEF EnterStop, samples, IInv, TimersBalanced, InsideLabels
<1>6. \A p \in PUs : Counted(p)' = Counted(p)
  BY <1>1, MoveKeepsCounted
<1>7. LookupInv'
  BY <1>1, <1>2, <1>3 DEF EnterStop, placement, IInv, LookupInv
<1> QED BY <1>1, <1>4, <1>5, <1>6, <1>7, OpenStep DEF EnterStop, samples

(* A thread that leaves a set of threads takes one from its count.         *)
LEMMA Leaves ==
    ASSUME IInv, NEW S \in SUBSET Team, NEW t \in S
    PROVE  Cardinality(S \ {t}) = Cardinality(S) - 1 /\ Cardinality(S) \in Nat \ {0}
<1>1. IsFiniteSet(S) /\ Cardinality(S) \in Nat BY TeamFinite DEF IInv, TypeOK
<1>2. Cardinality(S) # 0 BY <1>1, FS_EmptySet
<1> QED BY <1>1, <1>2, FS_RemoveElement

LEMMA LastThreadInv ==
    ASSUME IInv, NEW t \in Threads, LastThread(t) PROVE IInv'
<1> USE DEF SamePart, Open, Labels
<1> DEFINE s == sample[t]
           b == IF last_thread[s] = 1 THEN "stop_timer" ELSE "stop_barrier"
<1>1. /\ Goto(t, b) /\ UNCHANGED <<mode, sample>> /\ pc[t] = "last"
      /\ b \in {"stop_timer", "stop_barrier"}
  BY DEF LastThread, program, placement
<1>2. /\ t \in Team /\ Team' = Team /\ pc' \in [Threads -> Labels]
      /\ pc'[t] = b /\ \A u \in Threads \ {t} : pc'[u] = pc[u]
  <2> HIDE DEF b
  <2> QED BY <1>1, MoveOne
<1>3. Team \subseteq Threads BY TeamFinite DEF IInv, TypeOK
<1>4. s \in PUs /\ last_thread' = [last_thread EXCEPT ![s] = @ - 1]
  BY DEF LastThread, IInv, TypeOK
<1>5. t \in Inside(s) /\ Inside(s) \subseteq Team
  BY <1>1, <1>2 DEF Inside
<1>6. last_thread[s] = Cardinality(Inside(s)) /\ last_thread[s] \in Nat \ {0}
  BY <1>4, <1>5, Leaves DEF IInv, TimersBalanced
<1>7. TypeOK'
  BY <1>2, <1>4, <1>6 DEF LastThread, IInv, TypeOK, program, placement, timing
<1>8. TimersBalanced'
  <2> SUFFICES ASSUME NEW p \in PUs PROVE last_thread'[p] = Cardinality(Inside(p)')
    BY DEF TimersBalanced
  <2>1. CASE p = s
    <3>1. Inside(p)' = Inside(p) \ {t}
      BY <1>1, <1>2, <1>3, <2>1 DEF Inside
    <3>2. last_thread'[p] = last_thread[p] - 1
      BY <2>1, <1>4 DEF IInv, TypeOK
    <3> QED BY <2>1, <3>1, <3>2, <1>5, <1>6, Leaves
  <2>2. CASE p # s
    <3>1. Inside(p)' = Inside(p)
      BY <1>1, <1>2, <1>3, <2>2 DEF Inside
    <3>2. last_thread'[p] = last_thread[p]
      BY <2>2, <1>4 DEF IInv, TypeOK
    <3> QED BY <3>1, <3>2 DEF IInv, TimersBalanced
  <2> QED BY <2>1, <2>2
<1>9. \A p \in PUs : Counted(p)' = Counted(p)
  <2> HIDE DEF b
  <2> QED BY <1>1, MoveKeepsCounted
<1>10. LookupInv'
  BY <1>1, <1>2, <1>3 DEF LastThread, placement, IInv, LookupInv
<1> QED
  <2>1. b \in Open BY <1>1
  <2> HIDE DEF b
  <2> QED BY <2>1, <1>1, <1>7, <1>8, <1>9, <1>10, OpenStep DEF LastThread

LEMMA StopTimerInv ==
    ASSUME IInv, NEW t \in Threads, StopTimer(t) PROVE IInv'
<1> USE DEF SamePart, Open, Labels
<1>1. Goto(t, "stop_barrier") /\ UNCHANGED <<mode, sample>> /\ pc[t] = "stop_timer"
  BY DEF StopTimer, program, placement
<1>2. /\ t \in Team /\ Team' = Team /\ pc' \in [Threads -> Labels]
      /\ pc'[t] = "stop_barrier" /\ \A u \in Threads \ {t} : pc'[u] = pc[u]
  BY <1>1, MoveOne
<1>3. Team \subseteq Threads BY TeamFinite DEF IInv, TypeOK
<1>4. TypeOK'
  BY <1>2, ProgramAssumption DEF StopTimer, IInv, TypeOK, program, placement, timing
<1>5. TimersBalanced'
  BY <1>1, MoveKeepsInside DEF StopTimer, IInv, TimersBalanced, InsideLabels
<1>6. \A p \in PUs : Counted(p)' = Counted(p)
  BY <1>1, MoveKeepsCounted
<1>7. LookupInv'
  BY <1>1, <1>2, <1>3 DEF StopTimer, placement, IInv, LookupInv
<1> QED BY <1>1, <1>4, <1>5, <1>6, <1>7, OpenStep DEF StopTimer

-----------------------------------------------------------------------------
(* The steps of the single construct.                                      *)
LEMMA PublishInv ==
    ASSUME IInv, NEW t \in Threads, Publish(t) PROVE IInv'
<1> USE DEF SamePart, Closing, Labels
<1>1. Goto(t, "reset") /\ UNCHANGED <<mode, sample>> /\ pc[t] = "single" /\ ~Claimed
  BY DEF Publish, program, placement
<1>2. /\ t \in Team /\ Team' = Team /\ TeamInv' /\ pc' \in [Threads -> Labels]
      /\ pc'[t] = "reset" /\ \A u \in Threads \ {t} : pc'[u] = pc[u]
  BY <1>1, MoveOne
<1>3. Team \subseteq Threads BY TeamFinite DEF IInv, TypeOK
<1>4. TypeOK'
  BY <1>2 DEF Publish, IInv, TypeOK, program, placement, timing, samples
<1>5. TimersBalanced'
  BY <1>1, MoveKeepsInside DEF Publish, samples, IInv, TimersBalanced, InsideLabels
<1>6. \A p \in PUs : Counted(p)' = Counted(p)
  BY <1>1, MoveKeepsCounted
<1>7. LookupInv'
  BY <1>1, <1>2, <1>3 DEF Publish, placement, IInv, LookupInv
<1>8. \A u \in Team : pc[u] \notin {"reset", "end"}
  BY <1>1 DEF Claimed
<1>9. ~WasReset /\ ~WasReset'
  BY <1>2, <1>8 DEF WasReset, Resetting
<1>10. ClaimInv' BY <1>2, <1>3, <1>8 DEF ClaimInv
<1>11. CountInv' BY <1>6, <1>9 DEF Publish, samples, IInv, CountInv
<1>12. CleanInv' BY <1>2, <1>9 DEF CleanInv, Opening
<1> QED BY <1>2, <1>4, <1>5, <1>7, <1>10, <1>11, <1>12 DEF IInv

LEMMA ResetSamplesInv ==
    ASSUME IInv, NEW t \in Threads, ResetSamples(t) PROVE IInv'
<1> USE DEF SamePart, Closing, Labels
<1>1. Goto(t, "end") /\ UNCHANGED <<mode, sample>> /\ pc[t] = "reset"
  BY DEF ResetSamples, program, placement
<1>2. /\ t \in Team /\ Team' = Team /\ TeamInv' /\ pc' \in [Threads -> Labels]
      /\ pc'[t] = "end" /\ \A u \in Threads \ {t} : pc'[u] = pc[u]
  BY <1>1, MoveOne
<1>3. Team \subseteq Threads BY TeamFinite DEF IInv, TypeOK
<1>4. TypeOK'
  BY <1>2 DEF ResetSamples, IInv, TypeOK, program, placement, timing, Zero
<1>5. TimersBalanced'
  BY <1>1, MoveKeepsInside DEF ResetSamples, IInv, TimersBalanced, InsideLabels
<1>6. LookupInv'
  BY <1>1, <1>2, <1>3 DEF ResetSamples, placement, IInv, LookupInv
<1>7. \A u \in Team : pc'[u] # "reset"
  BY <1>1, <1>2, <1>3 DEF IInv, ClaimInv
<1>8. WasReset' /\ ClaimInv'
  BY <1>2, <1>7 DEF WasReset, Resetting, ClaimInv
<1>9. CountInv' BY <1>8 DEF ResetSamples, CountInv, Zero
<1>10. CleanInv' BY DEF ResetSamples, CleanInv, Untimed, Zero
<1> QED BY <1>2, <1>4, <1>5, <1>6, <1>8, <1>9, <1>10 DEF IInv

LEMMA SkipSingleInv ==
    ASSUME IInv, NEW t \in Threads, SkipSingle(t) PROVE IInv'
<1> USE DEF SamePart, Closing, Labels
<1>1. Goto(t, "end") /\ UNCHANGED <<mode, sample>> /\ pc[t] = "single" /\ Claimed
  BY DEF SkipSingle, program, placement
<1>2. /\ t \in Team /\ Team' = Team /\ TeamInv' /\ pc' \in [Threads -> Labels]
      /\ pc'[t] = "end" /\ \A u \in Threads \ {t} : pc'[u] = pc[u]
  BY <1>1, MoveOne
<1>3. Team \subseteq Threads BY TeamFinite DEF IInv, TypeOK
<1>4. TypeOK'
  BY <1>2 DEF SkipSingle, IInv, TypeOK, program, placement, timing, samples
<1>5. TimersBalanced'
  BY <1>1, MoveKeepsInside DEF SkipSingle, samples, IInv, TimersBalanced, InsideLabels
<1>6. \A p \in PUs : Counted(p)' = Counted(p)
  BY <1>1, MoveKeepsCounted
<1>7. LookupInv'
  BY <1>1, <1>2, <1>3 DEF SkipSingle, placement, IInv, LookupInv
<1>8. Resetting' = Resetting
  BY <1>1, <1>2, <1>3 DEF Resetting
<1>9. WasReset' = WasReset
  BY <1>1, <1>2, <1>8 DEF WasReset, Resetting, Claimed
<1>10. ClaimInv' BY <1>2, <1>3 DEF IInv, ClaimInv
<1>11. CountInv' BY <1>6, <1>9 DEF SkipSingle, samples, IInv, CountInv
<1>12. CleanInv' BY <1>2, <1>9 DEF SkipSingle, samples, IInv, CleanInv, Opening, Untimed, Zero
<1> QED BY <1>2, <1>4, <1>5, <1>7, <1>10, <1>11, <1>12 DEF IInv

-----------------------------------------------------------------------------
(* The steps of the whole team.                                            *)
LEMMA MoveAll ==
    ASSUME IInv, NEW a \in Labels, NEW b \in Labels \ {"idle"}, AllAt(a), MoveTeam(b),
           UNCHANGED mode, b \in {"stop_caller", "stop"} => mode = "forced"
    PROVE  /\ Team' = Team /\ pc' \in [Threads -> Labels]
           /\ \A t \in Team : pc[t] = a /\ pc'[t] = b
           /\ \A t \in Threads \ Team : pc'[t] = pc[t]
           /\ b \in Opening \cup Open \cup Closing => TeamInv'
<1>1. Team' = Team BY DEF Team, TeamOf
<1>2. Team \subseteq Threads BY TeamFinite DEF IInv, TypeOK
<1>3. /\ pc' \in [Threads -> Labels]
      /\ \A t \in Team : pc[t] = a /\ pc'[t] = b
      /\ \A t \in Threads \ Team : pc'[t] = pc[t]
  BY <1>2 DEF IInv, TypeOK, AllAt, MoveTeam
<1>4. ASSUME b \in Opening \cup Open \cup Closing PROVE TeamInv'
  <2>1. \A t \in Threads : t \in Team' <=> pc'[t] # "idle"
    BY <1>1, <1>3 DEF IInv, TeamInv
  <2>2. \/ \A t \in Team' : pc'[t] \in Opening
        \/ \A t \in Team' : pc'[t] \in Open
        \/ \A t \in Team' : pc'[t] \in Closing
    BY <1>1, <1>3, <1>4
  <2>3. \A t \in Threads : pc'[t] \in {"stop_caller", "stop"} => mode' = "forced"
    BY <1>3 DEF IInv, TeamInv
  <2> QED BY <2>1, <2>2, <2>3 DEF TeamInv
<1> QED BY <1>1, <1>3, <1>4

LEMMA TeamStepInv ==
    ASSUME IInv, StartBarrier \/ ForkStop \/ StopBarrier PROVE IInv'
<1> USE DEF Labels, Opening, Open, Closing
<1>1. PICK a \in Labels, b \in Labels \ {"idle"} :
        /\ AllAt(a) /\ MoveTeam(b)
        /\ <<a, b>> \in {<<"start_barrier", "set_work">>, <<"region", "stop_caller">>,
                         <<"stop_barrier", "single">>}
        /\ b = "stop_caller" => mode = "forced"
  BY DEF StartBarrier, ForkStop, StopBarrier
<1>2. UNCHANGED <<program, placement, timing, samples, report>>
  BY DEF StartBarrier, ForkStop, StopBarrier
<1>3. /\ Team' = Team /\ pc' \in [Threads -> Labels] /\ TeamInv'
      /\ \A t \in Team : pc[t] = a /\ pc'[t] = b
      /\ \A t \in Threads \ Team : pc'[t] = pc[t]
  BY <1>1, <1>2, MoveAll DEF program
<1>4. Team \subseteq Threads BY TeamFinite DEF IInv, TypeOK
<1>5. TypeOK'
  BY <1>2, <1>3 DEF IInv, TypeOK, program, placement, timing, samples
<1>6. \A p \in PUs : Inside(p)' = Inside(p) /\ Counted(p)' = Counted(p)
  BY <1>1, <1>2, <1>3, <1>4 DEF Inside, Counted, placement
<1>7. TimersBalanced' BY <1>2, <1>6 DEF IInv, TimersBalanced, samples
<1>8. LookupInv' BY <1>1, <1>2, <1>3, <1>4 DEF IInv, LookupInv, placement
<1>9. ~WasReset /\ ~WasReset' /\ ClaimInv'
  BY <1>1, <1>3 DEF WasReset, Resetting, ClaimInv
<1>10. CountInv' BY <1>2, <1>6, <1>9 DEF IInv, CountInv, samples
<1>11. CleanInv'
  BY <1>1, <1>3, <1>9 DEF CleanInv, AllAt
<1> QED BY <1>3, <1>5, <1>7, <1>8, <1>9, <1>10, <1>11 DEF IInv

LEMMA EndRegionInv == ASSUME IInv, EndRegion PROVE IInv'
<1> USE DEF Labels
<1>1. Team' = {} BY DEF EndRegion, Team, TeamOf
<1>2. Team \subseteq Threads BY TeamFinite DEF IInv, TypeOK
<1>3. pc' = [t \in Threads |-> "idle"]
  BY <1>2 DEF EndRegion, MoveTeam, IInv, TypeOK, TeamInv
<1>4. TypeOK'
  BY <1>3 DEF EndRegion, IInv, TypeOK, placement, timing, samples
<1>5. WasReset
  BY DEF EndRegion, AllAt, WasReset, Resetting
<1>6. \A p \in PUs : Inside(p) = {} /\ Inside(p)' = {} /\ Counted(p)' = {}
  BY <1>1 DEF EndRegion, AllAt, Inside, Counted
<1>7. TimersBalanced' BY <1>6 DEF EndRegion, samples, IInv, TimersBalanced
<1>8. TeamInv' /\ LookupInv' /\ ClaimInv'
  BY <1>1, <1>3 DEF TeamInv, LookupInv, ClaimInv
<1>9. CountInv'
  BY <1>1, <1>5, <1>6, FS_EmptySet DEF EndRegion, samples, IInv, CountInv, WasReset
<1>10. CleanInv'
  BY <1>5 DEF EndRegion, samples, IInv, CleanInv, Untimed, Zero
<1> QED BY <1>4, <1>7, <1>8, <1>9, <1>10 DEF IInv

LEMMA BeginRegionInv ==
    ASSUME IInv, NEW m \in Modes, BeginRegion(m) PROVE IInv'
<1> USE DEF Labels
<1>1. Team = {} /\ Team' = TeamOf(m) BY DEF BeginRegion, Team, TeamOf
<1>2. m # "none" BY ProgramAssumption
<1>3. Team' \subseteq Threads BY <1>1, TeamAssumption DEF TeamOf
<1>4. \A t \in Threads : pc'[t] = IF t \in Team' THEN "caller" ELSE "idle"
  BY <1>1 DEF BeginRegion
<1>5. declared' \in [Threads -> Nat]
  <2>1. CASE m = "inpar"
    <3>1. declared' \in [Threads -> Work] BY <2>1 DEF BeginRegion, Arguments
    <3> QED BY <3>1, ProgramAssumption
  <2>2. CASE m # "inpar"
    <3>1. PICK w \in Work : declared' = [t \in Threads |-> IF t = Master THEN w ELSE 0]
      BY <2>2 DEF BeginRegion, Arguments
    <3>2. w \in Nat BY ProgramAssumption
    <3> QED BY <3>1, <3>2
  <2> QED BY <2>1, <2>2
<1>6. TypeOK'
  BY <1>5, ProgramAssumption DEF BeginRegion, IInv, TypeOK, placement, timing, samples
<1>7. \A p \in PUs : Inside(p) = {} /\ Counted(p) = {} /\ Inside(p)' = {} /\ Counted(p)' = {}
  BY <1>1, <1>3, <1>4 DEF Inside, Counted
<1>8. TimersBalanced' BY <1>7 DEF BeginRegion, samples, IInv, TimersBalanced
<1>9. TeamInv' /\ LookupInv' /\ ClaimInv'
  BY <1>3, <1>4 DEF TeamInv, LookupInv, ClaimInv, Opening
<1>10. ~WasReset /\ ~WasReset'
  BY <1>1, <1>3, <1>4 DEF WasReset, Resetting
<1>11. CountInv'
  BY <1>7, <1>10 DEF BeginRegion, samples, IInv, CountInv
<1>12. CleanInv'
  BY <1>1 DEF BeginRegion, samples, IInv, CleanInv, Untimed, Zero
<1> QED BY <1>6, <1>8, <1>9, <1>11, <1>12 DEF IInv

-----------------------------------------------------------------------------
(* The invariant is inductive.                                             *)
LEMMA StepInv ==
    ASSUME Steady, IInv, [Next]_vars PROVE IInv'
<1>1. ASSUME NEW m \in Modes, BeginRegion(m) PROVE IInv'
  BY <1>1, BeginRegionInv
<1>2. ASSUME NEW t \in Threads, Tick(t) \/ Migrate(t) PROVE IInv'
  <2>1. UNCHANGED <<mode, bindings, sample, pc, samples>>
    BY <1>2 DEF Tick, Migrate, program, placement
  <2>2. TypeOK'
    BY <1>2, ProgramAssumption DEF Tick, Migrate, IInv, TypeOK, program, placement, timing, samples
  <2> QED BY <2>1, <2>2, QuietStep
<1>3. ASSUME NEW t \in Threads, StartStep(t) PROVE IInv'
  BY <1>3, StartFailsInv, StartCallerInv, CountThreadInv, SetWorkInv, FirstThreadInv, StartTimerInv DEF StartStep
<1>4. ASSUME NEW t \in Threads, StopStep(t) PROVE IInv'
  BY <1>4, StopFailsInv, StopCallerInv, EnterStopInv, LastThreadInv, StopTimerInv, PublishInv,
     ResetSamplesInv, SkipSingleInv DEF StopStep
<1>5. ASSUME TeamStep PROVE IInv'
  BY <1>5, TeamStepInv, EndRegionInv DEF TeamStep
<1>6. ASSUME UNCHANGED vars PROVE IInv'
  <2>1. UNCHANGED <<mode, bindings, sample, pc, samples>>
    BY <1>6 DEF vars, program, placement
  <2>2. TypeOK'
    BY <1>6 DEF IInv, TypeOK, vars, program, placement, timing, samples
  <2> QED BY <2>1, <2>2, QuietStep
<1> QED BY <1>1, <1>2, <1>3, <1>4, <1>5, <1>6 DEF Next, Exit

THEOREM Inductive == ASSUME Steady PROVE Spec => []IInv
<1>1. Init => IInv BY InitInv
<1>2. IInv /\ [Next]_vars => IInv' BY StepInv
<1> QED BY <1>1, <1>2, PTL DEF Spec

(* Every variable keeps its type; above all last_thread never becomes      *)
(* negative, which it does when the master of a forced region moves.       *)
THEOREM TypeCorrect == ASSUME Steady PROVE Spec => []TypeOK
<1>1. IInv => TypeOK BY DEF IInv
<1> QED BY <1>1, Inductive, PTL

(* The counter that singles out the first and the last thread of a sample  *)
(* counts exactly the threads between start and stop there, however many   *)
(* threads share a PU.                                                     *)
THEOREM TimersStayBalanced == ASSUME Steady PROVE Spec => []TimersBalanced
<1>1. IInv => TimersBalanced BY DEF IInv
<1> QED BY <1>1, Inductive, PTL

(* Every region starts from samples that hold nothing of the last one,     *)
(* although the reset leaves last_thread alone.                            *)
THEOREM RegionsStartClean == ASSUME Steady PROVE Spec => []CleanBetweenRegions
<1>1. ASSUME IInv, mode = "none"
      PROVE  /\ n_threads = Zero /\ last_thread = Zero
             /\ s_nano = Zero /\ e_nano = Zero /\ bytes = Zero
  <2>1. Team = {} BY <1>1 DEF Team, TeamOf
  <2>2. \A p \in PUs : Inside(p) = {} /\ Counted(p) = {} BY <2>1 DEF Inside, Counted
  <2>3. \A p \in PUs : last_thread[p] = 0 /\ n_threads[p] = 0
    BY <1>1, <2>2, FS_EmptySet DEF IInv, TimersBalanced, CountInv
  <2>4. n_threads = Zero /\ last_thread = Zero
    BY <1>1, <2>3 DEF IInv, TypeOK, Zero
  <2>5. Untimed BY <1>1, <2>1 DEF IInv, CleanInv
  <2> QED BY <2>4, <2>5 DEF Untimed
<1>2. IInv => CleanBetweenRegions BY <1>1 DEF CleanBetweenRegions
<1> QED BY <1>2, Inductive, PTL

(* The lines are printed from samples that no thread is still updating:    *)
(* they still agree with the samples when the printing thread resets them. *)
LEMMA FinalStep ==
    ASSUME Steady, IInv, PrintedIsFinal, [Next]_vars PROVE PrintedIsFinal'
<1> SUFFICES ASSUME Printed' PROVE report' = [l \in Locations |-> Line(l)']
  BY DEF PrintedIsFinal
<1>0. IInv' /\ Team \subseteq Threads
  BY StepInv, TeamFinite DEF IInv, TypeOK
<1>1. PICK r \in Team' : pc'[r] = "reset"
  BY DEF Printed
<1>2. ASSUME UNCHANGED <<samples, report>>, Printed PROVE report' = [l \in Locations |-> Line(l)']
  <2>1. \A l : Line(l)' = Line(l) BY <1>2 DEF samples, Line, Elapsed, On
  <2> QED BY <1>2, <2>1 DEF PrintedIsFinal
<1>3. ASSUME NEW t \in Threads, Publish(t) PROVE report' = [l \in Locations |-> Line(l)']
  <2>1. \A l : Line(l)' = Line(l) BY <1>3 DEF Publish, samples, Line, Elapsed, On
  <2> QED BY <1>3, <2>1 DEF Publish
<1>4. ASSUME NEW t \in Threads, Tick(t) \/ Migrate(t) PROVE UNCHANGED <<samples, report>> /\ Printed
  BY <1>1, <1>4 DEF Tick, Migrate, program, Printed, Team, TeamOf
<1>5. ASSUME NEW m \in Modes, BeginRegion(m) PROVE FALSE
  <2>1. Team' \subseteq Threads
    BY <1>5, TeamAssumption DEF BeginRegion, Team, TeamOf
  <2>2. \A u \in Threads : pc'[u] # "reset" BY <1>5 DEF BeginRegion
  <2> QED BY <1>1, <2>1, <2>2
<1>6. ASSUME TeamStep PROVE FALSE
  <2>1. ~EndRegion BY <1>1 DEF EndRegion, Team, TeamOf
  <2>2. CASE StartBarrier \/ ForkStop \/ StopBarrier
    <3>1. Team' = Team BY <2>2 DEF StartBarrier, ForkStop, StopBarrier, program, Team, TeamOf
    <3>2. \A u \in Team : pc'[u] # "reset"
      BY <1>0, <2>2 DEF StartBarrier, ForkStop, StopBarrier, MoveTeam
    <3> QED BY <1>1, <3>1, <3>2
  <2> QED BY <1>6, <2>1, <2>2 DEF TeamStep
<1>7. ASSUME NEW t \in Threads, StartStep(t) \/ StopStep(t), ~Publish(t)
      PROVE  UNCHANGED <<samples, report>> /\ Printed
  <2>1. Team' = Team /\ pc \in [Threads -> Labels]
    BY <1>7 DEF StartStep, StopStep, StartFails, StopFails, StartCaller, CountThread, SetWork,
           FirstThread, StartTimer, StopCaller, EnterStop, LastThread, StopTimer, ResetSamples, SkipSingle, program,
           Team, TeamOf, IInv, TypeOK
  <2>2. pc'[t] # "reset" /\ \A u \in Threads \ {t} : pc'[u] = pc[u]
    BY <1>7, <2>1 DEF StartStep, StopStep, StartFails, StopFails, StartCaller, CountThread, SetWork, FirstThread,
       StartTimer, StopCaller, EnterStop, LastThread, StopTimer, ResetSamples, SkipSingle, Goto
  <2>3. r \in Team /\ pc[r] = "reset" /\ r # t
    BY <1>0, <1>1, <2>1, <2>2
  <2>4. \A u \in Team : pc[u] \in Closing
    BY <2>3 DEF IInv, TeamInv, Opening, Open, Closing
  <2>5. pc[t] \in Closing \cup {"idle"} /\ ~ResetSamples(t)
    <3>1. t \in Team => pc[t] # "reset" BY <2>3 DEF IInv, ClaimInv
    <3>2. t \notin Team => pc[t] = "idle" BY DEF IInv, TeamInv
    <3> QED BY <2>4, <3>1, <3>2 DEF ResetSamples
  <2>6. SkipSingle(t)
    BY <1>7, <2>5 DEF StartStep, StopStep, StartFails, StopFails, StartCaller, CountThread, SetWork, FirstThread,
       StartTimer, StopCaller, EnterStop, LastThread, StopTimer, Closing
  <2> QED BY <2>3, <2>6 DEF SkipSingle, Printed
<1>8. ASSUME UNCHANGED vars PROVE UNCHANGED <<samples, report>> /\ Printed
  BY <1>1, <1>8 DEF vars, program, Printed, Team, TeamOf
<1> QED BY <1>2, <1>3, <1>4, <1>5, <1>6, <1>7, <1>8 DEF Next, Exit

THEOREM PrintedStaysFinal == ASSUME Steady PROVE Spec => []PrintedIsFinal
<1>1. Init => IInv /\ PrintedIsFinal
  <2>1. Init => ~Printed BY DEF Init, Printed, Team, TeamOf
  <2> QED BY <2>1, InitInv DEF PrintedIsFinal
<1>2. IInv /\ PrintedIsFinal /\ [Next]_vars => (IInv /\ PrintedIsFinal)'
  BY StepInv, FinalStep
<1> QED BY <1>1, <1>2, PTL DEF Spec

(* However the threads share PUs and wherever unbound ones move, the lines *)
(* of a region count every thread of the team, once: the sample of a PU    *)
(* counts the threads that entered there, a line adds up the samples of    *)
(* its location, and the locations share out the PUs.                      *)
THEOREM EveryThreadCounted == ASSUME Steady PROVE Spec => []ThreadsCountedOnce
<1>1. ASSUME IInv, PrintedIsFinal, Printed
      PROVE  SumFunctionOnSet([l \in Locations |-> report[l].n_threads], Locations) = Cardinality(Team)
  <2> DEFINE lines == [l \in Locations |-> report[l].n_threads]
             location == [t \in Team |-> LocationOf[sample[t]]]
  <2>1. IsFiniteSet(Team) /\ Team \subseteq Threads
    BY <1>1, TeamFinite DEF IInv, TypeOK
  <2>2. \A t \in Team : sample[t] \in PUs /\ pc[t] \in Closing
    <3>1. \A t \in Team : sample[t] \in PUs
      BY <1>1, <2>1 DEF IInv, TypeOK
    <3>2. PICK t \in Team : pc[t] = "reset"
      BY <1>1 DEF Printed
    <3> QED BY <1>1, <3>1, <3>2 DEF IInv, TeamInv, Opening, Open, Closing
  <2>3. \A p \in PUs : n_threads[p] = Cardinality(SentInto(sample, Team, {p}))
    <3> SUFFICES ASSUME NEW p \in PUs
                 PROVE  n_threads[p] = Cardinality(SentInto(sample, Team, {p}))
      OBVIOUS
    <3>1. Counted(p) = SentInto(sample, Team, {p})
      BY <2>2 DEF Counted, Closing, SentInto
    <3>2. ~WasReset
      BY <1>1 DEF WasReset, Resetting, Printed
    <3> QED BY <1>1, <3>1, <3>2 DEF IInv, CountInv
  <2>4. ASSUME NEW l \in Locations
        PROVE  lines[l] = Cardinality(SentInto(location, Team, {l}))
    <3>1. report[l] = Line(l)
      BY <1>1 DEF PrintedIsFinal
    <3>2. lines[l] = SumFunctionOnSet(n_threads, On(l))
      BY <3>1 DEF Line
    <3>3. IsFiniteSet(On(l)) /\ On(l) \subseteq PUs
      BY PlaceAssumption, FS_Subset DEF On
    <3>4. \A p \in On(l) : n_threads[p] = Cardinality(SentInto(sample, Team, {p}))
      BY <2>3, <3>3
    <3>5. SumFunctionOnSet(n_threads, On(l)) = Cardinality(SentInto(sample, Team, On(l)))
      BY <2>1, <3>3, <3>4, SumOfCounts
    <3>6. SentInto(sample, Team, On(l)) = SentInto(location, Team, {l})
      BY <2>2 DEF On, SentInto
    <3> QED BY <3>2, <3>5, <3>6
  <2>5. SentInto(location, Team, Locations) = Team
    BY <2>2, PlaceAssumption DEF SentInto
  <2> HIDE DEF lines, location
  <2>6. SumFunctionOnSet(lines, Locations) = Cardinality(SentInto(location, Team, Locations))
    <3>1. IsFiniteSet(Locations)
      BY PlaceAssumption
    <3> QED BY <2>1, <2>4, <3>1, SumOfCounts
  <2> QED BY <2>5, <2>6 DEF lines
<1>2. IInv /\ PrintedIsFinal => ThreadsCountedOnce
  BY <1>1 DEF ThreadsCountedOnce
<1> QED BY <1>2, Inductive, PrintedStaysFinal, PTL

-----------------------------------------------------------------------------
(* For every team and machine, Sampling implements SamplingReport as long  *)
(* as every thread is bound to a PU of its own.                            *)

(* On top of the inductive invariant: until they are reset, the sample of  *)
(* a thread's PU holds what that thread did, and the samples of the other  *)
(* PUs stay empty.                                                         *)
Worked  == Closing \cup (Open \ {"set_work"})
Started == Closing \cup (Open \ {"set_work", "first", "start_timer"})
Ended   == Closing \cup {"stop_barrier"}

ContentInv ==
    \A t \in Team : ~WasReset =>
        /\ pc[t] \in Worked  => bytes[Pin[t]] = Share(t)
        /\ pc[t] \in Started => s_nano[Pin[t]] = began[t]
        /\ pc[t] \in Ended   => e_nano[Pin[t]] = stopped[t]
IdleInv ==
    \A p \in PUs : (\A t \in Team : Pin[t] # p) =>
        s_nano[p] = 0 /\ e_nano[p] = 0 /\ bytes[p] = 0

RInv == IInv /\ ContentInv /\ IdleInv

LEMMA OwnFacts ==
    ASSUME OwnPU, IInv
    PROVE  /\ Steady /\ Team \subseteq Threads
           /\ \A t \in Team : Pin[t] \in PUs
           /\ \A t, u \in Team : Pin[t] = Pin[u] => t = u
           /\ \A t \in Team : pc[t] \notin {"caller", "start_failed"} => sample[t] = Pin[t]
<1>1. Bound = Threads /\ Steady BY TeamAssumption DEF OwnPU, Steady
<1>2. Team \subseteq Threads BY TeamFinite DEF IInv, TypeOK
<1> QED BY <1>1, <1>2, PlaceAssumption DEF OwnPU, IInv, LookupInv

(* The first two parts of a region: no sample has been reset.              *)
LEMMA BeforeClosing ==
    ASSUME IInv, NEW t \in Team, pc[t] \notin Closing
    PROVE  ~WasReset /\ \A u \in Team : pc[u] \notin Closing
BY NoResetYet, TeamFinite DEF IInv, TypeOK

(* A thread alone on its sample is the first and the last one there.       *)
LEMMA AloneFirst ==
    ASSUME OwnPU, IInv, NEW t \in Team, pc[t] = "first"
    PROVE  last_thread[sample[t]] = 0
<1>1. sample[t] = Pin[t] /\ Pin[t] \in PUs BY OwnFacts
<1>2. Inside(Pin[t]) = {}
  BY OwnFacts, BeforeClosing DEF Inside
<1> QED BY <1>1, <1>2, FS_EmptySet DEF IInv, TimersBalanced

LEMMA AloneLast ==
    ASSUME OwnPU, IInv, NEW t \in Team, pc[t] = "last"
    PROVE  last_thread[sample[t]] = 1
<1>1. sample[t] = Pin[t] /\ Pin[t] \in PUs BY OwnFacts
<1>2. Inside(Pin[t]) = {t}
  <2>1. \A u \in Inside(Pin[t]) : u \in Team /\ sample[u] = Pin[t] /\ pc[u] \notin {"caller", "start_failed"}
    BY DEF Inside
  <2>2. t \in Inside(Pin[t]) BY <1>1 DEF Inside
  <2> QED BY <2>1, <2>2, OwnFacts
<1> QED BY <1>1, <1>2, FS_Singleton DEF IInv, TimersBalanced

-----------------------------------------------------------------------------
(* Every step keeps the content of the samples.                            *)
LEMMA StartContent ==
    ASSUME OwnPU, RInv, IInv', NEW t \in Threads, StartStep(t)
    PROVE  ContentInv' /\ IdleInv'
<1> USE DEF RInv
<1>0. /\ UNCHANGED <<mode, declared>> /\ pc \in [Threads -> Labels]
      /\ pc[t] \in Opening \cup {"set_work", "first", "start_timer"}
  BY DEF StartStep, StartFails, StartCaller, CountThread, SetWork, FirstThread, StartTimer, program,
         Opening, IInv, TypeOK
<1>1. Team' = Team /\ t \in Team /\ \A u \in Team : Share(u)' = Share(u)
  BY <1>0 DEF Team, TeamOf, Share, IInv, TeamInv, Opening
<1>2. \A u \in Team : pc[u] \notin Closing
  BY <1>0, <1>1, BeforeClosing DEF Opening, Closing
<1>3. ~WasReset BY <1>2 DEF WasReset, Closing
<1>4. \A u \in Threads \ {t} : pc'[u] = pc[u]
  BY <1>0 DEF StartStep, StartFails, StartCaller, CountThread, SetWork, FirstThread, StartTimer, Goto
<1>5. pc[t] \notin {"caller", "start_failed"} => sample[t] = Pin[t] BY <1>1, OwnFacts
<1>6. Pin[t] \in PUs /\ Team \subseteq Threads BY <1>1, OwnFacts
<1>7. CASE StartFails(t) \/ StartCaller(t) \/ CountThread(t)
  <2>1. pc'[t] \in Opening /\ UNCHANGED <<s_nano, e_nano, bytes, began, stopped>>
    BY <1>0, <1>7 DEF StartFails, StartCaller, CountThread, Goto, timing, samples, Opening
  <2>2. \A u \in Team : pc'[u] \in Worked => pc'[u] = pc[u]
    BY <1>4, <1>6, <2>1 DEF Worked, Opening, Open, Closing
  <2> QED BY <1>1, <1>3, <2>1, <2>2 DEF ContentInv, IdleInv, Worked, Started, Ended, Opening, Open, Closing
<1>8. CASE SetWork(t)
  <2>1. /\ pc'[t] = "first" /\ bytes' = [bytes EXCEPT ![Pin[t]] = Share(t)]
        /\ UNCHANGED <<s_nano, e_nano, began, stopped>>
    BY <1>0, <1>5, <1>8 DEF SetWork, Goto, timing
  <2>2. \A u \in Team \ {t} : bytes'[Pin[u]] = bytes[Pin[u]]
    BY <1>1, <1>6, <2>1, OwnFacts DEF IInv, TypeOK
  <2>3. bytes'[Pin[t]] = Share(t) BY <1>6, <2>1 DEF IInv, TypeOK
  <2>4. ContentInv'
    BY <1>1, <1>3, <1>4, <1>6, <2>1, <2>2, <2>3 DEF ContentInv, Worked, Started, Ended, Open, Closing
  <2>5. IdleInv' BY <1>1, <2>1 DEF IdleInv, IInv, TypeOK
  <2> QED BY <2>4, <2>5
<1>9. CASE FirstThread(t)
  <2>1. pc'[t] = "start_timer" /\ pc[t] = "first" /\ UNCHANGED <<s_nano, e_nano, bytes, began, stopped>>
    BY <1>0, <1>1, <1>9, AloneFirst DEF FirstThread, Goto
  <2>2. ContentInv'
    BY <1>1, <1>3, <1>4, <1>6, <2>1 DEF ContentInv, Worked, Started, Ended, Open, Closing
  <2>3. IdleInv' BY <1>1, <2>1 DEF IdleInv
  <2> QED BY <2>2, <2>3
<1>10. CASE StartTimer(t)
  <2>1. /\ pc'[t] = "region" /\ pc[t] = "start_timer"
        /\ s_nano' = [s_nano EXCEPT ![Pin[t]] = clock[t]]
        /\ began' = [began EXCEPT ![t] = clock[t]]
        /\ UNCHANGED <<e_nano, bytes, stopped>>
    BY <1>0, <1>5, <1>10 DEF StartTimer, Goto
  <2>2. \A u \in Team \ {t} : s_nano'[Pin[u]] = s_nano[Pin[u]] /\ began'[u] = began[u]
    BY <1>1, <1>6, <2>1, OwnFacts DEF IInv, TypeOK
  <2>3. s_nano'[Pin[t]] = began'[t] BY <1>6, <2>1 DEF IInv, TypeOK
  <2>4. ContentInv'
    BY <1>1, <1>3, <1>4, <1>6, <2>1, <2>2, <2>3 DEF ContentInv, Worked, Started, Ended, Open, Closing
  <2>5. IdleInv' BY <1>1, <2>1 DEF IdleInv, IInv, TypeOK
  <2> QED BY <2>4, <2>5
<1> QED BY <1>7, <1>8, <1>9, <1>10 DEF StartStep

LEMMA StopContent ==
    ASSUME OwnPU, RInv, IInv', NEW t \in Threads, StopStep(t)
    PROVE  ContentInv' /\ IdleInv'
<1> USE DEF RInv
<1>0. UNCHANGED <<mode, declared, began, bytes>> \/ ResetSamples(t)
  BY DEF StopStep, StopFails, StopCaller, EnterStop, LastThread, StopTimer, Publish, SkipSingle,
         program, timing, samples
<1>1. /\ UNCHANGED <<mode, declared, began>> /\ pc \in [Threads -> Labels]
      /\ pc[t] \in Closing \cup {"stop_caller", "stop", "region", "last", "stop_timer"}
  BY <1>0 DEF StopStep, StopFails, StopCaller, EnterStop, LastThread, StopTimer, Publish, SkipSingle,
         ResetSamples, program, timing, Closing, IInv, TypeOK
<1>2. Team' = Team /\ t \in Team /\ \A u \in Team : Share(u)' = Share(u)
  BY <1>1 DEF Team, TeamOf, Share, IInv, TeamInv, Closing
<1>3. \A u \in Threads \ {t} : pc'[u] = pc[u]
  BY <1>1 DEF StopStep, StopFails, StopCaller, EnterStop, LastThread, StopTimer, Publish, SkipSingle,
         ResetSamples, Goto
<1>4. Pin[t] \in PUs /\ Team \subseteq Threads BY <1>2, OwnFacts
<1>5. CASE StopFails(t) \/ StopCaller(t) \/ EnterStop(t) \/ LastThread(t)
  <2>1. /\ pc[t] \in {"stop_caller", "region", "stop", "last"}
        /\ pc'[t] \in {"stop_failed", "stop", "last", "stop_timer"}
        /\ UNCHANGED <<s_nano, e_nano, bytes>>
        /\ \A u \in Threads \ {t} : stopped'[u] = stopped[u]
    BY <1>1, <1>2, <1>5, AloneLast DEF StopFails, StopCaller, EnterStop, LastThread, Goto, timing, samples,
       IInv, TypeOK
  <2>2. ~WasReset BY <1>2, <2>1, BeforeClosing DEF Closing
  <2>3. ContentInv'
    BY <1>1, <1>2, <1>3, <1>4, <2>1, <2>2 DEF ContentInv, Worked, Started, Ended, Open, Closing
  <2>4. IdleInv' BY <1>2, <2>1 DEF IdleInv
  <2> QED BY <2>3, <2>4
<1>6. CASE StopTimer(t)
  <2>1. /\ pc[t] = "stop_timer" /\ pc'[t] = "stop_barrier" /\ sample[t] = Pin[t]
        /\ e_nano' = [e_nano EXCEPT ![Pin[t]] = stopped[t]]
        /\ UNCHANGED <<s_nano, bytes, stopped>>
    BY <1>1, <1>2, <1>6, OwnFacts DEF StopTimer, Goto, timing
  <2>2. ~WasReset BY <1>2, <2>1, BeforeClosing DEF Closing
  <2>3. \A u \in Team \ {t} : e_nano'[Pin[u]] = e_nano[Pin[u]]
    BY <1>2, <1>4, <2>1, OwnFacts DEF IInv, TypeOK
  <2>4. e_nano'[Pin[t]] = stopped'[t] BY <1>4, <2>1 DEF IInv, TypeOK
  <2>5. ContentInv'
    BY <1>1, <1>2, <1>3, <1>4, <2>1, <2>2, <2>3, <2>4 DEF ContentInv, Worked, Started, Ended, Open, Closing
  <2>6. IdleInv' BY <1>2, <2>1 DEF IdleInv, IInv, TypeOK
  <2> QED BY <2>5, <2>6
<1>7. CASE Publish(t) \/ SkipSingle(t)
  <2>1. /\ pc[t] = "single" /\ pc'[t] \in Closing
        /\ UNCHANGED <<s_nano, e_nano, bytes, stopped>>
    BY <1>1, <1>7 DEF Publish, SkipSingle, Goto, timing, samples, Closing
  <2>2. WasReset => WasReset'
    <3>1. CASE Publish(t) BY <1>2, <3>1 DEF Publish, Claimed, WasReset
    <3>2. CASE SkipSingle(t)
      <4>1. pc'[t] = "end" BY <1>1, <3>2 DEF SkipSingle, Goto
      <4> QED BY <1>2, <1>3, <1>4, <4>1 DEF WasReset, Resetting
    <3> QED BY <1>7, <3>1, <3>2
  <2>3. ContentInv'
    BY <1>1, <1>2, <1>3, <1>4, <2>1, <2>2 DEF ContentInv, Worked, Started, Ended, Open, Closing
  <2>4. IdleInv' BY <1>2, <2>1 DEF IdleInv
  <2> QED BY <2>3, <2>4
<1>8. CASE ResetSamples(t)
  <2>1. pc[t] = "reset" /\ pc'[t] = "end" BY <1>1, <1>8 DEF ResetSamples, Goto
  <2>2. WasReset'
    BY <1>2, <1>3, <1>4, <2>1 DEF WasReset, Resetting, IInv, ClaimInv
  <2>3. IdleInv' BY <1>2, <1>8 DEF ResetSamples, IdleInv, Zero
  <2> QED BY <2>2, <2>3 DEF ContentInv
<1> QED BY <1>5, <1>6, <1>7, <1>8 DEF StopStep

LEMMA TeamContent ==
    ASSUME OwnPU, RInv, IInv', StartBarrier \/ ForkStop \/ StopBarrier
    PROVE  ContentInv' /\ IdleInv'
<1> USE DEF RInv
<1>1. /\ UNCHANGED <<mode, declared, began, stopped, s_nano, e_nano, bytes>>
      /\ pc' \in [Threads -> Labels]
      /\ Team # {}
  BY DEF StartBarrier, ForkStop, StopBarrier, program, timing, samples, IInv, TypeOK, AllAt
<1>2. Team' = Team /\ \A u \in Team : Share(u)' = Share(u)
  BY <1>1 DEF Team, TeamOf, Share
<1>3. Team \subseteq Threads BY OwnFacts
<1>4. PICK a, b : /\ \A u \in Team : pc[u] = a /\ pc'[u] = b
                  /\ <<a, b>> \in {<<"start_barrier", "set_work">>, <<"region", "stop_caller">>,
                                   <<"stop_barrier", "single">>}
  BY <1>3 DEF StartBarrier, ForkStop, StopBarrier, AllAt, MoveTeam
<1>5. ~WasReset BY <1>4 DEF WasReset
<1>6. ContentInv'
  BY <1>1, <1>2, <1>4, <1>5 DEF ContentInv, Worked, Started, Ended, Open, Closing
<1>7. IdleInv' BY <1>1, <1>2 DEF IdleInv
<1> QED BY <1>6, <1>7

LEMMA StepContent ==
    ASSUME OwnPU, RInv, [Next]_vars PROVE RInv'
<1>1. Steady BY TeamAssumption DEF OwnPU, Steady
<1>2. IInv' BY <1>1, StepInv DEF RInv
<1>3. ASSUME NEW m \in Modes, BeginRegion(m) PROVE ContentInv' /\ IdleInv'
  <2>1. Team = {} /\ Team' \subseteq Threads
    BY <1>3, TeamAssumption DEF BeginRegion, Team, TeamOf
  <2>2. \A p \in PUs : s_nano[p] = 0 /\ e_nano[p] = 0 /\ bytes[p] = 0
    BY <2>1 DEF RInv, IdleInv
  <2>3. \A t \in Team' : pc'[t] = "caller"
    BY <1>3, <2>1 DEF BeginRegion, Team
  <2>4. ContentInv' BY <2>3 DEF ContentInv, Worked, Started, Ended, Open, Closing
  <2>5. IdleInv' BY <1>3, <2>2 DEF BeginRegion, samples, IdleInv
  <2> QED BY <2>4, <2>5
<1>4. ASSUME EndRegion PROVE ContentInv' /\ IdleInv'
  <2>1. WasReset BY <1>4 DEF EndRegion, AllAt, WasReset, Resetting
  <2>2. Untimed BY <2>1 DEF RInv, IInv, CleanInv
  <2>3. Team' = {} BY <1>4 DEF EndRegion, Team, TeamOf
  <2>4. ContentInv' BY <2>3 DEF ContentInv
  <2>5. IdleInv' BY <1>4, <2>2 DEF EndRegion, samples, IdleInv, Untimed, Zero
  <2> QED BY <2>4, <2>5
<1>5. ASSUME UNCHANGED <<mode, declared, began, stopped, pc, samples>>
      PROVE ContentInv' /\ IdleInv'
  <2>1. Team' = Team /\ \A u \in Team : Share(u)' = Share(u)
    BY <1>5 DEF Team, TeamOf, Share
  <2>2. WasReset' = WasReset BY <1>5, <2>1 DEF WasReset, Resetting
  <2> QED BY <1>5, <2>1, <2>2 DEF RInv, ContentInv, IdleInv, samples
<1>6. ASSUME NEW t \in Threads, Tick(t) \/ Migrate(t) PROVE ContentInv' /\ IdleInv'
  BY <1>5, <1>6 DEF Tick, Migrate, program, timing
<1>7. ASSUME UNCHANGED vars PROVE ContentInv' /\ IdleInv'
  BY <1>5, <1>7 DEF vars, program, timing
<1>8. ContentInv' /\ IdleInv'
  BY <1>2, <1>3, <1>4, <1>6, <1>7, StartContent, StopContent, TeamContent
     DEF Next, TeamStep, Exit
<1> QED BY <1>2, <1>8 DEF RInv

LEMMA InitContent == Init => RInv
<1> SUFFICES ASSUME Init PROVE RInv OBVIOUS
<1>1. IInv BY InitInv
<1>2. Team = {} BY DEF Init, Team, TeamOf
<1>3. ContentInv /\ IdleInv BY <1>2 DEF Init, ContentInv, IdleInv, Zero
<1> QED BY <1>1, <1>3 DEF RInv

-----------------------------------------------------------------------------
(* The library operators mean the same inside the instance.                *)
LEMMA SameLibrary ==
    /\ \A S : Promise!Cardinality(S) = Cardinality(S) /\ Promise!Max(S) = Max(S)
    /\ \A f, S : Promise!SumFunctionOnSet(f, S) = SumFunctionOnSet(f, S)
<1>1. ASSUME NEW S PROVE Promise!Cardinality(S) = Cardinality(S)
  BY DEF Promise!Cardinality, Cardinality
<1>2. ASSUME NEW S PROVE Promise!Max(S) = Max(S)
  BY DEF Promise!Max, Max
<1>3. ASSUME NEW f, NEW S PROVE Promise!SumFunctionOnSet(f, S) = SumFunctionOnSet(f, S)
  BY DEF Promise!SumFunctionOnSet, SumFunctionOnSet, Promise!FoldFunctionOnSet,
         FoldFunctionOnSet, Promise!MapThenFoldSet, MapThenFoldSet
<1> QED BY <1>1, <1>2, <1>3

(* The module's own operators too.                                         *)
LEMMA SameNames ==
    /\ Promise!Team = Team
    /\ \A t : Promise!Share(t) = Share(t)
    /\ \A l : Promise!On(l) = On(l)
    /\ \A m : Promise!TeamOf(m) = TeamOf(m) /\ Promise!Arguments(m) = Arguments(m)
<1>1. Promise!Team = Team
  BY DEF Promise!Team, Promise!TeamOf, Team, TeamOf
<1>2. ASSUME NEW t PROVE Promise!Share(t) = Share(t)
  BY <1>1, SameLibrary DEF Promise!Share, Share
<1>3. ASSUME NEW l PROVE Promise!On(l) = On(l)
  BY DEF Promise!On, On
<1>4. ASSUME NEW m PROVE Promise!TeamOf(m) = TeamOf(m)
  BY DEF Promise!TeamOf, TeamOf
<1>5. ASSUME NEW m PROVE Promise!Arguments(m) = Arguments(m)
  BY DEF Promise!Arguments, Arguments
<1> QED BY <1>1, <1>2, <1>3, <1>4, <1>5

(* When all are in the single construct and nobody has printed yet, the    *)
(* samples hold what the abstract specification says each PU contributes.  *)
LEMMA LinesAgree ==
    ASSUME OwnPU, RInv, \A t \in Team : pc[t] = "single"
    PROVE  \A l : Line(l) = Promise!Line(l)
<1> USE DEF RInv
<1>1. ~WasReset BY DEF WasReset
<1>2. \A p \in PUs : Promise!Busy(p) => Promise!Owner(p) \in Team /\ Pin[Promise!Owner(p)] = p
  BY SameNames DEF Promise!Busy, Promise!Owner
<1>3. \A p \in PUs : bytes[p] = IF Promise!Busy(p) THEN Share(Promise!Owner(p)) ELSE 0
  BY <1>1, <1>2, SameNames DEF ContentInv, IdleInv, Worked, Closing, Promise!Busy
<1>4. bytes = Promise!BytesOf
  BY <1>3, SameNames DEF Promise!BytesOf, IInv, TypeOK
<1>5. \A p \in PUs : Elapsed(p) = Promise!TimeOf(p)
  BY <1>1, <1>2, SameNames
     DEF ContentInv, IdleInv, Started, Ended, Closing, Promise!Busy, Promise!TimeOf, Elapsed
<1>6. \A p \in PUs : n_threads[p] = IF Promise!Busy(p) THEN 1 ELSE 0
  <2> SUFFICES ASSUME NEW p \in PUs PROVE n_threads[p] = IF Promise!Busy(p) THEN 1 ELSE 0
    OBVIOUS
  <2>1. n_threads[p] = Cardinality(Counted(p)) BY <1>1 DEF IInv, CountInv
  <2>2. \A t \in Team : t \in Counted(p) <=> Pin[t] = p
    BY OwnFacts DEF Counted
  <2>3. CASE Promise!Busy(p)
    <3>1. Counted(p) = {Promise!Owner(p)}
      BY <1>2, <2>2, <2>3, OwnFacts DEF Counted
    <3> QED BY <2>1, <2>3, <3>1, FS_Singleton
  <2>4. CASE ~Promise!Busy(p)
    <3>1. \A t \in Team : t \notin Counted(p) BY <2>2, <2>4, SameNames DEF Promise!Busy
    <3>2. Counted(p) = {} BY <3>1 DEF Counted
    <3> QED BY <2>1, <2>4, <3>2, FS_EmptySet
  <2> QED BY <2>3, <2>4
<1>7. n_threads = Promise!ThreadsOf
  BY <1>6 DEF Promise!ThreadsOf, IInv, TypeOK
<1>8. ASSUME NEW l PROVE Line(l) = Promise!Line(l)
  <2>1. {Elapsed(p) : p \in On(l)} = {Promise!TimeOf(p) : p \in Promise!On(l)}
    BY <1>5, SameNames DEF On
  <2> QED BY <1>4, <1>7, <2>1, SameNames, SameLibrary DEF Line, Promise!Line
<1> QED BY <1>8

-----------------------------------------------------------------------------
(* Steps map to steps of the promise or to stuttering.                     *)
phaseBar == [t \in Threads |-> PhaseOf(t)]

LEMMA StartRefines ==
    ASSUME OwnPU, RInv, NEW t \in Threads, StartStep(t)
    PROVE  Promise!Enter(t) \/ UNCHANGED Promise!vars
<1>0. /\ UNCHANGED <<program, clock, stopped, report>> /\ pc \in [Threads -> Labels]
      /\ pc[t] \in Opening \cup {"set_work", "first", "start_timer"}
  BY DEF StartStep, StartFails, StartCaller, CountThread, SetWork, FirstThread, StartTimer, timing,
         Opening, RInv, IInv, TypeOK
<1>1. Team' = Team /\ t \in Team /\ Team \subseteq Threads
  BY <1>0, OwnFacts DEF Team, TeamOf, program, RInv, IInv, TeamInv, Opening
<1>2. \A u \in Team : pc[u] \notin Closing
  BY <1>0, <1>1, BeforeClosing DEF RInv, Opening, Closing
<1>3. /\ pc' \in [Threads -> Labels]
      /\ pc'[t] \in Opening \cup {"set_work", "first", "start_timer", "region"}
      /\ \A u \in Threads \ {t} : pc'[u] = pc[u]
  BY <1>0 DEF StartStep, StartFails, StartCaller, CountThread, SetWork, FirstThread, StartTimer, Goto,
              Opening, Labels
<1>4. ~Claimed /\ ~Claimed'
  BY <1>1, <1>2, <1>3 DEF Claimed, Closing, Opening
<1>5. \A u \in Threads \ {t} : PhaseOf(u)' = PhaseOf(u)
  BY <1>3, <1>4 DEF PhaseOf
<1>6. PhaseOf(t) = "called" BY <1>0 DEF PhaseOf, Opening
<1>7. CASE StartTimer(t)
  <2>1. pc'[t] = "region" /\ began' = [began EXCEPT ![t] = clock[t]]
    BY <1>0, <1>7 DEF StartTimer, Goto
  <2>2. PhaseOf(t)' = "inside" BY <2>1 DEF PhaseOf
  <2>3. phaseBar[t] = "called" /\ phaseBar' = [phaseBar EXCEPT ![t] = "inside"]
    BY <1>5, <1>6, <2>2 DEF phaseBar
  <2> QED BY <1>0, <2>1, <2>3 DEF Promise!Enter, Promise!program, program, phaseBar
<1>8. CASE ~StartTimer(t)
  <2>1. pc'[t] \in Opening \cup {"set_work", "first", "start_timer"} /\ began' = began
    BY <1>0, <1>1, <1>8, AloneFirst
       DEF StartStep, StartFails, StartCaller, CountThread, SetWork, FirstThread, Goto, timing, Opening, RInv
  <2>2. PhaseOf(t)' = "called" BY <2>1 DEF PhaseOf, Opening
  <2>3. phaseBar' = phaseBar BY <1>5, <1>6, <2>2 DEF phaseBar
  <2> QED BY <1>0, <2>1, <2>3 DEF Promise!vars, Promise!program, program, phaseBar
<1> QED BY <1>7, <1>8

LEMMA StopRefines ==
    ASSUME OwnPU, RInv, NEW t \in Threads, StopStep(t)
    PROVE  Promise!Leave(t) \/ Promise!Publish \/ UNCHANGED Promise!vars
<1>0. /\ UNCHANGED <<program, clock, began>> /\ pc \in [Threads -> Labels]
      /\ pc[t] \in Closing \cup {"stop_caller", "stop", "region", "last", "stop_timer"}
  BY DEF StopStep, StopFails, StopCaller, EnterStop, LastThread, StopTimer, Publish, SkipSingle,
         ResetSamples, timing, Closing, RInv, IInv, TypeOK
<1>1. Team' = Team /\ t \in Team /\ Team \subseteq Threads
  BY <1>0, OwnFacts DEF Team, TeamOf, program, RInv, IInv, TeamInv, Closing
<1>2. /\ pc' \in [Threads -> Labels] /\ \A u \in Threads \ {t} : pc'[u] = pc[u]
  BY <1>0 DEF StopStep, StopFails, StopCaller, EnterStop, LastThread, StopTimer, Publish, SkipSingle,
         ResetSamples, Goto, Labels
<1>3. CASE EnterStop(t)
  <2>1. /\ pc[t] \in {"region", "stop"} /\ pc'[t] = "last"
        /\ stopped' = [stopped EXCEPT ![t] = clock[t]] /\ report' = report
    BY <1>0, <1>3 DEF EnterStop, Goto
  <2>2. \A u \in Team : pc[u] \notin Closing
    BY <1>1, <2>1, BeforeClosing DEF RInv, Closing
  <2>3. ~Claimed /\ ~Claimed' BY <1>1, <1>2, <2>1, <2>2 DEF Claimed, Closing
  <2>4. phaseBar[t] = "inside" /\ phaseBar' = [phaseBar EXCEPT ![t] = "left"]
    <3>1. \A u \in Threads \ {t} : PhaseOf(u)' = PhaseOf(u)
      BY <1>2, <2>3 DEF PhaseOf
    <3>2. PhaseOf(t) = "inside" /\ PhaseOf(t)' = "left"
      BY <2>1, <2>3 DEF PhaseOf
    <3> QED BY <3>1, <3>2 DEF phaseBar
  <2> QED BY <1>0, <2>1, <2>4 DEF Promise!Leave, Promise!program, program, phaseBar
<1>4. CASE StopFails(t) \/ StopCaller(t) \/ LastThread(t) \/ StopTimer(t)
  <2>1. /\ \/ pc[t] = "stop_caller" /\ pc'[t] \in {"stop_failed", "stop"}
           \/ pc[t] = "last" /\ pc'[t] \in {"stop_timer", "stop_barrier"}
           \/ pc[t] = "stop_timer" /\ pc'[t] = "stop_barrier"
        /\ UNCHANGED <<stopped, report>>
    BY <1>0, <1>4 DEF StopFails, StopCaller, LastThread, StopTimer, Goto, timing
  <2>2. \A u \in Team : pc[u] \notin Closing
    BY <1>1, <2>1, BeforeClosing DEF RInv, Closing
  <2>3. ~Claimed /\ ~Claimed' BY <1>1, <1>2, <2>1, <2>2 DEF Claimed, Closing
  <2>4. phaseBar' = phaseBar
    <3>1. \A u \in Threads \ {t} : PhaseOf(u)' = PhaseOf(u)
      BY <1>2, <2>3 DEF PhaseOf
    <3>2. PhaseOf(t)' = PhaseOf(t)
      BY <2>1, <2>3 DEF PhaseOf
    <3> QED BY <3>1, <3>2 DEF phaseBar
  <2> QED BY <1>0, <2>1, <2>4 DEF Promise!vars, Promise!program, program, phaseBar
<1>5. CASE ResetSamples(t) \/ SkipSingle(t)
  <2>1. /\ pc[t] \in {"single", "reset"} /\ pc'[t] = "end" /\ Claimed
        /\ UNCHANGED <<stopped, report>>
    BY <1>0, <1>1, <1>5 DEF ResetSamples, SkipSingle, Goto, timing, Claimed
  <2>2. Claimed' BY <1>1, <2>1 DEF Claimed
  <2>3. phaseBar' = phaseBar
    <3>1. \A u \in Threads \ {t} : PhaseOf(u)' = PhaseOf(u)
      BY <1>2, <2>1, <2>2 DEF PhaseOf
    <3>2. PhaseOf(t)' = PhaseOf(t)
      BY <2>1, <2>2 DEF PhaseOf
    <3> QED BY <3>1, <3>2 DEF phaseBar
  <2> QED BY <1>0, <2>1, <2>3 DEF Promise!vars, Promise!program, program, phaseBar
<1>6. CASE Publish(t)
  <2>1. /\ pc[t] = "single" /\ pc'[t] = "reset" /\ ~Claimed /\ UNCHANGED stopped
        /\ report' = [l \in Locations |-> Line(l)]
    BY <1>0, <1>6 DEF Publish, Goto, timing
  <2>2. \A u \in Team : pc[u] = "single"
    BY <1>1, <2>1 DEF RInv, IInv, TeamInv, Claimed, Opening, Open, Closing
  <2>3. \A u \in Threads \ Team : pc[u] = "idle"
    BY DEF RInv, IInv, TeamInv
  <2>4. Claimed' BY <1>1, <2>1 DEF Claimed
  <2>5. \A u \in Threads : /\ PhaseOf(u) = IF u \in Team THEN "left" ELSE "out"
                           /\ PhaseOf(u)' = IF u \in Team THEN "printed" ELSE "out"
    BY <1>1, <1>2, <2>1, <2>2, <2>3, <2>4 DEF PhaseOf
  <2>6. \A u \in Team : phaseBar[u] = "left"
    BY <1>1, <2>5 DEF phaseBar
  <2>7. phaseBar' = [u \in Threads |-> IF u \in Team THEN "printed" ELSE "out"]
    BY <2>5 DEF phaseBar
  <2>8. report' = [l \in Locations |-> Promise!Line(l)]
    BY <2>1, <2>2, LinesAgree
  <2> QED BY <1>0, <1>1, <2>1, <2>6, <2>7, <2>8, SameNames
          DEF Promise!Publish, Promise!program, program, phaseBar
<1> QED BY <1>3, <1>4, <1>5, <1>6 DEF StopStep

LEMMA TeamRefines ==
    ASSUME OwnPU, RInv, TeamStep
    PROVE  Promise!EndRegion \/ UNCHANGED Promise!vars
<1>1. Team \subseteq Threads /\ pc \in [Threads -> Labels]
  BY OwnFacts DEF RInv, IInv, TypeOK
<1>2. CASE EndRegion
  <2>1. /\ Team # {} /\ (\A u \in Team : pc[u] = "end") /\ mode' = "none"
        /\ UNCHANGED <<regions, declared, clock, began, stopped, report>>
    BY <1>2 DEF EndRegion, AllAt, timing
  <2>2. Claimed BY <2>1 DEF Claimed
  <2>3. \A u \in Team : phaseBar[u] = "printed"
    BY <1>1, <2>1, <2>2 DEF PhaseOf, phaseBar
  <2>4. \A u \in Threads : pc'[u] = "idle"
    BY <1>1, <1>2 DEF EndRegion, MoveTeam, RInv, IInv, TeamInv
  <2>5. phaseBar' = [u \in Threads |-> "out"]
    BY <2>4 DEF PhaseOf, phaseBar
  <2> QED BY <2>1, <2>3, <2>5, SameNames DEF Promise!EndRegion, phaseBar
<1>3. CASE StartBarrier \/ ForkStop \/ StopBarrier
  <2>1. UNCHANGED <<program, timing, report>> /\ Team' = Team
    BY <1>3 DEF StartBarrier, ForkStop, StopBarrier, program, Team, TeamOf
  <2>2. PICK a, b : /\ \A u \in Team : pc[u] = a /\ pc'[u] = b
                    /\ <<a, b>> \in {<<"start_barrier", "set_work">>, <<"region", "stop_caller">>,
                                     <<"stop_barrier", "single">>}
    BY <1>1, <1>3 DEF StartBarrier, ForkStop, StopBarrier, AllAt, MoveTeam
  <2>3. \A u \in Threads \ Team : pc'[u] = pc[u] /\ pc[u] = "idle"
    BY <1>3 DEF StartBarrier, ForkStop, StopBarrier, MoveTeam, RInv, IInv, TeamInv
  <2>4. ~Claimed /\ ~Claimed' BY <2>1, <2>2 DEF Claimed
  <2>5. phaseBar' = phaseBar
    BY <2>2, <2>3, <2>4 DEF PhaseOf, phaseBar
  <2> QED BY <2>1, <2>5 DEF Promise!vars, Promise!program, program, timing, phaseBar
<1> QED BY <1>2, <1>3 DEF TeamStep

LEMMA StepRefines ==
    ASSUME OwnPU, RInv, [Next]_vars PROVE [Promise!Next]_(Promise!vars)
<1>1. ASSUME NEW m \in Modes, BeginRegion(m) PROVE Promise!BeginRegion(m)
  <2>1. Team = {} BY <1>1 DEF BeginRegion, Team, TeamOf
  <2>2. \A u \in Threads : pc'[u] = IF u \in TeamOf(m) THEN "caller" ELSE "idle"
    BY <1>1 DEF BeginRegion
  <2>3. phaseBar' = [u \in Threads |-> IF u \in TeamOf(m) THEN "called" ELSE "out"]
    BY <2>2 DEF PhaseOf, phaseBar
  <2> QED BY <1>1, <2>3, SameNames DEF BeginRegion, Promise!BeginRegion, timing, phaseBar
<1>2. ASSUME UNCHANGED <<mode, pc>> PROVE phaseBar' = phaseBar
  <2>1. Claimed' = Claimed BY <1>2 DEF Claimed, Team, TeamOf
  <2> QED BY <1>2, <2>1 DEF PhaseOf, phaseBar
<1>3. ASSUME NEW t \in Threads, Tick(t) PROVE Promise!Tick(t)
  BY <1>2, <1>3 DEF Tick, Promise!Tick, program, Promise!program, phaseBar
<1>4. ASSUME NEW t \in Threads, Migrate(t) PROVE UNCHANGED Promise!vars
  BY <1>4 DEF Migrate, OwnPU
<1>5. ASSUME UNCHANGED vars PROVE UNCHANGED Promise!vars
  BY <1>2, <1>5 DEF vars, program, timing, Promise!vars, Promise!program, phaseBar
<1> QED BY <1>1, <1>3, <1>4, <1>5, StartRefines, StopRefines, TeamRefines
        DEF Next, Exit, Promise!Next

LEMMA InitRefines == Init => Promise!Init
<1> SUFFICES ASSUME Init PROVE Promise!Init OBVIOUS
<1>1. Team = {} BY DEF Init, Team, TeamOf
<1>2. phaseBar = [t \in Threads |-> "out"]
  BY DEF Init, PhaseOf, phaseBar
<1>3. \A p \in PUs : ~Promise!Busy(p) BY <1>1, SameNames DEF Promise!Busy
<1>4. bytes = Promise!BytesOf /\ n_threads = Promise!ThreadsOf
  BY <1>3 DEF Init, Zero, Promise!BytesOf, Promise!ThreadsOf
<1>5. \A p \in PUs : Elapsed(p) = Promise!TimeOf(p)
  BY <1>3 DEF Init, Zero, Elapsed, Promise!TimeOf
<1>6. ASSUME NEW l PROVE Line(l) = Promise!Line(l)
  <2>1. {Elapsed(p) : p \in On(l)} = {Promise!TimeOf(p) : p \in Promise!On(l)}
    BY <1>5, SameNames DEF On
  <2> QED BY <1>4, <2>1, SameNames, SameLibrary DEF Line, Promise!Line
<1> QED BY <1>2, <1>6 DEF Init, Promise!Init, phaseBar

(* The library prints exactly what the header promises: once per region,   *)
(* after every thread has left it, and each thread's bytes, presence and   *)
(* time on the line of its location.                                       *)
THEOREM SamplingKeepsPromise == ASSUME OwnPU PROVE Spec => KeepsPromise
<1>1. Init => RInv /\ Promise!Init BY InitContent, InitRefines
<1>2. RInv /\ [Next]_vars => RInv' BY StepContent
<1>3. RInv /\ [Next]_vars => [Promise!Next]_(Promise!vars) BY StepRefines
<1> QED BY <1>1, <1>2, <1>3, PTL DEF Spec, KeepsPromise, Promise!Spec
=============================================================================
