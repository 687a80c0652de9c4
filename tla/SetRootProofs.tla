---------------------------- MODULE SetRootProofs ----------------------------
(***************************************************************************)
(* For every machine, every sequence of roots and every team: each thread  *)
(* is bound to the leaf of its own number.  The invariant adds to it that  *)
(* tid is the number of the thread that holds the critical section, which  *)
(* is what makes the second read of tid safe.                              *)
(***************************************************************************)
EXTENDS SetRoot, TLAPS

(* The thread between the write and the read of tid is alone there.        *)
TidIsOwn == \A t \in Threads : at[t] = "bind" => lock = t /\ tid = t

(* A region is open for all its team or for nobody, and the team has one   *)
(* thread for each leaf of the root.                                       *)
TeamIsRoots ==
    /\ \A t \in Threads : at[t] # "out" => t < n_threads
    /\ (\E t \in Threads : at[t] # "out") => \A t \in Team : at[t] # "out"
    /\ (\E t \in Threads : at[t] # "out") => calls > 0
    /\ calls > 0 => n_threads = Width[root]

IInv == RootTypeOK /\ TidIsOwn /\ TeamIsRoots /\ BoundToOwnLeaf

LEMMA InitInv == RootInit => IInv
BY RootAssumption, SMT DEF RootInit, IInv, RootTypeOK, TidIsOwn, TeamIsRoots, BoundToOwnLeaf, Threads, Team, Settled

(* The team of a root is made of threads.                                  *)
LEMMA TeamOfRoot == RootTypeOK => Team \subseteq Threads
BY RootAssumption, SMT DEF RootTypeOK, Team, Threads

LEMMA CallInv == ASSUME NEW r \in Roots, IInv, CallSetRoot(r) PROVE IInv'
<1>1. RootTypeOK'
  BY RootAssumption, SMT DEF IInv, RootTypeOK, CallSetRoot, Threads
<1>2. TidIsOwn'
  BY SMT DEF CallSetRoot, TidIsOwn
<1>3. TeamIsRoots'
  BY RootAssumption, SMT DEF IInv, RootTypeOK, CallSetRoot, TeamIsRoots, Team, Threads
<1>4. BoundToOwnLeaf'
  BY RootAssumption, SMT DEF IInv, RootTypeOK, CallSetRoot, BoundToOwnLeaf, Settled, Team, Threads
<1> QED BY <1>1, <1>2, <1>3, <1>4 DEF IInv

LEMMA EnterInv == ASSUME NEW t \in Threads, IInv, Enter(t) PROVE IInv'
<1>1. RootTypeOK'
  BY RootAssumption, SMT DEF IInv, RootTypeOK, Enter, Threads
<1>2. TidIsOwn'
  BY RootAssumption, SMT DEF IInv, RootTypeOK, Enter, TidIsOwn, Threads
<1>3. TeamIsRoots'
  BY RootAssumption, SMT DEF IInv, RootTypeOK, Enter, TeamIsRoots, Team, Threads
<1>4. BoundToOwnLeaf'
  BY RootAssumption, SMT DEF IInv, RootTypeOK, Enter, BoundToOwnLeaf, Settled, Team, Threads
<1> QED BY <1>1, <1>2, <1>3, <1>4 DEF IInv

LEMMA BindInv == ASSUME NEW t \in Threads, IInv, Bind(t) PROVE IInv'
<1>1. lock = t /\ tid = t
  BY DEF IInv, TidIsOwn, Bind
<1>2. t < n_threads /\ calls \in Nat
  BY SMT DEF IInv, RootTypeOK, TeamIsRoots, Bind
<1>3. Leaf[root][t] \in Leaves
  BY RootAssumption, SMT DEF IInv, RootTypeOK
<1>4. RootTypeOK'
  BY <1>1, <1>3, RootAssumption, SMT DEF IInv, RootTypeOK, Bind, Threads
<1>5. TidIsOwn'
  <2>1. ASSUME NEW u \in Threads, at'[u] = "bind" PROVE FALSE
    <3>1. u # t /\ at[u] = "bind"
      BY <2>1, SMT DEF IInv, RootTypeOK, Bind
    <3> QED BY <3>1, <1>1 DEF IInv, TidIsOwn
  <2> QED BY <2>1 DEF TidIsOwn
<1>6. TeamIsRoots'
  BY RootAssumption, SMT DEF IInv, RootTypeOK, Bind, TeamIsRoots, Team, Threads
<1>7. BoundToOwnLeaf'
  BY <1>1, RootAssumption, TeamOfRoot, SMT DEF IInv, RootTypeOK, Bind, BoundToOwnLeaf, Settled, Team, Threads
<1> QED BY <1>4, <1>5, <1>6, <1>7 DEF IInv

LEMMA ReturnInv == ASSUME IInv, Return PROVE IInv'
<1>1. 0 \in Team /\ Team \subseteq Threads
  BY TeamOfRoot, RootAssumption, SMT DEF IInv, RootTypeOK, Team
<1>2. calls > 0 \/ calls = 0
  BY SMT DEF IInv, RootTypeOK
<1>3. RootTypeOK' /\ TidIsOwn' /\ TeamIsRoots'
  BY RootAssumption, SMT DEF IInv, RootTypeOK, Return, TidIsOwn, TeamIsRoots, Team, Threads
<1>4. BoundToOwnLeaf'
  BY <1>1, SMT DEF IInv, RootTypeOK, Return, BoundToOwnLeaf, Settled, Team, Threads
<1> QED BY <1>3, <1>4 DEF IInv

(* IInv is inductive.                                                      *)
THEOREM Inductive == RootSpec => []IInv
<1>1. IInv /\ UNCHANGED rootVars => IInv'
  BY DEF IInv, rootVars, RootTypeOK, TidIsOwn, TeamIsRoots, BoundToOwnLeaf, Settled, Team
<1>2. IInv /\ [RootNext]_rootVars => IInv'
  BY <1>1, CallInv, EnterInv, BindInv, ReturnInv DEF RootNext, RootDone
<1> QED BY InitInv, <1>2, PTL DEF RootSpec

(* tid, lock and the team stay in their ranges.                            *)
THEOREM TypeCorrect == RootSpec => []RootTypeOK
BY Inductive, PTL DEF IInv

(* Every thread of the team is bound to the leaf of its own number, below  *)
(* the current root, whenever the system lets it.                          *)
THEOREM EachOnItsLeaf == RootSpec => []BoundToOwnLeaf
BY Inductive, PTL DEF IInv
=============================================================================
