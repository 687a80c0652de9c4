------------------------------- MODULE SetRoot -------------------------------
(***************************************************************************)
(* roofline_set_root() (src/src/roofline.c): the program chooses an object *)
(* of the machine, sizes the OpenMP team to the leaves below it (cores, or *)
(* PUs with hyperthreading) and every thread of the team binds itself to   *)
(* the leaf of its number.  The thread number passes through tid, a local  *)
(* variable of the function and so shared by the team, inside a critical   *)
(* section.  roofline_lib_init() calls it for the root of the run, and the *)
(* matrix mode of main() once more for every group of the machine: the     *)
(* threads of the pool then still are bound below the root before.         *)
(***************************************************************************)
EXTENDS Integers, FiniteSets

CONSTANTS N,        \* bound: the largest team
          Leaves,   \* the leaves of the machine
          Roots,    \* the objects the program may choose
          Width,    \* the number of leaves below each root
          Leaf,     \* Leaf[r][i]: leaf i below root r
          Unbound,  \* stands for the whole machine: a thread that is not bound
          CanBind,  \* the leaves to which the system lets a thread bind itself
          MaxCalls  \* bound: calls of roofline_set_root

Threads == 0 .. N - 1
ASSUME RootAssumption ==
    /\ N \in Nat \ {0} /\ MaxCalls \in Nat
    /\ Width \in [Roots -> 1 .. N]
    /\ Leaf \in [Roots -> [Threads -> Leaves]]
    /\ CanBind \subseteq Leaves /\ Unbound \notin Leaves

VARIABLES root,       \* the object of the last call
          calls,      \* how many calls were made
          n_threads,  \* the size of the team
          tid,        \* shared: the thread number
          lock,       \* the thread in the critical section, or N
          bound,      \* the leaf each thread is bound to
          at          \* "out", "critical", "bind" or "end"

rootVars == <<root, calls, n_threads, tid, lock, bound, at>>
Team == 0 .. n_threads - 1

RootInit ==
    /\ root \in Roots /\ calls = 0
    /\ n_threads = 1 /\ tid = 0 /\ lock = N
    /\ bound = [t \in Threads |-> Unbound]
    /\ at = [t \in Threads |-> "out"]

(* The call and the fork of the parallel region.  A thread that the last   *)
(* team did not have is created by the master and inherits its binding.    *)
CallSetRoot(r) ==
    /\ calls < MaxCalls /\ \A t \in Threads : at[t] = "out"
    /\ root' = r /\ calls' = calls + 1
    /\ n_threads' = Width[r] /\ tid' = 0
    /\ at' = [t \in Threads |-> IF t < Width[r] THEN "critical" ELSE "out"]
    /\ bound' = [t \in Threads |-> IF t < n_threads THEN bound[t] ELSE bound[0]]
    /\ UNCHANGED lock

\* Slip: no critical section around the use of tid.
EnterUnlocked(t) ==
    /\ at[t] = "critical"
    /\ lock' = t
    /\ tid' = t
    /\ at' = [at EXCEPT ![t] = "bind"]
    /\ UNCHANGED <<root, calls, n_threads, bound>>

(* The critical section is granted and tid is set ...                      *)
Enter(t) ==
    /\ at[t] = "critical"
    /\ lock = N /\ lock' = t
    /\ tid' = t
    /\ at' = [at EXCEPT ![t] = "bind"]
    /\ UNCHANGED <<root, calls, n_threads, bound>>

(* ... and read again to find the leaf.  When the system refuses the       *)
(* binding roofline_hwloc_cpubind() says so and the thread goes on.        *)
Bind(t) ==
    /\ at[t] = "bind"
    /\ bound' = IF Leaf[root][tid] \in CanBind
                THEN [bound EXCEPT ![t] = Leaf[root][tid]] ELSE bound
    /\ lock' = N
    /\ at' = [at EXCEPT ![t] = "end"]
    /\ UNCHANGED <<root, calls, n_threads, tid>>

(* The barrier that ends the region.                                       *)
Return ==
    /\ Team # {} /\ \A t \in Team : at[t] = "end"
    /\ at' = [t \in Threads |-> "out"]
    /\ UNCHANGED <<root, calls, n_threads, tid, lock, bound>>

RootDone == calls = MaxCalls /\ (\A t \in Threads : at[t] = "out") /\ UNCHANGED rootVars

RootNext == \/ \E r \in Roots : CallSetRoot(r)
        \/ \E t \in Threads : Enter(t) \/ Bind(t)
        \/ Return \/ RootDone

RootSpec == RootInit /\ [][RootNext]_rootVars

-----------------------------------------------------------------------------
RootTypeOK ==
    /\ root \in Roots /\ calls \in 0 .. MaxCalls
    /\ n_threads \in 1 .. N /\ tid \in Threads /\ lock \in 0 .. N
    /\ bound \in [Threads -> Leaves \cup {Unbound}]
    /\ at \in [Threads -> {"out", "critical", "bind", "end"}]

(* Once it has bound itself, every thread of the team is on the leaf of    *)
(* its number below the current root: never on the leaf of another, and    *)
(* never on the one the root before gave it.  Of a thread that the system  *)
(* refused nothing is said: it is where it was before.                     *)
Settled == {t \in Team : at[t] = "end" \/ (at[t] = "out" /\ calls > 0)}
BoundToOwnLeaf ==
    \A t \in Settled : Leaf[root][t] \in CanBind => bound[t] = Leaf[root][t]
=============================================================================
