---------------------------- MODULE DriverProofs ----------------------------
(***************************************************************************)
(* What the program runs, for every machine and whatever the options: the  *)
(* walk over the memories goes through the hierarchy of the first core,    *)
(* each memory once; the matrix has all its entries; buffers are on the    *)
(* nodes that are measured, results go to the group of their thread, and   *)
(* the sizes for neighbouring memories follow each other.                  *)
(*                                                                         *)
(* What is above an object, Ancestors, is a recursive function. The proofs *)
(* use its equation and the order of the numbers of the objects, in which  *)
(* a parent comes before its children. The walk, the groups and the sizes  *)
(* need a property of the machine each, Regular, OneLevel and Even, stated *)
(* where they are used: the code relies on them without a test.            *)
(***************************************************************************)
EXTENDS Driver, SetLemmas

-----------------------------------------------------------------------------
(* First and last elements.                                                *)
LEMMA FirstOfSet ==
    ASSUME NEW S, S \subseteq Nat
    PROVE  IF S = {} THEN First(S) = NULL ELSE First(S) \in S /\ \A y \in S : First(S) <= y
<1>1. ASSUME S # {} PROVE First(S) \in S /\ \A y \in S : First(S) <= y
  <2>1. \E x \in S : \A y \in S : x <= y
    BY <1>1, LeastExists
  <2> QED BY <1>1, <2>1 DEF First
<1> QED BY <1>1 DEF First

LEMMA LastOfSet ==
    ASSUME NEW S, NEW N \in Nat, S \subseteq 0 .. N
    PROVE  IF S = {} THEN Last(S) = NULL ELSE Last(S) \in S /\ \A y \in S : y <= Last(S)
<1>1. ASSUME S # {} PROVE Last(S) \in S /\ \A y \in S : y <= Last(S)
  <2>1. \E x \in S : \A y \in S : y <= x
    BY <1>1, GreatestExists
  <2> QED BY <1>1, <2>1 DEF Last
<1> QED BY <1>1 DEF Last

-----------------------------------------------------------------------------
(* The machine is a tree.  What is above an object is given by a recursive *)
(* function.  The least set that holds the parent and the parents of its   *)
(* elements solves the equation of that function, so that it has a value.  *)
OnMachine == topology \in Machines

LEMMA MachineFacts ==
    ASSUME OnMachine
    PROVE  /\ Objs \subseteq Nat /\ NULL \notin Objs
           /\ \A o \in Objs : /\ Type(o) \in Types
                              /\ Parent(o) # NULL => /\ Parent(o) \in Objs /\ Parent(o) < o
                                                     /\ Type(Parent(o)) # "NUMANODE"
BY DriverAssumption DEF OnMachine, Objs, Type, Parent

HasAbove(C, o) == /\ Parent(o) # NULL => Parent(o) \in C
                  /\ \A c \in C : Parent(c) # NULL => Parent(c) \in C
Above(o) == {a \in Objs : \A C \in SUBSET Objs : HasAbove(C, o) => a \in C}

LEMMA AboveEquation ==
    ASSUME OnMachine, NEW o \in Objs
    PROVE  Above(o) = IF Parent(o) = NULL THEN {} ELSE {Parent(o)} \cup Above(Parent(o))
<1>1. CASE Parent(o) = NULL
  <2>1. HasAbove({}, o)
    BY <1>1 DEF HasAbove
  <2> QED BY <1>1, <2>1 DEF Above
<1>2. CASE Parent(o) # NULL
  <2> DEFINE p == Parent(o)
             U == {p} \cup Above(p)
  <2>1. p \in Objs
    BY <1>2, MachineFacts
  <2>2. HasAbove(U, o)
    <3>1. ASSUME NEW c \in Above(p), Parent(c) # NULL PROVE Parent(c) \in Above(p)
      <4>1. Parent(c) \in Objs
        BY <3>1, MachineFacts DEF Above
      <4> QED BY <3>1, <4>1 DEF Above, HasAbove
    <3>2. ASSUME Parent(p) # NULL PROVE Parent(p) \in Above(p)
      <4>1. Parent(p) \in Objs
        BY <2>1, <3>2, MachineFacts
      <4> QED BY <3>2, <4>1 DEF Above, HasAbove
    <3> QED BY <3>1, <3>2 DEF HasAbove
  <2>3. U \in SUBSET Objs
    BY <2>1 DEF Above
  <2>4. Above(o) \subseteq U
    BY <2>2, <2>3 DEF Above
  <2>5. ASSUME NEW C \in SUBSET Objs, HasAbove(C, o) PROVE HasAbove(C, p) /\ p \in C
    BY <1>2, <2>5 DEF HasAbove
  <2>6. U \subseteq Above(o)
    <3>1. p \in Above(o)
      BY <2>1, <2>5 DEF Above
    <3>2. \A a \in Above(p) : a \in Above(o)
      BY <2>5 DEF Above
    <3> QED BY <3>1, <3>2
  <2> QED BY <1>2, <2>4, <2>6
<1> QED BY <1>1, <1>2

LEMMA AncestorsEquation ==
    ASSUME OnMachine, NEW o \in Objs
    PROVE  Ancestors(o) = IF Parent(o) = NULL THEN {} ELSE {Parent(o)} \cup Ancestors(Parent(o))
<1> DEFINE Solves(g) == g = [x \in Objs |-> IF Parent(x) = NULL THEN {} ELSE {Parent(x)} \cup g[Parent(x)]]
           s == CHOOSE g : Solves(g)
           h == [x \in Objs |-> Above(x)]
<1>1. Solves(h)
  <2>1. \A x \in Objs : Above(x) = IF Parent(x) = NULL THEN {} ELSE {Parent(x)} \cup h[Parent(x)]
    <3> SUFFICES ASSUME NEW x \in Objs
                 PROVE  Above(x) = IF Parent(x) = NULL THEN {} ELSE {Parent(x)} \cup h[Parent(x)]
      OBVIOUS
    <3>1. Parent(x) # NULL => h[Parent(x)] = Above(Parent(x))
      BY MachineFacts
    <3> HIDE DEF h
    <3> QED BY <3>1, AboveEquation
  <2>2. h = [x \in Objs |-> Above(x)]
    OBVIOUS
  <2> HIDE DEF h
  <2> QED BY <2>1, <2>2
<1>2. Solves(s)
  <2>1. \E g : Solves(g)
    BY <1>1
  <2> HIDE DEF Solves
  <2> QED BY <2>1
<1>3. \A x : Ancestors(x) = s[x]
  BY DEF Ancestors
<1> HIDE DEF s
<1>4. s[o] = IF Parent(o) = NULL THEN {} ELSE {Parent(o)} \cup s[Parent(o)]
  BY <1>2
<1> QED BY <1>3, <1>4

LEMMA AncestorsSmaller ==
    ASSUME OnMachine PROVE \A o \in Objs : \A a \in Ancestors(o) : a \in Objs /\ a < o
<1> DEFINE Bad == {o \in Objs : ~ \A a \in Ancestors(o) : a \in Objs /\ a < o}
<1> SUFFICES ASSUME Bad # {} PROVE FALSE
  OBVIOUS
<1>1. PICK o \in Bad : \A y \in Bad : o <= y
  <2>1. Bad \subseteq Nat
    BY MachineFacts
  <2> HIDE DEF Bad
  <2> QED BY <2>1, LeastExists
<1>2. PICK a \in Ancestors(o) : ~(a \in Objs /\ a < o)
  BY <1>1
<1>3. o \in Objs /\ o \in Nat
  BY <1>1, MachineFacts
<1>4. Parent(o) # NULL /\ (a = Parent(o) \/ a \in Ancestors(Parent(o)))
  BY <1>2, <1>3, AncestorsEquation
<1>5. Parent(o) \in Objs /\ Parent(o) < o /\ Parent(o) \in Nat
  BY <1>3, <1>4, MachineFacts
<1>6. Parent(o) \notin Bad
  BY <1>1, <1>3, <1>5
<1>7. a \in Ancestors(Parent(o)) => a \in Objs /\ a < Parent(o) /\ a \in Nat
  BY <1>5, <1>6, MachineFacts
<1> QED BY <1>2, <1>3, <1>4, <1>5, <1>7

(* The objects above one stand in a chain.                                 *)
LEMMA AncestorsChain ==
    ASSUME OnMachine
    PROVE  \A o \in Objs : \A a, b \in Ancestors(o) : b < a <=> b \in Ancestors(a)
<1> DEFINE Bad == {o \in Objs : ~ \A a, b \in Ancestors(o) : b < a <=> b \in Ancestors(a)}
<1> SUFFICES ASSUME Bad # {} PROVE FALSE
  OBVIOUS
<1>1. PICK o \in Bad : \A y \in Bad : o <= y
  <2>1. Bad \subseteq Nat
    BY MachineFacts
  <2> HIDE DEF Bad
  <2> QED BY <2>1, LeastExists
<1>2. PICK a \in Ancestors(o), b \in Ancestors(o) : ~(b < a <=> b \in Ancestors(a))
  BY <1>1
<1>3. o \in Objs /\ o \in Nat
  BY <1>1, MachineFacts
<1> DEFINE p == Parent(o)
<1>4. p # NULL /\ a \in {p} \cup Ancestors(p) /\ b \in {p} \cup Ancestors(p)
  BY <1>2, <1>3, AncestorsEquation
<1>5. p \in Objs /\ p < o /\ p \in Nat
  BY <1>3, <1>4, MachineFacts
<1> HIDE DEF p
<1>6. \A c, d \in Ancestors(p) : d < c <=> d \in Ancestors(c)
  BY <1>1, <1>3, <1>5
<1>7. \A c \in Ancestors(p) : c \in Objs /\ c < p /\ c \in Nat
  BY <1>5, AncestorsSmaller, MachineFacts
<1>8. \A c \in Ancestors(p) : p \notin Ancestors(c)
  <2> SUFFICES ASSUME NEW c \in Ancestors(p), p \in Ancestors(c) PROVE FALSE
    OBVIOUS
  <2>1. c \in Nat /\ c < p /\ p < c
    BY <1>7, AncestorsSmaller
  <2> QED BY <1>5, <2>1
<1>9. p \notin Ancestors(p)
  BY <1>5, <1>7
<1> QED BY <1>2, <1>4, <1>5, <1>6, <1>7, <1>8, <1>9

LEMMA AboveAbove ==
    ASSUME OnMachine
    PROVE  \A o \in Objs : \A a \in Ancestors(o) : Type(a) # "NUMANODE" /\ Ancestors(a) \subseteq Ancestors(o)
<1> DEFINE Fine(o, a) == Type(a) # "NUMANODE" /\ Ancestors(a) \subseteq Ancestors(o)
           Bad == {o \in Objs : ~ \A a \in Ancestors(o) : Fine(o, a)}
<1> SUFFICES ASSUME Bad # {} PROVE FALSE
  OBVIOUS
<1>1. PICK o \in Bad : \A y \in Bad : o <= y
  <2>1. Bad \subseteq Nat
    BY MachineFacts
  <2> HIDE DEF Bad
  <2> QED BY <2>1, LeastExists
<1>2. PICK a \in Ancestors(o) : ~Fine(o, a)
  BY <1>1
<1>3. o \in Objs /\ o \in Nat
  BY <1>1, MachineFacts
<1> DEFINE p == Parent(o)
<1>4. p # NULL /\ Ancestors(o) = {p} \cup Ancestors(p)
  BY <1>2, <1>3, AncestorsEquation
<1>5. p \in Objs /\ p < o /\ p \in Nat /\ Type(p) # "NUMANODE"
  BY <1>3, <1>4, MachineFacts
<1> HIDE DEF p
<1>6. \A c \in Ancestors(p) : Fine(p, c)
  BY <1>1, <1>3, <1>5
<1> QED BY <1>2, <1>4, <1>5, <1>6

LEMMA Inherited ==
    ASSUME OnMachine, NEW o \in Objs, NEW a \in Ancestors(o)
    PROVE  a \in Objs /\ Ancestors(a) = {b \in Ancestors(o) : b < a} /\ Type(a) # "NUMANODE"
<1>1. a \in Objs
  BY AncestorsSmaller
<1>2. \A b \in Ancestors(a) : b \in Ancestors(o) /\ b < a
  BY <1>1, AncestorsSmaller, AboveAbove
<1> QED BY <1>1, <1>2, AncestorsChain, AboveAbove

-----------------------------------------------------------------------------
(* The options keep their form: only the list changes, to its memories.    *)
Asked == [types : SUBSET (CacheOps \cup NTOps \cup FlopOps), oi : Int \X (Nat \ {0}),
          up : BOOLEAN, src : Objs, given : BOOLEAN, list : Seq(Objs), matrix : BOOLEAN,
          policy : {"firsttouch", "firsttouch_HBM", "interleave", "interleave_DDR", "interleave_HBM"}]

OptionsInv == OnMachine /\ opts \in Asked

LEMMA MemoriesOfList ==
    ASSUME NEW list \in Seq(Objs)
    PROVE  /\ Memories(list) \in Seq(Objs)
           /\ \A j \in DOMAIN Memories(list) : IsMemory(Memories(list)[j])
<1> DEFINE kept == {i \in DOMAIN list : IsMemory(list[i])}
           n    == Cardinality(kept)
<1>1. DOMAIN list = 1 .. Len(list) /\ Len(list) \in Nat
  OBVIOUS
<1>2. IsFiniteSet(kept) /\ kept \subseteq Nat /\ n \in Nat
  <2>1. kept \subseteq 1 .. Len(list)
    BY <1>1
  <2>2. IsFiniteSet(1 .. Len(list))
    BY <1>1, FS_Interval
  <2>3. IsFiniteSet(kept)
    BY <2>1, <2>2, FS_Subset
  <2> QED BY <1>1, <2>1, <2>3, FS_CardinalityType
<1>3. \A j \in 1 .. n : Ascending(kept)[j] \in kept
  <2> HIDE DEF kept
  <2> QED BY <1>2, AscendingGoesThrough
<1>4. Memories(list) = [j \in 1 .. n |-> list[Ascending(kept)[j]]]
  BY DEF Memories
<1>5. \A j \in 1 .. n : list[Ascending(kept)[j]] \in Objs /\ IsMemory(list[Ascending(kept)[j]])
  BY <1>1, <1>3
<1> HIDE DEF n, kept
<1> QED BY <1>2, <1>4, <1>5

LEMMA OptionsKept == OptionsInv /\ [Next]_vars => OptionsInv'
<1> SUFFICES ASSUME OptionsInv, [Next]_vars PROVE OptionsInv'
  OBVIOUS
<1>1. CASE LibInit
  <2>1. topology' = topology
    BY <1>1 DEF LibInit
  <2>2. opts' = [opts EXCEPT !.list = Memories(@)]
    BY <1>1 DEF LibInit
  <2>3. Memories(opts.list) \in Seq(Objs)
    BY MemoriesOfList DEF OptionsInv, Asked
  <2>4. opts' \in Asked
    BY <2>2, <2>3 DEF OptionsInv, Asked
  <2>5. Asked' = Asked
    BY <2>1 DEF Asked, Objs
  <2> QED BY <2>1, <2>4, <2>5 DEF OptionsInv, OnMachine
<1>2. CASE UNCHANGED <<topology, opts>>
  BY <1>2 DEF OptionsInv, OnMachine, Asked, Objs
<1>3. [Next]_vars => LibInit \/ UNCHANGED <<topology, opts>>
  BY DEF Next, vars, BenchFlops, WalkStep, EndWalk, ListStep, EndList, MatrixStep, EndMatrix, Exit
<1> QED BY <1>1, <1>2, <1>3

-----------------------------------------------------------------------------
(* Rounding goes up or down by at most a half, and a quotient of more than *)
(* a half becomes at least one.                                            *)
LEMMA Rounding ==
    ASSUME NEW A \in Nat, NEW q \in Nat \ {0}, 2 * A > q
    PROVE  LET got == Round(A, q) * q
           IN /\ Round(A, q) \in Nat \ {0} /\ got \in Nat /\ got >= q
              /\ got < 2 * A /\ 2 * got <= 2 * A + q /\ 2 * A <= 2 * got + q
<1> DEFINE N == 2 * A + q
           D == 2 * q
           F == Round(A, q)
           P == F * q
<1>1. N \in Nat /\ D \in Nat \ {0} /\ F = N \div D
  BY DEF Round
<1>2. F \in Int /\ D * F <= N /\ N < D * (F + 1)
  <2> HIDE DEF N, D, F
  <2> QED BY <1>1
<1>3. P \in Int /\ D * F = 2 * P /\ D * (F + 1) = 2 * P + 2 * q
  <2> HIDE DEF F
  <2> QED BY <1>2
<1>4. F >= 1
  <2>1. CASE F <= 0
    <3>1. D * (F + 1) <= D
      <4> HIDE DEF D, F
      <4> QED BY <1>1, <1>2, <2>1
    <3> HIDE DEF F
    <3> QED BY <1>2, <3>1
  <2> HIDE DEF F
  <2> QED BY <1>2, <2>1
<1>5. P >= q
  <2> HIDE DEF F
  <2> QED BY <1>2, <1>4
<1> HIDE DEF F, P
<1>6. 2 * P <= 2 * A + q /\ 2 * A < 2 * P + q
  BY <1>2, <1>3
<1>7. /\ F \in Nat \ {0} /\ P \in Nat /\ P >= q
      /\ P < 2 * A /\ 2 * P <= 2 * A + q /\ 2 * A <= 2 * P + q
  BY <1>2, <1>3, <1>4, <1>5, <1>6
<1> QED BY <1>7 DEF F, P

(* A number below UINT keeps its value as an unsigned.                     *)
LEMMA Fits == ASSUME NEW n \in Nat, n < UINT PROVE ToUnsigned(n) = n
<1>1. UINT \in Nat /\ UINT >= 2
  BY DriverAssumption
<1>2. 2 * UINT <= UINT * UINT
  BY <1>1
<1>3. n % UINT = n
  BY <1>1
<1> QED BY <1>1, <1>2, <1>3 DEF ToUnsigned

-----------------------------------------------------------------------------
(* Orders of objects: the first of a set, the next cousin, the nearest of  *)
(* the objects above.                                                      *)
LEMMA FirstObject ==
    ASSUME OnMachine, NEW S, S \subseteq Objs
    PROVE  /\ First(S) = NULL <=> S = {}
           /\ S # {} => First(S) \in S /\ First(S) \in Nat /\ \A y \in S : First(S) <= y
<1>1. S \subseteq Nat /\ NULL \notin S
  BY MachineFacts
<1> QED BY <1>1, FirstOfSet

LEMMA CousinAfter ==
    ASSUME OnMachine, NEW t, NEW o \in Cousins(t)
    PROVE  /\ NextCousin(o) = NULL <=> \A y \in Cousins(t) : y <= o
           /\ NextCousin(o) # NULL =>
                /\ NextCousin(o) \in Cousins(t) /\ o < NextCousin(o)
                /\ \A y \in Cousins(t) : y > o => NextCousin(o) <= y
<1> DEFINE S == {x \in Cousins(t) : x > o}
<1>1. Cousins(t) \subseteq Objs /\ Cousins(t) \subseteq Nat /\ Type(o) = t
  BY MachineFacts DEF Cousins
<1>2. NextCousin(o) = First(S)
  BY <1>1 DEF NextCousin
<1>3. /\ First(S) = NULL <=> S = {}
      /\ S # {} => First(S) \in S /\ First(S) \in Nat /\ \A y \in S : First(S) <= y
  <2>1. S \subseteq Objs
    BY <1>1
  <2> HIDE DEF S
  <2> QED BY <2>1, FirstObject
<1>4. S = {} <=> \A y \in Cousins(t) : y <= o
  BY <1>1
<1>5. S # {} => First(S) \in Cousins(t) /\ First(S) > o /\ \A y \in Cousins(t) : y > o => First(S) <= y
  BY <1>3
<1> HIDE DEF S
<1> QED BY <1>1, <1>2, <1>3, <1>4, <1>5

LEMMA NearestAbove ==
    ASSUME OnMachine, NEW o \in Objs, NEW S, S \subseteq Ancestors(o)
    PROVE  /\ Last(S) = NULL <=> S = {}
           /\ S # {} => Last(S) \in S /\ Last(S) \in Nat /\ \A y \in S : y <= Last(S)
<1>1. o \in Nat /\ S \subseteq 0 .. o /\ NULL \notin S /\ S \subseteq Nat
  <2>1. \A y \in S : y \in Objs /\ y < o
    BY AncestorsSmaller
  <2> QED BY <2>1, MachineFacts
<1> QED BY <1>1, LastOfSet

-----------------------------------------------------------------------------
(* What is run for a memory.                                               *)
LEMMA RunsForMemory ==
    ASSUME NEW r, NEW m
    PROVE  /\ \A b \in Benchmarks(r, m) : b.root = r /\ b.mem = m
           /\ OptionsInv /\ NoFilter /\ m \in Objs /\ IsMemory(m) => Benchmarks(r, m) # {}
<1>1. \A b \in Benchmarks(r, m) : b.root = r /\ b.mem = m
  BY DEF Benchmarks
<1>2. ASSUME OptionsInv, NoFilter, m \in Objs, IsMemory(m) PROVE Benchmarks(r, m) # {}
  <2>1. MemTypes(m) = DefaultTypes(m) /\ Plain
    BY <1>2 DEF NoFilter, MemTypes
  <2>2. "LOAD" \in DefaultTypes(m)
    <3>1. Type(m) \in {"L1", "L2", "L3", "NUMANODE"}
      BY <1>2 DEF IsMemory, IsCache, Caches
    <3> QED BY <3>1, DriverAssumption DEF DefaultTypes
  <2>3. "LOAD" \in FilterTypes(m, MemTypes(m))
    <3>1. IsCache(m) \/ Depth(m) <= NumaDepth
      BY <1>2 DEF IsMemory, Depth, NumaDepth
    <3> QED BY <2>1, <2>2, <3>1, DriverAssumption DEF FilterTypes, CacheOps
  <2> QED BY <2>1, <2>2, <2>3 DEF Benchmarks
<1> QED BY <1>1, <1>2

-----------------------------------------------------------------------------
(* The matrix: before the node n of cluster c come the clusters before c,  *)
(* and the nodes of c up to n.                                             *)
Groups == Cousins("GROUP")
Nodes  == Cousins("NUMANODE")
Before(c, n) == {x \in Groups \X Nodes : x[1] < c \/ (x[1] = c /\ x[2] <= n)}
Entries == IF mem = NULL THEN {} ELSE Before(root, mem)

LEMMA MatrixOrder ==
    ASSUME OnMachine, mem # NULL => mem \in Nodes /\ root \in Groups
    PROVE  /\ Cluster = NULL => Entries = Groups \X Nodes
           /\ Cluster \in Objs /\ Node \in Objs =>
                /\ Cluster \in Groups /\ Node \in Nodes
                /\ <<Cluster, Node>> \notin Entries
                /\ Before(Cluster, Node) = Entries \cup {<<Cluster, Node>>}
<1> DEFINE c == Cluster
           n == Node
<1>1. Groups \subseteq Objs /\ Nodes \subseteq Objs /\ Groups \subseteq Nat /\ Nodes \subseteq Nat /\ NULL \notin Objs
  BY MachineFacts DEF Groups, Nodes, Cousins
<1>2. /\ First(Groups) = NULL <=> Groups = {}
      /\ Groups # {} => First(Groups) \in Groups /\ \A y \in Groups : First(Groups) <= y
  BY <1>1, FirstObject
<1>3. /\ Node0 = NULL <=> Nodes = {}
      /\ Nodes # {} => Node0 \in Nodes /\ \A y \in Nodes : Node0 <= y
  BY <1>1, FirstObject DEF Node0, Nodes
<1>4. CASE mem = NULL
  <2>1. c = First(Groups) /\ n = Node0 /\ Entries = {}
    BY <1>4 DEF Cluster, Node, Groups, Entries
  <2>2. c = NULL => Groups \X Nodes = {}
    BY <1>2, <2>1
  <2>3. ASSUME c \in Objs, n \in Objs
        PROVE  c \in Groups /\ n \in Nodes /\ Before(c, n) = {<<c, n>>}
    <3>1. c \in Groups /\ n \in Nodes
      BY <1>1, <1>2, <1>3, <2>1, <2>3
    <3>2. \A a \in Groups : ~(a < c) /\ (a = c \/ a > c)
      BY <1>1, <1>2, <2>1, <3>1
    <3>3. \A b \in Nodes : b <= n => b = n
      BY <1>1, <1>3, <2>1, <3>1
    <3>4. n <= n
      BY <1>1, <3>1
    <3> HIDE DEF c, n
    <3> QED BY <3>1, <3>2, <3>3, <3>4 DEF Before
  <2> QED BY <2>1, <2>2, <2>3
<1>5. CASE mem # NULL /\ NextCousin(mem) = NULL
  <2>1. c = NextCousin(root) /\ n = Node0 /\ Entries = Before(root, mem)
    BY <1>5 DEF Cluster, Node, Entries
  <2>2. mem \in Nodes /\ root \in Groups /\ \A b \in Nodes : b <= mem
    BY <1>5, CousinAfter DEF Nodes
  <2>3. /\ c = NULL <=> \A a \in Groups : a <= root
        /\ c # NULL => c \in Groups /\ root < c /\ \A a \in Groups : a > root => c <= a
    BY <2>1, <2>2, CousinAfter DEF Groups
  <2>4. Node0 \in Nodes /\ \A b \in Nodes : Node0 <= b
    BY <1>3, <2>2
  <2>5. root \in Nat /\ mem \in Nat /\ n \in Nat /\ (c # NULL => c \in Nat)
    BY <1>1, <2>1, <2>2, <2>3, <2>4
  <2> HIDE DEF c, n
  <2>6. c = NULL => \A a \in Groups : a < root \/ a = root
    BY <1>1, <2>3, <2>5
  <2>7. \A b \in Nodes : b <= n <=> b = n
    BY <1>1, <2>1, <2>4, <2>5
  <2>8. c # NULL => \A a \in Groups : /\ a < c <=> (a < root \/ a = root)
                                      /\ a = c => ~(a < root \/ a = root)
    BY <1>1, <2>3, <2>5
  <2>9. c = NULL => Entries = Groups \X Nodes
    BY <2>1, <2>2, <2>6 DEF Before
  <2>10. Entries = {x \in Groups \X Nodes : x[1] < root \/ x[1] = root}
    BY <2>1, <2>2 DEF Before
  <2>11. ASSUME c # NULL PROVE Before(c, n) = Entries \cup {<<c, n>>} /\ <<c, n>> \notin Entries
    <3>1. c \in Groups /\ n \in Nodes
      BY <2>1, <2>3, <2>4, <2>11
    <3> QED BY <2>7, <2>8, <2>10, <2>11, <3>1 DEF Before
  <2> QED BY <1>1, <2>1, <2>3, <2>4, <2>9, <2>11 DEF c, n
<1>6. CASE mem # NULL /\ NextCousin(mem) # NULL
  <2>1. c = root /\ n = NextCousin(mem) /\ Entries = Before(root, mem)
    BY <1>6 DEF Cluster, Node, Entries
  <2>2. mem \in Nodes /\ root \in Groups
    BY <1>6
  <2>3. n \in Nodes /\ mem < n /\ \A b \in Nodes : b > mem => n <= b
    BY <1>6, <2>1, <2>2, CousinAfter DEF Nodes
  <2>4. root \in Nat /\ mem \in Nat /\ n \in Nat /\ root # NULL
    BY <1>1, <2>2, <2>3
  <2> HIDE DEF n
  <2>5. \A b \in Nodes : b <= n <=> (b <= mem \/ b = n)
    BY <1>1, <2>3, <2>4
  <2>6. ~(n <= mem) /\ ~(root < root)
    BY <2>3, <2>4
  <2>7. Before(root, n) = Before(root, mem) \cup {<<root, n>>} /\ <<root, n>> \notin Before(root, mem)
    BY <2>2, <2>3, <2>5, <2>6 DEF Before
  <2> QED BY <2>1, <2>2, <2>3, <2>4, <2>7 DEF n
<1> QED BY <1>4, <1>5, <1>6

-----------------------------------------------------------------------------
(* The walk.  It reaches everything on a machine whose memory is at one    *)
(* level: one object above the first cache holds NUMA nodes, the first of  *)
(* the machine among them, it is not a cache itself, the caches above the  *)
(* last node of the machine are the ones above this object, and the first  *)
(* core has no cache below the first L1.                                   *)
CachesAbove(o) == {a \in Ancestors(o) : IsCache(a)}
Holder == Parent(Node0)

Regular ==
    /\ FirstMemory # NULL /\ Nodes # {}
    /\ CachesAbove(Core0) = {FirstMemory} \cup CachesAbove(FirstMemory)
    /\ Holder \in Ancestors(FirstMemory) /\ ~IsCache(Holder)
    /\ \A a \in Ancestors(FirstMemory) : MemoryChildren(a) # {} => a = Holder
    /\ \A n \in Nodes : NextCousin(n) = NULL => CachesAbove(n) = CachesAbove(Holder)

(* What the walk has measured when m was the last: the caches below the    *)
(* nodes up to m; all of these and the nodes up to m; all of these, all    *)
(* nodes and the caches above them up to m.                                *)
OnWay == {FirstMemory} \cup CachesAbove(FirstMemory)
Passed(m) ==
    IF m \in Nodes THEN {c \in OnWay : c > Holder} \cup {n \in Nodes : n <= m}
    ELSE {c \in OnWay : c >= m} \cup (IF m < Holder THEN Nodes ELSE {})

LEMMA OnTheWay ==
    ASSUME OnMachine, Regular
    PROVE  /\ FirstMemory \in Objs /\ FirstMemory \in Nat /\ FirstMemory \in OnWay
           /\ Hierarchy = OnWay \cup Nodes
           /\ \A c \in OnWay : /\ c \in Objs /\ c \in Nat /\ c # NULL /\ c <= FirstMemory
                               /\ IsCache(c) /\ c \notin Nodes /\ c # Holder
           /\ \A n \in Nodes : n \in Objs /\ n \in Nat /\ n # NULL
           /\ Holder \in Nat /\ Holder \in Objs /\ Holder < FirstMemory
<1>1. Cousins("L1") \subseteq Objs
  BY DEF Cousins
<1>2. FirstMemory \in Cousins("L1") /\ FirstMemory \in Nat
  BY <1>1, FirstObject DEF Regular, FirstMemory
<1>3. FirstMemory \in Objs /\ Type(FirstMemory) = "L1"
  BY <1>2 DEF Cousins
<1>4. IsCache(FirstMemory)
  BY <1>3 DEF IsCache, Caches
<1>5. Hierarchy = OnWay \cup Nodes
  BY DEF Hierarchy, OnWay, CachesAbove, Nodes, Regular
<1>6. \A a \in Ancestors(FirstMemory) : a \in Objs /\ a \in Nat /\ a < FirstMemory
  BY <1>3, AncestorsSmaller, MachineFacts
<1>7. \A c \in Objs : IsCache(c) => c \notin Nodes /\ c # Holder /\ c # NULL
  BY MachineFacts DEF IsCache, Caches, Nodes, Cousins, Regular
<1>8. \A c \in OnWay : c \in Objs /\ c \in Nat /\ c <= FirstMemory /\ IsCache(c)
  BY <1>2, <1>3, <1>4, <1>6 DEF OnWay, CachesAbove
<1>9. Holder \in Nat /\ Holder \in Objs /\ Holder < FirstMemory
  BY <1>6 DEF Regular
<1>10. \A n \in Nodes : n \in Objs /\ n \in Nat /\ n # NULL
  BY MachineFacts DEF Nodes, Cousins
<1> QED BY <1>2, <1>3, <1>5, <1>7, <1>8, <1>9, <1>10 DEF OnWay

(* The caches above one on the way are the ones on the way before it.      *)
LEMMA AboveOnWay ==
    ASSUME OnMachine, Regular
    PROVE  /\ \A o \in OnWay : Ancestors(o) = {a \in Ancestors(FirstMemory) : a < o}
           /\ CachesAbove(Holder) = {c \in OnWay : c < Holder}
<1>1. \A a \in Ancestors(FirstMemory) : a < FirstMemory /\ a \in Nat
  BY OnTheWay, AncestorsSmaller, MachineFacts
<1>2. \A a \in Ancestors(FirstMemory) : Ancestors(a) = {b \in Ancestors(FirstMemory) : b < a}
  BY OnTheWay, Inherited
<1>3. Holder \in Ancestors(FirstMemory) /\ ~(FirstMemory < Holder)
  <2>1. Holder < FirstMemory /\ Holder \in Nat /\ FirstMemory \in Nat
    BY OnTheWay
  <2> QED BY <2>1 DEF Regular
<1>4. CachesAbove(Holder) = {c \in OnWay : c < Holder}
  BY <1>2, <1>3 DEF CachesAbove, OnWay
<1>5. Ancestors(FirstMemory) = {b \in Ancestors(FirstMemory) : b < FirstMemory}
  BY <1>1
<1>6. \A o \in OnWay : o = FirstMemory \/ o \in Ancestors(FirstMemory)
  BY DEF OnWay, CachesAbove
<1> QED BY <1>2, <1>4, <1>5, <1>6

LEMMA FirstStep ==
    ASSUME OnMachine, Regular
    PROVE  NextMemory(NULL) = FirstMemory /\ FirstMemory \in OnWay /\ Passed(FirstMemory) = {FirstMemory}
<1>1. FirstMemory \in OnWay /\ FirstMemory \in Nat
  BY OnTheWay DEF OnWay
<1>2. \A c \in OnWay : c >= FirstMemory <=> c = FirstMemory
  BY <1>1, OnTheWay
<1>3. FirstMemory \notin Nodes /\ ~(FirstMemory < Holder)
  BY <1>1, OnTheWay
<1> QED BY <1>1, <1>2, <1>3 DEF NextMemory, Passed

LEMMA WalkOrder ==
    ASSUME OnMachine, Regular, NEW m \in OnWay \cup Nodes
    PROVE  LET x == NextMemory(m)
           IN IF x = NULL THEN Passed(m) = OnWay \cup Nodes
              ELSE /\ x \in OnWay \cup Nodes /\ x \notin Passed(m)
                   /\ Passed(x) = Passed(m) \cup {x}
<1> DEFINE x == NextMemory(m)
           Good == IF x = NULL THEN Passed(m) = OnWay \cup Nodes
                   ELSE /\ x \in OnWay \cup Nodes /\ x \notin Passed(m)
                        /\ Passed(x) = Passed(m) \cup {x}
<1>0. /\ \A c \in OnWay : c \in Nat /\ c # NULL /\ c \notin Nodes /\ c # Holder
      /\ \A n \in Nodes : n \in Nat /\ n # NULL
      /\ Holder \in Nat
  BY OnTheWay
<1>1. m # NULL
  BY <1>0
<1>2. CASE m \in Nodes /\ NextCousin(m) # NULL
  <2>1. Type(m) = "NUMANODE"
    BY <1>2 DEF Nodes, Cousins
  <2>2. x = NextCousin(m)
    BY <1>1, <1>2, <2>1 DEF NextMemory
  <2>3. x \in Nodes /\ m < x /\ \A y \in Nodes : y > m => x <= y
    BY <1>2, <2>2, CousinAfter DEF Nodes
  <2> HIDE DEF x
  <2>4. x # NULL /\ ~(x <= m) /\ \A n \in Nodes : n <= x <=> (n <= m \/ n = x)
    BY <1>0, <1>2, <2>3
  <2>5. x \notin OnWay
    BY <1>0, <2>3
  <2>6. /\ Passed(m) = {c \in OnWay : c > Holder} \cup {n \in Nodes : n <= m}
        /\ Passed(x) = {c \in OnWay : c > Holder} \cup {n \in Nodes : n <= x}
    BY <1>2, <2>3 DEF Passed
  <2>7. Passed(x) = Passed(m) \cup {x} /\ x \notin Passed(m)
    BY <2>3, <2>4, <2>5, <2>6
  <2> QED BY <2>3, <2>4, <2>7 DEF x
<1>3. CASE m \in Nodes /\ NextCousin(m) = NULL
  <2> DEFINE S == {c \in OnWay : c < Holder}
  <2>1. Type(m) = "NUMANODE" /\ m \in Objs
    BY <1>3 DEF Nodes, Cousins
  <2>2. {a \in Ancestors(m) : IsMemory(a)} = CachesAbove(m)
    BY <2>1, AboveAbove DEF CachesAbove, IsMemory
  <2>3. CachesAbove(m) = S
    BY <1>3, AboveOnWay DEF Regular
  <2>4. x = Last(S)
    BY <1>1, <1>3, <2>1, <2>2, <2>3 DEF NextMemory
  <2>5. S \subseteq Ancestors(m)
    BY <2>3 DEF CachesAbove
  <2>6. \A c \in S : c \in OnWay /\ c < Holder
    OBVIOUS
  <2>7. \A c \in OnWay : c < Holder => c \in S
    OBVIOUS
  <2> HIDE DEF S, x
  <2>8. /\ x = NULL <=> S = {}
        /\ S # {} => x \in S /\ x \in Nat /\ \A y \in S : y <= x
    BY <2>1, <2>4, <2>5, NearestAbove
  <2>9. \A n \in Nodes : n <= m
    BY <1>3, CousinAfter DEF Nodes
  <2>10. Passed(m) = {c \in OnWay : c > Holder} \cup Nodes
    BY <1>3, <2>9 DEF Passed
  <2>11. CASE x = NULL
    <3>1. \A c \in OnWay : c > Holder
      BY <1>0, <2>7, <2>8, <2>11
    <3> QED BY <2>10, <2>11, <3>1 DEF x
  <2>12. CASE x # NULL
    <3>1. x \in OnWay /\ x < Holder
      BY <2>6, <2>8, <2>12
    <3>2. x \notin Nodes /\ ~(x > Holder)
      BY <1>0, <3>1
    <3>3. \A c \in OnWay : c >= x <=> (c > Holder \/ c = x)
      BY <1>0, <2>7, <2>8, <2>12, <3>1
    <3>4. Passed(x) = {c \in OnWay : c >= x} \cup Nodes
      BY <3>1, <3>2 DEF Passed
    <3>5. Passed(x) = Passed(m) \cup {x} /\ x \notin Passed(m)
      BY <2>10, <3>1, <3>2, <3>3, <3>4
    <3> QED BY <2>12, <3>1, <3>5 DEF x
  <2> QED BY <2>11, <2>12
<1>4. CASE m \in OnWay
  <2> DEFINE H == {h \in {Holder} : h < m}
             S == {c \in OnWay : c < m}
             up == Last(S \cup H)
  <2>1. m \in Objs /\ m \notin Nodes /\ m \in Nat /\ m # Holder /\ Type(m) # "NUMANODE" /\ m <= FirstMemory
    BY <1>4, OnTheWay DEF Nodes, Cousins
  <2>2. {a \in Ancestors(m) : IsMemory(a) \/ MemoryChildren(a) # {}} = S \cup H
    <3>1. Ancestors(m) = {a \in Ancestors(FirstMemory) : a < m}
      BY <1>4, AboveOnWay
    <3>2. \A a \in Ancestors(FirstMemory) : IsMemory(a) <=> a \in OnWay
      <4>1. \A a \in Ancestors(FirstMemory) : IsMemory(a) <=> IsCache(a)
        BY OnTheWay, AboveAbove DEF IsMemory
      <4>2. \A a \in Ancestors(FirstMemory) : IsCache(a) <=> a \in OnWay
        BY OnTheWay DEF OnWay, CachesAbove
      <4> QED BY <4>1, <4>2
    <3>3. \A a \in Ancestors(FirstMemory) : MemoryChildren(a) # {} <=> a = Holder
      <4>1. Node0 \in MemoryChildren(Holder)
        <5>1. Node0 \in Nodes
          BY FirstObject DEF Node0, Regular, Nodes, Cousins
        <5> QED BY <5>1 DEF MemoryChildren, Holder, Nodes
      <4> QED BY <4>1 DEF Regular
    <3>4. Holder \in Ancestors(FirstMemory)
      BY DEF Regular
    <3>5. \A c \in OnWay : c < m => c \in Ancestors(FirstMemory)
      <4>1. ~(FirstMemory < m)
        <5>1. FirstMemory \in Nat
          BY OnTheWay
        <5> QED BY <2>1, <5>1
      <4> QED BY <4>1 DEF OnWay, CachesAbove
    <3> QED BY <3>1, <3>2, <3>3, <3>4, <3>5
  <2>3. x = IF up = NULL \/ IsMemory(up) THEN up ELSE MemoryFirstChild(up)
    BY <1>1, <2>1, <2>2 DEF NextMemory
  <2>4. S \cup H \subseteq Ancestors(m)
    BY <2>2
  <2>5. /\ \A c \in S : c \in OnWay /\ c < m
        /\ \A c \in OnWay : c < m => c \in S
        /\ \A h \in H : h = Holder /\ Holder < m
        /\ Holder < m => Holder \in H
    OBVIOUS
  <2> HIDE DEF S, H
  <2>6. /\ up = NULL <=> S \cup H = {}
        /\ S \cup H # {} => up \in S \cup H /\ up \in Nat /\ \A y \in S \cup H : y <= up
    BY <2>1, <2>4, NearestAbove
  <2>7. \A c \in OnWay : IsMemory(c)
    BY OnTheWay DEF IsMemory
  <2> HIDE DEF up, x
  <2>8. CASE up = NULL
    <3>1. x = NULL /\ ~(Holder < m) /\ \A c \in OnWay : c >= m
      BY <1>0, <2>1, <2>3, <2>5, <2>6, <2>8
    <3>2. m < Holder
      BY <1>0, <2>1, <3>1
    <3>3. Passed(m) = OnWay \cup Nodes
      BY <2>1, <3>1, <3>2 DEF Passed
    <3> QED BY <3>1, <3>3 DEF x
  <2>9. CASE up # NULL /\ up \in OnWay
    <3>1. x = up /\ up < m /\ up \in Nat
      BY <1>0, <2>3, <2>5, <2>6, <2>7, <2>9
    <3>2. \A c \in OnWay : c >= up <=> (c >= m \/ c = up)
      BY <1>0, <2>1, <2>5, <2>6, <2>9, <3>1
    <3>3. up < Holder <=> m < Holder
      BY <1>0, <2>1, <2>5, <2>6, <2>9, <3>1
    <3>4. up \notin Nodes /\ ~(up >= m)
      BY <1>0, <2>1, <2>9, <3>1
    <3>5. Passed(up) = Passed(m) \cup {up} /\ up \notin Passed(m)
      BY <2>1, <2>9, <3>2, <3>3, <3>4 DEF Passed
    <3> QED BY <2>9, <3>1, <3>5 DEF x
  <2>10. CASE up # NULL /\ up \notin OnWay
    <3>1. up = Holder /\ Holder < m /\ \A c \in OnWay : c >= m <=> c > Holder
      BY <1>0, <2>1, <2>5, <2>6, <2>10
    <3>2. ~IsMemory(Holder)
      <4>1. Type(Holder) # "NUMANODE"
        BY OnTheWay, AboveAbove DEF Regular
      <4> QED BY <4>1 DEF IsMemory, Regular
    <3>3. x = MemoryFirstChild(Holder)
      BY <2>3, <2>10, <3>1, <3>2
    <3>4. Nodes \subseteq Objs /\ Nodes # {} /\ Node0 = First(Nodes)
      BY DEF Regular, Nodes, Cousins, Node0
    <3>5. Node0 \in Nodes /\ \A n \in Nodes : Node0 <= n
      BY <3>4, FirstObject
    <3>6. x = Node0
      <4>1. MemoryChildren(Holder) \subseteq Nodes /\ Node0 \in MemoryChildren(Holder)
        BY <3>5 DEF MemoryChildren, Holder, Nodes
      <4>2. x \in MemoryChildren(Holder) /\ \A n \in MemoryChildren(Holder) : x <= n
        <5>1. MemoryChildren(Holder) \subseteq Objs /\ MemoryChildren(Holder) # {}
          BY <3>4, <4>1
        <5> QED BY <3>3, <5>1, FirstObject DEF MemoryFirstChild
      <4> QED BY <1>0, <3>5, <4>1, <4>2
    <3>7. x \in Nodes /\ x # NULL /\ x \notin OnWay
      BY <1>0, <3>5, <3>6
    <3>8. \A n \in Nodes : n <= x <=> n = x
      BY <1>0, <3>5, <3>6
    <3>9. ~(m < Holder)
      BY <1>0, <2>1, <3>1
    <3>10. Passed(m) = {c \in OnWay : c > Holder}
      BY <2>1, <3>1, <3>9 DEF Passed
    <3>11. Passed(x) = Passed(m) \cup {x} /\ x \notin Passed(m)
      BY <3>7, <3>8, <3>10 DEF Passed
    <3> QED BY <3>7, <3>11 DEF x
  <2> QED BY <2>8, <2>9, <2>10
<1> QED BY <1>2, <1>3, <1>4

-----------------------------------------------------------------------------
(* The machine is looked at only, so that what it says stays.              *)
LEMMA SameMachine ==
    ASSUME topology' = topology
    PROVE  /\ Objs' = Objs /\ Groups' = Groups /\ Nodes' = Nodes /\ OnWay' = OnWay
           /\ Regular' = Regular /\ Hierarchy' = Hierarchy
           /\ \A o : NextCousin(o)' = NextCousin(o) /\ NextMemory(o)' = NextMemory(o)
           /\ \A o : Passed(o)' = Passed(o)
<1>1. Objs' = Objs /\ Groups' = Groups /\ Nodes' = Nodes /\ Node0' = Node0 /\ Core0' = Core0
  BY DEF Groups, Nodes, Node0, Core0, Cores, Cousins, Objs, Type
<1>2. Cousins("L1")' = Cousins("L1")
  BY DEF Cousins, Objs, Type
<1>3. FirstMemory' = FirstMemory
  BY <1>2 DEF FirstMemory
<1>4. Holder' = Holder
  BY <1>1 DEF Holder, Parent
<1>5. \A o : Ancestors(o)' = Ancestors(o)
  BY DEF Ancestors, Objs, Parent
<1>6. \A o : IsCache(o)' = IsCache(o) /\ Type(o)' = Type(o) /\ IsMemory(o)' = IsMemory(o)
  BY DEF IsCache, Type, IsMemory
<1>7. \A o : CachesAbove(o)' = CachesAbove(o)
  BY <1>5, <1>6 DEF CachesAbove
<1>8. \A o : MemoryChildren(o)' = MemoryChildren(o)
  BY DEF MemoryChildren, Cousins, Objs, Type, Parent
<1>9. \A o : NextCousin(o)' = NextCousin(o)
  BY DEF NextCousin, Cousins, Objs, Type
<1>10. OnWay' = OnWay
  BY <1>3, <1>7 DEF OnWay
<1>11. Hierarchy' = Hierarchy
  <2>1. Ancestors(Core0)' = Ancestors(Core0)
    BY <1>1, <1>5
  <2> QED BY <1>1, <1>6, <2>1 DEF Hierarchy, Nodes
<1>12. \A o : Passed(o)' = Passed(o)
  BY <1>1, <1>4, <1>10 DEF Passed
<1>13. \A o : NextMemory(o)' = NextMemory(o)
  <2> SUFFICES ASSUME NEW o PROVE NextMemory(o)' = NextMemory(o)
    OBVIOUS
  <2>1. {a \in Ancestors(o) : IsMemory(a)}' = {a \in Ancestors(o) : IsMemory(a)}
    BY <1>5, <1>6
  <2>2. {a \in Ancestors(o) : IsMemory(a) \/ MemoryChildren(a) # {}}'
          = {a \in Ancestors(o) : IsMemory(a) \/ MemoryChildren(a) # {}}
    BY <1>5, <1>6, <1>8
  <2>3. \A a : MemoryFirstChild(a)' = MemoryFirstChild(a)
    BY <1>8 DEF MemoryFirstChild
  <2> QED BY <1>3, <1>6, <1>9, <2>1, <2>2, <2>3 DEF NextMemory
<1>14. Regular' = Regular
  <2>1. CachesAbove(Core0)' = CachesAbove(Core0) /\ CachesAbove(FirstMemory)' = CachesAbove(FirstMemory)
    BY <1>1, <1>3, <1>7
  <2>2. Ancestors(FirstMemory)' = Ancestors(FirstMemory) /\ IsCache(Holder)' = IsCache(Holder)
        /\ CachesAbove(Holder)' = CachesAbove(Holder)
    BY <1>3, <1>4, <1>5, <1>6, <1>7
  <2> QED BY <1>1, <1>3, <1>4, <1>7, <1>8, <1>9, <2>1, <2>2 DEF Regular
<1> QED BY <1>1, <1>9, <1>10, <1>11, <1>12, <1>13, <1>14

-----------------------------------------------------------------------------
(* The inductive invariant.  Each of the three ways to choose the memories *)
(* has measured what comes before the last one in its order, all of it     *)
(* when no benchmark was filtered out.                                     *)
Pairs == {<<r.root, r.mem>> : r \in Measured}
Seen  == {r.mem : r \in Measured}
Walked == IF mem = NULL THEN {} ELSE Passed(mem)

StartInv == /\ pc \in {"init", "flops"} => mem = NULL /\ ran = {} /\ again = {}
            /\ pc = "matrix" => opts.matrix
            /\ pc = "list" => ~opts.matrix /\ opts.given
            /\ pc = "walk" => ~opts.matrix /\ ~opts.given

MatrixInv ==
    opts.matrix =>
        /\ mem # NULL => mem \in Nodes /\ root \in Groups
        /\ Pairs \subseteq Entries /\ (NoFilter => Pairs = Entries)
        /\ pc = "exit" => Cluster = NULL
        /\ again = {}

ListInv ==
    /\ next \in Nat \ {0}
    /\ ~opts.matrix /\ opts.given =>
        /\ \A r \in Measured : \E a \in 1 .. next - 1 : opts.list[a] = r.mem
        /\ NothingTwice

WalkInv ==
    Regular /\ ~opts.matrix /\ ~opts.given =>
        /\ mem # NULL => mem \in OnWay \cup Nodes
        /\ Seen \subseteq Walked /\ (NoFilter => Seen = Walked)
        /\ pc = "exit" => NextMemory(mem) = NULL
        /\ again = {}

DriverInv == OptionsInv /\ StartInv /\ MatrixInv /\ ListInv /\ WalkInv

LEMMA DriverStarts == Init => DriverInv
<1> SUFFICES ASSUME Init PROVE DriverInv
  OBVIOUS
<1>1. OptionsInv
  <2>1. topology \in Machines /\ opts \in Options(topology)
    BY DEF Init
  <2> QED BY <2>1, DriverAssumption DEF OptionsInv, OnMachine, Asked, Objs
<1>2. Measured = {} /\ Pairs = {} /\ Seen = {} /\ mem = NULL /\ ran = {} /\ again = {} /\ next = 1 /\ pc = "init"
  BY DEF Init, Measured, Pairs, Seen
<1>3. StartInv
  BY <1>2 DEF StartInv
<1>4. MatrixInv
  BY <1>2 DEF MatrixInv, Entries
<1>5. ListInv
  BY <1>2 DEF ListInv, NothingTwice
<1>6. WalkInv
  BY <1>2 DEF WalkInv, Walked
<1> QED BY <1>1, <1>3, <1>4, <1>5, <1>6 DEF DriverInv

(* The benchmarks of one more memory.                                      *)
LEMMA OneMore ==
    ASSUME NEW r, NEW m, m # NULL, NEW R
    PROVE  {x \in R \cup Benchmarks(r, m) : x.mem # NULL} = {x \in R : x.mem # NULL} \cup Benchmarks(r, m)
BY RunsForMemory

LEMMA DriverStep == DriverInv /\ [Next]_vars => DriverInv'
<1> SUFFICES ASSUME DriverInv, [Next]_vars PROVE DriverInv'
  OBVIOUS
<1> USE DEF DriverInv
<1>0. OptionsInv'
  BY OptionsKept
<1>1. CASE LibInit
  <2>1. /\ topology' = topology /\ mem' = mem /\ next' = next /\ ran' = ran /\ again' = again
        /\ pc = "init" /\ pc' = "flops" /\ opts' = [opts EXCEPT !.list = Memories(@)]
    BY <1>1 DEF LibInit
  <2>2. mem' = NULL /\ ran' = {} /\ again' = {}
    BY <2>1 DEF StartInv
  <2>3. Measured' = {} /\ Pairs' = {} /\ Seen' = {}
    BY <2>2 DEF Measured, Pairs, Seen
  <2>4. StartInv'
    BY <2>1, <2>2 DEF StartInv
  <2>5. MatrixInv'
    BY <2>1, <2>2, <2>3 DEF MatrixInv, Entries
  <2>6. ListInv'
    BY <2>1, <2>2, <2>3 DEF ListInv, NothingTwice
  <2>7. WalkInv'
    BY <2>1, <2>2, <2>3 DEF WalkInv, Walked
  <2> QED BY <1>0, <2>4, <2>5, <2>6, <2>7
<1>2. CASE BenchFlops
  <2>1. /\ topology' = topology /\ mem' = mem /\ next' = next /\ opts' = opts /\ root' = root
        /\ pc = "flops" /\ pc' = IF opts.matrix THEN "matrix" ELSE IF opts.given THEN "list" ELSE "walk"
    BY <1>2 DEF BenchFlops
  <2>2. PICK types : Log({[root |-> root, mem |-> NULL, op |-> <<t>>] : t \in types})
    BY <1>2 DEF BenchFlops
  <2>3. mem = NULL /\ ran = {} /\ again = {}
    BY <2>1 DEF StartInv
  <2>4. again' = {} /\ ran' = {[root |-> root, mem |-> NULL, op |-> <<t>>] : t \in types}
    BY <2>2, <2>3 DEF Log
  <2>5. Measured' = {}
    BY <2>4 DEF Measured
  <2>6. Pairs' = {} /\ Seen' = {}
    BY <2>5 DEF Pairs, Seen
  <2>7. StartInv'
    BY <2>1, <1>0 DEF StartInv, OptionsInv, Asked
  <2>8. MatrixInv'
    BY <2>1, <2>3, <2>4, <2>6 DEF MatrixInv, Entries
  <2>9. ListInv'
    BY <2>1, <2>4, <2>5 DEF ListInv, NothingTwice
  <2>10. WalkInv'
    BY <2>1, <2>3, <2>4, <2>6 DEF WalkInv, Walked
  <2> QED BY <1>0, <2>7, <2>8, <2>9, <2>10
<1>3. CASE WalkStep
  <2>1. topology' = topology /\ opts' = opts /\ root' = root /\ next' = next /\ pc = "walk" /\ pc' = "walk"
    BY <1>3 DEF WalkStep
  <2>2. PICK m \in Objs : m = NextMemory(mem) /\ BenchMemory(root, m)
    BY <1>3 DEF WalkStep
  <2>3. /\ mem' = m /\ ran' = ran \cup Benchmarks(root, m)
        /\ again' = again \cup (ran \cap Benchmarks(root, m))
    BY <2>2 DEF BenchMemory, Log
  <2>4. ~opts.matrix /\ ~opts.given /\ m # NULL /\ OnMachine
    BY <2>1, MachineFacts DEF StartInv, OptionsInv
  <2>5. Measured' = Measured \cup Benchmarks(root, m)
    BY <2>3, <2>4, OneMore DEF Measured
  <2>6. StartInv' /\ MatrixInv' /\ ListInv'
    BY <2>1, <2>4 DEF StartInv, MatrixInv, ListInv
  <2>7. WalkInv'
    <3> SUFFICES ASSUME Regular' PROVE
          /\ m \in OnWay \cup Nodes
          /\ Seen' \subseteq Passed(m) /\ (NoFilter => Seen' = Passed(m))
          /\ again' = {}
      BY <2>1, <2>3, <2>4, SameMachine DEF WalkInv, Walked, NoFilter, Plain
    <3>1. Regular
      BY <2>1, SameMachine
    <3>2. /\ mem # NULL => mem \in OnWay \cup Nodes
          /\ Seen \subseteq Walked /\ (NoFilter => Seen = Walked)
          /\ again = {}
      BY <2>4, <3>1 DEF WalkInv
    <3>3. m \in OnWay \cup Nodes /\ m \notin Walked /\ Passed(m) = Walked \cup {m}
      BY <2>2, <2>4, <3>1, <3>2, FirstStep, WalkOrder DEF Walked
    <3>4. m \in Objs /\ IsMemory(m)
      BY <2>4, <3>1, <3>3, OnTheWay DEF IsMemory, Nodes, Cousins
    <3>5. /\ Seen' \subseteq Seen \cup {m}
          /\ Benchmarks(root, m) # {} => Seen' = Seen \cup {m}
      BY <2>5, RunsForMemory DEF Seen
    <3>6. NoFilter => Benchmarks(root, m) # {}
      BY <3>4, RunsForMemory
    <3>7. ran \cap Benchmarks(root, m) = {}
      <4> SUFFICES ASSUME NEW b \in ran, b \in Benchmarks(root, m) PROVE FALSE
        OBVIOUS
      <4>1. b.mem = m
        BY RunsForMemory
      <4>2. m \in Seen
        BY <2>4, <4>1 DEF Seen, Measured
      <4> QED BY <3>2, <3>3, <4>2
    <3> QED BY <2>3, <3>2, <3>3, <3>5, <3>6, <3>7
  <2> QED BY <1>0, <2>6, <2>7
<1>4. CASE ListStep
  <2>1. /\ topology' = topology /\ opts' = opts /\ next' = next + 1 /\ pc = "list" /\ pc' = "list"
        /\ next <= Len(opts.list)
    BY <1>4 DEF ListStep
  <2> DEFINE m == opts.list[next]
  <2>2. ~opts.matrix /\ opts.given /\ OnMachine /\ next \in Nat \ {0} /\ opts.list \in Seq(Objs)
    BY <2>1 DEF StartInv, OptionsInv, ListInv, Asked
  <2>3. m \in Objs /\ m # NULL
    BY <2>1, <2>2, MachineFacts
  <2>4. /\ ran' = ran \cup Benchmarks(root, m)
        /\ again' = again \cup (ran \cap Benchmarks(root, m))
    BY <1>4 DEF ListStep, BenchMemory, Log
  <2>5. m = opts.list[next]
    OBVIOUS
  <2> HIDE DEF m
  <2>6. Measured' = Measured \cup Benchmarks(root, m)
    BY <2>3, <2>4, OneMore DEF Measured
  <2>7. StartInv' /\ MatrixInv' /\ WalkInv'
    BY <2>1, <2>2 DEF StartInv, MatrixInv, WalkInv
  <2>8. \A r \in Measured : \E a \in 1 .. next - 1 : opts.list[a] = r.mem
    BY <2>2 DEF ListInv
  <2>9. next \in 1 .. next' - 1 /\ \A a \in 1 .. next - 1 : a \in 1 .. next' - 1 /\ a # next
    BY <2>1, <2>2
  <2>10. \A r \in Measured' : \E a \in 1 .. next' - 1 : opts'.list[a] = r.mem
    <3>1. \A r \in Benchmarks(root, m) : opts.list[next] = r.mem
      BY <2>5, RunsForMemory
    <3> QED BY <2>1, <2>6, <2>8, <2>9, <3>1
  <2>11. NothingTwice'
    <3> SUFFICES ASSUME again' # {}
                 PROVE  \E a, b \in 1 .. next' - 1 : a # b /\ opts.list[a] = opts.list[b]
      BY <2>1 DEF NothingTwice
    <3>1. CASE again # {}
      <4>1. PICK a, b \in 1 .. next - 1 : a # b /\ opts.list[a] = opts.list[b]
        BY <2>2, <3>1 DEF ListInv, NothingTwice
      <4> QED BY <2>9, <4>1
    <3>2. CASE again = {}
      <4>1. PICK r \in ran : r \in Benchmarks(root, m)
        BY <2>4, <3>2
      <4>2. r.mem = m /\ r \in Measured
        BY <2>3, <4>1, RunsForMemory DEF Measured
      <4>3. PICK a \in 1 .. next - 1 : opts.list[a] = m
        BY <2>8, <4>2
      <4> QED BY <2>5, <2>9, <4>3
    <3> QED BY <3>1, <3>2
  <2>12. ListInv'
    BY <2>1, <2>2, <2>10, <2>11 DEF ListInv
  <2> QED BY <1>0, <2>7, <2>12
<1>5. CASE MatrixStep
  <2>1. topology' = topology /\ opts' = opts /\ next' = next /\ pc = "matrix" /\ pc' = "matrix"
    BY <1>5 DEF MatrixStep
  <2>2. PICK c \in Objs, m \in Objs : c = Cluster /\ m = Node /\ root' = c /\ BenchMemory(c, m)
    BY <1>5 DEF MatrixStep
  <2>3. /\ mem' = m /\ ran' = ran \cup Benchmarks(c, m)
        /\ again' = again \cup (ran \cap Benchmarks(c, m))
    BY <2>2 DEF BenchMemory, Log
  <2>4. opts.matrix /\ OnMachine /\ m # NULL
    BY <2>1, <2>2, MachineFacts DEF StartInv, OptionsInv
  <2>5. Measured' = Measured \cup Benchmarks(c, m)
    BY <2>3, <2>4, OneMore DEF Measured
  <2>6. StartInv' /\ WalkInv' /\ ListInv'
    BY <2>1, <2>4 DEF StartInv, WalkInv, ListInv
  <2>7. /\ mem # NULL => mem \in Nodes /\ root \in Groups
        /\ Pairs \subseteq Entries /\ (NoFilter => Pairs = Entries) /\ again = {}
    BY <2>4 DEF MatrixInv
  <2>8. /\ c \in Groups /\ m \in Nodes /\ <<c, m>> \notin Entries
        /\ Before(c, m) = Entries \cup {<<c, m>>}
    BY <2>2, <2>4, <2>7, MatrixOrder
  <2>9. IsMemory(m)
    BY <2>8 DEF IsMemory, Nodes, Cousins
  <2>10. /\ Pairs' \subseteq Pairs \cup {<<c, m>>}
         /\ Benchmarks(c, m) # {} => Pairs' = Pairs \cup {<<c, m>>}
    BY <2>5, RunsForMemory DEF Pairs
  <2>11. NoFilter => Benchmarks(c, m) # {}
    BY <2>2, <2>9, RunsForMemory
  <2>12. ran \cap Benchmarks(c, m) = {}
    <3> SUFFICES ASSUME NEW b \in ran, b \in Benchmarks(c, m) PROVE FALSE
      OBVIOUS
    <3>1. b.mem = m /\ b.root = c
      BY RunsForMemory
    <3>2. <<c, m>> \in Pairs
      BY <2>4, <3>1 DEF Pairs, Measured
    <3> QED BY <2>7, <2>8, <3>2
  <2>13. Before(c, m)' = Before(c, m)
    BY <2>1, SameMachine DEF Before
  <2>14. Entries' = Entries \cup {<<c, m>>}
    <3>1. Entries' = Before(c, m)'
      BY <2>2, <2>3, <2>4 DEF Entries
    <3> QED BY <2>8, <2>13, <3>1
  <2>15. MatrixInv'
    <3>1. mem' \in Nodes' /\ root' \in Groups'
      BY <2>1, <2>2, <2>3, <2>8, SameMachine
    <3>2. NoFilter' = NoFilter
      BY <2>1 DEF NoFilter, Plain
    <3>3. again' = {}
      BY <2>3, <2>7, <2>12
    <3> QED BY <2>1, <2>7, <2>10, <2>11, <2>14, <3>1, <3>2, <3>3 DEF MatrixInv
  <2> QED BY <1>0, <2>6, <2>15
<1>6. CASE (EndWalk \/ EndList \/ EndMatrix \/ UNCHANGED vars)
  <2>1. /\ topology' = topology /\ opts' = opts /\ root' = root /\ mem' = mem /\ next' = next
        /\ ran' = ran /\ again' = again
        /\ \/ pc' = pc
           \/ /\ pc' = "exit" /\ pc \in {"walk", "list", "matrix"}
              /\ pc = "walk" => NextMemory(mem) = NULL
              /\ pc = "matrix" => Cluster = NULL
    BY <1>6 DEF EndWalk, EndList, EndMatrix, vars
  <2>2. /\ Measured' = Measured /\ Pairs' = Pairs /\ Seen' = Seen /\ NothingTwice' = NothingTwice
        /\ NoFilter' = NoFilter
    BY <2>1 DEF Measured, Pairs, Seen, NothingTwice, NoFilter, Plain
  <2>3. \A c, n : Before(c, n)' = Before(c, n)
    BY <2>1, SameMachine DEF Before
  <2>4. Entries' = Entries
    <3>1. Before(root, mem)' = Before(root, mem)
      BY <2>1, <2>3
    <3> QED BY <2>1, <3>1 DEF Entries
  <2>5. Walked' = Walked /\ NextMemory(mem)' = NextMemory(mem)
    BY <2>1, SameMachine DEF Walked
  <2>6. Cluster' = Cluster
    <3>1. NextCousin(mem)' = NextCousin(mem) /\ NextCousin(root)' = NextCousin(root) /\ Cousins("GROUP")' = Cousins("GROUP")
      BY <2>1, SameMachine DEF Groups
    <3> QED BY <2>1, <3>1 DEF Cluster
  <2>7. StartInv'
    BY <2>1 DEF StartInv
  <2>8. MatrixInv'
    BY <2>1, <2>2, <2>4, <2>6, SameMachine DEF MatrixInv, StartInv
  <2>9. ListInv'
    BY <2>1, <2>2 DEF ListInv
  <2>10. WalkInv'
    BY <2>1, <2>2, <2>5, SameMachine DEF WalkInv, StartInv
  <2> QED BY <1>0, <2>7, <2>8, <2>9, <2>10
<1> QED BY <1>1, <1>2, <1>3, <1>4, <1>5, <1>6 DEF Next, Exit

LEMMA DriverAlways == Spec => []DriverInv
BY DriverStarts, DriverStep, PTL DEF Spec

(* With the option -mat the program measures every NUMA node from every    *)
(* cluster: the two loops of main() leave no pair out and add none.        *)
THEOREM MatrixMeasured == Spec => []MatrixComplete
<1>1. DriverInv => MatrixComplete
  <2> SUFFICES ASSUME DriverInv, pc = "exit", opts.matrix, NoFilter PROVE Pairs = Groups \X Nodes
    BY DEF MatrixComplete, Pairs, Groups, Nodes
  <2>1. Cluster = NULL /\ Pairs = Entries /\ (mem # NULL => mem \in Nodes /\ root \in Groups)
    BY DEF DriverInv, MatrixInv
  <2> QED BY <2>1, MatrixOrder DEF DriverInv, OptionsInv
<1> QED BY <1>1, DriverAlways, PTL

(* Without options, on a machine with its memory at one level, the walk of *)
(* roofline_hwloc_get_next_memory() ends with every node of the machine and*)
(* every cache above the first core.                                       *)
THEOREM WalkMeasuresAll == Spec => [](Regular => WholeHierarchy)
<1>1. DriverInv => (Regular => WholeHierarchy)
  <2> SUFFICES ASSUME DriverInv, Regular, pc = "exit", ~opts.matrix, ~opts.given, NoFilter
               PROVE  Seen = Hierarchy
    BY DEF WholeHierarchy, Seen
  <2>1. NextMemory(mem) = NULL /\ Seen = Walked /\ (mem # NULL => mem \in OnWay \cup Nodes) /\ OnMachine
    BY DEF DriverInv, WalkInv, OptionsInv
  <2>2. mem # NULL
    BY <2>1, FirstStep DEF Regular
  <2>3. Passed(mem) = OnWay \cup Nodes
    BY <2>1, <2>2, WalkOrder
  <2> QED BY <2>1, <2>2, <2>3, OnTheWay DEF Walked
<1> QED BY <1>1, DriverAlways, PTL

(* No benchmark is run twice, except for a memory that the user lists      *)
(* twice: in the matrix and for a list on every machine, for the walk on   *)
(* one with its memory at one level.                                       *)
THEOREM RunOnce == Spec => [](opts.matrix \/ opts.given \/ Regular => NothingTwice)
<1>1. DriverInv => (opts.matrix \/ opts.given \/ Regular => NothingTwice)
  BY DEF DriverInv, MatrixInv, ListInv, WalkInv, NothingTwice
<1> QED BY <1>1, DriverAlways, PTL

(* A count of bytes for an intensity below 1: the reciprocal, or the next  *)
(* whole number where that is near enough to be what a double holds.       *)
LEMMA BytesBelowOne ==
    ASSUME OptionsInv, ~Plain, opts.oi[1] < opts.oi[2], InRange
    PROVE  /\ Bytes \in Nat \ {0}
           /\ 2 * (Bytes * opts.oi[1]) > opts.oi[2] /\ Bytes * opts.oi[1] < 2 * opts.oi[2]
           /\ (Bytes * opts.oi[1] - opts.oi[2]) * Precision <= opts.oi[2]
           /\ UINT > 2
<1> DEFINE p == opts.oi[1]
           q == opts.oi[2]
           d == q \div p
           B == IF opts.up /\ NextIsNear THEN d + 1 ELSE d
<1>1. p \in Nat \ {0} /\ q \in Nat \ {0} /\ p < q
  BY DEF OptionsInv, Asked, Plain
<1>2. UINT \in Nat /\ Precision \in Nat \ {0} /\ d + 1 < UINT
  BY DriverAssumption DEF InRange, Reciprocal
<1>3. Bytes = ToUnsigned(B)
  BY <1>1 DEF Bytes, Reciprocal
<1>4. NextIsNear => ((d + 1) * p - q) * Precision <= q
  BY DEF NextIsNear, Reciprocal
<1>5. d \in Int /\ p * d <= q /\ q < p * (d + 1)
  <2> HIDE DEF p, q
  <2> QED BY <1>1
<1> HIDE DEF p, q, d
<1>6. d >= 1
  <2>1. CASE d <= 0
    <3>1. p * (d + 1) <= p
      BY <1>1, <1>5, <2>1
    <3> QED BY <1>1, <1>5, <3>1
  <2> QED BY <1>5, <2>1
<1>7. d * p \in Nat /\ p * d = d * p /\ p * (d + 1) = d * p + p /\ (d + 1) * p = d * p + p /\ d * p >= p
  BY <1>1, <1>5, <1>6
<1>8. B \in Nat \ {0} /\ B < UINT
  BY <1>2, <1>5, <1>6
<1>9. Bytes = B
  BY <1>3, <1>8, Fits
<1>10. CASE B = d
  <2>1. (d * p - q) * Precision <= 0
    BY <1>1, <1>2, <1>5, <1>7
  <2>2. 2 * (d * p) > q /\ d * p < 2 * q
    BY <1>1, <1>5, <1>7
  <2> HIDE DEF B
  <2>3. (Bytes * p - q) * Precision <= q
    <3>1. Bytes = d
      BY <1>9, <1>10
    <3>2. (Bytes * p - q) * Precision <= 0
      BY <2>1, <3>1
    <3>3. (Bytes * p - q) * Precision \in Int
      BY <1>1, <1>2, <1>5, <3>1
    <3> QED BY <1>1, <3>2, <3>3
  <2> QED BY <1>2, <1>5, <1>6, <1>8, <1>9, <1>10, <2>2, <2>3 DEF p, q
<1>11. CASE B = d + 1 /\ NextIsNear
  <2>1. 2 * ((d + 1) * p) > q /\ (d + 1) * p < 2 * q
    BY <1>1, <1>5, <1>7
  <2> HIDE DEF B
  <2>2. (Bytes * p - q) * Precision <= q
    BY <1>4, <1>9, <1>11
  <2> QED BY <1>2, <1>5, <1>6, <1>8, <1>9, <1>11, <2>1, <2>2 DEF p, q
<1> QED BY <1>10, <1>11

(* An intensity asked for with -oi whose counts fit in an unsigned becomes *)
(* a kernel of at least one flop and one byte.  Below 1 its intensity is   *)
(* less than twice the one asked for, and not lower but for the rounding   *)
(* of a double; from 1 on it is off by at most half a flop in 64 bytes     *)
(* (the arguments of roofline_oi() in bench_memory(), with the conversions *)
(* from double to unsigned).                                               *)
THEOREM IntensityNear == Spec => []NearIntensity
<1>1. OptionsInv => NearIntensity
  <2> DEFINE p == opts.oi[1]
             q == opts.oi[2]
             A == Bytes * p
             F == Round(A, q)
  <2> SUFFICES ASSUME OptionsInv, ~Plain, InRange PROVE
        /\ Flops > 0 /\ Bytes > 0
        /\ IF p < q THEN Flops * q < 2 * A /\ (A - Flops * q) * Precision <= Flops * q
           ELSE 2 * (Flops * q - A) <= q /\ 2 * (A - Flops * q) <= q
    BY DEF NearIntensity
  <2>1. p \in Nat \ {0} /\ q \in Nat \ {0}
    BY DEF OptionsInv, Asked, Plain
  <2>2. UINT \in Nat /\ Precision \in Nat \ {0}
    BY DriverAssumption
  <2>3. Flops = ToUnsigned(F)
    BY DEF Flops
  <2>4. CASE p < q
    <3>1. Bytes \in Nat \ {0} /\ 2 * A > q /\ A < 2 * q /\ (A - q) * Precision <= q /\ UINT > 2
      BY <2>4, BytesBelowOne
    <3>2. A \in Nat
      BY <2>1, <3>1
    <3> HIDE DEF A, p, q
    <3>3. /\ F \in Nat \ {0} /\ F * q \in Nat /\ F * q >= q
          /\ F * q < 2 * A /\ 2 * (F * q) <= 2 * A + q
      BY <2>1, <3>1, <3>2, Rounding
    <3> HIDE DEF F
    <3>4. F <= 2
      <4>1. CASE F >= 3
        <5>1. F * q >= 3 * q
          BY <2>1, <3>3, <4>1
        <5> QED BY <2>1, <3>1, <3>2, <3>3, <5>1
      <4> QED BY <3>3, <4>1
    <3>5. Flops = F
      BY <2>2, <2>3, <3>1, <3>3, <3>4, Fits
    <3> DEFINE G == F * q
    <3>6. (A - G) * Precision <= (A - q) * Precision
      <4>1. G \in Nat /\ G >= q
        BY <3>3
      <4> HIDE DEF G
      <4> QED BY <2>1, <2>2, <3>2, <4>1
    <3>7. (A - G) * Precision <= G
      <4>1. G \in Nat /\ G >= q
        BY <3>3
      <4> HIDE DEF G
      <4> QED BY <2>1, <2>2, <3>1, <3>2, <3>6, <4>1
    <3> QED BY <2>4, <3>1, <3>3, <3>5, <3>7
  <2>5. CASE ~(p < q)
    <3>1. Bytes = 64 /\ Round(64 * p, q) < UINT
      BY <2>1, <2>5 DEF Bytes, InRange
    <3>2. A \in Nat /\ 2 * A > q /\ F < UINT
      <4>1. 64 * p \in Nat /\ 2 * (64 * p) > q
        <5> HIDE DEF p, q
        <5> QED BY <2>1, <2>5
      <4> HIDE DEF p, q
      <4> QED BY <3>1, <4>1
    <3> HIDE DEF A, p, q
    <3>3. /\ F \in Nat \ {0} /\ F * q \in Nat
          /\ 2 * (F * q) <= 2 * A + q /\ 2 * A <= 2 * (F * q) + q
      BY <2>1, <3>2, Rounding
    <3> HIDE DEF F
    <3>4. Flops = F
      BY <2>3, <3>2, <3>3, Fits
    <3> QED BY <2>1, <2>5, <3>1, <3>2, <3>3, <3>4
  <2> HIDE DEF A, F
  <2> QED BY <2>4, <2>5
<1>2. DriverInv => OptionsInv
  BY DEF DriverInv
<1> QED BY <1>1, <1>2, DriverAlways, PTL

-----------------------------------------------------------------------------
(* Depths.  The depth of an object is the number of those above it.        *)
Normal == {o \in Objs : Type(o) # "NUMANODE"}

LEMMA DepthFacts ==
    ASSUME OnMachine, NEW o \in Normal
    PROVE  /\ Depth(o) \in Nat
           /\ \A a \in Ancestors(o) : a \in Normal /\ Depth(a) \in Nat /\ Depth(a) < Depth(o)
           /\ Parent(o) # NULL => Parent(o) \in Ancestors(o) /\ Depth(o) = Depth(Parent(o)) + 1
           /\ Parent(o) = NULL => Depth(o) = 0
<1>1. ASSUME NEW x \in Normal
      PROVE  /\ IsFiniteSet(Ancestors(x)) /\ Depth(x) = Cardinality(Ancestors(x)) /\ Depth(x) \in Nat
             /\ x \in Objs /\ x \notin Ancestors(x)
  <2>1. x \in Objs /\ x \in Nat /\ Type(x) # "NUMANODE"
    BY MachineFacts DEF Normal
  <2>2. Ancestors(x) \subseteq 0 .. x /\ x \notin Ancestors(x)
    <3>1. \A a \in Ancestors(x) : a \in Nat /\ a < x
      BY <2>1, AncestorsSmaller, MachineFacts
    <3> QED BY <2>1, <3>1
  <2>3. IsFiniteSet(0 .. x)
    BY <2>1, FS_Interval
  <2>4. IsFiniteSet(Ancestors(x))
    BY <2>2, <2>3, FS_Subset
  <2> QED BY <2>1, <2>2, <2>4, FS_CardinalityType DEF Depth
<1>2. \A a \in Ancestors(o) : a \in Normal
  BY <1>1, AncestorsSmaller, AboveAbove DEF Normal
<1>3. ASSUME NEW a \in Ancestors(o) PROVE Depth(a) < Depth(o)
  <2>1. Ancestors(a) \subseteq Ancestors(o)
    BY <1>1, AboveAbove
  <2>2. a \in Normal /\ a \notin Ancestors(a)
    BY <1>1, <1>2
  <2>3. /\ Cardinality(Ancestors(a)) <= Cardinality(Ancestors(o))
        /\ Cardinality(Ancestors(a)) # Cardinality(Ancestors(o))
    BY <1>1, <2>1, <2>2, FS_Subset
  <2> QED BY <1>1, <2>2, <2>3
<1>4. Ancestors(o) = IF Parent(o) = NULL THEN {} ELSE {Parent(o)} \cup Ancestors(Parent(o))
  BY <1>1, AncestorsEquation
<1>5. ASSUME Parent(o) # NULL PROVE Depth(o) = Depth(Parent(o)) + 1
  <2> DEFINE p == Parent(o)
  <2>1. p \in Ancestors(o) /\ Ancestors(o) = Ancestors(p) \cup {p}
    BY <1>4, <1>5
  <2> HIDE DEF p
  <2>2. p \in Normal
    BY <1>2, <2>1
  <2>3. Cardinality(Ancestors(p) \cup {p}) = Cardinality(Ancestors(p)) + 1
    BY <1>1, <2>2, FS_AddElement
  <2>4. Depth(o) = Depth(p) + 1
    BY <1>1, <2>1, <2>2, <2>3
  <2> QED BY <2>4 DEF p
<1>6. Parent(o) = NULL => Depth(o) = 0
  BY <1>1, <1>4, FS_EmptySet
<1> QED BY <1>1, <1>2, <1>3, <1>4, <1>5, <1>6

(* Of the object and those above it the nearest that is not deeper than k  *)
(* is at depth k.                                                          *)
UpTo(o, k) == {a \in Ancestors(o) \cup {o} : Depth(a) <= k}

LEMMA AtDepth ==
    ASSUME OnMachine, NEW k \in Nat
    PROVE  \A o \in Normal : Depth(o) >= k =>
              Last(UpTo(o, k)) \in Ancestors(o) \cup {o} /\ Depth(Last(UpTo(o, k))) = k
<1> DEFINE Fine(o) == Last(UpTo(o, k)) \in Ancestors(o) \cup {o} /\ Depth(Last(UpTo(o, k))) = k
           Bad == {o \in Normal : Depth(o) >= k /\ ~Fine(o)}
<1> SUFFICES ASSUME Bad # {} PROVE FALSE
  OBVIOUS
<1>0. Normal \subseteq Objs /\ Normal \subseteq Nat
  BY MachineFacts DEF Normal
<1>1. PICK o \in Bad : \A y \in Bad : o <= y
  <2>1. Bad \subseteq Nat
    BY <1>0
  <2> HIDE DEF Bad
  <2> QED BY <2>1, LeastExists
<1>2. o \in Normal /\ Depth(o) >= k /\ ~Fine(o) /\ o \in Nat /\ o \in Objs
  BY <1>0, <1>1
<1>3. /\ Depth(o) \in Nat
      /\ \A a \in Ancestors(o) : a \in Normal /\ Depth(a) \in Nat /\ Depth(a) < Depth(o)
      /\ Parent(o) # NULL => Parent(o) \in Ancestors(o) /\ Depth(o) = Depth(Parent(o)) + 1
      /\ Parent(o) = NULL => Depth(o) = 0
  BY <1>2, DepthFacts
<1>4. CASE Depth(o) = k
  <2> DEFINE S == UpTo(o, k)
  <2>1. o \in S /\ \A a \in S : a \in Nat /\ a <= o
    <3>1. \A a \in Ancestors(o) : a \in Nat /\ a < o
      BY <1>2, AncestorsSmaller, MachineFacts
    <3>2. k <= k
      OBVIOUS
    <3> QED BY <1>2, <1>4, <3>1, <3>2 DEF UpTo
  <2> HIDE DEF S
  <2>2. S \subseteq 0 .. o
    BY <1>2, <2>1
  <2>3. Last(S) \in S /\ \A y \in S : y <= Last(S)
    BY <1>2, <2>1, <2>2, LastOfSet
  <2>4. Last(S) = o
    <3>1. Last(S) \in Nat /\ Last(S) <= o /\ o <= Last(S)
      BY <2>1, <2>3
    <3> QED BY <1>2, <3>1
  <2> QED BY <1>2, <1>4, <2>4 DEF S
<1>5. CASE Depth(o) # k
  <2> DEFINE p == Parent(o)
  <2>1. Depth(o) > k /\ p # NULL
    BY <1>2, <1>3, <1>5
  <2>2. p \in Ancestors(o) /\ Depth(o) = Depth(p) + 1 /\ Ancestors(o) = {p} \cup Ancestors(p) /\ p < o
    BY <1>2, <1>3, <2>1, AncestorsEquation, MachineFacts
  <2> HIDE DEF p
  <2>3. p \in Normal /\ Depth(p) \in Nat /\ Depth(p) >= k /\ p \in Nat
    <3>1. p \in Normal /\ Depth(p) \in Nat
      BY <1>3, <2>2
    <3>2. Depth(p) >= k
      BY <1>3, <2>1, <2>2, <3>1
    <3> QED BY <1>0, <3>1, <3>2
  <2>4. p \notin Bad
    BY <1>1, <1>2, <2>2, <2>3
  <2>5. Fine(p)
    BY <2>3, <2>4
  <2>6. UpTo(o, k) = UpTo(p, k)
    <3>1. ~(Depth(o) <= k)
      BY <1>3, <2>1
    <3> QED BY <2>2, <3>1 DEF UpTo
  <2> QED BY <1>2, <2>2, <2>5, <2>6
<1> QED BY <1>4, <1>5

-----------------------------------------------------------------------------
(* A machine with its memory at one level: objects at one depth are of one *)
(* type, as in hwloc; every object at the depth of the first memory group  *)
(* has NUMA nodes and cores, and no other object has nodes; the cores are  *)
(* below; and what is above a memory group has more than one core, or only *)
(* the first.                                                              *)
OneLevel ==
    /\ FirstMemoryGroup # NULL
    /\ \A o, x \in Normal : Depth(o) = Depth(x) => Type(o) = Type(x)
    /\ \A n \in Nodes : Parent(n) # NULL /\ Depth(Parent(n)) = MemoryGroupDepth
    /\ \A g \in Normal : Depth(g) = MemoryGroupDepth => MemoryChildren(g) # {} /\ Cpuset(g) # {}
    /\ \A c \in Cores : Depth(c) > MemoryGroupDepth /\ \A x \in Cores : c \notin Ancestors(x)
    /\ \A o \in Normal : Depth(o) < MemoryGroupDepth => \A c \in Cores : Cpuset(o) = {c} => c = Core0

LEMMA FirstGroup ==
    ASSUME OnMachine, OneLevel, Cores # {}
    PROVE  /\ FirstMemoryGroup \in Ancestors(Core0) /\ FirstMemoryGroup \in Normal
           /\ MemoryGroupDepth \in Nat /\ Depth(FirstMemoryGroup) = MemoryGroupDepth
<1> DEFINE S == {o \in Ancestors(Core0) \cup {Core0} : MemoryChildren(o) # {}}
           M == FirstMemoryGroup
<1>1. Cores \subseteq Objs
  BY DEF Cores, Cousins
<1>2. Core0 \in Cores
  BY <1>1, FirstObject DEF Core0
<1>3. Core0 \in Normal /\ Core0 \in Nat /\ Core0 \in Objs
  BY <1>2, MachineFacts DEF Normal, Cores, Cousins
<1>4. S \subseteq 0 .. Core0
  <2>1. \A a \in Ancestors(Core0) : a \in Nat /\ a < Core0
    BY <1>3, AncestorsSmaller, MachineFacts
  <2> QED BY <1>3, <2>1
<1>5. M = Last(S)
  BY DEF FirstMemoryGroup
<1>6. \A o \in S : o \in Ancestors(Core0) \cup {Core0}
  OBVIOUS
<1> HIDE DEF S
<1>7. M \in S
  <2>1. IF S = {} THEN Last(S) = NULL ELSE Last(S) \in S
    BY <1>3, <1>4, LastOfSet
  <2> QED BY <1>5, <2>1 DEF OneLevel
<1>8. M \in Normal /\ Depth(M) \in Nat /\ Depth(M) = MemoryGroupDepth
  BY <1>3, <1>6, <1>7, DepthFacts DEF MemoryGroupDepth
<1>9. M # Core0
  <2>1. Depth(Core0) > Depth(M)
    BY <1>2 DEF OneLevel, MemoryGroupDepth
  <2> QED BY <1>8, <2>1
<1> QED BY <1>6, <1>7, <1>8, <1>9

(* The object that a thread is bound to is the core or above it, and has   *)
(* no other core.                                                          *)
LEMMA BoundObject ==
    ASSUME OnMachine, OneLevel, NEW c \in Cores
    PROVE  LET b == GetCpubind(c)
           IN /\ b \in Ancestors(c) \cup {c} /\ b \in Normal /\ Cpuset(b) = {c}
              /\ Ancestors(b) \subseteq Ancestors(c) /\ c \in Normal
<1> DEFINE S == {o \in Ancestors(c) \cup {c} : Cpuset(o) = {c}}
           b == GetCpubind(c)
<1>1. c \in Objs /\ Type(c) = "CORE" /\ c \in Normal
  BY DEF Cores, Cousins, Normal
<1>2. Cpuset(c) = {c}
  BY <1>1 DEF Cpuset, OneLevel
<1>3. \A a \in Ancestors(c) : a \in Normal /\ a \in Objs /\ Ancestors(a) \subseteq Ancestors(c)
  BY <1>1, DepthFacts, AboveAbove DEF Normal
<1>4. S \subseteq Objs /\ S # {}
  BY <1>1, <1>2, <1>3
<1>5. b = First(S)
  BY DEF GetCpubind
<1>6. \A o \in S : o \in Ancestors(c) \cup {c} /\ Cpuset(o) = {c}
  OBVIOUS
<1> HIDE DEF S
<1>7. b \in S
  BY <1>4, <1>5, FirstObject
<1> QED BY <1>1, <1>3, <1>6, <1>7

(* The memory group of a thread: for a thread that is bound at this depth  *)
(* or below, both the domain of its data and the group of its results are  *)
(* the object above its core that has the depth of the memory groups.      *)
LEMMA GroupOfThread ==
    ASSUME OnMachine, OneLevel, NEW c \in Cores, Depth(GetCpubind(c)) >= MemoryGroupDepth
    PROVE  /\ LocalDomain(c) = OutputGroup(c)
           /\ OutputGroup(c) \in Ancestors(c) /\ Depth(OutputGroup(c)) = MemoryGroupDepth
<1> DEFINE b == GetCpubind(c)
           d == MemoryGroupDepth
           g == Last(UpTo(b, d))
<1>1. b \in Ancestors(c) \cup {c} /\ b \in Normal /\ Ancestors(b) \subseteq Ancestors(c) /\ c \in Normal
  BY BoundObject
<1>2. d \in Nat
  BY FirstGroup
<1>3. Depth(b) \in Nat /\ \A a \in Ancestors(b) : Depth(a) \in Nat /\ Depth(a) < Depth(b)
  BY <1>1, DepthFacts
<1>4. Depth(b) >= d
  OBVIOUS
<1>5. g \in Ancestors(b) \cup {b} /\ Depth(g) = d
  <2> HIDE DEF b, d
  <2> QED BY <1>1, <1>2, <1>4, AtDepth
<1>6. OutputGroup(c) = g
  BY <1>2, <1>3, <1>4 DEF OutputGroup, UpTo
<1>7. LocalDomain(c) = g
  <2>1. CASE Depth(b) <= d
    <3>1. LocalDomain(c) = b /\ Depth(b) = d
      BY <1>2, <1>3, <1>4, <2>1 DEF LocalDomain
    <3>2. \A a \in Ancestors(b) : Depth(a) # d
      BY <1>2, <1>3, <3>1
    <3> QED BY <1>5, <3>1, <3>2
  <2>2. CASE ~(Depth(b) <= d)
    <3>1. LocalDomain(c) = Last({o \in Ancestors(b) : Depth(o) <= d})
      BY <2>2 DEF LocalDomain
    <3>2. {o \in Ancestors(b) : Depth(o) <= d} = UpTo(b, d)
      BY <2>2 DEF UpTo
    <3> QED BY <3>1, <3>2
  <2> QED BY <2>1, <2>2
<1>8. g \in Ancestors(c)
  <2>1. g \in Ancestors(c) \cup {c}
    BY <1>1, <1>5
  <2>2. g # c
    <3>1. Depth(c) > d
      BY DEF OneLevel
    <3>2. Depth(c) \in Nat
      BY <1>1, DepthFacts
    <3> QED BY <1>2, <1>5, <3>1, <3>2
  <2> QED BY <2>1, <2>2
<1> QED BY <1>5, <1>6, <1>7, <1>8

(* A thread that is bound above the memory groups is that of the first     *)
(* core, which is in the first group.                                      *)
LEMMA BoundAbove ==
    ASSUME OnMachine, OneLevel, NEW c \in Cores, ~(Depth(GetCpubind(c)) >= MemoryGroupDepth)
    PROVE  /\ Depth(GetCpubind(c)) < MemoryGroupDepth /\ c = Core0
           /\ LocalDomain(c) = GetCpubind(c) /\ OutputGroup(c) = FirstMemoryGroup
           /\ GetCpubind(c) \in Ancestors(FirstMemoryGroup)
<1> DEFINE b == GetCpubind(c)
           d == MemoryGroupDepth
           M == FirstMemoryGroup
<1>1. b \in Ancestors(c) \cup {c} /\ b \in Normal /\ Cpuset(b) = {c} /\ c \in Normal
  BY BoundObject
<1>2. d \in Nat /\ Depth(b) \in Nat /\ M \in Normal /\ Depth(M) = d /\ M \in Ancestors(Core0)
  BY <1>1, FirstGroup, DepthFacts
<1>3. Depth(b) < d /\ Depth(b) <= d
  BY <1>2
<1>4. c = Core0
  BY <1>1, <1>3 DEF OneLevel
<1>5. LocalDomain(c) = b /\ OutputGroup(c) = M
  BY <1>3 DEF LocalDomain, OutputGroup
<1>6. b # c /\ b # M
  <2>1. Depth(c) > d
    BY DEF OneLevel
  <2>2. Depth(c) \in Nat
    BY <1>1, DepthFacts
  <2> QED BY <1>2, <1>3, <2>1, <2>2
<1>7. b \in Ancestors(c) /\ M \in Ancestors(c) /\ c \in Objs
  BY <1>1, <1>2, <1>4, <1>6 DEF Normal
<1>8. M \notin Ancestors(b)
  <2>1. \A a \in Ancestors(b) : Depth(a) \in Nat /\ Depth(a) < Depth(b)
    BY <1>1, DepthFacts
  <2> QED BY <1>2, <1>3, <2>1
<1>9. b \in Nat /\ M \in Nat
  BY <1>1, <1>2, MachineFacts DEF Normal
<1>10. b < M
  <2>1. ~(M < b)
    BY <1>7, <1>8, AncestorsChain
  <2> QED BY <1>6, <1>9, <2>1
<1>11. b \in Ancestors(M)
  BY <1>7, <1>10, AncestorsChain
<1> QED BY <1>3, <1>4, <1>5, <1>11

(* The nodes of its domain are those of the groups above its core.         *)
LEMMA NodesOfDomain ==
    ASSUME OnMachine, OneLevel, NEW c \in Cores
    PROVE  /\ Nodeset(LocalDomain(c)) # {}
           /\ \A n \in Nodeset(LocalDomain(c)) : Parent(n) \in Ancestors(c)
<1> DEFINE D == LocalDomain(c)
           b == GetCpubind(c)
           d == MemoryGroupDepth
<1>1. \A n \in Nodes : Parent(n) \in Normal /\ Depth(Parent(n)) = d /\ n \in Objs
  BY MachineFacts DEF Nodes, Cousins, OneLevel, Normal
<1>2. c \in Normal /\ d \in Nat /\ Depth(FirstMemoryGroup) = d /\ FirstMemoryGroup \in Ancestors(Core0)
      /\ FirstMemoryGroup \in Normal
  BY BoundObject, FirstGroup
<1>3. ASSUME NEW o \in Normal
      PROVE  Nodeset(o) = {n \in Nodes : Parent(n) = o \/ Parent(n) \in Ancestors(o) \/ o \in Ancestors(Parent(n))}
  BY DEF Nodeset, Normal, Nodes
<1>4. CASE Depth(b) >= d
  <2>1. D \in Ancestors(c) /\ Depth(D) = d
    BY <1>4, GroupOfThread
  <2>2. D \in Normal
    BY <1>2, <2>1, DepthFacts
  <2>3. PICK n \in Nodes : Parent(n) = D
    BY <2>1, <2>2 DEF OneLevel, MemoryChildren, Nodes
  <2> HIDE DEF D
  <2>4. \A a \in Ancestors(D) : Depth(a) # d
    BY <1>2, <2>1, <2>2, DepthFacts
  <2>5. \A x \in Nodes : D \notin Ancestors(Parent(x))
    <3> SUFFICES ASSUME NEW x \in Nodes, D \in Ancestors(Parent(x)) PROVE FALSE
      OBVIOUS
    <3>1. Depth(D) < Depth(Parent(x))
      BY <1>1, DepthFacts
    <3> QED BY <1>1, <1>2, <2>1, <3>1
  <2>6. n \in Nodeset(D) /\ \A x \in Nodeset(D) : x \in Nodes /\ Parent(x) = D
    BY <1>1, <1>3, <2>2, <2>3, <2>4, <2>5
  <2> QED BY <2>1, <2>6 DEF D
<1>5. CASE ~(Depth(b) >= d)
  <2>1. Depth(b) < d /\ c = Core0 /\ D = b /\ b \in Ancestors(FirstMemoryGroup)
    BY <1>5, BoundAbove
  <2>2. b \in Normal /\ Cpuset(b) = {c} /\ Depth(b) \in Nat
    BY BoundObject, DepthFacts
  <2> HIDE DEF b, D
  <2>3. PICK n \in Nodes : Parent(n) = FirstMemoryGroup
    BY <1>2 DEF OneLevel, MemoryChildren, Nodes
  <2>4. n \in Nodeset(b)
    BY <1>3, <2>1, <2>2, <2>3
  <2>5. ASSUME NEW x \in Nodeset(b) PROVE Parent(x) \in Ancestors(c)
    <3> DEFINE g == Parent(x)
    <3>1. x \in Nodes /\ (g = b \/ g \in Ancestors(b) \/ b \in Ancestors(g))
      BY <1>3, <2>2
    <3>2. g \in Normal /\ Depth(g) = d
      BY <1>1, <3>1
    <3> HIDE DEF g
    <3>3. b \in Ancestors(g)
      <4>1. \A a \in Ancestors(b) : Depth(a) \in Nat /\ Depth(a) < Depth(b)
        BY <2>2, DepthFacts
      <4> QED BY <1>2, <2>1, <2>2, <3>1, <3>2, <4>1
    <3>4. PICK y \in Cores : g = y \/ g \in Ancestors(y)
      <4>1. Cpuset(g) # {}
        BY <3>2 DEF OneLevel
      <4>2. Type(g) # "NUMANODE"
        BY <3>2 DEF Normal
      <4> QED BY <4>1, <4>2 DEF Cpuset
    <3>5. g \in Ancestors(y) /\ y \in Objs
      <4>1. Depth(y) > d /\ y \in Normal
        BY BoundObject DEF OneLevel
      <4>2. Depth(y) \in Nat
        BY <4>1, DepthFacts
      <4> QED BY <1>2, <3>2, <3>4, <4>1, <4>2 DEF Normal
    <3>6. b \in Ancestors(y)
      BY <3>3, <3>5, AboveAbove
    <3>7. y \in Cpuset(b)
      <4>1. Type(b) # "NUMANODE"
        BY <2>2 DEF Normal
      <4> QED BY <3>6, <4>1 DEF Cpuset
    <3>8. y = c
      BY <2>2, <3>7
    <3>9. g \in Ancestors(c)
      BY <3>5, <3>8
    <3> QED BY <3>9 DEF g
  <2> QED BY <2>1, <2>4, <2>5 DEF D
<1> QED BY <1>4, <1>5

-----------------------------------------------------------------------------
(* What is measured is a memory, and the areas are those of the last one.  *)
LEMMA NextIsMemory ==
    ASSUME OnMachine, NEW o, o = NULL \/ (o \in Objs /\ IsMemory(o)), NextMemory(o) \in Objs
    PROVE  IsMemory(NextMemory(o))
<1> DEFINE x == NextMemory(o)
<1>0. NULL \notin Objs
  BY MachineFacts
<1>1. CASE o = NULL
  <2>1. Cousins("L1") \subseteq Objs /\ x = First(Cousins("L1")) /\ x # NULL
    BY <1>0, <1>1 DEF NextMemory, FirstMemory, Cousins
  <2>2. x \in Cousins("L1")
    BY <2>1, FirstObject
  <2> QED BY <2>2 DEF IsMemory, IsCache, Caches, Cousins
<1>2. CASE o # NULL /\ Type(o) = "NUMANODE"
  <2>1. o \in Nodes /\ o \in Objs
    BY <1>2 DEF Nodes, Cousins
  <2>2. CASE NextCousin(o) # NULL
    <3>1. x \in Nodes
      BY <1>2, <2>1, <2>2, CousinAfter DEF NextMemory, Nodes
    <3> QED BY <3>1 DEF IsMemory, Nodes, Cousins
  <2>3. CASE NextCousin(o) = NULL
    <3> DEFINE S == {a \in Ancestors(o) : IsMemory(a)}
    <3>1. x = Last(S) /\ S \subseteq Ancestors(o) /\ \A a \in S : IsMemory(a)
      BY <1>2, <2>3 DEF NextMemory
    <3> HIDE DEF S
    <3>2. x \in S
      BY <1>0, <2>1, <3>1, NearestAbove
    <3> QED BY <3>1, <3>2
  <2> QED BY <2>2, <2>3
<1>3. CASE o # NULL /\ Type(o) # "NUMANODE"
  <2> DEFINE up == Last({a \in Ancestors(o) : IsMemory(a) \/ MemoryChildren(a) # {}})
  <2>1. x = IF up = NULL \/ IsMemory(up) THEN up ELSE MemoryFirstChild(up)
    BY <1>3 DEF NextMemory
  <2> HIDE DEF up
  <2>2. CASE up = NULL \/ IsMemory(up)
    BY <1>0, <2>1, <2>2
  <2>3. CASE ~(up = NULL \/ IsMemory(up))
    <3>1. x = First(MemoryChildren(up)) /\ MemoryChildren(up) \subseteq Objs
      BY <2>1, <2>3 DEF MemoryFirstChild, MemoryChildren, Cousins
    <3>2. x \in MemoryChildren(up)
      BY <1>0, <3>1, FirstObject
    <3> QED BY <3>2 DEF MemoryChildren, Cousins, IsMemory
  <2> QED BY <2>2, <2>3
<1> QED BY <1>1, <1>2, <1>3

LEMMA SameLevels ==
    ASSUME topology' = topology
    PROVE  /\ OneLevel' = OneLevel
           /\ \A o : IsMemory(o)' = IsMemory(o) /\ IsCache(o)' = IsCache(o)
           /\ \A o : Ancestors(o)' = Ancestors(o) /\ Parent(o)' = Parent(o)
<1>1. Objs' = Objs /\ Nodes' = Nodes /\ Cores' = Cores /\ Core0' = Core0 /\ Normal' = Normal
  BY DEF Nodes, Core0, Cores, Cousins, Objs, Type, Normal
<1>2. \A o : Ancestors(o)' = Ancestors(o) /\ Parent(o)' = Parent(o)
  BY DEF Ancestors, Objs, Parent
<1>3. \A o : Type(o)' = Type(o) /\ MemoryChildren(o)' = MemoryChildren(o)
  BY DEF Type, MemoryChildren, Cousins, Objs, Parent
<1>4. \A o : Depth(o)' = Depth(o)
  BY <1>2, <1>3 DEF Depth
<1>5. \A o : Cpuset(o)' = Cpuset(o)
  BY <1>1, <1>2, <1>3 DEF Cpuset
<1>6. FirstMemoryGroup' = FirstMemoryGroup
  <2>1. {o \in Ancestors(Core0) \cup {Core0} : MemoryChildren(o) # {}}'
          = {o \in Ancestors(Core0) \cup {Core0} : MemoryChildren(o) # {}}
    BY <1>1, <1>2, <1>3
  <2> QED BY <2>1 DEF FirstMemoryGroup
<1>7. MemoryGroupDepth' = MemoryGroupDepth
  BY <1>4, <1>6 DEF MemoryGroupDepth
<1>8. OneLevel' = OneLevel
  BY <1>1, <1>2, <1>3, <1>4, <1>5, <1>6, <1>7 DEF OneLevel
<1>9. \A o : IsMemory(o)' = IsMemory(o) /\ IsCache(o)' = IsCache(o)
  BY <1>3 DEF IsMemory, IsCache
<1> QED BY <1>2, <1>8, <1>9

(* The area of a thread for a memory.                                      *)
OnTarget(A, m, c) == A # {} /\ (A = {m} \/ (IsCache(m) /\ \A n \in A : Parent(n) \in Ancestors(c)))

LEMMA AreaOnTarget ==
    ASSUME OnMachine, OneLevel, NEW m \in Objs, IsMemory(m), NEW c \in Cores, NEW policy
    PROVE  OnTarget(SetAreaMembind(policy, m, c), m, c)
<1>1. CASE Type(m) = "NUMANODE"
  <2>1. SetAreaMembind(policy, m, c) = {m}
    BY <1>1 DEF SetAreaMembind, Depth, NumaDepth
  <2> QED BY <2>1 DEF OnTarget
<1>2. CASE Type(m) # "NUMANODE"
  <2>1. IsCache(m) /\ Depth(m) \in Nat
    BY <1>2, DepthFacts DEF IsMemory, Normal
  <2>2. SetAreaMembind(policy, m, c) = Nodeset(LocalDomain(c))
    <3>1. ~(Depth(m) < NumaDepth) /\ Depth(m) > NumaDepth
      BY <2>1 DEF NumaDepth
    <3> QED BY <3>1 DEF SetAreaMembind
  <2> QED BY <2>1, <2>2, NodesOfDomain DEF OnTarget
<1> QED BY <1>1, <1>2

TargetInv ==
    /\ mem # NULL => mem \in Objs /\ IsMemory(mem)
    /\ pc # "init" => \A k \in DOMAIN opts.list : IsMemory(opts.list[k])
    /\ \A r \in Measured : r.mem \in Objs /\ IsMemory(r.mem)
    /\ OneLevel => DataOnTarget

(* The benchmarks of one more memory.                                      *)
LEMMA TargetMoves ==
    ASSUME OnMachine, topology' = topology, NEW r, NEW m \in Objs, IsMemory(m), BenchMemory(r, m)
    PROVE  /\ mem' # NULL => mem' \in Objs' /\ IsMemory(mem)'
           /\ \A x \in Measured' : x \in Measured \/ x.mem = m
           /\ OneLevel' => DataOnTarget'
<1>1. /\ mem' = m
      /\ areas' \in IF Benchmarks(r, m) = {} THEN {<< >>} ELSE AreasBound(opts.policy, m, Cpuset(r))
  BY DEF BenchMemory
<1>2. IsMemory(mem)' /\ Objs' = Objs
  BY <1>1, SameLevels DEF Objs
<1>3. ASSUME OneLevel' PROVE DataOnTarget'
  <2>1. OneLevel
    BY <1>3, SameLevels
  <2>2. ASSUME NEW c \in DOMAIN areas' PROVE OnTarget(areas'[c], m, c)
    <3>1. DOMAIN << >> = {}
      OBVIOUS
    <3>2. areas' \in AreasBound(opts.policy, m, Cpuset(r))
      BY <1>1, <2>2, <3>1
    <3>3. PICK refused \in SUBSET (Cpuset(r) \cap MayRefuse) :
              areas' = [x \in Cpuset(r) \ refused |-> SetAreaMembind(opts.policy, m, x)]
      BY <3>2 DEF AreasBound
    <3>4. c \in Cpuset(r) /\ areas'[c] = SetAreaMembind(opts.policy, m, c)
      BY <2>2, <3>3
    <3>5. c \in Cores
      BY <3>4 DEF Cpuset
    <3> QED BY <2>1, <3>4, <3>5, AreaOnTarget
  <2>3. IsCache(mem)' = IsCache(m)
    BY <1>1, SameLevels
  <2> QED BY <1>1, <2>2, <2>3, SameLevels DEF OnTarget, DataOnTarget
<1>4. \A x \in Measured' : x \in Measured \/ x.mem = m
  <2>1. ran' = ran \cup Benchmarks(r, m)
    BY DEF BenchMemory, Log
  <2> QED BY <2>1, RunsForMemory DEF Measured
<1> QED BY <1>1, <1>2, <1>3, <1>4

LEMMA TargetStep == DriverInv /\ TargetInv /\ [Next]_vars => TargetInv'
<1> SUFFICES ASSUME DriverInv, TargetInv, [Next]_vars PROVE TargetInv'
  OBVIOUS
<1>0. OnMachine /\ opts \in Asked /\ topology' = topology
  BY DEF DriverInv, OptionsInv, Next, vars, LibInit, BenchFlops, WalkStep, EndWalk, ListStep, EndList,
         MatrixStep, EndMatrix, Exit
<1>1. CASE UNCHANGED <<mem, areas>> /\ ~(WalkStep \/ ListStep \/ MatrixStep)
  <2>1. Objs' = Objs /\ IsMemory(mem)' = IsMemory(mem) /\ mem' = mem
    BY <1>0, <1>1, SameLevels DEF Objs
  <2>2. OneLevel' => DataOnTarget'
    <3>1. IsCache(mem)' = IsCache(mem)
      BY <1>0, <1>1, SameLevels
    <3> QED BY <1>0, <1>1, <3>1, SameLevels DEF TargetInv, DataOnTarget
  <2>3. (pc # "init" => \A k \in DOMAIN opts.list : IsMemory(opts.list[k]))'
    <3>1. CASE LibInit
      <4>1. opts' = [opts EXCEPT !.list = Memories(@)]
        BY <3>1 DEF LibInit
      <4>2. opts'.list = Memories(opts.list) /\ opts.list \in Seq(Objs)
        BY <1>0, <4>1 DEF Asked
      <4>3. \A k \in DOMAIN opts'.list : IsMemory(opts'.list[k])
        BY <4>2, MemoriesOfList
      <4> QED BY <1>0, <4>3, SameLevels
    <3>2. CASE ~LibInit
      <4>1. opts' = opts /\ (pc' = "init" \/ pc # "init")
        BY <3>2 DEF Next, vars, BenchFlops, WalkStep, EndWalk, ListStep, EndList, MatrixStep, EndMatrix, Exit
      <4> QED BY <1>0, <4>1, SameLevels DEF TargetInv
    <3> QED BY <3>1, <3>2
  <2>4. (\A r \in Measured : r.mem \in Objs /\ IsMemory(r.mem))'
    <3>1. Measured' \subseteq Measured
      <4>1. CASE BenchFlops
        <5>1. PICK types : Log({[root |-> root, mem |-> NULL, op |-> <<t>>] : t \in types})
          BY <4>1 DEF BenchFlops
        <5>2. ran' = ran \cup {[root |-> root, mem |-> NULL, op |-> <<t>>] : t \in types}
          BY <5>1 DEF Log
        <5> QED BY <5>2 DEF Measured
      <4>2. CASE ~BenchFlops
        <5>1. ran' = ran
          BY <1>1, <4>2 DEF Next, vars, LibInit, EndWalk, EndList, EndMatrix, Exit
        <5> QED BY <5>1 DEF Measured
      <4> QED BY <4>1, <4>2
    <3> QED BY <1>0, <3>1, SameLevels DEF TargetInv, Objs
  <2> QED BY <2>1, <2>2, <2>3, <2>4 DEF TargetInv
<1>2. ASSUME NEW r, NEW m \in Objs, IsMemory(m), BenchMemory(r, m), opts' = opts, pc # "init" PROVE TargetInv'
  <2>1. (pc # "init" => \A k \in DOMAIN opts.list : IsMemory(opts.list[k]))'
    BY <1>0, <1>2, SameLevels DEF TargetInv
  <2>2. \A x \in Measured' : x.mem \in Objs' /\ IsMemory(x.mem)'
    <3>1. \A x \in Measured' : x \in Measured \/ x.mem = m
      BY <1>0, <1>2, TargetMoves
    <3>2. \A x \in Measured' : x.mem \in Objs /\ IsMemory(x.mem)
      BY <1>2, <3>1 DEF TargetInv
    <3> QED BY <1>0, <3>2, SameLevels DEF Objs
  <2> QED BY <1>0, <1>2, <2>1, <2>2, TargetMoves DEF TargetInv
<1>3. CASE WalkStep
  <2>1. PICK m \in Objs : m = NextMemory(mem) /\ BenchMemory(root, m)
    BY <1>3 DEF WalkStep
  <2>2. IsMemory(m)
    BY <1>0, <2>1, NextIsMemory DEF TargetInv
  <2>3. opts' = opts /\ pc # "init"
    BY <1>3 DEF WalkStep
  <2> QED BY <1>2, <2>1, <2>2, <2>3
<1>4. CASE ListStep
  <2>1. /\ opts' = opts /\ pc = "list" /\ next <= Len(opts.list) /\ next \in Nat \ {0} /\ opts.list \in Seq(Objs)
        /\ BenchMemory(root, opts.list[next])
    BY <1>0, <1>4 DEF ListStep, DriverInv, ListInv, Asked
  <2>2. next \in DOMAIN opts.list
    BY <2>1
  <2>3. opts.list[next] \in Objs /\ IsMemory(opts.list[next])
    BY <2>1, <2>2 DEF TargetInv
  <2> QED BY <1>2, <2>1, <2>3
<1>5. CASE MatrixStep
  <2>1. PICK c \in Objs, m \in Objs : c = Cluster /\ m = Node /\ BenchMemory(c, m)
    BY <1>5 DEF MatrixStep
  <2>2. opts' = opts /\ pc = "matrix"
    BY <1>5 DEF MatrixStep
  <2>3. m \in Nodes
    BY <1>0, <2>1, <2>2, MatrixOrder DEF DriverInv, StartInv, MatrixInv
  <2>4. IsMemory(m)
    BY <2>3 DEF IsMemory, Nodes, Cousins
  <2> QED BY <1>2, <2>1, <2>2, <2>4
<1>6. [Next]_vars => WalkStep \/ ListStep \/ MatrixStep \/ UNCHANGED <<mem, areas>>
  BY DEF Next, vars, LibInit, BenchFlops, EndWalk, EndList, EndMatrix, Exit
<1> QED BY <1>1, <1>3, <1>4, <1>5, <1>6

LEMMA TargetAlways == Spec => []TargetInv
<1>1. Init => TargetInv
  <2>1. Init => mem = NULL /\ pc = "init" /\ DOMAIN areas = {} /\ Measured = {}
    BY DEF Init, Measured
  <2> QED BY <2>1 DEF TargetInv, DataOnTarget
<1> QED BY <1>1, TargetStep, DriverAlways, PTL DEF Spec

(* On a machine with its memory at one level every thread that the system  *)
(* does not refuse the binding of its memory has its buffer on the node    *)
(* that is measured, and for a cache on nodes of the groups above its own  *)
(* core (roofline_hwloc_set_area_membind).                                 *)
THEOREM BuffersOnTarget == Spec => [](OneLevel => DataOnTarget)
<1>1. TargetInv => (OneLevel => DataOnTarget)
  BY DEF TargetInv
<1> QED BY <1>1, TargetAlways, PTL

(* On such a machine the results of a thread go to a memory group above    *)
(* its core, and the groups that are printed are those that have the nodes *)
(* (roofline_output_aggregate_result(), which indexes them by number).     *)
THEOREM GroupOfResults == Spec => [](OneLevel => OwnGroup)
<1>1. DriverInv => (OneLevel => OwnGroup)
  <2> SUFFICES ASSUME OnMachine, OneLevel, NEW c \in Cpuset(root)
               PROVE  /\ OutputGroup(c) \in MemoryGroups \cap Ancestors(c)
                      /\ Type(Parent(Node0)) = Type(FirstMemoryGroup)
    BY DEF OwnGroup, DriverInv, OptionsInv
  <2> DEFINE M == FirstMemoryGroup
  <2>1. c \in Cores
    BY DEF Cpuset
  <2>2. M \in Ancestors(Core0) /\ M \in Normal /\ Depth(M) = MemoryGroupDepth
    BY <2>1, FirstGroup
  <2>3. \A g \in Normal : Depth(g) = MemoryGroupDepth => Type(g) = Type(M) /\ g \in MemoryGroups
    BY <2>2 DEF OneLevel, MemoryGroups, Cousins, Normal
  <2>4. OutputGroup(c) \in Ancestors(c) /\ Depth(OutputGroup(c)) = MemoryGroupDepth
    BY <2>1, <2>2, GroupOfThread, BoundAbove
  <2>5. OutputGroup(c) \in Normal
    BY <2>1, <2>4, BoundObject, DepthFacts
  <2>6. Type(Parent(Node0)) = Type(M)
    <3>1. Nodes # {} /\ Nodes \subseteq Objs
      BY <2>2 DEF OneLevel, MemoryChildren, Nodes, Cousins
    <3>2. Node0 \in Nodes
      BY <3>1, FirstObject DEF Node0, Nodes
    <3>3. Parent(Node0) \in Normal
      BY <3>1, <3>2, MachineFacts DEF OneLevel, Normal
    <3> QED BY <2>3, <3>2, <3>3 DEF OneLevel
  <2> QED BY <2>3, <2>4, <2>5, <2>6
<1> QED BY <1>1, DriverAlways, PTL
-----------------------------------------------------------------------------
(* The sizes of the buffers.  Halving an upper bound is a recursive        *)
(* function of the numbers.  The least number that halving goes through    *)
(* solves its equation, so that it has a value.                            *)
Big(u, low) == u > GB /\ u > 2 * low
Halving(u, low, S) == u \in S /\ \A w \in S : Big(w, low) => w \div 2 \in S
Halvings(u, low)   == {v \in Nat : \A S \in SUBSET Nat : Halving(u, low, S) => v \in S}
Halved(u, low)     == CHOOSE x \in Halvings(u, low) : \A y \in Halvings(u, low) : x <= y

(* f halves u until it is small enough.                                    *)
Halves(f, low) == \A u \in Nat : f[u] = IF Big(u, low) THEN f[u \div 2] ELSE u

LEMMA Half ==
    ASSUME NEW u \in Nat PROVE u \div 2 \in Nat /\ u \div 2 <= u /\ (u > 0 => u \div 2 < u)
OBVIOUS

LEMMA HalvingsStep ==
    ASSUME NEW u \in Nat, NEW low \in Nat
    PROVE  Halvings(u, low) = {u} \cup IF Big(u, low) THEN Halvings(u \div 2, low) ELSE {}
<1> DEFINE H == Halvings(u, low)
           h == u \div 2
<1>0. h \in Nat
  BY Half
<1> HIDE DEF h
<1>1. u \in H
  BY DEF Halvings, Halving
<1>2. CASE ~Big(u, low)
  <2>1. Halving(u, low, {u})
    BY <1>2 DEF Halving
  <2> QED BY <1>1, <1>2, <2>1 DEF Halvings
<1>3. CASE Big(u, low)
  <2> DEFINE U == {u} \cup Halvings(h, low)
  <2>1. \A S \in SUBSET Nat : Halving(u, low, S) => Halving(h, low, S)
    BY <1>3 DEF Halving, h
  <2>2. \A v \in Halvings(h, low) : v \in H
    BY <2>1 DEF Halvings
  <2>3. Halving(u, low, U)
    <3>1. h \in Halvings(h, low)
      BY <1>0 DEF Halvings, Halving
    <3>2. ASSUME NEW w \in Halvings(h, low), Big(w, low) PROVE w \div 2 \in Halvings(h, low)
      <4>1. w \div 2 \in Nat
        BY Half DEF Halvings
      <4> QED BY <3>2, <4>1 DEF Halvings, Halving
    <3> QED BY <3>1, <3>2 DEF Halving, h
  <2>4. U \in SUBSET Nat
    BY DEF Halvings
  <2>5. H \subseteq U
    BY <2>3, <2>4 DEF Halvings
  <2> QED BY <1>1, <1>3, <2>2, <2>5 DEF h
<1> QED BY <1>2, <1>3

LEMMA HalvedEquation ==
    ASSUME NEW u \in Nat, NEW low \in Nat
    PROVE  Halved(u, low) = IF Big(u, low) THEN Halved(u \div 2, low) ELSE u
<1>1. \A w \in Nat : /\ Halvings(w, low) \subseteq Nat /\ w \in Halvings(w, low)
                     /\ Halved(w, low) \in Halvings(w, low)
                     /\ \A y \in Halvings(w, low) : Halved(w, low) <= y
  <2> SUFFICES ASSUME NEW w \in Nat
               PROVE  /\ Halvings(w, low) \subseteq Nat /\ w \in Halvings(w, low)
                      /\ Halved(w, low) \in Halvings(w, low)
                      /\ \A y \in Halvings(w, low) : Halved(w, low) <= y
    OBVIOUS
  <2>1. Halvings(w, low) \subseteq Nat /\ w \in Halvings(w, low)
    BY DEF Halvings, Halving
  <2>2. \E x \in Halvings(w, low) : \A y \in Halvings(w, low) : x <= y
    BY <2>1, LeastExists
  <2> QED BY <2>1, <2>2 DEF Halved
<1>2. CASE ~Big(u, low)
  <2>1. Halvings(u, low) = {u}
    BY <1>2, HalvingsStep
  <2> QED BY <1>1, <1>2, <2>1
<1>3. CASE Big(u, low)
  <2> DEFINE h == u \div 2
             x == Halved(h, low)
             m == Halved(u, low)
  <2>1. h \in Nat /\ h <= u
    BY Half
  <2>2. Halvings(u, low) = {u} \cup Halvings(h, low)
    BY <1>3, HalvingsStep
  <2> HIDE DEF h
  <2>3. x \in Nat /\ x \in Halvings(u, low) /\ x <= h /\ \A y \in Halvings(h, low) : x <= y
    BY <1>1, <2>1, <2>2
  <2>4. m \in Nat /\ m \in Halvings(u, low) /\ m <= x
    BY <1>1, <2>3
  <2>5. m = x
    <3>1. x <= m
      BY <2>1, <2>2, <2>3, <2>4
    <3> QED BY <2>3, <2>4, <3>1
  <2> QED BY <1>3, <2>5 DEF h
<1> QED BY <1>2, <1>3

(* The size that Up halves.                                                *)
Unhalved(o) == topology.size[o] \div
    IF UnderMemory(o) = NULL THEN 1
    ELSE IF IsCache(o) THEN Cardinality(Inside("CORE", o)) ELSE Cardinality(Cores)

LEMMA UpIsHalved ==
    ASSUME NEW o, Low(o) \in Nat
    PROVE  \E f : Halves(f, Low(o)) /\ Up(o) = f[Unhalved(o)]
<1> DEFINE low == Low(o)
           Solves(g) == g = [u \in Nat |-> IF u > GB /\ u > 2 * Low(o) THEN g[u \div 2] ELSE u]
           s == CHOOSE g : Solves(g)
           h == [u \in Nat |-> Halved(u, low)]
<1>1. Solves(h)
  <2>1. \A u \in Nat : Halved(u, low) = IF u > GB /\ u > 2 * low THEN h[u \div 2] ELSE u
    <3> SUFFICES ASSUME NEW u \in Nat PROVE Halved(u, low) = IF u > GB /\ u > 2 * low THEN h[u \div 2] ELSE u
      OBVIOUS
    <3>1. h[u \div 2] = Halved(u \div 2, low)
      BY Half
    <3> HIDE DEF h, low
    <3>2. low \in Nat
      BY DEF low
    <3> QED BY <3>1, <3>2, HalvedEquation DEF Big
  <2>2. h = [u \in Nat |-> Halved(u, low)]
    OBVIOUS
  <2> HIDE DEF h
  <2> QED BY <2>1, <2>2
<1>2. Solves(s)
  <2>1. \E g : Solves(g)
    BY <1>1
  <2> HIDE DEF Solves
  <2> QED BY <2>1
<1>3. Up(o) = s[Unhalved(o)]
  BY DEF Up, Unhalved
<1> HIDE DEF s
<1>4. Halves(s, Low(o))
  BY <1>2 DEF Halves, Big
<1> QED BY <1>3, <1>4

LEMMA HalvedAbove ==
    ASSUME NEW low \in Nat, NEW f, Halves(f, low), 2 * low < GB, GB \in Nat
    PROVE  \A u \in Nat : /\ u <= GB => f[u] = u
                          /\ low < u => low < f[u]
<1> DEFINE Bad == {u \in Nat : low < u /\ ~(low < f[u])}
<1>1. \A u \in Nat : u <= GB => f[u] = u
  BY DEF Halves, Big
<1>2. Bad = {}
  <2> SUFFICES ASSUME Bad # {} PROVE FALSE
    OBVIOUS
  <2>1. PICK u \in Bad : \A y \in Bad : u <= y
    <3>1. Bad \subseteq Nat
      OBVIOUS
    <3> HIDE DEF Bad
    <3> QED BY <3>1, LeastExists
  <2> DEFINE h == u \div 2
  <2>2. u \in Nat /\ low < u /\ ~(low < f[u])
    BY <2>1
  <2>3. Big(u, low) /\ f[u] = f[h]
    BY <2>2 DEF Halves
  <2>4. h \in Nat /\ low < h /\ h < u
    BY <2>2, <2>3 DEF Big
  <2> HIDE DEF h
  <2>5. h \in Bad
    BY <2>2, <2>3, <2>4
  <2> QED BY <2>1, <2>2, <2>4, <2>5
<1> QED BY <1>1, <1>2

(* On machines whose caches and cores are evenly shared out: every cache   *)
(* has cores, its share for each of them is less than half of a gigabyte   *)
(* and larger than in the cache below, and the cores of the caches below   *)
(* are its own; one without a cache below belongs to one core, and the     *)
(* shares of the nodes are larger than those of the last cache.            *)
CoresBelow(o) == Cardinality(Inside("CORE", o))
Share(o)      == topology.size[o] \div CoresBelow(o)
Even ==
    /\ Cores # {} /\ LLC # NULL
    /\ Cardinality(Cores) = Cardinality(Cousins(Type(LLC))) * CoresBelow(LLC)
    /\ \A o \in Objs : IsCache(o) =>
          LET lower == UnderMemory(o)
          IN /\ CoresBelow(o) > 0 /\ 2 * Share(o) < GB
             /\ IF lower = NULL THEN CoresBelow(o) = 1 /\ FirstLow < Share(o)
                ELSE /\ IsCache(lower) /\ Share(lower) < Share(o)
                     /\ CoresBelow(o) = Cardinality(Inside(Type(lower), o)) * CoresBelow(lower)
    /\ \A n \in Nodes : /\ UnderMemory(n) # NULL
                        /\ Share(LLC) < topology.size[n] \div Cardinality(Cores)

LEMMA Quotient ==
    ASSUME NEW a \in Nat, NEW d \in Nat \ {0}, NEW q \in Nat, NEW r \in Nat, a = d * q + r, r < d
    PROVE  a \div d = q
<1> DEFINE p == a \div d
<1>1. p \in Nat /\ d * p <= a /\ a < d * (p + 1)
  BY SMT
<1> HIDE DEF p
<1>2. ~(p < q)
  <2> SUFFICES ASSUME p + 1 <= q PROVE FALSE
    BY <1>1
  <2>1. d * (p + 1) <= d * q
    BY <1>1, SMT
  <2> QED BY <1>1, <2>1
<1>3. ~(q < p)
  <2> SUFFICES ASSUME q + 1 <= p PROVE FALSE
    BY <1>1
  <2>1. d * (q + 1) <= d * p /\ d * (q + 1) = d * q + d
    BY <1>1, SMT
  <2> QED BY <1>1, <2>1
<1> QED BY <1>1, <1>2, <1>3 DEF p

LEMMA SameQuotient ==
    ASSUME NEW n \in Nat \ {0}, NEW c \in Nat \ {0}, NEW s \in Nat
    PROVE  (n * s) \div (n * c) = s \div c
<1> DEFINE q == s \div c
           r == s % c
<1>1. q \in Nat /\ r \in Nat /\ s = c * q + r /\ r < c
  BY SMT
<1> HIDE DEF q, r
<1>2. n * s = (n * c) * q + n * r /\ n * r < n * c /\ n * c \in Nat \ {0} /\ n * r \in Nat /\ n * s \in Nat
  BY <1>1, SMT
<1>3. (n * s) \div (n * c) = q
  BY <1>1, <1>2, Quotient
<1> QED BY <1>3 DEF q

LEMMA Counts ==
    ASSUME OnMachine
    PROVE  /\ \A S \in SUBSET Objs : Cardinality(S) \in Nat
           /\ \A o \in Objs : topology.size[o] \in Nat /\ CoresBelow(o) \in Nat
           /\ \A t : Cardinality(Cousins(t)) \in Nat
           /\ \A t, o : Cardinality(Inside(t, o)) \in Nat
           /\ Cardinality(Cores) \in Nat /\ FirstLow \in Nat /\ GB \in Nat
<1>1. IsFiniteSet(Objs) /\ \A o \in Objs : topology.size[o] \in Nat
  BY DriverAssumption DEF OnMachine, Objs
<1>2. \A S \in SUBSET Objs : Cardinality(S) \in Nat
  BY <1>1, FS_Subset, FS_CardinalityType
<1>3. \A t : Cousins(t) \in SUBSET Objs
  BY DEF Cousins
<1>4. \A t, o : Inside(t, o) \in SUBSET Objs
  BY DEF Inside, Cousins
<1> QED BY <1>1, <1>2, <1>3, <1>4, DriverAssumption DEF CoresBelow, Cores

LEMMA CacheBelow ==
    ASSUME OnMachine, Even, NEW o \in Objs, IsCache(o), UnderMemory(o) # NULL
    PROVE  UnderMemory(o) \in Objs
<1> DEFINE c == First(Cpuset(o))
           S == {x \in FirstBelow(o) : IsCache(x)}
<1>1. CASE MemoryChildren(o) # {}
  <2>1. MemoryChildren(o) \subseteq Objs
    BY DEF MemoryChildren, Cousins
  <2> QED BY <1>1, <2>1, FirstObject DEF UnderMemory, MemoryFirstChild
<1>2. CASE MemoryChildren(o) = {}
  <2>1. Type(o) # "NUMANODE"
    BY DEF IsCache, Caches
  <2>2. UnderMemory(o) = First(S)
    BY <1>2, <2>1 DEF UnderMemory
  <2>3. Inside("CORE", o) # {}
    <3>1. CoresBelow(o) > 0 /\ CoresBelow(o) = Cardinality(Inside("CORE", o))
      BY DEF Even, CoresBelow
    <3>2. Cardinality({}) = 0
      BY FS_EmptySet
    <3> QED BY <3>1, <3>2
  <2>4. Cpuset(o) # {} /\ Cpuset(o) \subseteq Objs
    <3>1. PICK x \in Cores : Cpuset(x) \subseteq Cpuset(o)
      BY <2>3 DEF Inside, Cores
    <3>2. x \in Cpuset(x)
      BY DEF Cpuset, Cores, Cousins
    <3> QED BY <3>1, <3>2 DEF Cpuset, Cores, Cousins
  <2>5. c \in Objs
    BY <2>4, FirstObject
  <2>6. S \subseteq Objs
    <3>1. FirstBelow(o) \subseteq Ancestors(c) \cup {c}
      BY DEF FirstBelow
    <3> QED BY <2>5, <3>1, AncestorsSmaller
  <2> HIDE DEF S
  <2> QED BY <2>2, <2>6, FirstObject
<1> QED BY <1>1, <1>2

LEMMA OfCache ==
    ASSUME OnMachine, Even, NEW o \in Objs, IsCache(o)
    PROVE  /\ Up(o) = Share(o) /\ Low(o) < Up(o)
           /\ Share(o) \in Nat /\ 2 * Share(o) < GB
           /\ UnderMemory(o) # NULL =>
                /\ UnderMemory(o) \in Objs /\ IsCache(UnderMemory(o))
                /\ Low(o) = Share(UnderMemory(o))
<1> DEFINE l == UnderMemory(o)
<1>1. \A x \in Objs : IsCache(x) => CoresBelow(x) \in Nat \ {0} /\ topology.size[x] \in Nat /\ Share(x) \in Nat
  <2> SUFFICES ASSUME NEW x \in Objs, IsCache(x)
               PROVE  CoresBelow(x) \in Nat \ {0} /\ topology.size[x] \in Nat /\ Share(x) \in Nat
    OBVIOUS
  <2>1. CoresBelow(x) \in Nat \ {0} /\ topology.size[x] \in Nat
    BY Counts DEF Even
  <2> QED BY <2>1 DEF Share
<1>2. l # NULL => l \in Objs /\ IsCache(l) /\ Share(l) < Share(o) /\ 2 * Share(l) < GB
                  /\ CoresBelow(o) = Cardinality(Inside(Type(l), o)) * CoresBelow(l)
  BY CacheBelow DEF Even
<1>3. l = NULL => CoresBelow(o) = 1 /\ FirstLow < Share(o)
  BY DEF Even
<1> HIDE DEF l
<1>4. l # NULL => Low(o) = Share(l)
  <2> SUFFICES ASSUME l # NULL PROVE Low(o) = Share(l)
    OBVIOUS
  <2> DEFINE n == Cardinality(Inside(Type(l), o))
             z == topology.size[l]
             k == CoresBelow(l)
  <2>1. Low(o) = (n * z) \div CoresBelow(o)
    BY DEF Low, Memory, CoresBelow, l
  <2>2. CoresBelow(o) = n * k /\ CoresBelow(o) \in Nat \ {0} /\ k \in Nat \ {0} /\ z \in Nat /\ n \in Nat
    BY <1>1, <1>2, Counts
  <2>3. Share(l) = z \div k
    BY DEF Share
  <2> HIDE DEF n, z, k
  <2>4. n # 0
    BY <2>2
  <2> QED BY <2>1, <2>2, <2>3, <2>4, SameQuotient
<1>5. l = NULL => Low(o) = FirstLow
  BY DEF Low, l
<1>6. Low(o) \in Nat /\ Low(o) < Share(o) /\ Share(o) \in Nat /\ 2 * Share(o) < GB
  BY <1>1, <1>2, <1>3, <1>4, <1>5, Counts DEF Even
<1>7. Up(o) = Share(o)
  <2>1. PICK f : Halves(f, Low(o)) /\ Up(o) = f[Unhalved(o)]
    BY <1>6, UpIsHalved
  <2>2. Up(o) = f[Share(o)]
    BY <1>3, <2>1 DEF Unhalved, Share, CoresBelow, l
  <2>3. Share(o) <= GB /\ GB \in Nat
    BY <1>6, Counts
  <2>4. ~Big(Share(o), Low(o))
    BY <1>6, <2>3 DEF Big
  <2> QED BY <1>6, <2>1, <2>2, <2>4 DEF Halves
<1> QED BY <1>2, <1>4, <1>6, <1>7 DEF l

LEMMA OfNode ==
    ASSUME OnMachine, Even, NEW n \in Nodes
    PROVE  ~IsCache(n) /\ Low(n) = Up(LLC) /\ Low(n) < Up(n)
<1> DEFINE a == Cardinality(Cousins(Type(LLC)))
           k == CoresBelow(LLC)
           z == topology.size[LLC]
<1>1. ~IsCache(n) /\ n \in Objs
  BY DEF IsCache, Caches, Nodes, Cousins
<1>2. LLC \in Objs /\ IsCache(LLC)
  <2> DEFINE S == {o \in Ancestors(Core0) : IsCache(o)}
  <2>1. Core0 \in Objs
    <3>1. Cores \subseteq Objs /\ Cores # {}
      BY DEF Even, Cores, Cousins
    <3> QED BY <3>1, FirstObject DEF Core0
  <2>2. S \subseteq Objs
    BY <2>1, AncestorsSmaller
  <2>3. LLC = First(S) /\ LLC # NULL
    BY DEF LLC, Even
  <2>4. LLC \in S
    <3> HIDE DEF S
    <3> QED BY <2>2, <2>3, FirstObject
  <2> QED BY <2>2, <2>4
<1>3. UnderMemory(n) # NULL /\ Share(LLC) < topology.size[n] \div Cardinality(Cores)
  BY DEF Even
<1>4. Up(LLC) = Share(LLC) /\ Share(LLC) \in Nat /\ 2 * Share(LLC) < GB
  BY <1>2, OfCache
<1>5. Cardinality(Cores) = a * k /\ k \in Nat \ {0} /\ z \in Nat /\ a \in Nat /\ Cardinality(Cores) \in Nat \ {0}
  <2>1. Cardinality(Cores) = a * k /\ k > 0 /\ Cores # {}
    BY <1>2 DEF Even
  <2>2. Cardinality(Cores) # 0
    <3>1. IsFiniteSet(Cores)
      <4>1. IsFiniteSet(Objs) /\ Cores \subseteq Objs
        BY DriverAssumption DEF OnMachine, Objs, Cores, Cousins
      <4> QED BY <4>1, FS_Subset
    <3> QED BY <2>1, <3>1, FS_EmptySet
  <2>3. k \in Nat /\ z \in Nat /\ a \in Nat /\ Cardinality(Cores) \in Nat
    BY <1>2, Counts
  <2> HIDE DEF a, k, z
  <2> QED BY <2>1, <2>2, <2>3
<1>6. Low(n) = (a * z) \div Cardinality(Cores)
  BY <1>1, <1>3 DEF Low, Memory
<1>7. Share(LLC) = z \div k
  BY DEF Share
<1> HIDE DEF a, k, z
<1>8. a # 0
  BY <1>5
<1>9. Low(n) = Share(LLC)
  BY <1>5, <1>6, <1>7, <1>8, SameQuotient
<1>10. PICK f : Halves(f, Low(n)) /\ Up(n) = f[Unhalved(n)]
  BY <1>4, <1>9, UpIsHalved
<1>11. Up(n) = f[topology.size[n] \div Cardinality(Cores)]
  BY <1>1, <1>3, <1>10 DEF Unhalved
<1> DEFINE u == topology.size[n] \div Cardinality(Cores)
<1>12. u \in Nat
  <2>1. topology.size[n] \in Nat
    BY <1>1, Counts
  <2> QED BY <1>5, <2>1
<1>13. Low(n) < u
  BY <1>3, <1>9
<1>14. Up(n) = f[u]
  BY <1>11
<1> HIDE DEF u
<1>15. Low(n) < f[u]
  <2>1. Low(n) \in Nat /\ 2 * Low(n) < GB /\ GB \in Nat
    BY <1>4, <1>9, Counts
  <2> DEFINE low == Low(n)
  <2>2. low \in Nat /\ 2 * low < GB /\ GB \in Nat /\ low < u
    BY <1>13, <2>1
  <2>3. Halves(f, low)
    BY <1>10
  <2> HIDE DEF low
  <2>4. \A w \in Nat : low < w => low < f[w]
    BY <2>2, <2>3, HalvedAbove
  <2>5. low < f[u]
    BY <1>12, <2>2, <2>4
  <2> QED BY <2>5 DEF low
<1> QED BY <1>1, <1>4, <1>9, <1>14, <1>15

(* On a machine whose caches and cores are evenly shared out, the range of *)
(* sizes for a memory begins where that for the memory below it ends, and  *)
(* halving the upper bound leaves it above the lower one                   *)
(* (roofline_hwloc_get_memory_bounds()).                                   *)
THEOREM RangesFollow == Spec => [](Even => LevelsAdjoin)
<1>1. DriverInv /\ TargetInv => (Even => LevelsAdjoin)
  <2> SUFFICES ASSUME DriverInv, TargetInv, Even, NEW r \in Measured
               PROVE  LET o == r.mem
                      IN /\ Low(o) < Up(o)
                         /\ UnderMemory(o) # NULL /\ IsCache(o) => Low(o) = Up(UnderMemory(o))
                         /\ ~IsCache(o) => Low(o) = Up(LLC)
    BY DEF LevelsAdjoin
  <2> DEFINE o == r.mem
  <2>1. o \in Objs /\ IsMemory(o) /\ OnMachine
    BY DEF TargetInv, DriverInv, OptionsInv
  <2> HIDE DEF o
  <2>2. CASE IsCache(o)
    <3>1. UnderMemory(o) # NULL => Up(UnderMemory(o)) = Share(UnderMemory(o))
      BY <2>1, <2>2, OfCache
    <3> QED BY <2>1, <2>2, <3>1, OfCache DEF o
  <2>3. CASE ~IsCache(o)
    <3>1. o \in Nodes
      BY <2>1, <2>3 DEF IsMemory, Nodes, Cousins
    <3> QED BY <2>1, <2>3, <3>1, OfNode DEF o
  <2> QED BY <2>2, <2>3
<1> QED BY <1>1, DriverAlways, TargetAlways, PTL
=============================================================================
