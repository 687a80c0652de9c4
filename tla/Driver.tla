-------------------------------- MODULE Driver --------------------------------
(***************************************************************************)
(* The roofline program (src/src/main.c) from its options to the list of   *)
(* benchmarks it runs: for the flops, then for each memory of the walk, of *)
(* the list the user gave, or of a matrix of clusters and NUMA nodes.  One *)
(* step runs all benchmarks of one memory.  Bench and Validation model     *)
(* what happens in them; SetRoot what roofline_set_root() does to the      *)
(* threads.                                                                *)
(***************************************************************************)
EXTENDS Topology, Sequences, Order

CONSTANTS Machines,    \* the machines the program may find
          Options(_),  \* the options it may be given on a machine
          Supported,   \* benchmark_types_supported(), and LATENCY_LOAD
          UINT,        \* the number of values of an unsigned: 2^32
          Precision    \* a double is rounded by at most a 2^53rd of it

CacheOps == {"LOAD", "STORE", "2LD1ST", "LATENCY_LOAD"}
NTOps    == {"LOAD_NT", "STORE_NT"}
FlopOps  == {"ADD", "MUL", "MAD", "FMA"}
ASSUME DriverAssumption ==
    /\ Supported \subseteq CacheOps \cup NTOps \cup FlopOps /\ {"LOAD", "LATENCY_LOAD"} \subseteq Supported
    /\ FirstLow \in Nat /\ GB \in Nat
    /\ UINT \in Nat \ {0, 1} /\ Precision \in Nat \ {0}
    /\ \A m \in Machines :
          /\ DOMAIN m.type \subseteq Nat \ {NULL} /\ IsFiniteSet(DOMAIN m.type)
          /\ \A o \in DOMAIN m.type :
                /\ m.type[o] \in Types /\ m.size[o] \in Nat
                /\ m.parent[o] # NULL => /\ m.parent[o] \in DOMAIN m.type /\ m.parent[o] < o
                                         /\ m.type[m.parent[o]] # "NUMANODE"
          /\ Options(m) \subseteq
                [types : SUBSET (CacheOps \cup NTOps \cup FlopOps), oi : Int \X (Nat \ {0}),
                 up : BOOLEAN, src : DOMAIN m.type, given : BOOLEAN, list : Seq(DOMAIN m.type), matrix : BOOLEAN,
                 policy : {"firsttouch", "firsttouch_HBM", "interleave", "interleave_DDR", "interleave_HBM"}]

VARIABLES opts,    \* [types, oi, up, src, given, list, matrix, policy]
          root,    \* where the threads are
          mem,     \* the memory that was measured last
          next,    \* the next entry of the list
          ran,     \* the benchmarks that were run ...
          again,   \* ... and those that were run more than once
          areas,   \* the nodes of each buffer that was bound
          pc

vars == <<topology, opts, root, mem, next, ran, again, areas, pc>>

-----------------------------------------------------------------------------
(* src/src/types.c                                                         *)
DefaultTypes(o) ==
    Supported \cap
    CASE Type(o) = "L1"            -> {"LOAD", "STORE", "2LD1ST"}
      [] Type(o) \in {"L2", "L3"}  -> {"LOAD", "STORE"}
      [] Type(o) \in {"NUMANODE", "MACHINE"} -> {"LOAD", "STORE", "STORE_NT"}
      [] Type(o) = "CORE"          -> FlopOps
      [] OTHER                     -> {}

FilterTypes(o, types) ==
    types \cap Supported \cap
    IF IsCache(o) THEN CacheOps
    ELSE IF Depth(o) <= NumaDepth THEN CacheOps \cup NTOps
    ELSE IF Type(o) = "CORE" THEN FlopOps ELSE {}

MemTypes(o) == IF opts.types = {} THEN DefaultTypes(o) ELSE FilterTypes(o, opts.types)

(* -oi: an intensity is the rational number oi[1] / oi[2] that the double  *)
(* stands for, -v is negative, and 0 is none.                              *)
Validate == opts.oi[1] < 0
Plain    == opts.oi[1] <= 0
Round(a, b) == (2 * a + b) \div (2 * b)

(* A double that is cut off to an unsigned: a conversion to 64 bits, which *)
(* gives 2^63 beyond their range, and of that the low half.                *)
ToUnsigned(n) == IF 2 * n < UINT * UINT THEN n % UINT ELSE 0

(* 1 / oi is rounded to a double, which may be the next whole number.      *)
Reciprocal == opts.oi[2] \div opts.oi[1]
NextIsNear == ((Reciprocal + 1) * opts.oi[1] - opts.oi[2]) * Precision <= opts.oi[2]

Bytes == IF opts.oi[1] >= opts.oi[2] THEN 64
         ELSE ToUnsigned(IF opts.up /\ NextIsNear THEN Reciprocal + 1 ELSE Reciprocal)

\* Slip: the flops are cut off.
FlopsCut == ToUnsigned((Bytes * opts.oi[1]) \div opts.oi[2])

Flops == ToUnsigned(Round(Bytes * opts.oi[1], opts.oi[2]))

(* The calls of roofline_oi: <<flops, bytes>>.                             *)
Intensities ==
    IF Validate THEN {<<1, 2 * b>> : b \in 1 .. 16} \cup {<<f, 1>> : f \in 1 .. 13}
    ELSE IF Plain THEN {} ELSE {<<Flops, Bytes>>}

\* bench_memory()
Benchmarks(r, m) ==
    IF MemTypes(m) = {} THEN {}
    ELSE {[root |-> r, mem |-> m, op |-> <<t>>] :
             t \in IF Plain THEN FilterTypes(m, MemTypes(m)) ELSE {}}
         \cup {[root |-> r, mem |-> m, op |-> oi] : oi \in Intensities}

Log(new) == ran' = ran \cup new /\ again' = again \cup (ran \cap new)

BenchMemory(r, m) ==
    /\ mem' = m
    /\ \E new \in {Benchmarks(r, m)} :
          /\ Log(new)
          /\ areas' \in IF new = {} THEN {<< >>} ELSE AreasBound(opts.policy, m, Cpuset(r))

-----------------------------------------------------------------------------
Init ==
    /\ topology \in Machines /\ opts \in Options(topology)
    /\ root = NULL /\ mem = NULL /\ next = 1
    /\ ran = {} /\ again = {} /\ areas = << >>
    /\ pc = "init"

\* What remains of the user's list (-m).
Memories(list) ==
    LET kept == {i \in DOMAIN list : IsMemory(list[i])}
    IN [j \in 1 .. Cardinality(kept) |-> list[Ascending(kept)[j]]]

(* roofline_lib_init(): the threads go to the leaves of the object, or of  *)
(* its parent if it has none.  Then the list is restricted to memories.    *)
Root(src) == IF Type(src) = "NUMANODE" THEN Parent(src) ELSE src

LibInit ==
    /\ pc = "init"
    /\ root' = Root(opts.src)
    /\ opts' = [opts EXCEPT !.list = Memories(@)]
    /\ pc' = "flops"
    /\ UNCHANGED <<topology, mem, next, ran, again, areas>>

\* roofline_flops()
BenchFlops ==
    /\ pc = "flops"
    /\ LET asked == IF opts.types = {} THEN DefaultTypes(Core0) ELSE opts.types
           types == IF Plain THEN FilterTypes(Core0, asked) ELSE {}
       IN Log({[root |-> root, mem |-> NULL, op |-> <<t>>] : t \in types})
    /\ pc' = IF opts.matrix THEN "matrix" ELSE IF opts.given THEN "list" ELSE "walk"
    /\ UNCHANGED <<topology, opts, root, mem, next, areas>>

WalkStep ==
    /\ pc = "walk"
    /\ \E memory \in Objs : memory = NextMemory(mem) /\ BenchMemory(root, memory)
    /\ UNCHANGED <<topology, opts, root, next, pc>>

EndWalk ==
    /\ pc = "walk" /\ NextMemory(mem) = NULL
    /\ pc' = "exit"
    /\ UNCHANGED <<topology, opts, root, mem, next, ran, again, areas>>

ListStep ==
    /\ pc = "list" /\ next <= Len(opts.list)
    /\ BenchMemory(root, opts.list[next])
    /\ next' = next + 1
    /\ UNCHANGED <<topology, opts, root, pc>>

EndList ==
    /\ pc = "list" /\ next > Len(opts.list)
    /\ pc' = "exit"
    /\ UNCHANGED <<topology, opts, root, mem, next, ran, again, areas>>

(* The matrix: the threads on each cluster, the data on each node.  In     *)
(* mem is the node that was measured last, NULL before the first one.      *)
Node0   == First(Cousins("NUMANODE"))

\* Slip: the clusters start again as the nodes do.
ClusterAgain ==
    IF mem = NULL \/ (NextCousin(mem) = NULL /\ NextCousin(root) = NULL) THEN First(Cousins("GROUP"))
    ELSE IF NextCousin(mem) = NULL THEN NextCousin(root) ELSE root

Cluster == IF mem = NULL THEN First(Cousins("GROUP"))
           ELSE IF NextCousin(mem) = NULL THEN NextCousin(root) ELSE root

\* Slip: the walk over the nodes does not start again for the next cluster.
NodeOnce == IF mem = NULL THEN Node0 ELSE IF NextCousin(mem) = NULL THEN mem ELSE NextCousin(mem)

Node == IF mem = NULL \/ NextCousin(mem) = NULL THEN Node0 ELSE NextCousin(mem)

MatrixStep ==
    /\ pc = "matrix"
    /\ \E cluster, node \in Objs :
          /\ cluster = Cluster /\ node = Node
          /\ root' = cluster
          /\ BenchMemory(cluster, node)
    /\ UNCHANGED <<topology, opts, next, pc>>

EndMatrix ==
    /\ pc = "matrix" /\ Cluster = NULL
    /\ pc' = "exit"
    /\ UNCHANGED <<topology, opts, root, mem, next, ran, again, areas>>

Exit == pc = "exit" /\ UNCHANGED vars

Next == \/ LibInit \/ BenchFlops
        \/ WalkStep \/ EndWalk \/ ListStep \/ EndList \/ MatrixStep \/ EndMatrix
        \/ Exit

(* One sequential program, whose benchmarks return (Bench).                *)
Spec == Init /\ [][Next]_vars /\ WF_vars(Next)

-----------------------------------------------------------------------------
Hierarchy == {o \in Ancestors(Core0) : IsCache(o)} \cup Cousins("NUMANODE")
Measured  == {r \in ran : r.mem # NULL}
NoFilter  == opts.types = {} /\ Plain

(* Without options the walk measures every NUMA node of the machine and    *)
(* every cache above the first core.                                       *)
WholeHierarchy ==
    pc = "exit" /\ ~opts.matrix /\ ~opts.given /\ NoFilter =>
        {r.mem : r \in Measured} = Hierarchy

(* The two loops of the matrix, over the groups of the machine whatever    *)
(* --src says, measure each group with each NUMA node where there are any. *)
MatrixComplete ==
    pc = "exit" /\ opts.matrix /\ NoFilter /\ Cousins("GROUP") # {} =>
        {<<r.root, r.mem>> : r \in Measured} = Cousins("GROUP") \X Cousins("NUMANODE")

(* "Benchmark bandwidth matrix at --src level" (src/src/main.c:31): it has *)
(* an entry for each object of the level where the threads were asked to   *)
(* be, and each NUMA node.                                                 *)
MatrixAtSource ==
    pc = "exit" /\ opts.matrix /\ NoFilter =>
        {<<r.root, r.mem>> : r \in Measured}
            = Cousins(Type(Root(opts.src))) \X Cousins("NUMANODE")

(* Nothing is run twice, unless the user lists a memory twice.             *)
NothingTwice ==
    again # {} => \E a, b \in 1 .. next - 1 : a # b /\ opts.list[a] = opts.list[b]

(* The sizes for a memory begin where those for the memory below end, and  *)
(* they are not empty.                                                     *)
LevelsAdjoin ==
    \A o \in {r.mem : r \in Measured} :
        /\ Low(o) < Up(o)
        /\ UnderMemory(o) # NULL /\ IsCache(o) => Low(o) = Up(UnderMemory(o))
        /\ ~IsCache(o) => Low(o) = Up(LLC)

(* A thread whose binding the system accepts has its buffer on the NUMA    *)
(* node that is measured, and for a cache on the nodes of its own group.   *)
(* For a thread that is refused nothing is promised: it measures what its  *)
(* pages happen to be on, and only a line on stderr tells.                 *)
DataOnTarget ==
    \A c \in DOMAIN areas :
        /\ areas[c] # {}
        /\ areas[c] = {mem} \/ (IsCache(mem) /\ \A n \in areas[c] : Parent(n) \in Ancestors(c))

(* The results of a thread are added to the group that contains it, which  *)
(* is one of those that are printed.                                       *)
OwnGroup ==
    root # NULL => \A c \in Cpuset(root) :
        /\ OutputGroup(c) \in MemoryGroups \cap Ancestors(c)
        /\ Type(Parent(Node0)) = Type(FirstMemoryGroup)

(* An intensity for which the counts fit in an unsigned is tried with at   *)
(* least one flop and one byte.  Below 1 what is tried is less than twice  *)
(* what was asked for, and not lower but for the rounding of a double;     *)
(* from 1 on it is off by at most half a flop in 64 bytes.                 *)
InRange ==
    IF opts.oi[1] < opts.oi[2] THEN Reciprocal + 1 < UINT ELSE Round(64 * opts.oi[1], opts.oi[2]) < UINT
NearIntensity ==
    ~Plain /\ InRange =>
        LET asked == Bytes * opts.oi[1] got == Flops * opts.oi[2]
        IN /\ Flops > 0 /\ Bytes > 0
           /\ IF opts.oi[1] < opts.oi[2]
              THEN got < 2 * asked /\ (asked - got) * Precision <= got
              ELSE 2 * (got - asked) <= opts.oi[2] /\ 2 * (asked - got) <= opts.oi[2]

(* The program ends.                                                       *)
Ends == <>(pc = "exit")

(* For a memory of more than one node the user's policy chooses the nodes  *)
(* ("Set the allocation policy when target memory scope more than one      *)
(* node", src/src/main.c:33): with a policy for fast memory the buffers    *)
(* are in fast memory.                                                     *)
PolicyFollowed ==
    opts.policy \in {"firsttouch_HBM", "interleave_HBM"} =>
        \A c \in DOMAIN areas :
            Cardinality(Nodeset(mem)) > 1 => \A n \in areas[c] : topology.hbm[n]
=============================================================================
