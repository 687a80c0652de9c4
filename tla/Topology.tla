------------------------------- MODULE Topology -------------------------------
(***************************************************************************)
(* src/src/topology.c: what the program asks of the machine that hwloc     *)
(* found.  A machine is a tree of objects, numbered so that parents come   *)
(* before their children and objects of one type in their logical order.   *)
(* NUMA nodes are the memory children of their parent, the other objects   *)
(* its normal children.  PUs are left out: a leaf is a core.  Sizes are in *)
(* KB.                                                                     *)
(***************************************************************************)
EXTENDS Integers, FiniteSets

CONSTANTS NULL,        \* no object
          MayRefuse,   \* the cores whose thread may not get its memory bound
          FirstLow,    \* 4 * CHUNK_SIZE
          GB

Caches == {"L1", "L2", "L3"}
Types  == Caches \cup {"MACHINE", "PACKAGE", "GROUP", "CORE", "NUMANODE"}

VARIABLE topology   \* [type, parent, size, hbm : functions of the objects]

Objs    == DOMAIN topology.type
Type(o) == topology.type[o]
Parent(o)    == topology.parent[o]
Cousins(t)   == {o \in Objs : Type(o) = t}
First(S)     == IF S = {} THEN NULL ELSE CHOOSE x \in S : \A y \in S : x <= y
Last(S)      == IF S = {} THEN NULL ELSE CHOOSE x \in S : \A y \in S : y <= x
NextCousin(o) == First({x \in Cousins(Type(o)) : x > o})
MemoryChildren(o)   == {n \in Cousins("NUMANODE") : Parent(n) = o}
MemoryFirstChild(o) == First(MemoryChildren(o))

Ancestors(o) ==
    LET above[x \in Objs] == IF Parent(x) = NULL THEN {} ELSE {Parent(x)} \cup above[Parent(x)]
    IN above[o]

(* The depth of NUMA nodes is -3 whatever the machine.                     *)
NumaDepth == -3
Depth(o)  == IF Type(o) = "NUMANODE" THEN NumaDepth ELSE Cardinality(Ancestors(o))

(* cpuset and nodeset                                                      *)
Cores == Cousins("CORE")
Cpuset(o) == LET n == IF Type(o) = "NUMANODE" THEN Parent(o) ELSE o
             IN {c \in Cores : n = c \/ n \in Ancestors(c)}
Nodeset(o) ==
    IF Type(o) = "NUMANODE" THEN {o}
    ELSE {n \in Cousins("NUMANODE") :
            Parent(n) = o \/ Parent(n) \in Ancestors(o) \/ o \in Ancestors(Parent(n))}
Inside(t, o) == {x \in Cousins(t) : Cpuset(x) \subseteq Cpuset(o)}

IsCache(o)  == Type(o) \in Caches
IsMemory(o) == IsCache(o) \/ Type(o) = "NUMANODE"

-----------------------------------------------------------------------------
(* A memory group is an object with NUMA nodes, at the level found above   *)
(* the first core.                                                         *)
Core0 == First(Cores)
FirstMemoryGroup ==
    Last({o \in Ancestors(Core0) \cup {Core0} : MemoryChildren(o) # {}})
MemoryGroupDepth == Depth(FirstMemoryGroup)
MemoryGroups     == Cousins(Type(FirstMemoryGroup))

(* hwloc_get_first_largest_obj_inside_cpuset of the leaf of a thread       *)
GetCpubind(c) == First({o \in Ancestors(c) \cup {c} : Cpuset(o) = {c}})

LocalDomain(c) ==
    LET bound == GetCpubind(c)
    IN IF Depth(bound) <= MemoryGroupDepth THEN bound
       ELSE Last({o \in Ancestors(bound) : Depth(o) <= MemoryGroupDepth})

\* Slip: the object of the thread itself indexes the array.
OutputOfThread(c) == GetCpubind(c)

(* The element of the array of outputs that a thread's results go to: its  *)
(* index is a logical index.                                               *)
OutputGroup(c) ==
    LET bound == GetCpubind(c)
    IN IF Depth(bound) < MemoryGroupDepth THEN FirstMemoryGroup
       ELSE Last({o \in Ancestors(bound) \cup {bound} : Depth(o) <= MemoryGroupDepth})

-----------------------------------------------------------------------------
(* The walk from the first cache of the first core upwards.                *)
FirstMemory == First(Cousins("L1"))

\* Slip: the memory children on the way are passed by.
NextMemoryUp(o) ==
    IF o = NULL THEN FirstMemory
    ELSE IF Type(o) = "NUMANODE" /\ NextCousin(o) # NULL THEN NextCousin(o)
    ELSE Last({a \in Ancestors(o) : IsMemory(a)})

\* Slip: from the last NUMA node to any ancestor that has memory.
NextMemoryBack(o) ==
    IF o = NULL THEN FirstMemory
    ELSE IF Type(o) = "NUMANODE" /\ NextCousin(o) # NULL THEN NextCousin(o)
    ELSE LET up == Last({a \in Ancestors(o) : IsMemory(a) \/ MemoryChildren(a) # {}})
         IN IF up = NULL \/ IsMemory(up) THEN up ELSE MemoryFirstChild(up)

(* Its first branch ends without a return when there is a cousin.  The     *)
(* makefiles build the program with -g and no optimisation; the register   *)
(* of the result then still holds the cousin that was compared with NULL.  *)
NextMemory(o) ==
    IF o = NULL THEN FirstMemory
    ELSE IF Type(o) = "NUMANODE"
    THEN IF NextCousin(o) # NULL THEN NextCousin(o)
         ELSE Last({a \in Ancestors(o) : IsMemory(a)})
    ELSE LET up == Last({a \in Ancestors(o) : IsMemory(a) \/ MemoryChildren(a) # {}})
         IN IF up = NULL \/ IsMemory(up) THEN up ELSE MemoryFirstChild(up)

(* The first cache on the way down from the machine, and its cousins.      *)
LLC == First({o \in Ancestors(Core0) : IsCache(o)})

\* The objects on the way down from o along the first children.
FirstBelow(o) ==
    LET c == First(Cpuset(o)) IN {x \in Ancestors(c) \cup {c} : o \in Ancestors(x)}

UnderMemory(o) ==
    IF MemoryChildren(o) # {} THEN MemoryFirstChild(o)
    ELSE IF Type(o) = "NUMANODE"
    THEN First({x \in Cousins(Type(LLC)) : x >= LLC /\
                  (Cpuset(x) \subseteq Cpuset(o) \/ Cpuset(o) \subseteq Cpuset(x))})
    ELSE First({x \in FirstBelow(o) : IsCache(x)})

-----------------------------------------------------------------------------
(* The sizes of a buffer that does not fit the memory below.               *)
Memory(n, size, cpus) == (n * size) \div cpus

\* Slip: the memories below are not counted.
LowOfOne(o) ==
    LET lower == UnderMemory(o) cpus == Cardinality(Inside("CORE", o))
    IN IF lower = NULL THEN FirstLow
       ELSE IF IsCache(o) THEN Memory(1, topology.size[lower], cpus)
       ELSE Memory(1, topology.size[LLC], Cardinality(Cores))

Low(o) ==
    LET lower == UnderMemory(o) cpus == Cardinality(Inside("CORE", o))
    IN IF lower = NULL THEN FirstLow
       ELSE IF IsCache(o)
       THEN Memory(Cardinality(Inside(Type(lower), o)), topology.size[lower], cpus)
       ELSE Memory(Cardinality(Cousins(Type(LLC))), topology.size[LLC], Cardinality(Cores))

(* It is halved until the runs are short enough.                           *)
Up(o) ==
    LET cpus == IF UnderMemory(o) = NULL THEN 1
                ELSE IF IsCache(o) THEN Cardinality(Inside("CORE", o)) ELSE Cardinality(Cores)
        halved[u \in Nat] == IF u > GB /\ u > 2 * Low(o) THEN halved[u \div 2] ELSE u
    IN halved[topology.size[o] \div cpus]

-----------------------------------------------------------------------------
(* The nodes to which the thread of core c asks to bind its buffer.        *)

\* What the branch for memories of several nodes makes of the policy.
ByPolicy(policy, o, c) ==
    LET domain == LocalDomain(c) node == MemoryFirstChild(domain)
        near   == {n \in MemoryChildren(domain) : n > node /\ topology.hbm[n]}
    IN CASE policy = "firsttouch"     -> {node}
         [] policy = "firsttouch_HBM" -> IF near = {} THEN Nodeset(domain) ELSE {First(near)}
         [] policy = "interleave"     -> Nodeset(o)
         [] policy = "interleave_DDR" -> {n \in Nodeset(o) : ~topology.hbm[n]}
         [] policy = "interleave_HBM" -> {n \in Nodeset(o) : topology.hbm[n]}

\* Slip: a NUMA node is taken for a cache.
AreaNear(policy, o, c) ==
    IF Depth(o) < NumaDepth THEN ByPolicy(policy, o, c) ELSE Nodeset(LocalDomain(c))

SetAreaMembind(policy, o, c) ==
    IF Depth(o) < NumaDepth THEN ByPolicy(policy, o, c)
    ELSE IF Depth(o) > NumaDepth THEN Nodeset(LocalDomain(c))
    ELSE {o}

(* The system may refuse the binding: roofline_hwloc_set_area_membind()    *)
(* then says so and returns NULL before it touches the buffer, and the     *)
(* benchmark goes on with pages that nothing placed.  Such a thread is not *)
(* in the domain.                                                          *)
AreasBound(policy, o, cpus) ==
    {[c \in cpus \ refused |-> SetAreaMembind(policy, o, c)] : refused \in SUBSET (cpus \cap MayRefuse)}
=============================================================================
