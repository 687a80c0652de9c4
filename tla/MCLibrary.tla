------------------------------ MODULE MCLibrary ------------------------------
(* Four PUs in three cores and two NUMA nodes: the machine is at depth 0,  *)
(* packages at depth 1, cores at depth 2.  With hwloc 2 the NUMA nodes are *)
(* not at a depth of the tree (HWLOC_TYPE_DEPTH_NUMANODE is -3).           *)
EXTENDS Library

MCDepths   == {0, 1, 2}
MCObjectOf == [d \in MCDepths |->
                  CASE d = 0 -> [p \in 0 .. 3 |-> 0]
                    [] d = 1 -> [p \in 0 .. 3 |-> p \div 3]
                    [] d = 2 -> [p \in 0 .. 3 |-> IF p < 2 THEN p ELSE 2]]
MCNodeOf   == [p \in 0 .. 3 |-> p \div 3]
MCTypeDepth == [MACHINE |-> 0, NUMA |-> -3, CORE |-> 2]

MCRequests ==
    {[output |-> "file", append |-> a, reduction |-> t] : a \in BOOLEAN, t \in {"NUMA", "CORE"}}
    \cup {[output |-> "stdout", append |-> FALSE, reduction |-> "MACHINE"]}
==============================================================================
