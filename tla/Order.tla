-------------------------------- MODULE Order --------------------------------
(***************************************************************************)
(* The elements of a finite set of numbers in increasing order, as the     *)
(* code goes through logical indexes and sizes.  The jth one is the one    *)
(* that has j - 1 smaller ones.                                            *)
(***************************************************************************)
EXTENDS Integers, FiniteSets

Smaller(S, x) == {y \in S : y < x}
Ascending(S)  == [j \in 1 .. Cardinality(S) |->
                     CHOOSE x \in S : Cardinality(Smaller(S, x)) = j - 1]
=============================================================================
