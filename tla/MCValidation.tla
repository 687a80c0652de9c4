---------------------------- MODULE MCValidation ----------------------------
(***************************************************************************)
(* Requests on which TLC checks Validation, with 256-bit registers: the    *)
(* intensities of "roofline -v" for a first-level cache of 32 KB, one with *)
(* no flops, and three for the next level, of which one (-oi 7.75) makes   *)
(* blocks of 32 instructions, so that each block starts with the first     *)
(* register, and one has a chunk too long for an unsigned of 20 bits.      *)
(***************************************************************************)
EXTENDS Validation

Two   == <<"LOAD", "2LD1ST">>
Tried == <<"FMA", "MAD">>

L1(f, b) == [flops |-> f, bytes |-> b, first |-> TRUE,  low |-> 0,     up |-> 32768]
L2(f, b) == [flops |-> f, bytes |-> b, first |-> FALSE, low |-> 32768, up |-> 262144]

Validate == {L1(1, 2 * b) : b \in 1 .. 16} \cup {L1(f, 1) : f \in 1 .. 13}
Some     == {L1(0, 1), L2(1, 32), L2(496, 64), L2(1, 4097)}
Asked    == Validate \cup Some
=============================================================================
