------------------------------ MODULE Validation ------------------------------
(***************************************************************************)
(* The validation benchmarks: roofline_oi() (src/src/roofline.c) asks      *)
(* benchmark_validation() (src/src/MSC/intel/validation.c) for a program   *)
(* that executes a number of flops for a number of bytes and measures it   *)
(* on buffers of several sizes.  The program is written, compiled and      *)
(* loaded on the fly.  Its inner loop consists of blocks of loads and      *)
(* stores followed by flops; it advances through the buffer by offset      *)
(* bytes and ends when the rest of the buffer is exactly zero, so that the *)
(* sizes must be multiples of the offset: they are computed from           *)
(* oi_chunk_size, a global that the generator sets.                        *)
(*                                                                         *)
(* The text of the program is abstracted to what it executes.  A library   *)
(* that is loaded stays loaded, and dlopen() then returns it again for the *)
(* same file name, whatever the file holds by now.                         *)
(***************************************************************************)
EXTENDS Integers, Sequences, FiniteSets

CONSTANTS MemTypes,   \* the memory operations to validate, in order
          FlopTypes,  \* the operations on registers to try, in order
          Requests,   \* the flops and bytes asked for and the memory level
          SimdBytes,  \* SIMD_BYTES
          SimdFlops,  \* SIMD_FLOPS
          NRegs,      \* SIMD_N_REGS
          Alignement, \* the cache line size
          NSizes,     \* ROOFLINE_N_SAMPLES
          UINT,       \* the number of values of an unsigned: 2^32
          MaxCalls    \* bound: calls of roofline_oi

MemOps  == {"LOAD", "LOAD_NT", "STORE", "STORE_NT", "2LD1ST"}
FlopOps == {"ADD", "MUL", "MAD", "FMA"}
ASSUME SimdAssumption ==
    /\ SimdBytes \in Nat \ {0} /\ SimdFlops \in Nat \ {0} /\ SimdBytes % SimdFlops = 0
    /\ NRegs \in Nat /\ Alignement \in Nat \ {0} /\ NSizes \in Nat \ {0} /\ UINT \in Nat \ {0}
\* The last three bounds: the instructions of a program, each one a line of
\* its text, and the products for a block can be counted with an unsigned.
ASSUME RequestAssumption ==
    /\ MemTypes \in Seq(MemOps) /\ FlopTypes \in Seq(FlopOps)
    /\ \A r \in Requests : /\ r.flops \in Nat /\ r.bytes \in Nat /\ r.first \in BOOLEAN
                           /\ r.low \in Nat /\ r.up \in Nat /\ (r.first \/ r.low > 0)
                           /\ 192 * r.bytes < UINT
                           /\ 2 * SimdBytes * r.bytes < UINT /\ 2 * SimdBytes * r.flops < UINT
    /\ MaxCalls \in Nat

VARIABLES calls,          \* how many calls were made
          request,        \* the arguments of the call
          i, j,           \* the memory and the flop type at hand
          mem_ins,        \* memory instructions in a block
          flop_ins,       \* flop instructions in a block
          max, min,       \* variables of roofline_PGCD
          muops, fuops,   \* memory and flop instructions written
          stores,         \* those of muops that are the stores of 2LD1ST
          regnum,         \* the next register
          oi_chunk_size,
          loaded,         \* the libraries that are loaded
          benchmark,      \* the one that is measured
          pc

writer == <<mem_ins, flop_ins, max, min, muops, fuops, stores, regnum>>
vars   == <<calls, request, i, j, writer, oi_chunk_size, loaded, benchmark, pc>>

-----------------------------------------------------------------------------
Mem  == MemTypes[i]
Flop == FlopTypes[j]

\* Slip: the file is not named after the flop type.
NameWithoutFlop == <<Mem, request.bytes, request.flops>>

(* What the names of the files are made of.                                *)
Name == <<Mem, request.bytes, Flop, request.flops>>

(* What the program executes in one pass of its loop: the flops are those  *)
(* of the end_measure() it calls, for offset bytes.                        *)
Fused == IF Flop = "FMA" THEN 2 ELSE 1
Code == [offset |-> muops * SimdBytes, flops |-> fuops * SimdFlops * Fused]

NoCode == [offset |-> 0, flops |-> 0]

Init ==
    /\ calls = 0 /\ request \in Requests /\ i = 1 /\ j = 1
    /\ mem_ins = 1 /\ flop_ins = 1 /\ max = 1 /\ min = 1
    /\ muops = 0 /\ fuops = 0 /\ stores = 0 /\ regnum = 0
    /\ oi_chunk_size = 64
    /\ loaded = {} /\ benchmark = NoCode
    /\ pc = "idle"

(* roofline_oi()                                                           *)
Call(r) ==
    /\ pc = "idle" /\ calls < MaxCalls
    /\ calls' = calls + 1 /\ request' = r /\ i' = 1 /\ j' = 1
    /\ pc' = "types"
    /\ UNCHANGED <<writer, oi_chunk_size, loaded, benchmark>>

\* No flop type is left for the memory type at hand.
NextMem ==
    /\ pc = "types" /\ i <= Len(MemTypes) /\ j > Len(FlopTypes)
    /\ i' = i + 1 /\ j' = 1
    /\ UNCHANGED <<calls, request, writer, oi_chunk_size, loaded, benchmark, pc>>

EndCall ==
    /\ pc = "types" /\ i > Len(MemTypes)
    /\ pc' = "idle"
    /\ UNCHANGED <<calls, request, i, j, writer, oi_chunk_size, loaded, benchmark>>

AtPair == pc = "types" /\ i <= Len(MemTypes) /\ j <= Len(FlopTypes)

(* benchmark_validation() returns NULL and the next flop type is tried.    *)
Refuse ==
    /\ AtPair /\ (request.flops = 0 \/ request.bytes = 0)
    /\ j' = j + 1
    /\ UNCHANGED <<calls, request, i, writer, oi_chunk_size, loaded, benchmark, pc>>

\* Slip: a fused operation is counted as one flop.
CountUnfused ==
    /\ AtPair /\ request.flops > 0 /\ request.bytes > 0
    /\ LET m == request.bytes
           f == (request.flops * SimdBytes) \div SimdFlops
       IN /\ mem_ins' = m /\ flop_ins' = f
          /\ max' = (IF f > m THEN f ELSE m) /\ min' = (IF f < m THEN f ELSE m)
    /\ pc' = "pgcd"
    /\ UNCHANGED <<calls, request, i, j, muops, fuops, stores, regnum, oi_chunk_size, loaded, benchmark>>

(* Flops and bytes are converted into numbers of instructions ...          *)
Count ==
    /\ AtPair /\ request.flops > 0 /\ request.bytes > 0
    /\ LET m == Fused * request.bytes
           f == (request.flops * SimdBytes) \div SimdFlops
       IN /\ mem_ins' = m /\ flop_ins' = f
          /\ max' = (IF f > m THEN f ELSE m) /\ min' = (IF f < m THEN f ELSE m)
    /\ pc' = "pgcd"
    /\ UNCHANGED <<calls, request, i, j, muops, fuops, stores, regnum, oi_chunk_size, loaded, benchmark>>

(* ... the loop of roofline_PGCD() ...                                     *)
Reduce ==
    /\ pc = "pgcd" /\ max % min # 0
    /\ max' = min /\ min' = max % min
    /\ UNCHANGED <<calls, request, i, j, mem_ins, flop_ins, muops, fuops, stores, regnum,
                   oi_chunk_size, loaded, benchmark, pc>>

(* ... and divided by it.                                                  *)
Divide ==
    /\ pc = "pgcd" /\ max % min = 0
    /\ mem_ins' = mem_ins \div min /\ flop_ins' = flop_ins \div min
    /\ muops' = 0 /\ fuops' = 0 /\ stores' = 0 /\ regnum' = 0
    /\ pc' = "write"
    /\ UNCHANGED <<calls, request, i, j, max, min, oi_chunk_size, loaded, benchmark>>

-----------------------------------------------------------------------------
(* roofline_benchmark_write_oi_bench()                                     *)

\* Slip: the loop ends by the break alone.
StopByBreak(mu, fu, reg) ==
    mu + fu > 64 /\ reg >= NRegs \div 2 /\ (Mem = "2LD1ST" => mu % 3 = 0)

(* The break and the condition of the loop: it ends with a whole pattern   *)
(* of two loads and a store, when the block is long enough or when it can  *)
(* start over with the first register.                                     *)
Stop(mu, fu, reg) ==
    /\ Mem = "2LD1ST" => mu % 3 = 0
    /\ \/ mu + fu > 64 /\ reg >= NRegs \div 2
       \/ reg = 0

\* Slip: the number of the register is not wrapped.
WriteUnwrapped ==
    /\ pc = "write"
    /\ LET mu  == muops + mem_ins
           fu  == fuops + flop_ins
           reg == regnum + mem_ins + flop_ins
       IN /\ muops' = mu /\ fuops' = fu /\ regnum' = reg
          /\ stores' = IF Mem = "2LD1ST" THEN (mu + 2) \div 3 ELSE 0
          /\ pc' = IF Stop(mu, fu, reg) THEN "written" ELSE "write"
    /\ UNCHANGED <<calls, request, i, j, mem_ins, flop_ins, max, min, oi_chunk_size, loaded, benchmark>>

(* One pass of the loop.  Of the memory instructions of 2LD1ST those       *)
(* numbered 0, 3, 6... are stores.                                         *)
WriteBlock ==
    /\ pc = "write"
    /\ LET mu  == muops + mem_ins
           fu  == fuops + flop_ins
           reg == (regnum + mem_ins + flop_ins) % 32
       IN /\ muops' = mu /\ fuops' = fu /\ regnum' = reg
          /\ stores' = IF Mem = "2LD1ST" THEN (mu + 2) \div 3 ELSE 0
          /\ pc' = IF Stop(mu, fu, reg) THEN "written" ELSE "write"
    /\ UNCHANGED <<calls, request, i, j, mem_ins, flop_ins, max, min, oi_chunk_size, loaded, benchmark>>

SetChunk ==
    /\ pc = "written"
    /\ oi_chunk_size' = Code.offset
    /\ pc' = "load"
    /\ UNCHANGED <<calls, request, i, j, writer, loaded, benchmark>>

-----------------------------------------------------------------------------
(* roofline_load_lib()                                                     *)
Known == \E lib \in loaded : lib.name = Name

LoadAgain ==
    /\ pc = "load"
    /\ \E lib \in loaded : lib.name = Name /\ benchmark' = lib.code
    /\ pc' = "bench"
    /\ UNCHANGED <<calls, request, i, j, writer, oi_chunk_size, loaded>>

LoadNew ==
    /\ pc = "load" /\ ~Known
    /\ loaded' = loaded \cup {[name |-> Name, code |-> Code]}
    /\ benchmark' = Code
    /\ pc' = "bench"
    /\ UNCHANGED <<calls, request, i, j, writer, oi_chunk_size>>

(* The compiler failed: the next flop type is tried.                       *)
LoadFails ==
    /\ pc = "load" /\ ~Known
    /\ j' = j + 1
    /\ pc' = "types"
    /\ UNCHANGED <<calls, request, i, writer, oi_chunk_size, loaded, benchmark>>

(* roofline_memory() (Bench) on the sizes below; then the next memory type.*)
Measure ==
    /\ pc = "bench"
    /\ i' = i + 1 /\ j' = 1
    /\ pc' = "types"
    /\ UNCHANGED <<calls, request, writer, oi_chunk_size, loaded, benchmark>>

Done == pc = "idle" /\ calls = MaxCalls /\ UNCHANGED vars

Next ==
    \/ \E r \in Requests : Call(r)
    \/ NextMem \/ EndCall \/ Refuse
    \/ Count \/ Reduce \/ Divide
    \/ WriteBlock \/ SetChunk
    \/ LoadAgain \/ LoadNew \/ LoadFails \/ Measure
    \/ Done

Spec == Init /\ [][Next]_vars

-----------------------------------------------------------------------------
(* The sizes of the buffer for the loaded program.                         *)
PGCD[p \in Nat \X (Nat \ {0})] ==
    IF p[1] % p[2] = 0 THEN p[2] ELSE PGCD[<<p[2], p[1] % p[2]>>]

(* The arguments and the product are unsigned, although the chunk is not.  *)
PPCM(a, b) == LET x == a % UINT  y == b % UINT IN ((x * y) % UINT) \div PGCD[<<x, y>>]

Chunk == IF oi_chunk_size % Alignement = 0 THEN oi_chunk_size
                                           ELSE PPCM(oi_chunk_size, Alignement)

\* Slip: sizes are rounded to cache lines.
ResizeToLine(size) == Alignement * (size \div Alignement)

Resize(size) == Chunk * (size \div Chunk)

(* The bounds of the level: those of the first level follow the chunk.     *)
Low == IF request.first THEN 4 * oi_chunk_size ELSE request.low
Up  == request.up
Size(n) == Resize(Low + (n * (Up - Low)) \div NSizes)
Kept == IF Up < Low THEN {} ELSE {s \in {Size(n) : n \in 0 .. NSizes - 1} : s >= Low}

-----------------------------------------------------------------------------
TypeOK ==
    /\ calls \in 0 .. MaxCalls /\ request \in Requests
    /\ i \in 1 .. Len(MemTypes) + 1 /\ j \in 1 .. Len(FlopTypes) + 1
    /\ mem_ins \in Nat \ {0} /\ flop_ins \in Nat \ {0}
    /\ max \in Nat \ {0} /\ min \in Nat \ {0}
    /\ muops \in Nat /\ fuops \in Nat /\ stores \in Nat /\ regnum \in 0 .. 31
    /\ oi_chunk_size \in Nat \ {0}
    /\ benchmark \in [offset : Nat, flops : Nat]
    /\ \A lib \in loaded : lib.code \in [offset : Nat, flops : Nat]
    /\ pc \in {"idle", "types", "pgcd", "write", "written", "load", "bench"}

(* The program that is measured has exactly the operational intensity that *)
(* was asked for, whichever flop type and whichever library was taken.     *)
IntensityExact ==
    pc = "bench" => /\ benchmark.offset > 0
                    /\ benchmark.flops * request.bytes = benchmark.offset * request.flops

(* The loop through the buffer ends where the buffer ends, for every size  *)
(* that is measured: it subtracts the offset until the rest is zero.  That *)
(* is not so for a chunk of 64 MB or more (2^32 over the cache line) whose *)
(* common multiple with the cache line overflows in roofline_PPCM().       *)
LoopEndsWithBuffer ==
    pc = "bench" /\ oi_chunk_size * Alignement < UINT =>
        \A s \in Kept : s > 0 /\ s <= Up /\ s % benchmark.offset = 0

(* The chunk is that of the program that is measured, although a library   *)
(* may come from an earlier call and failed attempts set the chunk too.    *)
ChunkOfBenchmark == pc = "bench" => oi_chunk_size = benchmark.offset

(* A 2LD1ST program has two loads for each store.                          *)
WholePatterns == pc \in {"written", "load"} /\ Mem = "2LD1ST" => muops = 3 * stores

(* The generator ends: the registers and the pattern come round together   *)
(* after at most 96 blocks.                                                *)
BlocksBounded == pc = "write" => muops < 96 * mem_ins
=============================================================================
