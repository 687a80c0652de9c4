------------------------------- MODULE Kernels -------------------------------
(***************************************************************************)
(* The benchmarks written in assembly for Intel (src/src/MSC/intel/mov.c   *)
(* and flops.c), as one thread executes them.  The kernels that move data  *)
(* first measure their loops without the accesses, once, and then the      *)
(* whole, repeat times; those that compute measure the whole first and     *)
(* then half of it.  roofline_output_end_measure() decides by the amounts  *)
(* it is given whether the time is that of the benchmark or its overhead.  *)
(*                                                                         *)
(* The loops over the buffer have no bound but a register that must become *)
(* exactly zero, and the counts that are reported are computed beside the  *)
(* loops, not in them.  Addresses are offsets in bytes from data->stream,  *)
(* at a granularity of 16 bytes, the smallest register.  Time is counted   *)
(* in instructions.  The barriers of begin_ and end_measure are in Bench.  *)
(***************************************************************************)
EXTENDS Intel, FiniteSets

CONSTANTS Lengths,  \* the sizes of the buffer, in chunks
          Counts    \* the repetitions asked for

ASSUME KernelAssumption == Lengths \subseteq Nat \ {0} /\ Counts \subseteq Nat \ {0}

VARIABLES type, size, repeat,  \* the arguments of the call
          stage,       \* "overhead" or "measure"
          iterations,  \* %0: the repetitions that are left
          r11, r12,    \* the next address, and the bytes that are left
          clock,       \* instructions executed since begin_measure
          out,         \* what the call reports
          moved,       \* history: how often each byte was accessed
          moves,       \* history: the accesses
          stores,      \* history: those that write
          step

arguments  == <<type, size, repeat>>
history    == <<moved, moves, stores>>
kernelVars == <<arguments, stage, iterations, r11, r12, clock, out, history, step>>

\* Slip: sizes are multiples of a register, not of a chunk.
SizesOfRegisters == {CHUNK_SIZE * c + SIMD_BYTES : c \in Lengths}

(* roofline_linear_sizes() rounds to whole chunks.                         *)
BufferSizes == {CHUNK_SIZE * c : c \in Lengths}
Used        == {16 * g : g \in 0 .. (size \div 16) - 1}
Cleared     == [cycles |-> 0, overhead |-> 0, bytes |-> 0, flops |-> 0, instructions |-> 0]

KernelInit ==
    /\ type = "LOAD" /\ size = 0 /\ repeat = 0
    /\ stage = "measure" /\ iterations = 0 /\ r11 = 0 /\ r12 = 0
    /\ clock = 0 /\ out = Cleared
    /\ moved = [a \in Used |-> 0] /\ moves = 0 /\ stores = 0
    /\ step = "ready"

Moves       == type \in MovOps
FirstStage  == IF Moves THEN "overhead" ELSE "measure"
SecondStage == IF Moves THEN "measure" ELSE "overhead"
HasKernel   == Moves \/ type \in FlopKernels

(* benchmark_stream() or benchmark_fpeak(), with a cleared output.         *)
Call(t, s, r) ==
    /\ step = "ready"
    /\ type' = t /\ size' = (IF t \in MovOps THEN s ELSE 0) /\ repeat' = r
    /\ stage' = FirstStage'
    /\ clock' = 0 /\ out' = Cleared
    /\ moved' = [a \in Used' |-> 0] /\ moves' = 0 /\ stores' = 0
    /\ step' = IF HasKernel' THEN "begin" ELSE "ready"
    /\ UNCHANGED <<iterations, r11, r12>>

\* Slip: the overhead is that of no repetition.
BeginWithNone ==
    /\ step = "begin"
    /\ clock' = 0
    /\ iterations' = IF Moves /\ stage = "overhead" THEN 0 ELSE repeat
    /\ step' = IF Moves THEN "pass" ELSE "compute"
    /\ UNCHANGED <<arguments, stage, r11, r12, out, history>>

(* roofline_output_begin_measure(), and the operands of the loop.          *)
Begin ==
    /\ step = "begin"
    /\ clock' = 0
    /\ iterations' = IF Moves /\ stage = "overhead" THEN 1 ELSE repeat
    /\ step' = IF Moves THEN "pass" ELSE "compute"
    /\ UNCHANGED <<arguments, stage, r11, r12, out, history>>

(* The two moves at the head of a repetition.                              *)
Pass ==
    /\ step = "pass"
    /\ r11' = 0 /\ r12' = size /\ clock' = clock + 2
    /\ step' = "chunk"
    /\ UNCHANGED <<arguments, stage, iterations, out, history>>

Writes(k) == \/ type \in {"STORE", "STORE_NT"}
             \/ type = "2LD1ST" /\ Second(k)
Covering(a) == {k \in Accesses : r11 + STRIDE(k) <= a /\ a < r11 + STRIDE(k) + SIMD_BYTES}

(* One pass of the inner loop: asm_mov(), unless it is the overhead that   *)
(* is measured, then add, sub, cmp, jne.                                   *)
Chunk ==
    /\ step = "chunk"
    /\ IF stage = "measure"
       THEN /\ moved' = [a \in Used |-> moved[a] + Cardinality(Covering(a))]
            /\ moves' = moves + Cardinality(Accesses)
            /\ stores' = stores + Cardinality({k \in Accesses : Writes(k)})
            /\ clock' = clock + Cardinality(Accesses) + 4
       ELSE clock' = clock + 4 /\ UNCHANGED history
    /\ r11' = r11 + CHUNK_SIZE /\ r12' = r12 - CHUNK_SIZE
    /\ step' = IF r12' = 0 THEN "count" ELSE "chunk"
    /\ UNCHANGED <<arguments, stage, iterations, out>>

(* sub, cmp, jne of the outer loop.                                        *)
Count ==
    /\ step = "count"
    /\ iterations' = iterations - 1 /\ clock' = clock + 3
    /\ step' = IF iterations' = 0 THEN "end" ELSE "pass"
    /\ UNCHANGED <<arguments, stage, r11, r12, out, history>>

(* One pass of simd_fp() or of simd_fp_overhead().                         *)
Compute ==
    /\ step = "compute"
    /\ iterations' = iterations - 1
    /\ clock' = clock + (IF stage = "measure" THEN FlopBody ELSE OverheadBody) + 3
    /\ step' = IF iterations' = 0 THEN "end" ELSE "compute"
    /\ UNCHANGED <<arguments, stage, r11, r12, out, history>>

(* The amounts that the kernels pass to roofline_output_end_measure().     *)
Bytes == IF Moves /\ stage = "measure" THEN size * repeat ELSE 0
Flops == IF ~Moves /\ stage = "measure" THEN 16 * SIMD_FLOPS * repeat ELSE 0
Instructions == IF stage = "overhead" THEN 0
                ELSE IF Moves THEN (repeat * size) \div SIMD_BYTES ELSE repeat * 16

\* Slip: only benchmarks that move bytes are told from their overhead.
EndMeasureByBytes ==
    IF Bytes = 0 \/ Instructions = 0
    THEN [out EXCEPT !.overhead = clock]
    ELSE [out EXCEPT !.cycles = clock, !.bytes = Bytes,
                     !.flops = Flops, !.instructions = Instructions]

EndMeasure ==
    IF (Flops = 0 /\ Bytes = 0) \/ Instructions = 0
    THEN [out EXCEPT !.overhead = clock]
    ELSE [out EXCEPT !.cycles = clock, !.bytes = Bytes,
                     !.flops = Flops, !.instructions = Instructions]

(* The end of a stage; after the last one, the flops of FMA are doubled.   *)
End ==
    /\ step = "end"
    /\ IF stage = FirstStage
       THEN out' = EndMeasure /\ stage' = SecondStage /\ step' = "begin"
       ELSE /\ out' = IF type = "FMA" THEN [EndMeasure EXCEPT !.flops = 2 * @] ELSE EndMeasure
            /\ step' = "ready" /\ UNCHANGED stage
    /\ UNCHANGED <<arguments, iterations, r11, r12, clock, history>>

KernelStep == Begin \/ Pass \/ Chunk \/ Count \/ Compute \/ End

KernelNext ==
    \/ \E t \in benchmark_types_supported, s \in BufferSizes, r \in Counts : Call(t, s, r)
    \/ KernelStep

KernelSpec == KernelInit /\ [][KernelNext]_kernelVars

-----------------------------------------------------------------------------
Amounts == [cycles : Nat, overhead : Nat, bytes : Nat, flops : Nat, instructions : Nat]

KernelTypeOK ==
    /\ type \in MovOps \cup {"ADD", "MUL", "MAD", "FMA"}
    /\ size \in BufferSizes \cup {0} /\ repeat \in Counts \cup {0}
    /\ stage \in {"overhead", "measure"} /\ iterations \in Nat
    /\ r11 \in Nat /\ r12 \in Nat /\ clock \in Nat
    /\ out \in Amounts
    /\ moved \in [Used -> Nat] /\ moves \in Nat /\ stores \in 0 .. moves
    /\ step \in {"ready", "begin", "pass", "chunk", "count", "compute", "end"}

(* The loop that counts down to exactly zero never passes the end of the   *)
(* buffer: a chunk is only started when all its accesses are inside.       *)
AccessesInBuffer ==
    step = "chunk" => \A k \in Accesses : r11 + STRIDE(k) + SIMD_BYTES <= size

(* When a kernel returns, it has accessed every byte of the buffer repeat  *)
(* times, as it reports: no byte is left out or accessed twice between     *)
(* one chunk and the next.                                                 *)
EveryByteMoved ==
    step = "ready" /\ Moves =>
        out.bytes = size * repeat /\ \A a \in Used : moved[a] = repeat

(* The counts computed beside the loops are those of the loops.  What a    *)
(* memory kernel reports is the accesses it made, two loads for each store *)
(* of 2LD1ST; what the other kernels report is what remains of their       *)
(* instructions when the overhead is subtracted.  The difference that      *)
(* roofline_output_print() forms of unsigned numbers is positive.  Every   *)
(* operation that is said to be supported has a kernel.                    *)
CountsOfLoops ==
    step = "ready" /\ repeat > 0 =>
        /\ out.cycles > out.overhead /\ out.instructions > 0
        /\ Moves => /\ out.instructions = moves /\ out.flops = 0
                    /\ type \in {"LOAD", "LOAD_NT"} => stores = 0
                    /\ type = "2LD1ST" => moves = 3 * stores
        /\ ~Moves => /\ out.instructions = out.cycles - out.overhead
                     /\ out.flops = out.instructions * SIMD_FLOPS * (IF type = "FMA" THEN 2 ELSE 1)
                     /\ out.bytes = 0

(* The steps of a call that are left when its loops, which end on equality *)
(* alone, meet their zeros.                                                *)
Pieces == IF Moves THEN size \div CHUNK_SIZE + 2 ELSE 1
StageLength(s) == 2 + Pieces * IF Moves /\ s = "overhead" THEN 1 ELSE repeat
StepsLeft ==
    (IF stage = FirstStage THEN StageLength(SecondStage) ELSE 0)
    + CASE step = "begin" -> StageLength(stage)
        [] step \in {"pass", "compute"} -> iterations * Pieces + 1
        [] step = "chunk" -> (iterations - 1) * Pieces + r12 \div CHUNK_SIZE + 2
        [] step = "count" -> (iterations - 1) * Pieces + 2
        [] step = "end" -> 1

(* Every call returns: each of its steps is one less that is left, and     *)
(* the number of those that are left is never negative, as it would become *)
(* if a loop stepped over its zero.                                        *)
CountsDown ==
    [][step # "ready" => /\ StepsLeft > 0
                         /\ IF step' = "ready" THEN StepsLeft = 1 ELSE StepsLeft' = StepsLeft - 1]_kernelVars
==============================================================================
