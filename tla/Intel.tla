-------------------------------- MODULE Intel --------------------------------
(***************************************************************************)
(* What src/src/MSC/intel/ defines for the instruction set the compiler    *)
(* targets: the registers and strides of intel.h, the operations that      *)
(* MSC.c says are supported and the chunk of each.                         *)
(***************************************************************************)
EXTENDS Integers

CONSTANTS Target,  \* the largest extension with a macro; "SSE" stands for SSE2 and SSE4.1
          FMA      \* whether it defines __FMA__

ASSUME TargetAssumption == Target \in {"AVX512", "AVX2", "AVX", "SSE"} /\ FMA \in BOOLEAN

SIMD_BYTES == IF Target = "AVX512" THEN 64   ELSE IF Target = "SSE" THEN 16  ELSE 32
SIMD_FLOPS == IF Target = "AVX512" THEN 8    ELSE IF Target = "SSE" THEN 2   ELSE 4
CHUNK_SIZE == IF Target = "AVX512" THEN 1920 ELSE IF Target = "SSE" THEN 512 ELSE 960

\* Slip: the strides of SSE in every build.
StrideOfSse(k) == k * 16

STRIDE(k) == k * SIMD_BYTES

(* asm_mov() of mov.c: thirty accesses, the third of every three through   *)
(* its second operation.                                                   *)
Accesses  == 0 .. 29
Second(k) == k % 3 = 2

(* simd_fp() and simd_fp_overhead() of flops.c: instructions of a body.    *)
FlopBody     == 32
OverheadBody == 16

MovOps  == {"LOAD", "LOAD_NT", "STORE", "STORE_NT", "2LD1ST"}

(* The kernels the switch of benchmark_flops() has been compiled with.     *)
FlopKernels == {"ADD", "MUL", "MAD"} \cup (IF FMA THEN {"FMA"} ELSE {})

benchmark_types_supported ==
    {"LOAD", "STORE", "2LD1ST", "MUL", "ADD", "MAD"}
    \cup (IF FMA THEN {"FMA"} ELSE {})
    \cup (IF Target \in {"AVX512", "AVX2"} THEN {"LOAD_NT", "STORE_NT"} ELSE {})
==============================================================================
