---------------------------- MODULE KernelsProofs ----------------------------
(***************************************************************************)
(* The benchmark functions, the kernels first, then the latency loop.      *)
(*                                                                         *)
(* For every size and number of repetitions the kernels of mov.c stay in   *)
(* the buffer and, but for SSE, access each of its bytes once in every     *)
(* repetition.  A pass of the inner loop accesses the bytes of one chunk,  *)
(* each once, because thirty strides of a register are a chunk; what is    *)
(* left of the buffer is a whole number of chunks and becomes zero.  What  *)
(* the kernels report is compared with their loops by equations between    *)
(* the counts, the repetitions done and the next address.                  *)
(***************************************************************************)
EXTENDS Kernels, LatencyStream, FiniteSetTheorems, TLAPS

LEMMA Widths ==
    /\ \/ SIMD_BYTES = 64 /\ CHUNK_SIZE = 1920
       \/ SIMD_BYTES = 32 /\ CHUNK_SIZE = 960
       \/ SIMD_BYTES = 16 /\ CHUNK_SIZE = 512 /\ Target = "SSE"
    /\ SIMD_FLOPS \in {8, 4, 2}
BY TargetAssumption DEF SIMD_BYTES, CHUNK_SIZE, SIMD_FLOPS

LEMMA SizeOfBuffer == \A s \in BufferSizes : s \in Nat /\ s >= 512 /\ \E k \in Nat \ {0} : s = CHUNK_SIZE * k
<1> SUFFICES ASSUME NEW c \in Lengths
             PROVE  CHUNK_SIZE * c \in Nat /\ CHUNK_SIZE * c >= 512 /\ c \in Nat \ {0}
  BY DEF BufferSizes
<1>1. c \in Nat \ {0}
  BY KernelAssumption
<1>2. CASE CHUNK_SIZE = 1920
  BY <1>1, <1>2, SMT
<1>3. CASE CHUNK_SIZE = 960
  BY <1>1, <1>3, SMT
<1>4. CASE CHUNK_SIZE = 512
  BY <1>1, <1>4, SMTT(60)
<1> QED BY <1>2, <1>3, <1>4, Widths

LEMMA ProductNat == ASSUME NEW x \in Nat, NEW y \in Nat
                    PROVE  x * y \in Nat /\ (x > 0 => x * y >= y)
BY SMT

LEMMA AccessesFinite == IsFiniteSet(Accesses) /\ Cardinality(Accesses) = 30
<1>1. 0 \in Int /\ 29 \in Int
  BY SMT
<1>2. /\ IsFiniteSet(0 .. 29)
      /\ Cardinality(0 .. 29) = IF 0 > 29 THEN 0 ELSE 29 - 0 + 1
  BY <1>1, FS_Interval
<1> QED BY <1>2, SMT DEF Accesses

LEMMA SomeOfAccesses ==
    ASSUME NEW S, S \subseteq Accesses
    PROVE  Cardinality(S) \in 0 .. 30
<1>1. IsFiniteSet(S) /\ Cardinality(S) <= 30
  BY AccessesFinite, FS_Subset
<1>2. Cardinality(S) \in Nat
  BY <1>1, FS_CardinalityType
<1> QED BY <1>1, <1>2, SMT

(* Thirty strides of a register are a chunk: a pass of the inner loop      *)
(* accesses each byte of one chunk once, and no other.                     *)
LEMMA ChunkCovered ==
    ASSUME Target # "SSE", r11 \in Nat, NEW a \in Nat
    PROVE  Cardinality(Covering(a)) = IF r11 <= a /\ a < r11 + CHUNK_SIZE THEN 1 ELSE 0
<1> DEFINE k0 == (a - r11) \div SIMD_BYTES
<1>1. CASE r11 <= a /\ a < r11 + CHUNK_SIZE
  <2>1. k0 \in Accesses /\ \A k \in Accesses : k \in Covering(a) <=> k = k0
    <3>1. CASE SIMD_BYTES = 64 /\ CHUNK_SIZE = 1920
      BY <1>1, <3>1, SMT DEF Covering, STRIDE, Accesses
    <3>2. CASE SIMD_BYTES = 32 /\ CHUNK_SIZE = 960
      BY <1>1, <3>2, SMTT(60) DEF Covering, STRIDE, Accesses
    <3> QED BY <3>1, <3>2, Widths
  <2> HIDE DEF k0
  <2>2. Covering(a) = {k0}
    BY <2>1 DEF Covering
  <2> QED BY <1>1, <2>2, FS_Singleton
<1>2. CASE ~(r11 <= a /\ a < r11 + CHUNK_SIZE)
  <2>1. Covering(a) = {}
    <3>1. CASE SIMD_BYTES = 64 /\ CHUNK_SIZE = 1920
      BY <1>2, <3>1, SMT DEF Covering, STRIDE, Accesses
    <3>2. CASE SIMD_BYTES = 32 /\ CHUNK_SIZE = 960
      BY <1>2, <3>2, SMTT(60) DEF Covering, STRIDE, Accesses
    <3> QED BY <3>1, <3>2, Widths
  <2> QED BY <1>2, <2>1, FS_EmptySet
<1> QED BY <1>1, <1>2
-----------------------------------------------------------------------------
Looping == {"pass", "chunk", "count"}

(* Where the loops are: what is left of the buffer is whole chunks.        *)
AtChunk ==
    /\ step \in Looping => Moves /\ size \in BufferSizes /\ iterations > 0
    /\ step = "end" => iterations = 0
    /\ step = "chunk" => r11 + r12 = size /\ \E k \in Nat \ {0} : r12 = CHUNK_SIZE * k
    /\ step = "count" => r11 = size
    /\ step = "compute" => ~Moves /\ iterations > 0
    /\ step # "ready" => repeat \in Counts /\ (Moves => size \in BufferSizes)

(* How often the byte at a has been accessed.                              *)
Accessed(a) ==
    IF stage = "overhead" \/ step = "begin" THEN 0
    ELSE repeat - iterations + (IF step = "count" \/ (step = "chunk" /\ a < r11) THEN 1 ELSE 0)

Progress == Moves /\ step # "ready" => \A a \in Used : moved[a] = Accessed(a)

KInv == KernelTypeOK /\ AtChunk
Full == KInv /\ Progress /\ EveryByteMoved /\ Target # "SSE"

LEMMA UsedNat == size \in Nat => Used \subseteq Nat /\ \A a \in Used : a < size
BY SMT DEF Used

-----------------------------------------------------------------------------
LEMMA KInit == KernelInit => KInv
BY SMT DEF KernelInit, KInv, KernelTypeOK, AtChunk, MovOps, Cleared, Amounts, Looping, Used

LEMMA CallInv ==
    ASSUME KInv, NEW t \in benchmark_types_supported, NEW s \in BufferSizes, NEW r \in Counts, Call(t, s, r)
    PROVE  KInv'
<1>1. r \in Nat \ {0} /\ s \in Nat
  BY KernelAssumption, SizeOfBuffer
<1>2. t \in MovOps \cup {"ADD", "MUL", "MAD", "FMA"}
  BY DEF benchmark_types_supported, MovOps
<1>3. KernelTypeOK'
  BY <1>1, <1>2, SMT DEF Call, KInv, KernelTypeOK, FirstStage, Moves, Cleared, Amounts
<1>4. AtChunk'
  BY <1>1, SMT DEF Call, AtChunk, Moves, Looping
<1> QED BY <1>3, <1>4 DEF KInv

LEMMA BeginInv == ASSUME KInv, Begin PROVE KInv'
<1>1. repeat \in Nat \ {0}
  BY KernelAssumption DEF KInv, AtChunk, Begin
<1>2. Used' = Used
  BY DEF Begin, arguments, Used
<1>3. KernelTypeOK'
  BY <1>1, <1>2, SMT DEF Begin, KInv, KernelTypeOK, arguments, history
<1>4. AtChunk'
  BY <1>1, SMT DEF Begin, KInv, AtChunk, arguments, Moves, Looping
<1> QED BY <1>3, <1>4 DEF KInv

LEMMA PassInv == ASSUME KInv, Pass PROVE KInv'
<1>1. size \in BufferSizes /\ size \in Nat /\ \E k \in Nat \ {0} : size = CHUNK_SIZE * k
  BY SizeOfBuffer DEF KInv, AtChunk, Pass, Looping
<1>2. Used' = Used
  BY DEF Pass, arguments, Used
<1>3. KernelTypeOK'
  BY <1>1, <1>2, SMT DEF Pass, KInv, KernelTypeOK, arguments, history
<1>4. AtChunk'
  <2>1. r11' + r12' = size' /\ r12' = size
    BY <1>1, SMT DEF Pass, arguments
  <2>2. step' = "chunk" /\ step = "pass" /\ Moves' = Moves /\ iterations' = iterations /\ size' = size /\ repeat' = repeat
    BY DEF Pass, arguments, Moves
  <2> QED BY <1>1, <2>1, <2>2 DEF KInv, AtChunk, Looping
<1> QED BY <1>3, <1>4 DEF KInv

LEMMA ChunkTypeInv == ASSUME KInv, Chunk PROVE KInv'
<1>1. /\ r11 \in Nat /\ r12 \in Nat /\ size \in Nat /\ moved \in [Used -> Nat]
      /\ moves \in Nat /\ stores \in 0 .. moves /\ clock \in Nat
  BY SizeOfBuffer, SMT DEF KInv, AtChunk, KernelTypeOK, Chunk, Looping
<1>2. Used' = Used
  BY DEF Chunk, arguments, Used
<1>3. PICK k \in Nat \ {0} : r12 = CHUNK_SIZE * k
  BY DEF KInv, AtChunk, Chunk
<1>4. /\ r12' \in Nat /\ r11' \in Nat /\ r11' + r12' = size /\ r12' = CHUNK_SIZE * (k - 1)
      /\ r12' # 0 => k - 1 \in Nat \ {0}
  <2>1. r11 + r12 = size
    BY DEF KInv, AtChunk, Chunk
  <2>2. r11' = r11 + CHUNK_SIZE /\ r12' = r12 - CHUNK_SIZE
    BY DEF Chunk
  <2>3. CASE CHUNK_SIZE = 1920
    BY <1>1, <1>3, <2>1, <2>2, <2>3, SMT
  <2>4. CASE CHUNK_SIZE = 960
    BY <1>1, <1>3, <2>1, <2>2, <2>4, SMT
  <2>5. CASE CHUNK_SIZE = 512
    BY <1>1, <1>3, <2>1, <2>2, <2>5, SMT
  <2> QED BY <2>3, <2>4, <2>5, Widths
<1>5. moved' \in [Used -> Nat] /\ moves' \in Nat /\ stores' \in 0 .. moves'
  <2>1. CASE stage = "overhead"
    BY <1>1, <2>1 DEF Chunk, history
  <2>2. CASE stage = "measure"
    <3>1. \A a \in Used : Cardinality(Covering(a)) \in 0 .. 30
      BY SomeOfAccesses DEF Covering
    <3>2. Cardinality({a \in Accesses : Writes(a)}) \in 0 .. 30
      BY SomeOfAccesses
    <3>3. /\ moved' = [a \in Used |-> moved[a] + Cardinality(Covering(a))]
          /\ moves' = moves + 30
          /\ stores' = stores + Cardinality({a \in Accesses : Writes(a)})
      BY <2>2, AccessesFinite DEF Chunk
    <3>4. \A a \in Used : moved[a] + Cardinality(Covering(a)) \in Nat
      BY <1>1, <3>1, SMT
    <3> HIDE DEF Covering
    <3>5. moved' \in [Used -> Nat]
      BY <3>3, <3>4
    <3> QED BY <1>1, <3>2, <3>3, <3>5, SMT
  <2> QED BY <2>1, <2>2 DEF KInv, KernelTypeOK
<1>6. clock' \in Nat
  BY <1>1, AccessesFinite, SMT DEF Chunk
<1>7. /\ step = "chunk" /\ step' = (IF r12' = 0 THEN "count" ELSE "chunk")
      /\ UNCHANGED <<type, size, repeat, stage, iterations, out>>
  BY DEF Chunk, arguments
<1>8. KernelTypeOK'
  BY <1>2, <1>4, <1>5, <1>6, <1>7 DEF KInv, KernelTypeOK
<1>9. AtChunk'
  <2>1. step' = "count" => r11' = size
    BY <1>4, <1>7, SMT
  <2> QED BY <1>4, <1>7, <2>1 DEF KInv, AtChunk, Looping, Moves
<1> QED BY <1>8, <1>9 DEF KInv

LEMMA CountInv == ASSUME KInv, Count PROVE KInv'
<1>1. Used' = Used
  BY DEF Count, arguments, Used
<1>2. KernelTypeOK'
  BY <1>1, SMT DEF Count, KInv, KernelTypeOK, AtChunk, Looping, arguments, history
<1>3. AtChunk'
  BY SMT DEF Count, KInv, KernelTypeOK, AtChunk, Looping, arguments, Moves
<1> QED BY <1>2, <1>3 DEF KInv

LEMMA ComputeInv == ASSUME KInv, Compute PROVE KInv'
<1>1. Used' = Used
  BY DEF Compute, arguments, Used
<1>2. KernelTypeOK'
  BY <1>1, SMT DEF Compute, KInv, KernelTypeOK, AtChunk, FlopBody, OverheadBody, arguments, history
<1>3. AtChunk'
  BY SMT DEF Compute, KInv, KernelTypeOK, AtChunk, Looping, arguments, Moves
<1> QED BY <1>2, <1>3 DEF KInv
LEMMA AmountsNat ==
    ASSUME KInv, step = "end"
    PROVE  /\ EndMeasure \in Amounts
           /\ Moves /\ stage = "measure" => EndMeasure.bytes = size * repeat
<1>1. size \in Nat /\ repeat \in Nat \ {0} /\ (Moves => size >= 512)
  BY SizeOfBuffer, KernelAssumption, SMT DEF KInv, AtChunk, KernelTypeOK
<1>2. size * repeat \in Nat /\ repeat * size \in Nat /\ repeat * size >= size
  BY <1>1, ProductNat, SMT
<1>3. size * repeat = repeat * size
  BY <1>1, SMT
<1>4. 16 * SIMD_FLOPS * repeat \in Nat
  BY <1>1, Widths, SMT
<1>5. /\ (repeat * size) \div SIMD_BYTES \in Nat
      /\ Moves => (repeat * size) \div SIMD_BYTES # 0
  <2> DEFINE p == repeat * size
  <2>1. p \in Nat /\ (Moves => p >= 512)
    BY <1>1, <1>2, SMT
  <2> HIDE DEF p
  <2>2. p \div SIMD_BYTES \in Nat /\ (Moves => p \div SIMD_BYTES # 0)
    BY <2>1, Widths, SMT
  <2> QED BY <2>2 DEF p
<1>6. Bytes \in Nat /\ Flops \in Nat /\ Instructions \in Nat
  BY <1>1, <1>2, <1>4, <1>5, SMT DEF Bytes, Flops, Instructions
<1>7. out \in Amounts /\ clock \in Nat
  BY SMT DEF KInv, KernelTypeOK
<1>8. Moves /\ stage = "measure" => Bytes = size * repeat /\ Bytes # 0 /\ Instructions # 0
  BY <1>1, <1>2, <1>3, <1>5, SMT DEF Bytes, Instructions
<1>9. EndMeasure \in Amounts
  BY <1>6, <1>7 DEF EndMeasure, Amounts
<1>10. Moves /\ stage = "measure" => EndMeasure.bytes = size * repeat
  BY <1>7, <1>8 DEF EndMeasure, Amounts
<1> QED BY <1>9, <1>10

LEMMA EndInv == ASSUME KInv, End PROVE KInv'
<1>1. Used' = Used
  BY DEF End, arguments, Used
<1>2. EndMeasure \in Amounts
  BY AmountsNat DEF End
<1>3. [EndMeasure EXCEPT !.flops = 2 * @] \in Amounts
  <2>1. EndMeasure.flops \in Nat
    BY <1>2 DEF Amounts
  <2>2. 2 * EndMeasure.flops \in Nat
    BY <2>1, SMT
  <2> QED BY <1>2, <2>2 DEF Amounts
<1>4. out' \in Amounts
  BY <1>2, <1>3 DEF End
<1>5. KernelTypeOK'
  BY <1>1, <1>4, SMT DEF End, KInv, KernelTypeOK, SecondStage, arguments, history
<1>6. AtChunk'
  BY SMT DEF End, KInv, AtChunk, Looping, arguments, Moves
<1> QED BY <1>5, <1>6 DEF KInv

LEMMA NextInv == KInv /\ [KernelNext]_kernelVars => KInv'
<1>1. KInv /\ UNCHANGED kernelVars => KInv'
  BY DEF kernelVars, arguments, history, KInv, KernelTypeOK, AtChunk, Moves, Used
<1> QED BY <1>1, CallInv, BeginInv, PassInv, ChunkTypeInv, CountInv, ComputeInv, EndInv
        DEF KernelNext, KernelStep

(* The registers and the counts of the kernels stay natural numbers.       *)
THEOREM TypeCorrect == KernelSpec => []KernelTypeOK
<1>1. KernelSpec => []KInv
  BY KInit, NextInv, PTL DEF KernelSpec
<1>2. KInv => KernelTypeOK
  BY DEF KInv
<1> QED BY <1>1, <1>2, PTL

(* The kernels of mov.c access nothing beyond the end of the buffer.       *)
THEOREM StaysInBuffer == KernelSpec => []AccessesInBuffer
<1>1. KernelSpec => []KInv
  BY KInit, NextInv, PTL DEF KernelSpec
<1>2. KInv => AccessesInBuffer
  <2> SUFFICES ASSUME KInv, step = "chunk", NEW j \in Accesses
               PROVE  r11 + STRIDE(j) + SIMD_BYTES <= size
    BY DEF AccessesInBuffer
  <2>1. PICK k \in Nat \ {0} : r12 = CHUNK_SIZE * k
    BY DEF KInv, AtChunk
  <2>2. r11 + r12 = size /\ r11 \in Nat /\ r12 \in Nat
    BY DEF KInv, AtChunk, KernelTypeOK
  <2>3. CASE SIMD_BYTES = 64 /\ CHUNK_SIZE = 1920
    BY <2>1, <2>2, <2>3, SMT DEF STRIDE, Accesses
  <2>4. CASE SIMD_BYTES = 32 /\ CHUNK_SIZE = 960
    BY <2>1, <2>2, <2>4, SMT DEF STRIDE, Accesses
  <2>5. CASE SIMD_BYTES = 16 /\ CHUNK_SIZE = 512
    BY <2>1, <2>2, <2>5, SMT DEF STRIDE, Accesses
  <2> QED BY <2>3, <2>4, <2>5, Widths
<1> QED BY <1>1, <1>2, PTL
-----------------------------------------------------------------------------
(* The steps of a call are counted down: (m - 1) repetitions and one more  *)
(* are m, and a chunk fewer is one step fewer.                             *)
LEMMA OneLess ==
    ASSUME NEW m \in Nat \ {0}, NEW p \in Nat
    PROVE  (m - 1) * p \in Nat /\ (m - 1) * p + p = m * p /\ p * m = m * p
BY SMT

LEMMA ChunksLeft ==
    ASSUME NEW k \in Nat
    PROVE  (CHUNK_SIZE * k) \div CHUNK_SIZE = k
<1>1. CASE CHUNK_SIZE = 1920
  BY <1>1, SMT
<1>2. CASE CHUNK_SIZE = 960
  BY <1>2, SMT
<1>3. CASE CHUNK_SIZE = 512
  BY <1>3, SMT
<1> QED BY <1>1, <1>2, <1>3, Widths

Later == IF stage = FirstStage THEN StageLength(SecondStage) ELSE 0

LEMMA LengthsNat ==
    ASSUME KInv, step # "ready"
    PROVE  /\ Pieces \in Nat \ {0} /\ Later \in Nat /\ repeat \in Nat \ {0}
           /\ \A s : StageLength(s) \in Nat \ {0}
           /\ Moves => \E k \in Nat \ {0} : size = CHUNK_SIZE * k /\ Pieces = k + 2
<1>1. repeat \in Nat \ {0}
  BY KernelAssumption DEF KInv, AtChunk
<1>2. Moves => \E k \in Nat \ {0} : size = CHUNK_SIZE * k /\ Pieces = k + 2
  <2> SUFFICES ASSUME Moves PROVE \E k \in Nat \ {0} : size = CHUNK_SIZE * k /\ Pieces = k + 2
    OBVIOUS
  <2>1. PICK k \in Nat \ {0} : size = CHUNK_SIZE * k
    BY SizeOfBuffer DEF KInv, AtChunk
  <2> QED BY <2>1, ChunksLeft DEF Pieces
<1>3. Pieces \in Nat \ {0}
  BY <1>2, SMT DEF Pieces
<1>4. ASSUME NEW s PROVE StageLength(s) \in Nat \ {0}
  <2>1. Pieces * repeat \in Nat /\ Pieces * 1 \in Nat
    BY <1>1, <1>3, SMT
  <2> QED BY <2>1, SMT DEF StageLength
<1>5. Later \in Nat
  BY <1>4, SMT DEF Later
<1> QED BY <1>1, <1>2, <1>3, <1>4, <1>5

(* The lengths only change from one call to the next, or from one stage to *)
(* the next.                                                               *)
LEMMA SameLengths ==
    ASSUME UNCHANGED arguments
    PROVE  /\ Pieces' = Pieces /\ Moves' = Moves /\ FirstStage' = FirstStage /\ SecondStage' = SecondStage
           /\ \A s : StageLength(s)' = StageLength(s)
           /\ stage' = stage => Later' = Later
BY DEF arguments, Pieces, Moves, FirstStage, SecondStage, StageLength, Later

CountedDown == StepsLeft > 0 /\ IF step' = "ready" THEN StepsLeft = 1 ELSE StepsLeft' = StepsLeft - 1

LEMMA BeginCountsDown == ASSUME KInv, Begin PROVE CountedDown
<1>1. step = "begin" /\ UNCHANGED arguments /\ stage' = stage
  BY DEF Begin
<1>2. /\ Pieces \in Nat \ {0} /\ Later \in Nat /\ repeat \in Nat \ {0}
      /\ StageLength(stage) \in Nat \ {0}
  BY <1>1, LengthsNat
<1>3. iterations' \in Nat \ {0} /\ StageLength(stage) = 2 + Pieces * iterations'
  BY <1>2, SMT DEF Begin, StageLength
<1>4. StepsLeft = Later + StageLength(stage)
  BY <1>1 DEF StepsLeft, Later
<1>5. step' \in {"pass", "compute"}
  BY DEF Begin
<1>6. StepsLeft' = Later + (iterations' * Pieces + 1)
  BY <1>1, <1>5, SameLengths DEF StepsLeft, Later
<1>7. PICK m \in Nat \ {0} : m = iterations'
  BY <1>3
<1>8. Pieces * m = m * Pieces /\ m * Pieces \in Nat
  BY <1>2, OneLess
<1>9. StepsLeft = Later + 2 + m * Pieces /\ StepsLeft' = Later + 1 + m * Pieces
  BY <1>2, <1>3, <1>4, <1>6, <1>7, <1>8
<1>10. StepsLeft > 0 /\ StepsLeft' = StepsLeft - 1
  BY <1>2, <1>8, <1>9, SMT
<1> QED BY <1>5, <1>10 DEF CountedDown

LEMMA PassCountsDown == ASSUME KInv, Pass PROVE CountedDown
<1>1. step = "pass" /\ step' = "chunk" /\ UNCHANGED <<arguments, stage, iterations>> /\ r12' = size
  BY DEF Pass
<1>2. Pieces \in Nat \ {0} /\ Later \in Nat /\ Moves /\ iterations \in Nat \ {0}
  BY <1>1, LengthsNat, SMT DEF KInv, AtChunk, KernelTypeOK, Looping
<1>3. Pieces = size \div CHUNK_SIZE + 2 /\ size \div CHUNK_SIZE \in Nat
  BY <1>1, <1>2, LengthsNat, ChunksLeft DEF Pieces
<1>4. StepsLeft = Later + (iterations * Pieces + 1)
  BY <1>1 DEF StepsLeft, Later
<1>5. StepsLeft' = Later + ((iterations - 1) * Pieces + size \div CHUNK_SIZE + 2)
  BY <1>1, SameLengths DEF StepsLeft, Later
<1>6. (iterations - 1) * Pieces \in Nat /\ (iterations - 1) * Pieces + Pieces = iterations * Pieces
  BY <1>2, OneLess
<1> QED BY <1>1, <1>2, <1>3, <1>4, <1>5, <1>6, SMT DEF CountedDown

LEMMA ChunkCountsDown == ASSUME KInv, Chunk PROVE CountedDown
<1>1. /\ step = "chunk" /\ UNCHANGED <<arguments, stage, iterations>>
      /\ r12' = r12 - CHUNK_SIZE /\ step' = (IF r12' = 0 THEN "count" ELSE "chunk")
  BY DEF Chunk
<1>2. Pieces \in Nat \ {0} /\ Later \in Nat /\ iterations \in Nat \ {0}
  BY <1>1, LengthsNat, SMT DEF KInv, AtChunk, KernelTypeOK, Looping
<1>3. PICK k \in Nat \ {0} : r12 = CHUNK_SIZE * k
  BY <1>1 DEF KInv, AtChunk
<1>4. r12' = CHUNK_SIZE * (k - 1) /\ (r12' = 0 <=> k = 1)
  <2>1. CASE CHUNK_SIZE = 1920
    BY <1>1, <1>3, <2>1, SMT
  <2>2. CASE CHUNK_SIZE = 960
    BY <1>1, <1>3, <2>2, SMT
  <2>3. CASE CHUNK_SIZE = 512
    BY <1>1, <1>3, <2>3, SMT
  <2> QED BY <2>1, <2>2, <2>3, Widths
<1>5. r12 \div CHUNK_SIZE = k /\ r12' \div CHUNK_SIZE = k - 1
  <2>1. k \in Nat /\ k - 1 \in Nat
    BY SMT
  <2> QED BY <2>1, <1>3, <1>4, ChunksLeft
<1> DEFINE before == (iterations - 1) * Pieces
<1>6. before \in Nat
  BY <1>2, OneLess
<1>7. StepsLeft = Later + (before + k + 2)
  BY <1>1, <1>5 DEF StepsLeft, Later
<1>8. StepsLeft' = Later + (before + (IF step' = "count" THEN 2 ELSE (k - 1) + 2))
  <2>1. CASE step' = "count"
    BY <1>1, <2>1, SameLengths DEF StepsLeft, Later
  <2>2. CASE step' = "chunk"
    <3>1. StepsLeft' = Later + (before + r12' \div CHUNK_SIZE + 2)
      BY <1>1, <2>2, SameLengths DEF StepsLeft, Later
    <3>2. before + (k - 1) + 2 = before + ((k - 1) + 2)
      <4> HIDE DEF before
      <4> QED BY <1>6, SMT
    <3> QED BY <1>5, <2>2, <3>1, <3>2
  <2> QED BY <1>1, <2>1, <2>2
<1> HIDE DEF before
<1> QED BY <1>1, <1>2, <1>4, <1>6, <1>7, <1>8, SMT DEF CountedDown

LEMMA CountCountsDown == ASSUME KInv, Count PROVE CountedDown
<1>1. /\ step = "count" /\ UNCHANGED <<arguments, stage>>
      /\ iterations' = iterations - 1 /\ step' = (IF iterations' = 0 THEN "end" ELSE "pass")
  BY DEF Count
<1>2. Pieces \in Nat \ {0} /\ Later \in Nat /\ iterations \in Nat \ {0}
  BY <1>1, LengthsNat, SMT DEF KInv, AtChunk, KernelTypeOK, Looping
<1> DEFINE before == (iterations - 1) * Pieces
<1>3. before \in Nat /\ (iterations = 1 => before = 0)
  BY <1>2, OneLess, SMT
<1>4. StepsLeft = Later + (before + 2)
  BY <1>1 DEF StepsLeft, Later
<1>5. StepsLeft' = Later + (IF step' = "end" THEN 1 ELSE before + 1)
  BY <1>1, SameLengths DEF StepsLeft, Later
<1> HIDE DEF before
<1> QED BY <1>1, <1>2, <1>3, <1>4, <1>5, SMT DEF CountedDown

LEMMA ComputeCountsDown == ASSUME KInv, Compute PROVE CountedDown
<1>1. /\ step = "compute" /\ UNCHANGED <<arguments, stage>>
      /\ iterations' = iterations - 1 /\ step' = (IF iterations' = 0 THEN "end" ELSE "compute")
  BY DEF Compute
<1>2. Pieces = 1 /\ Later \in Nat /\ iterations \in Nat \ {0}
  BY <1>1, LengthsNat, SMT DEF KInv, AtChunk, KernelTypeOK, Pieces
<1>3. StepsLeft = Later + (iterations * Pieces + 1)
  BY <1>1 DEF StepsLeft, Later
<1>4. StepsLeft' = Later + (IF step' = "end" THEN 1 ELSE (iterations - 1) * Pieces + 1)
  BY <1>1, SameLengths DEF StepsLeft, Later
<1> QED BY <1>1, <1>2, <1>3, <1>4, SMT DEF CountedDown

LEMMA EndCountsDown == ASSUME KInv, End PROVE CountedDown
<1>1. step = "end" /\ UNCHANGED arguments
  BY DEF End
<1>2. StepsLeft = Later + 1 /\ Later \in Nat
  BY <1>1, LengthsNat DEF StepsLeft, Later
<1>3. CASE stage = FirstStage
  <2>1. stage' = SecondStage /\ step' = "begin" /\ SecondStage # FirstStage
    BY <1>3 DEF End, FirstStage, SecondStage
  <2>2. StepsLeft' = 0 + StageLength(SecondStage) /\ StageLength(SecondStage) = Later
    BY <1>1, <1>3, <2>1, SameLengths DEF StepsLeft, Later
  <2> QED BY <1>2, <2>1, <2>2, SMT DEF CountedDown
<1>4. CASE stage # FirstStage
  BY <1>2, <1>4, SMT DEF End, CountedDown, Later
<1> QED BY <1>3, <1>4

(* Every call of a kernel returns, for all sizes and repetitions: a step   *)
(* that is not its last leaves one step less, and never less than none.    *)
THEOREM CallsReturn == KernelSpec => CountsDown
<1>1. KernelSpec => []KInv
  BY KInit, NextInv, PTL DEF KernelSpec
<1>2. KInv /\ [KernelNext]_kernelVars => [step # "ready" => CountedDown]_kernelVars
  <2> SUFFICES ASSUME KInv, KernelNext, step # "ready" PROVE CountedDown
    OBVIOUS
  <2>1. KernelStep
    BY DEF KernelNext, Call
  <2> QED BY <2>1, BeginCountsDown, PassCountsDown, ChunkCountsDown, CountCountsDown, ComputeCountsDown, EndCountsDown
          DEF KernelStep
<1>3. KInv /\ [KernelNext]_kernelVars =>
          [step # "ready" => /\ StepsLeft > 0
                             /\ IF step' = "ready" THEN StepsLeft = 1 ELSE StepsLeft' = StepsLeft - 1]_kernelVars
  BY <1>2 DEF CountedDown
<1> QED BY <1>1, <1>3, PTL DEF KernelSpec, CountsDown
-----------------------------------------------------------------------------
LEMMA UsedKept == type' = type /\ size' = size => Used' = Used /\ Moves' = Moves
BY DEF Used, Moves

LEMMA CallProgress ==
    ASSUME NEW t \in benchmark_types_supported, NEW s \in BufferSizes, NEW r \in Counts, Call(t, s, r)
    PROVE  Progress' /\ EveryByteMoved'
<1>1. moved' = [a \in Used' |-> 0]
  BY DEF Call
<1>2. Moves' => step' = "begin"
  BY DEF Call, HasKernel
<1> QED BY <1>1, <1>2 DEF Progress, Accessed, EveryByteMoved

LEMMA ChunkProgress == ASSUME Full, Chunk PROVE Progress' /\ EveryByteMoved'
<1>1. /\ r11 \in Nat /\ r12 \in Nat /\ size \in Nat /\ moved \in [Used -> Nat]
      /\ iterations \in Nat /\ repeat \in Nat /\ Moves /\ r11 + r12 = size
      /\ step = "chunk" /\ r11' = r11 + CHUNK_SIZE /\ r12' = r12 - CHUNK_SIZE
      /\ type' = type /\ size' = size /\ repeat' = repeat /\ iterations' = iterations /\ stage' = stage
  BY KernelAssumption, SizeOfBuffer, SMT
     DEF Full, KInv, AtChunk, KernelTypeOK, Chunk, Looping, arguments
<1>2. step' = (IF r12' = 0 THEN "count" ELSE "chunk")
  BY DEF Chunk
<1>3. Used' = Used /\ Moves' = Moves /\ Used \subseteq Nat /\ \A a \in Used : a < size
  BY <1>1, UsedKept, UsedNat
<1>4. ASSUME NEW a \in Used PROVE moved'[a] = Accessed(a)'
  <2>1. a \in Nat /\ a < size /\ moved[a] = Accessed(a) /\ moved[a] \in Nat
    BY <1>1, <1>3 DEF Full, Progress
  <2>2. CASE stage = "overhead"
    BY <1>1, <2>1, <2>2 DEF Chunk, history, Accessed
  <2>3. CASE stage = "measure"
    <3>1. moved'[a] = moved[a] + Cardinality(Covering(a))
      BY <2>3 DEF Chunk
    <3>2. Cardinality(Covering(a)) = IF r11 <= a /\ a < r11 + CHUNK_SIZE THEN 1 ELSE 0
      BY <1>1, <2>1, ChunkCovered DEF Full
    <3>3. moved[a] = repeat - iterations + (IF a < r11 THEN 1 ELSE 0)
      BY <1>1, <2>1, <2>3 DEF Accessed
    <3>4. moved'[a] = repeat - iterations + (IF a < r11 + CHUNK_SIZE THEN 1 ELSE 0)
      BY <1>1, <2>1, <3>1, <3>2, <3>3, Widths, SMT
    <3>5. r12' = 0 => r11 + CHUNK_SIZE = size
      BY <1>1, Widths, SMT
    <3> QED BY <1>1, <1>2, <2>1, <2>3, <3>4, <3>5 DEF Accessed
  <2> QED BY <2>2, <2>3 DEF Full, KInv, KernelTypeOK
<1>5. step' # "ready"
  BY <1>2
<1> QED BY <1>3, <1>4, <1>5 DEF Progress, EveryByteMoved

(* In the other steps of a kernel the bytes are left alone.                *)
LEMMA OtherProgress ==
    ASSUME Full, Begin \/ Pass \/ Count \/ Compute
    PROVE  Progress' /\ EveryByteMoved'
<1>1. /\ type' = type /\ size' = size /\ repeat' = repeat /\ stage' = stage /\ moved' = moved
      /\ step' # "ready"
  BY DEF Begin, Pass, Count, Compute, arguments, history
<1>2. Used' = Used /\ Moves' = Moves
  BY <1>1, UsedKept
<1>3. Moves => \A a \in Used : Accessed(a)' = Accessed(a)
  <2> SUFFICES ASSUME Moves, NEW a \in Used PROVE Accessed(a)' = Accessed(a)
    OBVIOUS
  <2>1. a \in Nat /\ a < size /\ size \in Nat /\ repeat \in Nat /\ iterations \in Nat
    BY KernelAssumption, SizeOfBuffer, UsedNat, SMT DEF Full, KInv, KernelTypeOK
  <2>2. CASE Begin
    BY <1>1, <2>1, <2>2, SMT DEF Begin, Accessed
  <2>3. CASE Pass
    BY <1>1, <2>1, <2>3, SMT DEF Pass, Accessed
  <2>4. CASE Count
    BY <1>1, <2>1, <2>4, SMT DEF Count, Accessed
  <2>5. CASE Compute
    BY <2>5 DEF Full, KInv, AtChunk, Compute
  <2> QED BY <2>2, <2>3, <2>4, <2>5
<1>4. step # "ready"
  BY DEF Begin, Pass, Count, Compute
<1> QED BY <1>1, <1>2, <1>3, <1>4 DEF Full, Progress, EveryByteMoved

LEMMA EndProgress == ASSUME Full, End PROVE Progress' /\ EveryByteMoved'
<1>1. /\ type' = type /\ size' = size /\ repeat' = repeat /\ moved' = moved /\ step = "end"
  BY DEF End, arguments, history
<1>2. Used' = Used /\ Moves' = Moves
  BY <1>1, UsedKept
<1>3. repeat \in Nat /\ iterations = 0
  BY KernelAssumption DEF Full, KInv, AtChunk, End
<1>4. CASE Moves /\ stage = "overhead"
  <2>1. step' = "begin" /\ \A a \in Used : moved[a] = 0
    BY <1>1, <1>4 DEF End, FirstStage, Full, Progress, Accessed
  <2> QED BY <1>1, <1>2, <2>1 DEF Progress, EveryByteMoved, Accessed
<1>5. CASE Moves /\ stage = "measure"
  <2>1. step' = "ready" /\ out' = EndMeasure
    BY <1>5 DEF End, FirstStage, Moves, MovOps
  <2>2. \A a \in Used : moved[a] = repeat
    <3>1. \A a \in Used : moved[a] = repeat - iterations + 0
      BY <1>1, <1>5 DEF Full, Progress, Accessed
    <3> QED BY <1>3, <3>1, SMT
  <2>3. EndMeasure.bytes = size * repeat
    BY <1>1, <1>5, AmountsNat DEF Full
  <2> QED BY <1>1, <1>2, <2>1, <2>2, <2>3 DEF Progress, EveryByteMoved
<1>6. CASE ~Moves
  BY <1>2, <1>6 DEF Progress, EveryByteMoved
<1> QED BY <1>4, <1>5, <1>6 DEF Full, KInv, KernelTypeOK

(* But for SSE, the kernels of mov.c access every byte of the buffer once  *)
(* in every repetition, and report that many bytes.                        *)
THEOREM MovesEveryByte == ASSUME Target # "SSE" PROVE KernelSpec => []EveryByteMoved
<1>1. KernelInit => Full
  <2>1. KernelInit => Progress /\ EveryByteMoved
    BY SMT DEF KernelInit, Progress, EveryByteMoved, Used, Cleared
  <2> QED BY <2>1, KInit DEF Full
<1>2. Full /\ [KernelNext]_kernelVars => Full'
  <2> SUFFICES ASSUME Full, [KernelNext]_kernelVars PROVE Progress' /\ EveryByteMoved'
    BY NextInv DEF Full
  <2>1. CASE UNCHANGED kernelVars
    BY <2>1 DEF kernelVars, arguments, history, Full, Progress, EveryByteMoved, Accessed, Moves, Used
  <2>2. CASE KernelNext
    BY <2>2, CallProgress, ChunkProgress, OtherProgress, EndProgress DEF KernelNext, KernelStep
  <2> QED BY <2>1, <2>2
<1>3. Full => EveryByteMoved
  BY DEF Full
<1> QED BY <1>1, <1>2, <1>3, PTL DEF KernelSpec
-----------------------------------------------------------------------------
(* The counts.  The accesses so far are those of the complete repetitions  *)
(* and those of the chunks behind r11; the instructions are the accesses,  *)
(* four for each chunk and five for each repetition.                       *)
Done   == repeat - iterations
Inside == step \in {"chunk", "count"}

StoresOK == /\ type \in {"LOAD", "LOAD_NT"} => stores = 0
            /\ type = "2LD1ST" => moves = 3 * stores
EmptyLoops ==
    Moves /\ stage = "overhead" =>
        /\ moves = 0 /\ stores = 0
        /\ step = "pass" => clock = 0 /\ iterations = 1
        /\ Inside => CHUNK_SIZE * clock = 4 * r11 + 2 * CHUNK_SIZE /\ iterations = 1
        /\ step = "end" => CHUNK_SIZE * clock = 4 * size + 5 * CHUNK_SIZE
FullLoops ==
    Moves /\ stage = "measure" =>
        /\ CHUNK_SIZE * out.overhead = 4 * size + 5 * CHUNK_SIZE
        /\ step = "begin" => moves = 0 /\ stores = 0
        /\ step # "begin" =>
              /\ moves * SIMD_BYTES = Done * size + (IF Inside THEN r11 ELSE 0)
              /\ 30 * clock = 34 * moves + 150 * Done + (IF Inside THEN 60 ELSE 0)
Computing ==
    ~Moves =>
        /\ stage = "measure" /\ step # "begin" => clock = 35 * Done
        /\ stage = "overhead" =>
              /\ out.cycles = 35 * repeat /\ out.instructions = 16 * repeat
              /\ out.flops = 16 * SIMD_FLOPS * repeat /\ out.bytes = 0
              /\ step # "begin" => clock = 19 * Done
Tally == step # "ready" => StoresOK /\ EmptyLoops /\ FullLoops /\ Computing
AllCounts == KInv /\ Tally /\ CountsOfLoops /\ Target # "SSE"

LEMMA Unit == Target # "SSE" => CHUNK_SIZE = 30 * SIMD_BYTES /\ SIMD_BYTES \in {64, 32}
BY TargetAssumption DEF CHUNK_SIZE, SIMD_BYTES

(* Ten of the thirty accesses of 2LD1ST are stores.                        *)
LEMMA TenStores == Cardinality({k \in Accesses : Second(k)}) = 10
<1> DEFINE S == {k \in Accesses : Second(k)}
           f == [j \in 0 .. 9 |-> 3 * j + 2]
<1>1. IsFiniteSet(0 .. 9) /\ Cardinality(0 .. 9) = 10
  <2>1. 0 \in Int /\ 9 \in Int
    BY SMT
  <2>2. /\ IsFiniteSet(0 .. 9)
        /\ Cardinality(0 .. 9) = IF 0 > 9 THEN 0 ELSE 9 - 0 + 1
    BY <2>1, FS_Interval
  <2> QED BY <2>2, SMT
<1>2. \A j \in 0 .. 9 : 3 * j + 2 \in S
  BY SMT DEF Accesses, Second
<1>3. \A k \in S : \E j \in 0 .. 9 : k = 3 * j + 2
  <2> SUFFICES ASSUME NEW k \in S PROVE \E j \in 0 .. 9 : k = 3 * j + 2
    OBVIOUS
  <2>1. k \in 0 .. 29 /\ k % 3 = 2
    BY DEF Accesses, Second
  <2>2. (k - 2) \div 3 \in 0 .. 9 /\ k = 3 * ((k - 2) \div 3) + 2
    BY <2>1, SMT
  <2> QED BY <2>2
<1>4. \A j, m \in 0 .. 9 : 3 * j + 2 = 3 * m + 2 => j = m
  BY SMT
<1> HIDE DEF S
<1>5. f \in Bijection(0 .. 9, S)
  <2>1. f \in [0 .. 9 -> S] /\ \A j \in 0 .. 9 : f[j] = 3 * j + 2
    BY <1>2
  <2> HIDE DEF f
  <2>2. f \in Injection(0 .. 9, S)
    BY <1>4, <2>1 DEF Injection, IsInjective
  <2>3. \A k \in S : \E j \in 0 .. 9 : f[j] = k
    BY <1>3, <2>1
  <2>4. f \in Surjection(0 .. 9, S)
    BY <2>1, <2>3 DEF Surjection
  <2> QED BY <2>2, <2>4 DEF Bijection
<1>6. Cardinality(S) = 10
  BY <1>1, <1>5, FS_Bijection DEF ExistsBijection
<1> QED BY <1>6 DEF S

LEMMA StoresOfChunk ==
    /\ type \in {"LOAD", "LOAD_NT"} => Cardinality({k \in Accesses : Writes(k)}) = 0
    /\ type = "2LD1ST" => Cardinality({k \in Accesses : Writes(k)}) = 10
<1>1. ASSUME type \in {"LOAD", "LOAD_NT"} PROVE Cardinality({k \in Accesses : Writes(k)}) = 0
  <2>1. {k \in Accesses : Writes(k)} = {}
    BY <1>1 DEF Writes
  <2> QED BY <2>1, FS_EmptySet
<1>2. ASSUME type = "2LD1ST" PROVE Cardinality({k \in Accesses : Writes(k)}) = 10
  <2>1. {k \in Accesses : Writes(k)} = {k \in Accesses : Second(k)}
    BY <1>2 DEF Writes
  <2> QED BY <2>1, TenStores
<1> QED BY <1>1, <1>2

LEMMA CallCounts ==
    ASSUME NEW t \in benchmark_types_supported, NEW s \in BufferSizes, NEW r \in Counts, Call(t, s, r)
    PROVE  Tally' /\ CountsOfLoops'
<1>1. HasKernel'
  BY DEF Call, HasKernel, Moves, FlopKernels, benchmark_types_supported, MovOps
<1>2. step' = "begin" /\ moves' = 0 /\ stores' = 0 /\ stage' = FirstStage'
  BY <1>1 DEF Call
<1> QED BY <1>2 DEF Tally, CountsOfLoops, StoresOK, EmptyLoops, FullLoops, Computing, Inside, FirstStage

LEMMA BeginCounts == ASSUME AllCounts, Begin PROVE Tally' /\ CountsOfLoops'
<1>1. /\ step = "begin" /\ step' = (IF Moves THEN "pass" ELSE "compute")
      /\ clock' = 0 /\ iterations' = (IF Moves /\ stage = "overhead" THEN 1 ELSE repeat)
      /\ UNCHANGED <<type, size, repeat, stage, out, moves, stores>>
  BY DEF Begin, arguments, history
<1>2. repeat \in Nat /\ size \in Nat /\ Moves' = Moves
  BY <1>1, KernelAssumption, SizeOfBuffer, SMT DEF AllCounts, KInv, KernelTypeOK, Moves
<1>3. StoresOK /\ EmptyLoops /\ FullLoops /\ Computing
  BY <1>1 DEF AllCounts, Tally
<1>4. StoresOK' /\ EmptyLoops'
  BY <1>1, <1>2, <1>3 DEF StoresOK, EmptyLoops, Inside
<1>5. FullLoops'
  <2> SUFFICES ASSUME Moves, stage = "measure" PROVE FullLoops'
    BY <1>1, <1>2 DEF FullLoops
  <2>1. Done' = 0 /\ moves' = 0 /\ 0 * SIMD_BYTES = 0 /\ 0 * size = 0
    BY <1>1, <1>2, <1>3, Widths, SMT DEF FullLoops, Done
  <2> QED BY <1>1, <1>2, <1>3, <2>1, SMT DEF FullLoops, Inside
<1>6. Computing'
  <2>1. ~Moves => Done' = 0
    BY <1>1, <1>2, SMT DEF Done
  <2> QED BY <1>1, <1>2, <1>3, <2>1, SMT DEF Computing
<1> QED BY <1>1, <1>4, <1>5, <1>6 DEF Tally, CountsOfLoops

LEMMA PassCounts == ASSUME AllCounts, Pass PROVE Tally' /\ CountsOfLoops'
<1>1. /\ step = "pass" /\ step' = "chunk" /\ r11' = 0 /\ clock' = clock + 2
      /\ UNCHANGED <<type, size, repeat, stage, iterations, out, moves, stores>>
  BY DEF Pass, arguments, history
<1>2. /\ repeat \in Nat /\ iterations \in Nat /\ size \in Nat /\ clock \in Nat /\ moves \in Nat
      /\ Moves' = Moves /\ Moves /\ Done' = Done
  BY <1>1, KernelAssumption, SizeOfBuffer, SMT
     DEF AllCounts, KInv, KernelTypeOK, AtChunk, Looping, Moves, Done
<1>3. StoresOK /\ EmptyLoops /\ FullLoops
  BY <1>1 DEF AllCounts, Tally
<1>4. StoresOK' /\ Computing'
  BY <1>1, <1>2, <1>3 DEF StoresOK, Computing
<1>5. EmptyLoops'
  BY <1>1, <1>2, <1>3, Widths, SMT DEF EmptyLoops, Inside
<1>6. FullLoops'
  <2> SUFFICES ASSUME stage = "measure" PROVE FullLoops'
    BY <1>1 DEF FullLoops
  <2>1. /\ moves * SIMD_BYTES = Done * size + 0
        /\ 30 * clock = 34 * moves + 150 * Done + 0
    BY <1>1, <1>2, <1>3 DEF FullLoops, Inside
  <2>2. Done \in Int
    BY <1>2, SMT DEF Done
  <2>3. 30 * clock' = 34 * moves' + 150 * Done' + 60
    BY <1>1, <1>2, <2>1, <2>2, SMT
  <2> QED BY <1>1, <1>2, <1>3, <2>1, <2>3 DEF FullLoops, Inside
<1> QED BY <1>1, <1>4, <1>5, <1>6 DEF Tally, CountsOfLoops

LEMMA ChunkCounts == ASSUME AllCounts, Chunk PROVE Tally' /\ CountsOfLoops'
<1>1. /\ step = "chunk" /\ step' \in {"chunk", "count"} /\ r11' = r11 + CHUNK_SIZE
      /\ UNCHANGED <<type, size, repeat, stage, iterations, out>>
  BY DEF Chunk, arguments
<1>2. /\ repeat \in Nat /\ iterations \in Nat /\ size \in Nat /\ clock \in Nat /\ moves \in Nat
      /\ stores \in Nat /\ r11 \in Nat /\ Moves' = Moves /\ Moves /\ Done' = Done
      /\ stage \in {"overhead", "measure"}
  BY <1>1, KernelAssumption, SizeOfBuffer, SMT
     DEF AllCounts, KInv, KernelTypeOK, AtChunk, Looping, Moves, Done
<1>3. StoresOK /\ EmptyLoops /\ FullLoops
  BY <1>1 DEF AllCounts, Tally
<1>4. Computing' /\ Inside /\ Inside'
  BY <1>1, <1>2 DEF Computing, Inside
<1>5. CASE stage = "overhead"
  <2>1. clock' = clock + 4 /\ moves' = moves /\ stores' = stores
    BY <1>5 DEF Chunk, history
  <2>2. StoresOK'
    BY <1>1, <1>3, <2>1 DEF StoresOK
  <2>3. CHUNK_SIZE * clock' = 4 * r11' + 2 * CHUNK_SIZE
    <3>1. CHUNK_SIZE * clock = 4 * r11 + 2 * CHUNK_SIZE
      BY <1>2, <1>3, <1>4, <1>5 DEF EmptyLoops
    <3> QED BY <1>1, <1>2, <2>1, <3>1, Widths, SMT
  <2>4. EmptyLoops' /\ FullLoops'
    BY <1>1, <1>2, <1>3, <1>4, <1>5, <2>1, <2>3 DEF EmptyLoops, FullLoops, Inside
  <2> QED BY <1>1, <1>4, <2>2, <2>4 DEF Tally, CountsOfLoops
<1>6. CASE stage = "measure"
  <2> DEFINE w == Cardinality({k \in Accesses : Writes(k)})
  <2>1. clock' = clock + 34 /\ moves' = moves + 30 /\ stores' = stores + w
    BY <1>2, <1>6, AccessesFinite, SMT DEF Chunk
  <2>2. StoresOK'
    BY <1>1, <1>2, <1>3, <2>1, StoresOfChunk DEF StoresOK
  <2>3. /\ moves * SIMD_BYTES = Done * size + r11
        /\ 30 * clock = 34 * moves + 150 * Done + 60
    BY <1>1, <1>2, <1>3, <1>4, <1>6 DEF FullLoops
  <2>4. Done \in Int /\ Done * size \in Int
    BY <1>2, SMT DEF Done
  <2>5. moves' * SIMD_BYTES = Done' * size' + r11'
    <3> DEFINE d == Done * size
    <3>1. d \in Int /\ moves * SIMD_BYTES = d + r11
      BY <2>3, <2>4
    <3> HIDE DEF d
    <3>2. moves' * SIMD_BYTES = d + r11'
      BY <1>1, <1>2, <2>1, <3>1, Unit, SMT DEF AllCounts
    <3> QED BY <1>1, <1>2, <3>2 DEF d
  <2>6. 30 * clock' = 34 * moves' + 150 * Done' + 60
    BY <1>2, <2>1, <2>3, <2>4, SMT
  <2>7. FullLoops' /\ EmptyLoops'
    BY <1>1, <1>2, <1>3, <1>4, <1>6, <2>5, <2>6 DEF FullLoops, EmptyLoops
  <2> QED BY <1>1, <1>4, <2>2, <2>7 DEF Tally, CountsOfLoops
<1> QED BY <1>2, <1>5, <1>6

LEMMA OneMoreTime == ASSUME NEW d \in Int, NEW s \in Nat PROVE (d + 1) * s = d * s + s
BY SMT

LEMMA CountCounts == ASSUME AllCounts, Count PROVE Tally' /\ CountsOfLoops'
<1>1. /\ step = "count" /\ step' = (IF iterations' = 0 THEN "end" ELSE "pass")
      /\ iterations' = iterations - 1 /\ clock' = clock + 3
      /\ UNCHANGED <<type, size, repeat, stage, r11, out, moves, stores>>
  BY DEF Count, arguments, history
<1>2. /\ repeat \in Nat /\ iterations \in Nat /\ size \in Nat /\ clock \in Nat /\ moves \in Nat
      /\ r11 = size /\ Moves' = Moves /\ Moves /\ Done' = Done + 1 /\ Done \in Int
      /\ stage \in {"overhead", "measure"}
  BY <1>1, KernelAssumption, SizeOfBuffer, SMT
     DEF AllCounts, KInv, KernelTypeOK, AtChunk, Looping, Moves, Done
<1>3. StoresOK /\ EmptyLoops /\ FullLoops
  BY <1>1 DEF AllCounts, Tally
<1>4. StoresOK' /\ Computing' /\ Inside /\ ~Inside'
  BY <1>1, <1>2, <1>3 DEF StoresOK, Computing, Inside
<1>5. CASE stage = "overhead"
  <2>1. CHUNK_SIZE * clock = 4 * size + 2 * CHUNK_SIZE /\ iterations = 1
    BY <1>2, <1>3, <1>4, <1>5 DEF EmptyLoops
  <2>2. CHUNK_SIZE * clock' = 4 * size + 5 * CHUNK_SIZE /\ step' = "end"
    BY <1>1, <1>2, <2>1, Widths, SMT
  <2>3. EmptyLoops' /\ FullLoops'
    BY <1>1, <1>2, <1>3, <1>4, <1>5, <2>2 DEF EmptyLoops, FullLoops, Inside
  <2> QED BY <1>1, <1>4, <2>3 DEF Tally, CountsOfLoops
<1>6. CASE stage = "measure"
  <2>1. /\ moves * SIMD_BYTES = Done * size + size
        /\ 30 * clock = 34 * moves + 150 * Done + 60
    BY <1>1, <1>2, <1>3, <1>4, <1>6 DEF FullLoops
  <2>2. moves' * SIMD_BYTES = Done' * size' + 0
    <3>1. Done' * size = Done * size + size /\ Done' * size + 0 = Done' * size
      BY <1>2, OneMoreTime, SMT
    <3> QED BY <1>1, <2>1, <3>1
  <2>3. 30 * clock' = 34 * moves' + 150 * Done' + 0
    BY <1>1, <1>2, <2>1, SMT
  <2>4. FullLoops' /\ EmptyLoops'
    BY <1>1, <1>2, <1>3, <1>4, <1>6, <2>2, <2>3 DEF FullLoops, EmptyLoops
  <2> QED BY <1>1, <1>4, <2>4 DEF Tally, CountsOfLoops
<1> QED BY <1>2, <1>5, <1>6

LEMMA ComputeCounts == ASSUME AllCounts, Compute PROVE Tally' /\ CountsOfLoops'
<1>1. /\ step = "compute" /\ step' \in {"end", "compute"}
      /\ iterations' = iterations - 1
      /\ clock' = clock + (IF stage = "measure" THEN 32 ELSE 16) + 3
      /\ UNCHANGED <<type, size, repeat, stage, out, moves, stores>>
  BY DEF Compute, arguments, history, FlopBody, OverheadBody
<1>2. /\ repeat \in Nat /\ iterations \in Nat /\ clock \in Nat
      /\ Moves' = Moves /\ ~Moves /\ Done' = Done + 1 /\ Done \in Int
  BY <1>1, KernelAssumption, SMT DEF AllCounts, KInv, KernelTypeOK, AtChunk, Looping, Moves, Done
<1>3. StoresOK /\ Computing
  BY <1>1 DEF AllCounts, Tally
<1>4. StoresOK' /\ EmptyLoops' /\ FullLoops'
  BY <1>1, <1>2, <1>3 DEF StoresOK, EmptyLoops, FullLoops
<1>5. Computing'
  BY <1>1, <1>2, <1>3, SMT DEF Computing
<1> QED BY <1>1, <1>4, <1>5 DEF Tally, CountsOfLoops

(* As many accesses as there are registers in the bytes moved, and more    *)
(* instructions than in the empty loops.                                   *)
LEMMA AmountsOfLoops ==
    ASSUME NEW m \in Nat, NEW r \in Nat \ {0}, NEW s \in Nat \ {0}, NEW c \in Nat, NEW o \in Nat,
           Target # "SSE", m * SIMD_BYTES = r * s,
           30 * c = 34 * m + 150 * r, CHUNK_SIZE * o = 4 * s + 5 * CHUNK_SIZE
    PROVE  (r * s) \div SIMD_BYTES = m /\ m > 0 /\ c > o
<1> DEFINE p == r * s
<1>1. p \in Nat /\ p >= s
  BY ProductNat, SMT
<1> HIDE DEF p
<1>2. m * SIMD_BYTES = p
  BY DEF p
<1>3. CASE SIMD_BYTES = 64 /\ CHUNK_SIZE = 1920
  <2>1. p \div SIMD_BYTES = m /\ m > 0
    BY <1>1, <1>2, <1>3, SMT
  <2>2. c > o
    BY <1>1, <1>2, <1>3, SMT
  <2> QED BY <2>1, <2>2 DEF p
<1>4. CASE SIMD_BYTES = 32 /\ CHUNK_SIZE = 960
  <2>1. p \div SIMD_BYTES = m /\ m > 0
    BY <1>1, <1>2, <1>4, SMT
  <2>2. c > o
    BY <1>1, <1>2, <1>4, SMT
  <2> QED BY <2>1, <2>2 DEF p
<1> QED BY <1>3, <1>4, Widths

LEMMA EndOfOverhead ==
    ASSUME AllCounts, End, Moves, stage = "overhead" PROVE Tally' /\ CountsOfLoops'
<1>1. /\ step = "end" /\ step' = "begin" /\ stage' = "measure" /\ out' = EndMeasure
      /\ UNCHANGED <<type, size, repeat, iterations, moves, stores>>
  BY DEF End, FirstStage, SecondStage, arguments, history
<1>2. out' = [out EXCEPT !.overhead = clock] /\ out \in Amounts
  BY <1>1 DEF EndMeasure, Bytes, Flops, AllCounts, KInv, KernelTypeOK
<1>3. out'.overhead = clock
  BY <1>2 DEF Amounts
<1>4. StoresOK /\ EmptyLoops
  BY <1>1 DEF AllCounts, Tally
<1>5. Moves' = Moves
  BY <1>1 DEF Moves
<1> QED BY <1>1, <1>3, <1>4, <1>5
        DEF Tally, CountsOfLoops, StoresOK, EmptyLoops, FullLoops, Computing

LEMMA EndOfMoves ==
    ASSUME AllCounts, End, Moves, stage = "measure" PROVE Tally' /\ CountsOfLoops'
<1>1. /\ step = "end" /\ step' = "ready" /\ out' = EndMeasure
      /\ UNCHANGED <<type, size, repeat, moves, stores>>
  BY DEF End, FirstStage, Moves, MovOps, arguments, history
<1>2. /\ size \in Nat \ {0} /\ repeat \in Nat \ {0} /\ iterations = 0 /\ clock \in Nat
      /\ moves \in Nat /\ out \in Amounts
  BY <1>1, KernelAssumption, SizeOfBuffer, SMT DEF AllCounts, KInv, KernelTypeOK, AtChunk
<1>3. StoresOK /\ FullLoops
  BY <1>1 DEF AllCounts, Tally
<1>4. /\ moves * SIMD_BYTES = repeat * size
      /\ 30 * clock = 34 * moves + 150 * repeat
      /\ CHUNK_SIZE * out.overhead = 4 * size + 5 * CHUNK_SIZE
  <2>1. /\ moves * SIMD_BYTES = Done * size + 0
        /\ 30 * clock = 34 * moves + 150 * Done + 0
        /\ CHUNK_SIZE * out.overhead = 4 * size + 5 * CHUNK_SIZE
    BY <1>1, <1>3 DEF FullLoops, Inside
  <2>2. Done = repeat
    BY <1>2, SMT DEF Done
  <2>3. Done * size + 0 = repeat * size
    BY <1>2, <2>2, ProductNat, SMT
  <2> QED BY <1>2, <2>1, <2>2, <2>3, SMT
<1>5. out.overhead \in Nat
  BY <1>2 DEF Amounts
<1>6. (repeat * size) \div SIMD_BYTES = moves /\ moves > 0 /\ clock > out.overhead
  BY <1>2, <1>4, <1>5, AmountsOfLoops DEF AllCounts
<1>7. Instructions = moves /\ Instructions # 0 /\ Flops = 0
  BY <1>2, <1>6, SMT DEF Instructions, Flops
<1>8. Bytes # 0
  <2>1. size * repeat > 0
    BY <1>2, ProductNat, SMT
  <2> QED BY <2>1 DEF Bytes
<1>9. /\ out'.cycles = clock /\ out'.overhead = out.overhead /\ out'.flops = 0
      /\ out'.instructions = moves
  BY <1>1, <1>2, <1>7, <1>8 DEF EndMeasure, Amounts
<1>10. Moves' = Moves
  BY <1>1 DEF Moves
<1> QED BY <1>1, <1>2, <1>3, <1>6, <1>9, <1>10 DEF Tally, CountsOfLoops, StoresOK

LEMMA EndOfFlops ==
    ASSUME AllCounts, End, ~Moves, stage = "measure" PROVE Tally' /\ CountsOfLoops'
<1>1. /\ step = "end" /\ step' = "begin" /\ stage' = "overhead" /\ out' = EndMeasure
      /\ UNCHANGED <<type, size, repeat, iterations, moves, stores>>
  BY DEF End, FirstStage, SecondStage, arguments, history
<1>2. repeat \in Nat \ {0} /\ iterations = 0 /\ clock \in Nat /\ out \in Amounts
  BY <1>1, KernelAssumption, SMT DEF AllCounts, KInv, KernelTypeOK, AtChunk
<1>3. StoresOK /\ Computing
  BY <1>1 DEF AllCounts, Tally
<1>4. clock = 35 * repeat
  BY <1>1, <1>2, <1>3, SMT DEF Computing, Done
<1>5. Flops = 16 * SIMD_FLOPS * repeat /\ Flops # 0 /\ Bytes = 0
  BY <1>2, Widths, SMT DEF Flops, Bytes
<1>6. Instructions = 16 * repeat /\ Instructions # 0
  BY <1>2, SMT DEF Instructions
<1>7. /\ out'.cycles = clock /\ out'.flops = Flops /\ out'.bytes = 0
      /\ out'.instructions = 16 * repeat
  BY <1>1, <1>2, <1>5, <1>6 DEF EndMeasure, Amounts
<1>8. Moves' = Moves
  BY <1>1 DEF Moves
<1> QED BY <1>1, <1>3, <1>4, <1>5, <1>7, <1>8
        DEF Tally, CountsOfLoops, StoresOK, EmptyLoops, FullLoops, Computing

LEMMA EndOfHalf ==
    ASSUME AllCounts, End, ~Moves, stage = "overhead" PROVE Tally' /\ CountsOfLoops'
<1>1. /\ step = "end" /\ step' = "ready"
      /\ out' = IF type = "FMA" THEN [EndMeasure EXCEPT !.flops = 2 * @] ELSE EndMeasure
      /\ UNCHANGED <<type, size, repeat, moves, stores>>
  BY DEF End, FirstStage, arguments, history
<1>2. repeat \in Nat \ {0} /\ iterations = 0 /\ clock \in Nat /\ out \in Amounts
  BY <1>1, KernelAssumption, SMT DEF AllCounts, KInv, KernelTypeOK, AtChunk
<1>3. Computing
  BY <1>1 DEF AllCounts, Tally
<1>4. clock = 19 * repeat
  BY <1>1, <1>2, <1>3, SMT DEF Computing, Done
<1>5. EndMeasure = [out EXCEPT !.overhead = clock]
  BY DEF EndMeasure, Bytes, Flops
<1>6. /\ out'.cycles = out.cycles /\ out'.overhead = clock /\ out'.bytes = out.bytes
      /\ out'.instructions = out.instructions
      /\ out'.flops = IF type = "FMA" THEN 2 * out.flops ELSE out.flops
  BY <1>1, <1>2, <1>5 DEF Amounts
<1>7. /\ out.cycles = 35 * repeat /\ out.instructions = 16 * repeat
      /\ out.flops = 16 * SIMD_FLOPS * repeat /\ out.bytes = 0
  BY <1>3 DEF Computing
<1>8. /\ out'.cycles > out'.overhead /\ out'.instructions > 0
      /\ out'.instructions = out'.cycles - out'.overhead
  BY <1>2, <1>4, <1>6, <1>7, SMT
<1>9. out'.flops = out'.instructions * SIMD_FLOPS * (IF type = "FMA" THEN 2 ELSE 1)
  BY <1>2, <1>6, <1>7, Widths, SMT
<1>10. Moves' = Moves
  BY <1>1 DEF Moves
<1> QED BY <1>1, <1>6, <1>7, <1>8, <1>9, <1>10 DEF Tally, CountsOfLoops

(* But for SSE, what the kernels report is what their loops execute: the   *)
(* accesses of a memory kernel, and the difference of the instructions of  *)
(* the two loops of one that computes; the overhead is never the longer.   *)
THEOREM CountsAreOfLoops == ASSUME Target # "SSE" PROVE KernelSpec => []CountsOfLoops
<1>1. KernelInit => AllCounts
  <2>1. KernelInit => step = "ready" /\ repeat = 0
    BY DEF KernelInit
  <2> QED BY <2>1, KInit DEF AllCounts, Tally, CountsOfLoops
<1>2. AllCounts /\ [KernelNext]_kernelVars => AllCounts'
  <2> SUFFICES ASSUME AllCounts, [KernelNext]_kernelVars PROVE Tally' /\ CountsOfLoops'
    BY NextInv DEF AllCounts
  <2>1. CASE UNCHANGED kernelVars
    <3>1. UNCHANGED <<type, size, repeat, stage, iterations, r11, clock, out, moves, stores, step>>
      BY <2>1 DEF kernelVars, arguments, history
    <3> QED BY <3>1 DEF AllCounts, Tally, CountsOfLoops, StoresOK, EmptyLoops, FullLoops,
                        Computing, Done, Inside, Moves
  <2>2. CASE End
    BY <2>2, EndOfOverhead, EndOfMoves, EndOfFlops, EndOfHalf DEF AllCounts, KInv, KernelTypeOK
  <2> QED BY <2>1, <2>2, CallCounts, BeginCounts, PassCounts, ChunkCounts, CountCounts, ComputeCounts
          DEF KernelNext, KernelStep
<1>3. AllCounts => CountsOfLoops
  BY DEF AllCounts
<1> QED BY <1>1, <1>2, <1>3, PTL DEF KernelSpec

-----------------------------------------------------------------------------
(* For every size of the buffer and whatever rand_r() returns, the links   *)
(* are a permutation, so that the loop stays in the buffer and on one      *)
(* cycle.  While the buffer is filled, the words placed so far and the     *)
(* numbers left are together a permutation: a step of the shuffle swaps    *)
(* two places of it.  While the loop has not come back to word 0 there are *)
(* more loads to go than words it has not visited.                         *)

(* What is placed from word i on, and what is left before it.              *)
Mixed(j) == IF j < i THEN rands[j] ELSE links[j]
MixedPermutes ==
    pc = "shuffle" =>
        /\ \A v \in InUse : Mixed(v) \in InUse
        /\ \A v, w \in InUse : Mixed(v) = Mixed(w) => v = w
        /\ \A w \in InUse : \E v \in InUse : Mixed(v) = w

(* How the loop came where it is: every word it has been at but word 0 was *)
(* reached from one it has been at.                                        *)
Trail ==
    /\ visited \subseteq InUse
    /\ pc = "load" =>
          /\ left > 0
          /\ rax = 0 \/ \E v \in visited : links[v] = rax
          /\ \A w \in visited \ {0} : \E v \in visited : links[v] = w

IInv == TypeOK /\ MixedPermutes /\ LinksPermute /\ ChaseInBuffer /\ Trail

-----------------------------------------------------------------------------
LEMMA InitInv == Init => IInv
BY BufferAssumption, SMT
   DEF Init, IInv, TypeOK, MixedPermutes, LinksPermute, ChaseInBuffer, Trail, InUse, Words

LEMMA SetSizeInv == ASSUME NEW s \in Sizes, IInv, SetSize(s) PROVE IInv'
<1>1. s \in 1 .. Capacity /\ Capacity \in Nat
  BY BufferAssumption
<1>2. TypeOK'
  BY <1>1, SMT DEF IInv, TypeOK, SetSize, Words
<1>3. \A j \in InUse' : Mixed(j)' = j
  BY <1>1, SMT DEF SetSize, Mixed, InUse, Words
<1>4. MixedPermutes'
  BY <1>3 DEF MixedPermutes
<1>5. LinksPermute' /\ ChaseInBuffer' /\ Trail'
  BY DEF SetSize, LinksPermute, ChaseInBuffer, Trail
<1> QED BY <1>2, <1>4, <1>5 DEF IInv

(* A step of the shuffle swaps Mixed(val) and Mixed(i - 1).                *)
LEMMA ShuffleInv == ASSUME IInv, Shuffle PROVE IInv'
<1>1. PICK val \in 0 .. i - 1 :
         /\ links' = [links EXCEPT ![i - 1] = rands[val]]
         /\ rands' = [rands EXCEPT ![val] = rands[i - 1]]
  BY DEF Shuffle
<1>2. /\ pc = "shuffle" /\ pc' = "shuffle" /\ i > 0 /\ i' = i - 1
      /\ n' = n /\ visited' = visited /\ left' = left /\ rax' = rax
  BY DEF Shuffle
<1>3. /\ n \in Nat /\ i \in Nat /\ val \in Nat /\ val < i /\ i <= n /\ n <= Capacity /\ Capacity \in Nat
      /\ links \in [Words -> Words \cup {Junk}] /\ rands \in [Words -> Words \cup {Junk}]
  BY <1>1, <1>2, BufferAssumption, SMT DEF IInv, TypeOK
<1>4. PICK last \in InUse : last = i - 1
  BY <1>2, <1>3, SMT DEF InUse
<1>11. val \in Words /\ last \in Words /\ val \in InUse
  BY <1>3, <1>4, SMT DEF Words, InUse
<1>5. /\ Mixed(last)' = Mixed(val)
      /\ val # last => Mixed(val)' = Mixed(last)
  <2>1. links'[last] = rands[val] /\ rands'[val] = rands[last]
    BY <1>1, <1>3, <1>4, <1>11
  <2>2. Mixed(last)' = links'[last] /\ Mixed(val) = rands[val] /\ Mixed(last) = rands[last]
    BY <1>2, <1>3, <1>4, SMT DEF Mixed
  <2>3. val # last => Mixed(val)' = rands'[val]
    BY <1>2, <1>3, <1>4, SMT DEF Mixed
  <2> QED BY <2>1, <2>2, <2>3
<1>6. \A j \in InUse : j # val /\ j # last => Mixed(j)' = Mixed(j)
  BY <1>1, <1>2, <1>3, <1>4, <1>11, SMT DEF Mixed, InUse, Words
<1>7. InUse' = InUse
  BY <1>2 DEF InUse
<1>8. TypeOK'
  <2>1. rands[val] \in Words \cup {Junk} /\ rands[i - 1] \in Words \cup {Junk}
    BY <1>3, <1>4, <1>11
  <2>2. /\ links' \in [Words -> Words \cup {Junk}] /\ rands' \in [Words -> Words \cup {Junk}]
    BY <1>1, <1>3, <2>1
  <2>3. i' \in 0 .. n'
    BY <1>2, <1>3, SMT
  <2> QED BY <1>2, <2>2, <2>3 DEF IInv, TypeOK
<1>9. MixedPermutes'
  <2>1. /\ \A v \in InUse : Mixed(v) \in InUse
        /\ \A v, w \in InUse : Mixed(v) = Mixed(w) => v = w
        /\ \A w \in InUse : \E v \in InUse : Mixed(v) = w
    BY <1>2 DEF IInv, MixedPermutes
  <2> DEFINE Back(v) == IF v = last THEN val ELSE IF v = val THEN last ELSE v
  <2>0. \A v \in InUse : Back(v) \in InUse /\ Back(Back(v)) = v /\ Mixed(v)' = Mixed(Back(v))
    BY <1>4, <1>5, <1>6, <1>11
  <2> HIDE DEF Back
  <2>2. \A v \in InUse : Mixed(v)' \in InUse
    BY <2>0, <2>1
  <2>3. \A v, w \in InUse : Mixed(v)' = Mixed(w)' => v = w
    BY <2>0, <2>1
  <2>4. \A w \in InUse : \E v \in InUse : Mixed(v)' = w
    BY <2>0, <2>1
  <2> QED BY <1>7, <2>2, <2>3, <2>4 DEF MixedPermutes
<1>10. LinksPermute' /\ ChaseInBuffer' /\ Trail'
  BY <1>2, <1>7 DEF IInv, LinksPermute, ChaseInBuffer, Trail
<1> QED BY <1>8, <1>9, <1>10 DEF IInv

(* When nothing is left, all words are placed.                             *)
LEMMA EndShuffleInv == ASSUME IInv, EndShuffle PROVE IInv'
<1>1. /\ pc = "shuffle" /\ pc' = "ready" /\ i = 0 /\ i' = i /\ links' = links /\ n' = n
      /\ visited' = visited
  BY DEF EndShuffle
<1>2. TypeOK'
  BY SMT DEF IInv, TypeOK, EndShuffle
<1>3. \A j \in InUse : Mixed(j) = links[j]
  BY <1>1, SMT DEF Mixed, InUse
<1>4. LinksPermute'
  BY <1>1, <1>3 DEF IInv, MixedPermutes, LinksPermute, InUse
<1>5. MixedPermutes' /\ ChaseInBuffer' /\ Trail'
  BY <1>1 DEF IInv, MixedPermutes, ChaseInBuffer, Trail, InUse
<1> QED BY <1>2, <1>4, <1>5 DEF IInv

LEMMA StartLoadsInv == ASSUME NEW r \in Repeats, IInv, StartLoads(r) PROVE IInv'
<1>1. n \in Nat /\ n > 0 /\ r \in Nat
  BY BufferAssumption, SMT DEF IInv, TypeOK, StartLoads
<1>2. Loads(r) \in Nat /\ Loads(r) > 0
  <2>1. r * n \in Nat /\ r * n > 0 /\ r * 8 * n = 8 * (r * n)
    BY <1>1, BufferAssumption, SMT
  <2> QED BY <2>1, SMT DEF Loads
<1>3. TypeOK'
  BY <1>2, SMT DEF IInv, TypeOK, StartLoads
<1>4. ChaseInBuffer' /\ Trail'
  BY <1>1, <1>2, SMT DEF StartLoads, ChaseInBuffer, Trail, InUse
<1>5. MixedPermutes' /\ LinksPermute'
  BY DEF IInv, StartLoads, MixedPermutes, LinksPermute, InUse
<1> QED BY <1>3, <1>4, <1>5 DEF IInv

LEMMA LoadInv == ASSUME IInv, Load PROVE IInv'
<1>1. /\ pc = "load" /\ pc' \in {"load", "ready"} /\ rax \in InUse
      /\ rax' = links[rax] /\ visited' = visited \cup {rax}
      /\ n' = n /\ links' = links /\ InUse' = InUse
  BY DEF IInv, Load, ChaseInBuffer, InUse
<1>2. links[rax] \in InUse
  BY <1>1 DEF IInv, LinksPermute
<1>3. TypeOK'
  <2>1. InUse \subseteq Words
    BY BufferAssumption, SMT DEF IInv, TypeOK, InUse, Words
  <2>2. visited' \subseteq Words
    BY <1>1, <2>1 DEF IInv, TypeOK
  <2>3. left' \in Nat
    BY SMT DEF IInv, TypeOK, Trail, Load
  <2> QED BY <1>1, <2>2, <2>3 DEF IInv, TypeOK, Load
<1>4. ChaseInBuffer' /\ LinksPermute' /\ MixedPermutes'
  BY <1>1, <1>2 DEF IInv, LinksPermute, ChaseInBuffer, MixedPermutes
<1>5. Trail'
  <2>1. pc' = "load" => left' > 0
    BY SMT DEF IInv, TypeOK, Trail, Load
  <2> QED BY <1>1, <2>1 DEF IInv, Trail
<1> QED BY <1>3, <1>4, <1>5 DEF IInv

(* IInv is inductive.                                                      *)
THEOREM Inductive == Spec => []IInv
<1>1. IInv /\ UNCHANGED vars => IInv'
  BY DEF IInv, vars, TypeOK, MixedPermutes, Mixed, LinksPermute, ChaseInBuffer, Trail, InUse
<1>2. IInv /\ [Next]_vars => IInv'
  BY <1>1, SetSizeInv, ShuffleInv, EndShuffleInv, StartLoadsInv, LoadInv DEF Next
<1> QED BY InitInv, <1>2, PTL DEF Spec

(* latency_stream_init() leaves a permutation of the words in use.         *)
THEOREM LinksArePermutation == Spec => []LinksPermute
BY Inductive, PTL DEF IInv

(* The loop of roofline_latency_stream_load() stays in the words in use.   *)
THEOREM ChaseStaysInBuffer == Spec => []ChaseInBuffer
BY Inductive, PTL DEF IInv

(* The loop stays on the cycle of word 0.                                  *)
THEOREM ChaseIsOneCycle == Spec => []NoShortcut
<1>1. IInv => NoShortcut
  <2> SUFFICES ASSUME IInv, pc = "load", rax \notin visited,
                      links[rax] \in visited \cup {rax}, links[rax] # 0
               PROVE FALSE
    BY DEF NoShortcut
  <2>1. PICK v \in visited : links[v] = links[rax]
    BY DEF IInv, Trail
  <2>2. v \in InUse /\ rax \in InUse
    BY <2>1 DEF IInv, Trail, ChaseInBuffer
  <2> QED BY <2>1, <2>2 DEF IInv, LinksPermute
<1> QED BY Inductive, <1>1, PTL

-----------------------------------------------------------------------------
(* The loop has closed its cycle, or every load so far has been of another *)
(* word, and there are more loads to go than words it has not been at.     *)
Closed == rax \in visited /\ \A v \in visited : links[v] \in visited
Open   == /\ rax \notin visited
          /\ \A v \in visited : links[v] \in visited \cup {rax}
          /\ Cardinality(visited) + left > n
CycleInv == /\ pc = "load" => Open \/ Closed
            /\ pc = "shuffle" => visited = {}
            /\ ClosesCycle

LEMMA WordsInUse ==
    ASSUME IInv
    PROVE  n \in Nat /\ IsFiniteSet(InUse) /\ Cardinality(InUse) = n
<1>1. n \in Nat /\ 0 \in Int /\ n - 1 \in Int
  BY BufferAssumption, SMT DEF IInv, TypeOK
<1>2. /\ IsFiniteSet(0 .. n - 1)
      /\ Cardinality(0 .. n - 1) = IF 0 > n - 1 THEN 0 ELSE (n - 1) - 0 + 1
  BY <1>1, FS_Interval
<1> QED BY <1>1, <1>2, SMT DEF InUse

LEMMA StartLoadsCloses == ASSUME NEW r \in Repeats, IInv, StartLoads(r) PROVE CycleInv'
<1>1. n \in Nat /\ n > 0 /\ r \in Nat \ {0}
  BY BufferAssumption, SMT DEF IInv, TypeOK, StartLoads
<1>2. Loads(r) \in Nat /\ Loads(r) > n
  <2>1. r * n \in Nat /\ r * n >= n /\ r * 8 * n = 8 * (r * n)
    BY <1>1, SMT
  <2> QED BY <1>1, <2>1, SMT DEF Loads
<1>3. visited' = {} /\ left' = Loads(r) /\ n' = n /\ pc' = "load" /\ Cardinality({}) = 0
  BY FS_EmptySet DEF StartLoads
<1>4. Open'
  BY <1>1, <1>2, <1>3, SMT DEF Open
<1> QED BY <1>3, <1>4 DEF CycleInv, ClosesCycle

LEMMA LoadCloses == ASSUME IInv, CycleInv, Load PROVE CycleInv'
<1>1. /\ pc = "load" /\ rax' = links[rax] /\ visited' = visited \cup {rax}
      /\ left' = left - 1 /\ n' = n /\ links' = links
      /\ pc' = (IF left = 1 THEN "ready" ELSE "load") /\ left \in Nat
  BY DEF Load, IInv, TypeOK
<1>2. CASE Closed
  <2>1. visited' = visited
    BY <1>1, <1>2 DEF Closed
  <2>2. Closed'
    BY <1>1, <1>2, <2>1 DEF Closed
  <2> QED BY <1>1, <2>2 DEF CycleInv, ClosesCycle, Closed
<1>3. CASE Open
  <2>1. /\ visited \subseteq InUse /\ rax \in InUse
    BY <1>1 DEF IInv, Trail, ChaseInBuffer
  <2>2. IsFiniteSet(visited) /\ Cardinality(visited) \in Nat
    BY <2>1, WordsInUse, FS_Subset, FS_CardinalityType
  <2>3. Cardinality(visited') = Cardinality(visited) + 1
    BY <1>1, <1>3, <2>2, FS_AddElement DEF Open
  <2>4. Cardinality(visited') <= n /\ n \in Nat
    BY <1>1, <2>1, WordsInUse, FS_Subset
  <2>5. left # 1
    BY <1>1, <1>3, <2>2, <2>3, <2>4, SMT DEF Open
  <2>6. pc' = "load"
    BY <1>1, <2>5
  <2>7. CASE rax' \in visited'
    BY <1>1, <1>3, <2>6, <2>7 DEF Open, Closed, CycleInv, ClosesCycle
  <2>8. CASE rax' \notin visited'
    <3>1. Cardinality(visited') + left' > n'
      BY <1>1, <1>3, <2>2, <2>3, <2>4, SMT DEF Open
    <3> QED BY <1>1, <1>3, <2>6, <2>8, <3>1 DEF Open, CycleInv, ClosesCycle
  <2> QED BY <2>7, <2>8
<1> QED BY <1>1, <1>2, <1>3 DEF CycleInv

(* However often the loop is repeated, it has gone through the whole cycle *)
(* of word 0 when it ends.                                                 *)
THEOREM ChaseClosesCycle == Spec => []ClosesCycle
<1>1. Init => CycleInv
  BY DEF Init, CycleInv, ClosesCycle
<1>2. IInv /\ CycleInv /\ [Next]_vars => CycleInv'
  <2> SUFFICES ASSUME IInv, CycleInv, [Next]_vars PROVE CycleInv'
    OBVIOUS
  <2>1. CASE UNCHANGED vars
    BY <2>1 DEF vars, CycleInv, ClosesCycle, Open, Closed
  <2>2. CASE \E s \in Sizes : SetSize(s)
    BY <2>2 DEF SetSize, CycleInv, ClosesCycle
  <2>3. CASE Shuffle \/ EndShuffle
    BY <2>3 DEF Shuffle, EndShuffle, CycleInv, ClosesCycle
  <2> QED BY <2>1, <2>2, <2>3, StartLoadsCloses, LoadCloses DEF Next
<1>3. CycleInv => ClosesCycle
  BY DEF CycleInv
<1> QED BY <1>1, <1>2, <1>3, Inductive, PTL DEF Spec
=============================================================================
