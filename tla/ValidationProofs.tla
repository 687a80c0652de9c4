--------------------------- MODULE ValidationProofs ---------------------------
(***************************************************************************)
(* For every request and every width of the registers the generator ends   *)
(* with whole patterns, and the program has the intensity asked for. The   *)
(* name of a library determines the program in it: the greatest common     *)
(* divisor of its numbers and the first block to stop at are unique.       *)
(*                                                                         *)
(* The sizes it is run with are multiples of what one of its passes        *)
(* consumes, because they are multiples of the chunk, and the chunk is a   *)
(* multiple of the bytes of the blocks. That rests on roofline_PGCD: the   *)
(* recursive function has a value, since the greatest common divisor       *)
(* solves its equation, and the value divides both numbers, since a        *)
(* smallest pair for which it did not would have a smaller one.            *)
(***************************************************************************)
EXTENDS Validation, SetLemmas

(* A d that divides a.                                                     *)
Divides(d, a) == \E q \in Nat : a = d * q

Writing == {"write", "written", "load"}

(* There is a pair of types at hand, and the request can be met.           *)
PairOK ==
    pc \in Writing \cup {"pgcd", "bench"} =>
        /\ i \in 1 .. Len(MemTypes) /\ j \in 1 .. Len(FlopTypes)
        /\ request.flops > 0 /\ request.bytes > 0

(* The numbers of instructions are in the proportion asked for, and what   *)
(* divides the two variables of roofline_PGCD divides both of them.        *)
InProportion == mem_ins * (request.flops * SimdBytes) = flop_ins * (SimdFlops * Fused * request.bytes)
RatioOK ==
    /\ pc \in Writing \cup {"pgcd"} => InProportion
    /\ pc = "pgcd" => \A d \in Nat \ {0} :
          Divides(d, max) /\ Divides(d, min) => Divides(d, mem_ins) /\ Divides(d, flop_ins)

(* What b blocks have written; the registers went round q times.           *)
After(b, q) ==
    /\ muops = b * mem_ins /\ fuops = b * flop_ins
    /\ b * mem_ins + b * flop_ins = 32 * q + regnum
    /\ pc = "write" => b < 96
    /\ pc # "write" => b > 0
BlocksOK == pc \in Writing => \E b, q \in Nat : After(b, q)

PatternOK ==
    /\ pc \in {"written", "load"} /\ Mem = "2LD1ST" => muops % 3 = 0
    /\ pc \in Writing /\ Mem = "2LD1ST" => stores = (muops + 2) \div 3

(* Every library has the intensity it is named after.                      *)
Meets(code, bytes, flops) == code.offset > 0 /\ code.flops * bytes = code.offset * flops
LoadedOK == \A lib \in loaded : Meets(lib.code, lib.name[2], lib.name[4])

IInv == TypeOK /\ PairOK /\ RatioOK /\ BlocksOK /\ PatternOK /\ LoadedOK /\ IntensityExact

-----------------------------------------------------------------------------
(* Division with rest.                                                     *)
LEMMA DivisionRest ==
    ASSUME NEW a \in Nat, NEW b \in Nat \ {0}
    PROVE  a \div b \in Nat /\ a % b \in Nat /\ a = b * (a \div b) + (a % b)
BY SMT

LEMMA Distribute ==
    ASSUME NEW d \in Nat, NEW x \in Nat, NEW y \in Nat, NEW z \in Nat
    PROVE  d * (x * y + z) = (d * x) * y + d * z
BY SMT

(* What divides both the divisor and the rest divides the dividend.        *)
LEMMA DividesRest ==
    ASSUME NEW a \in Nat, NEW b \in Nat \ {0}, NEW d \in Nat \ {0},
           Divides(d, b), Divides(d, a % b)
    PROVE  Divides(d, a)
<1>1. PICK p \in Nat : b = d * p BY DEF Divides
<1>2. PICK q \in Nat : a % b = d * q BY DEF Divides
<1>3. PICK c \in Nat : a = b * c + (a % b) BY DivisionRest
<1>4. p * c + q \in Nat BY SMT
<1>5. d * (p * c + q) = b * c + (a % b) BY <1>1, <1>2, Distribute
<1> QED BY <1>3, <1>4, <1>5 DEF Divides

(* Dividing by a divisor.                                                  *)
LEMMA DivideExactly ==
    ASSUME NEW a \in Nat \ {0}, NEW d \in Nat \ {0}, Divides(d, a)
    PROVE  a \div d \in Nat \ {0} /\ a = d * (a \div d)
<1>1. PICK q \in Nat : a = d * q BY DEF Divides
<1>2. a \div d = q
  BY <1>1, SMT
<1> QED BY <1>1, <1>2, SMT

(* No rest means a divisor.                                                *)
LEMMA RestZero ==
    ASSUME NEW a \in Nat, NEW b \in Nat \ {0}, a % b = 0
    PROVE  Divides(b, a)
<1>1. a \div b \in Nat /\ a = b * (a \div b)
  BY SMT
<1> QED BY <1>1 DEF Divides

LEMMA Cancel ==
    ASSUME NEW g \in Nat \ {0}, NEW a \in Int, NEW b \in Int, g * a = g * b PROVE a = b
BY SMT

LEMMA Products ==
    ASSUME NEW a \in Nat, NEW b \in Nat, NEW c \in Nat
    PROVE  /\ a * b \in Nat /\ (a * b) * c = a * (b * c) /\ a * b = b * a
           /\ (a > 0 /\ b > 0 => a * b > 0)
BY SMT

LEMMA OneMore ==
    ASSUME NEW b \in Nat, NEW m \in Nat PROVE (b + 1) * m = b * m + m
BY SMT

LEMMA Positive ==
    ASSUME NEW a \in Nat \ {0}, NEW b \in Nat, NEW c \in Nat, a = b * c PROVE c # 0
BY SMT

(* The proportion of Count, the bytes of a register being s times u.       *)
LEMMA Proportion ==
    ASSUME NEW s \in Nat, NEW u \in Nat, NEW x \in Nat, NEW y \in Nat, NEW z \in Nat
    PROVE  (u * y) * (x * (s * z)) = (x * z) * (s * u * y)
BY SMT

(* What the assumptions say of the constants.                              *)
LEMMA Constants ==
    /\ SimdBytes \in Nat \ {0} /\ SimdFlops \in Nat \ {0} /\ Fused \in {1, 2}
    /\ \A r \in Requests : r.flops \in Nat /\ r.bytes \in Nat
    /\ Len(MemTypes) \in Nat /\ Len(FlopTypes) \in Nat /\ MaxCalls \in Nat
    /\ \E n \in Nat \ {0} : SimdBytes = SimdFlops * n
<1>1. SimdBytes \div SimdFlops \in Nat /\ SimdBytes = SimdFlops * (SimdBytes \div SimdFlops)
  BY SimdAssumption, DivisionRest, SMT
<1>2. SimdBytes \div SimdFlops # 0
  BY <1>1, SimdAssumption, Positive
<1>3. Len(MemTypes) \in Nat /\ Len(FlopTypes) \in Nat
  BY RequestAssumption, SMT
<1>4. SimdBytes \in Nat \ {0} /\ SimdFlops \in Nat \ {0}
  BY SimdAssumption
<1>5. \E n \in Nat \ {0} : SimdBytes = SimdFlops * n
  BY <1>1, <1>2
<1> QED BY <1>3, <1>4, <1>5, RequestAssumption DEF Fused

-----------------------------------------------------------------------------
LEMMA InitInv == Init => IInv
<1> SUFFICES ASSUME Init PROVE IInv OBVIOUS
<1>1. TypeOK
  BY Constants, SMT DEF Init, TypeOK, NoCode
<1> QED
  BY <1>1 DEF Init, IInv, PairOK, RatioOK, BlocksOK, PatternOK, LoadedOK, IntensityExact, Writing

(* The steps between the pairs of types.                                   *)
LEMMA CallInv == ASSUME IInv, NEW r \in Requests, Call(r) PROVE IInv'
<1>1. TypeOK'
  <2>1. calls' \in 0 .. MaxCalls
    BY Constants, SMT DEF IInv, TypeOK, Call
  <2>2. i' \in 1 .. Len(MemTypes) + 1 /\ j' \in 1 .. Len(FlopTypes) + 1
    BY Constants, SMT DEF Call
  <2> QED BY <2>1, <2>2 DEF IInv, TypeOK, Call, writer
<1> QED
  BY <1>1 DEF Call, IInv, PairOK, RatioOK, BlocksOK, PatternOK, LoadedOK, IntensityExact, Writing

LEMMA BetweenInv ==
    ASSUME IInv, NextMem \/ EndCall \/ Refuse \/ LoadFails \/ Measure PROVE IInv'
<1>1. /\ pc' \in {"idle", "types"} /\ UNCHANGED <<calls, request, writer, oi_chunk_size, loaded, benchmark>>
      /\ i' \in 1 .. Len(MemTypes) + 1 /\ j' \in 1 .. Len(FlopTypes) + 1
  <2>1. CASE NextMem BY <2>1, Constants, SMT DEF NextMem, IInv, TypeOK
  <2>2. CASE EndCall BY <2>2 DEF EndCall, IInv, TypeOK
  <2>3. CASE Refuse BY <2>3, Constants, SMT DEF Refuse, AtPair, IInv, TypeOK
  <2>4. CASE LoadFails BY <2>4, Constants, SMT DEF LoadFails, IInv, TypeOK, PairOK, Writing
  <2>5. CASE Measure BY <2>5, Constants, SMT DEF Measure, IInv, TypeOK, PairOK, Writing
  <2> QED BY <2>1, <2>2, <2>3, <2>4, <2>5
<1>2. TypeOK'
  BY <1>1 DEF IInv, TypeOK, writer
<1> QED
  BY <1>1, <1>2 DEF IInv, PairOK, RatioOK, BlocksOK, PatternOK, LoadedOK, IntensityExact, Writing

(* The numbers of instructions are in proportion because the flops of a    *)
(* register divide its bytes.                                              *)
LEMMA CountInv == ASSUME IInv, Count PROVE IInv'
<1> DEFINE m == Fused * request.bytes
           f == (request.flops * SimdBytes) \div SimdFlops
<1>1. /\ request.flops \in Nat \ {0} /\ request.bytes \in Nat \ {0}
      /\ i \in 1 .. Len(MemTypes) /\ j \in 1 .. Len(FlopTypes)
  <2>1. request \in Requests BY DEF IInv, TypeOK
  <2>2. request.flops \in Nat /\ request.bytes \in Nat BY <2>1, Constants
  <2>3. i \in 1 .. Len(MemTypes) + 1 /\ j \in 1 .. Len(FlopTypes) + 1 BY DEF IInv, TypeOK
  <2>4. AtPair /\ request.flops > 0 /\ request.bytes > 0 BY DEF Count
  <2>5. i \in 1 .. Len(MemTypes) /\ j \in 1 .. Len(FlopTypes)
    BY <2>3, <2>4, Constants, SMT DEF AtPair
  <2> QED BY <2>2, <2>4, <2>5, SMT
<1>2. PICK n \in Nat \ {0} : SimdBytes = SimdFlops * n
  BY Constants
<1>3. f = request.flops * n /\ f \in Nat \ {0}
  <2>1. request.flops * n \in Nat \ {0} BY <1>1, SMT
  <2>2. request.flops * SimdBytes = SimdFlops * (request.flops * n)
    BY <1>1, <1>2, Constants, SMT
  <2>3. \A x \in Nat : (SimdFlops * x) \div SimdFlops = x
    BY Constants, SMT
  <2> QED BY <2>1, <2>2, <2>3
<1>4. m \in Nat \ {0}
  BY <1>1, Constants, SMT
<1>5. m * (request.flops * SimdBytes) = f * (SimdFlops * Fused * request.bytes)
  <2>1. (Fused * request.bytes) * (request.flops * (SimdFlops * n))
        = (request.flops * n) * (SimdFlops * Fused * request.bytes)
    <3>1. Fused \in Nat /\ SimdFlops \in Nat /\ request.flops \in Nat /\ request.bytes \in Nat
      BY <1>1, Constants
    <3> QED BY <3>1, <1>2, Proportion
  <2> QED BY <2>1, <1>2, <1>3
<1> HIDE DEF m, f
<1>6. /\ mem_ins' = m /\ flop_ins' = f /\ pc' = "pgcd"
      /\ max' = (IF f > m THEN f ELSE m) /\ min' = (IF f < m THEN f ELSE m)
      /\ UNCHANGED <<calls, request, i, j, muops, fuops, stores, regnum, oi_chunk_size, loaded, benchmark>>
  BY DEF Count, m, f
<1>7. max' \in Nat \ {0} /\ min' \in Nat \ {0}
  BY <1>3, <1>4, <1>6
<1>8. TypeOK'
  BY <1>3, <1>4, <1>6, <1>7 DEF IInv, TypeOK
<1>9. PairOK'
  BY <1>1, <1>6, SMT DEF PairOK
<1>10. RatioOK'
  <2>1. InProportion'
    BY <1>5, <1>6 DEF InProportion, Fused, Flop
  <2>2. \A d : Divides(d, max') /\ Divides(d, min') => Divides(d, m) /\ Divides(d, f)
    <3>1. CASE f > m BY <3>1, <1>6, <1>3, <1>4
    <3>2. CASE ~(f > m)
      <4>1. max' = m BY <3>2, <1>6
      <4>2. CASE f < m BY <4>1, <4>2, <1>6
      <4>3. CASE ~(f < m)
        <5>1. f = m BY <3>2, <4>3, <1>3, <1>4, SMT
        <5> QED BY <4>1, <4>3, <5>1, <1>6
      <4> QED BY <4>2, <4>3
    <3> QED BY <3>1, <3>2
  <2>3. mem_ins' = m /\ flop_ins' = f BY <1>6
  <2> QED BY <2>1, <2>2, <2>3 DEF RatioOK, Divides
<1>11. BlocksOK' /\ PatternOK' /\ LoadedOK' /\ IntensityExact'
  BY <1>6 DEF IInv, BlocksOK, PatternOK, LoadedOK, IntensityExact, Writing
<1> QED BY <1>8, <1>9, <1>10, <1>11 DEF IInv

(* A common divisor of the new variables of roofline_PGCD is one of the    *)
(* old ones.                                                               *)
LEMMA ReduceInv == ASSUME IInv, Reduce PROVE IInv'
<1>1. /\ pc = "pgcd" /\ max' = min /\ min' = max % min /\ max % min # 0
      /\ UNCHANGED <<calls, request, i, j, mem_ins, flop_ins, muops, fuops, stores, regnum,
                     oi_chunk_size, loaded, benchmark, pc>>
      /\ max \in Nat \ {0} /\ min \in Nat \ {0}
  BY DEF Reduce, IInv, TypeOK
<1>2. min' \in Nat \ {0}
  BY <1>1, DivisionRest
<1>3. TypeOK'
  BY <1>1, <1>2 DEF IInv, TypeOK
<1>4. \A d \in Nat \ {0} : Divides(d, min) /\ Divides(d, max % min)
                         => Divides(d, mem_ins) /\ Divides(d, flop_ins)
  BY <1>1, DividesRest DEF IInv, RatioOK
<1>5. RatioOK'
  BY <1>1, <1>4 DEF IInv, RatioOK, InProportion, Divides, Fused, Flop
<1>6. PairOK' /\ BlocksOK' /\ PatternOK' /\ LoadedOK' /\ IntensityExact'
  BY <1>1 DEF IInv, PairOK, BlocksOK, PatternOK, LoadedOK, IntensityExact, Writing
<1> QED BY <1>3, <1>5, <1>6 DEF IInv

(* At its end roofline_PGCD has a divisor of both numbers: the proportion  *)
(* is kept.                                                                *)
LEMMA DivideInv == ASSUME IInv, Divide PROVE IInv'
<1>1. /\ pc = "pgcd" /\ pc' = "write" /\ max % min = 0
      /\ mem_ins' = mem_ins \div min /\ flop_ins' = flop_ins \div min
      /\ muops' = 0 /\ fuops' = 0 /\ stores' = 0 /\ regnum' = 0
      /\ UNCHANGED <<calls, request, i, j, max, min, oi_chunk_size, loaded, benchmark>>
      /\ max \in Nat \ {0} /\ min \in Nat \ {0} /\ mem_ins \in Nat \ {0} /\ flop_ins \in Nat \ {0}
  BY DEF Divide, IInv, TypeOK
<1>2. Divides(min, mem_ins) /\ Divides(min, flop_ins)
  <2>1. Divides(min, max) BY <1>1, RestZero
  <2>2. Divides(min, min)
    <3>1. min = min * 1 /\ 1 \in Nat BY <1>1, SMT
    <3> QED BY <3>1 DEF Divides
  <2> QED BY <1>1, <2>1, <2>2 DEF IInv, RatioOK
<1>3. /\ mem_ins' \in Nat \ {0} /\ mem_ins = min * mem_ins'
      /\ flop_ins' \in Nat \ {0} /\ flop_ins = min * flop_ins'
  BY <1>1, <1>2, DivideExactly
<1>4. TypeOK'
  BY <1>1, <1>3, SMT DEF IInv, TypeOK
<1>5. InProportion'
  <2> DEFINE X == request.flops * SimdBytes
             Y == SimdFlops * Fused * request.bytes
  <2>1. X \in Nat /\ Y \in Nat
    <3>1. request.flops \in Nat /\ request.bytes \in Nat /\ Fused \in Nat
      BY Constants DEF IInv, TypeOK
    <3>2. SimdFlops * Fused \in Nat BY <3>1, Constants, Products
    <3> QED BY <3>1, <3>2, Constants, Products
  <2>2. mem_ins * X = flop_ins * Y
    BY <1>1 DEF IInv, RatioOK, InProportion
  <2>3. X' = X /\ Y' = Y
    BY <1>1 DEF Fused, Flop
  <2>4. InProportion' <=> mem_ins' * X' = flop_ins' * Y'
    BY DEF InProportion
  <2> HIDE DEF X, Y
  <2>5. min * (mem_ins' * X) = min * (flop_ins' * Y)
    BY <1>1, <1>3, <2>1, <2>2, Products
  <2>6. mem_ins' * X \in Int /\ flop_ins' * Y \in Int
    BY <1>3, <2>1, SMT
  <2> QED BY <1>1, <2>3, <2>4, <2>5, <2>6, Cancel
<1>6. BlocksOK'
  <2>1. After(0, 0)'
    BY <1>1, <1>3, SMT DEF After
  <2> QED BY <2>1 DEF BlocksOK
<1>7. PairOK' /\ RatioOK' /\ PatternOK' /\ LoadedOK' /\ IntensityExact'
  <2>1. stores' = (muops' + 2) \div 3
    BY <1>1, SMT
  <2> QED BY <1>1, <1>5, <2>1 DEF IInv, PairOK, RatioOK, PatternOK, LoadedOK, IntensityExact, Writing
<1> QED BY <1>4, <1>6, <1>7 DEF IInv

-----------------------------------------------------------------------------
(* The registers go round.                                                 *)
LEMMA Carry ==
    ASSUME NEW q \in Nat, NEW r \in Nat, NEW a \in Nat, NEW d \in Nat, NEW e \in Nat,
           r + a = 32 * d + e
    PROVE  (32 * q + r) + a = 32 * (q + d) + e
BY SMT

LEMMA GoRound ==
    ASSUME NEW q \in Nat, NEW r \in Nat, NEW a \in Nat
    PROVE  \E p \in Nat : (32 * q + r) + a = 32 * p + ((r + a) % 32)
<1>1. PICK y \in Nat : y = r + a
  BY SMT
<1>2. PICK d \in Nat, e \in Nat : e = y % 32 /\ y = 32 * d + e
  BY DivisionRest
<1>3. PICK p \in Nat : p = q + d
  BY SMT
<1>4. (32 * q + r) + a = 32 * (q + d) + e
  BY <1>1, <1>2, Carry
<1>5. (32 * q + r) + a = 32 * p + e
  BY <1>3, <1>4
<1>6. e = (r + a) % 32
  BY <1>1, <1>2
<1>7. (32 * q + r) + a = 32 * p + ((r + a) % 32)
  BY <1>5, <1>6
<1> QED BY <1>7

LEMMA SumOfSums ==
    ASSUME NEW a \in Nat, NEW b \in Nat, NEW c \in Nat, NEW d \in Nat
    PROVE  (a + c) + (b + d) = (a + b) + (c + d)
BY SMT

(* After 96 blocks of n instructions, m of them on memory, the registers   *)
(* and the pattern of 2LD1ST start over.                                   *)
LEMMA StartOver ==
    ASSUME NEW m \in Nat, NEW f \in Nat, NEW q \in Nat, NEW r \in 0 .. 31,
           96 * m + 96 * f = 32 * q + r
    PROVE  r = 0 /\ (96 * m) % 3 = 0
BY SMT

LEMMA WriteBlockInv == ASSUME IInv, WriteBlock PROVE IInv'
<1> DEFINE mu  == muops + mem_ins
           fu  == fuops + flop_ins
           reg == (regnum + mem_ins + flop_ins) % 32
<1>1. /\ pc = "write" /\ muops' = mu /\ fuops' = fu /\ regnum' = reg
      /\ stores' = IF Mem = "2LD1ST" THEN (mu + 2) \div 3 ELSE 0
      /\ pc' = IF Stop(mu, fu, reg) THEN "written" ELSE "write"
      /\ UNCHANGED <<calls, request, i, j, mem_ins, flop_ins, max, min, oi_chunk_size, loaded, benchmark>>
  BY DEF WriteBlock
<1>2. /\ muops \in Nat /\ fuops \in Nat /\ regnum \in 0 .. 31
      /\ mem_ins \in Nat /\ flop_ins \in Nat
  BY DEF IInv, TypeOK
<1>3. mu \in Nat /\ fu \in Nat /\ reg \in 0 .. 31 /\ (mu + 2) \div 3 \in Nat
  BY <1>2, SMT
<1>4. Mem' = Mem
  BY <1>1 DEF Mem
<1> HIDE DEF mu, fu, reg
<1>5. pc' \in {"write", "written"}
  BY <1>1
<1>6. TypeOK'
  <2>1. stores' \in Nat BY <1>1, <1>3
  <2> QED BY <1>1, <1>3, <1>5, <2>1 DEF IInv, TypeOK
<1>7. BlocksOK'
  <2>1. PICK b \in Nat, q \in Nat : After(b, q)
    BY <1>1 DEF IInv, BlocksOK, Writing
  <2>2. /\ muops = b * mem_ins /\ fuops = b * flop_ins
        /\ b * mem_ins + b * flop_ins = 32 * q + regnum /\ b < 96
    BY <1>1, <2>1 DEF After
  <2>3. PICK c \in Nat : c = b + 1 /\ c > 0
    BY SMT
  <2>4. c * mem_ins = b * mem_ins + mem_ins /\ c * flop_ins = b * flop_ins + flop_ins
    BY <1>2, <2>3, OneMore
  <2>5. mu = c * mem_ins /\ fu = c * flop_ins
    BY <2>2, <2>4 DEF mu, fu
  <2>6. PICK p \in Nat : c * mem_ins + c * flop_ins = 32 * p + reg
    <3>2. mem_ins + flop_ins \in Nat /\ regnum \in Nat BY <1>2, SMT
    <3>3. PICK p \in Nat : (32 * q + regnum) + (mem_ins + flop_ins)
                           = 32 * p + ((regnum + (mem_ins + flop_ins)) % 32)
      BY <3>2, GoRound
    <3>4. reg = (regnum + (mem_ins + flop_ins)) % 32
      BY <1>2, SMT DEF reg
    <3>5. b * mem_ins \in Nat /\ b * flop_ins \in Nat BY <1>2, Products
    <3>6. (b * mem_ins + mem_ins) + (b * flop_ins + flop_ins)
          = (b * mem_ins + b * flop_ins) + (mem_ins + flop_ins)
      BY <3>5, <1>2, SumOfSums
    <3>7. c * mem_ins + c * flop_ins = (32 * q + regnum) + (mem_ins + flop_ins)
      BY <2>2, <2>4, <3>6
    <3> QED BY <3>3, <3>4, <3>7
  <2>7. ASSUME c = 96 PROVE Stop(mu, fu, reg)
    <3>1. 96 * mem_ins + 96 * flop_ins = 32 * p + reg BY <2>6, <2>7
    <3>2. reg = 0 /\ (96 * mem_ins) % 3 = 0 BY <3>1, <1>2, <1>3, StartOver
    <3>3. mu = 96 * mem_ins BY <2>5, <2>7
    <3> QED BY <3>2, <3>3 DEF Stop
  <2>8. pc' = "write" => c < 96
    <3>1. c <= 96 BY <2>2, <2>3, SMT
    <3>2. pc' = "write" => c # 96 BY <1>1, <2>7
    <3> QED BY <3>1, <3>2, SMT
  <2>9. /\ muops' = c * mem_ins' /\ fuops' = c * flop_ins'
        /\ c * mem_ins' + c * flop_ins' = 32 * p + regnum'
    BY <1>1, <2>5, <2>6
  <2> QED BY <2>3, <2>8, <2>9 DEF BlocksOK, After
<1>8. PatternOK'
  <2>1. Mem = "2LD1ST" => stores' = (muops' + 2) \div 3 BY <1>1
  <2>2. pc' = "written" /\ Mem = "2LD1ST" => muops' % 3 = 0 BY <1>1 DEF Stop
  <2> QED BY <1>4, <1>5, <2>1, <2>2 DEF PatternOK
<1>9. PairOK' /\ RatioOK' /\ LoadedOK' /\ IntensityExact'
  BY <1>1, <1>5 DEF IInv, PairOK, RatioOK, InProportion, Fused, Flop, LoadedOK, IntensityExact, Writing
<1> QED BY <1>6, <1>7, <1>8, <1>9 DEF IInv

-----------------------------------------------------------------------------
(* The program has the intensity asked for, once a block is written.       *)
LEMMA CrossMultiply ==
    ASSUME NEW b \in Nat, NEW m \in Nat, NEW f \in Nat, NEW x \in Nat, NEW y \in Nat,
           m * x = f * y
    PROVE  (b * m) * x = (b * f) * y
<1>1. b * (m * x) = b * (f * y) OBVIOUS
<1> QED BY <1>1, Products

LEMMA Rearrange ==
    ASSUME NEW u \in Nat, NEW v \in Nat, NEW s \in Nat, NEW t \in Nat,
           NEW e \in Nat, NEW x \in Nat, NEW y \in Nat,
           u * (x * s) = v * (t * e * y)
    PROVE  (v * t * e) * y = (u * s) * x
<1>1. u * (x * s) = (u * s) * x BY SMT
<1>2. v * (t * e * y) = (v * t * e) * y BY SMT
<1> QED BY <1>1, <1>2

LEMMA CodeMeets ==
    ASSUME IInv, pc \in {"written", "load"}
    PROVE  Code \in [offset : Nat, flops : Nat] /\ Meets(Code, request.bytes, request.flops)
<1>1. PICK b \in Nat, q \in Nat : After(b, q)
  BY DEF IInv, BlocksOK, Writing
<1>2. muops = b * mem_ins /\ fuops = b * flop_ins /\ b > 0
  BY <1>1 DEF After
<1>3. /\ mem_ins \in Nat \ {0} /\ flop_ins \in Nat \ {0}
      /\ muops \in Nat /\ fuops \in Nat
      /\ request.flops \in Nat /\ request.bytes \in Nat
      /\ SimdBytes \in Nat \ {0} /\ SimdFlops \in Nat /\ Fused \in Nat
  BY Constants DEF IInv, TypeOK
<1>4. mem_ins * (request.flops * SimdBytes) = flop_ins * (SimdFlops * Fused * request.bytes)
  BY DEF IInv, RatioOK, InProportion, Writing
<1>5. /\ request.flops * SimdBytes \in Nat
      /\ SimdFlops * Fused \in Nat /\ SimdFlops * Fused * request.bytes \in Nat
  BY <1>3, Products
<1>6. muops * (request.flops * SimdBytes) = fuops * (SimdFlops * Fused * request.bytes)
  <2>1. PICK x \in Nat, y \in Nat :
            x = request.flops * SimdBytes /\ y = SimdFlops * Fused * request.bytes
    BY <1>5
  <2>2. mem_ins * x = flop_ins * y BY <1>4, <2>1
  <2>3. (b * mem_ins) * x = (b * flop_ins) * y
    BY <1>3, <2>2, CrossMultiply
  <2> QED BY <1>2, <2>1, <2>3
<1>7. (fuops * SimdFlops * Fused) * request.bytes = (muops * SimdBytes) * request.flops
  BY <1>3, <1>6, Rearrange
<1>8. muops * SimdBytes \in Nat /\ fuops * SimdFlops \in Nat /\ fuops * SimdFlops * Fused \in Nat
  BY <1>3, Products
<1>9. muops * SimdBytes > 0
  <2>1. mem_ins > 0 /\ SimdBytes > 0 BY <1>3, SMT
  <2>2. b * mem_ins > 0 BY <1>2, <1>3, <2>1, Products
  <2> QED BY <1>2, <1>3, <2>1, <2>2, Products
<1> QED BY <1>7, <1>8, <1>9 DEF Code, Meets

LEMMA SetChunkInv == ASSUME IInv, SetChunk PROVE IInv'
<1>1. /\ pc = "written" /\ pc' = "load" /\ oi_chunk_size' = Code.offset
      /\ UNCHANGED <<calls, request, i, j, mem_ins, flop_ins, max, min, muops, fuops, stores,
                     regnum, loaded, benchmark>>
  BY DEF SetChunk, writer
<1>2. oi_chunk_size' \in Nat \ {0}
  <2>1. Code.offset \in Nat /\ Code.offset > 0
    BY <1>1, CodeMeets DEF Meets
  <2> QED BY <1>1, <2>1, SMT
<1>3. TypeOK'
  BY <1>1, <1>2 DEF IInv, TypeOK
<1>4. BlocksOK'
  BY <1>1 DEF IInv, BlocksOK, After, Writing
<1>5. PairOK' /\ RatioOK' /\ PatternOK' /\ LoadedOK' /\ IntensityExact'
  BY <1>1 DEF IInv, PairOK, RatioOK, InProportion, Fused, Flop, PatternOK, Mem,
              LoadedOK, IntensityExact, Writing
<1> QED BY <1>3, <1>4, <1>5 DEF IInv

(* What a library is named after is what it executes.                      *)
LEMMA LoadInv == ASSUME IInv, LoadAgain \/ LoadNew PROVE IInv'
<1> DEFINE new == [name |-> Name, code |-> Code]
<1>1. /\ pc = "load" /\ pc' = "bench"
      /\ UNCHANGED <<calls, request, i, j, writer, oi_chunk_size>>
      /\ \/ \E lib \in loaded : lib.name = Name /\ benchmark' = lib.code /\ loaded' = loaded
         \/ benchmark' = Code /\ loaded' = loaded \cup {new}
  BY DEF LoadAgain, LoadNew
<1>2. new.name = Name /\ new.code = Code /\ Name[2] = request.bytes /\ Name[4] = request.flops
  BY DEF Name
<1> HIDE DEF new
<1>3. Code \in [offset : Nat, flops : Nat] /\ Meets(Code, request.bytes, request.flops)
  BY <1>1, CodeMeets
<1>4. \A lib \in loaded' : /\ lib.code \in [offset : Nat, flops : Nat]
                           /\ Meets(lib.code, lib.name[2], lib.name[4])
  BY <1>1, <1>2, <1>3 DEF IInv, TypeOK, LoadedOK
<1>5. /\ benchmark' \in [offset : Nat, flops : Nat]
      /\ Meets(benchmark', request.bytes, request.flops)
  BY <1>1, <1>2, <1>3 DEF IInv, TypeOK, LoadedOK
<1>6. TypeOK'
  BY <1>1, <1>4, <1>5 DEF IInv, TypeOK, writer
<1>7. LoadedOK' /\ IntensityExact'
  BY <1>1, <1>4, <1>5 DEF LoadedOK, IntensityExact, Meets
<1>8. PairOK' /\ RatioOK' /\ BlocksOK' /\ PatternOK'
  BY <1>1 DEF IInv, PairOK, RatioOK, BlocksOK, PatternOK, Writing
<1> QED BY <1>6, <1>7, <1>8 DEF IInv

LEMMA StutterInv == ASSUME IInv, UNCHANGED vars PROVE IInv'
BY DEF IInv, TypeOK, PairOK, RatioOK, InProportion, Fused, Flop, BlocksOK, After, PatternOK, Mem,
       LoadedOK, IntensityExact, Writing, vars, writer

LEMMA StepInv == IInv /\ [Next]_vars => IInv'
<1> SUFFICES ASSUME IInv, [Next]_vars PROVE IInv' OBVIOUS
<1>1. CASE \E r \in Requests : Call(r)
  BY <1>1, CallInv
<1>2. CASE NextMem \/ EndCall \/ Refuse \/ LoadFails \/ Measure
  BY <1>2, BetweenInv
<1>3. CASE Count BY <1>3, CountInv
<1>4. CASE Reduce BY <1>4, ReduceInv
<1>5. CASE Divide BY <1>5, DivideInv
<1>6. CASE WriteBlock BY <1>6, WriteBlockInv
<1>7. CASE SetChunk BY <1>7, SetChunkInv
<1>8. CASE LoadAgain \/ LoadNew BY <1>8, LoadInv
<1>9. CASE Done \/ UNCHANGED vars
  BY <1>9, StutterInv DEF Done
<1> QED BY <1>1, <1>2, <1>3, <1>4, <1>5, <1>6, <1>7, <1>8, <1>9 DEF Next

LEMMA Inductive == Spec => []IInv
<1>1. Init => IInv BY InitInv
<1>2. IInv /\ [Next]_vars => IInv' BY StepInv
<1> QED BY <1>1, <1>2, PTL DEF Spec

-----------------------------------------------------------------------------
(* Types: among them, the numbers of instructions and the chunk are never  *)
(* zero, so that nothing is divided by zero.                               *)
THEOREM TypeCorrect == Spec => []TypeOK
<1>1. IInv => TypeOK BY DEF IInv
<1> QED BY <1>1, Inductive, PTL

(* Whatever the request, the registers and the flop type, the program that *)
(* is measured has exactly the intensity asked for; also one that an       *)
(* earlier call has loaded.                                                *)
THEOREM IntensityIsExact == Spec => []IntensityExact
<1>1. IInv => IntensityExact BY DEF IInv
<1> QED BY <1>1, Inductive, PTL

(* Two loads for a store.                                                  *)
THEOREM PatternsWhole == Spec => []WholePatterns
<1>1. ASSUME NEW m \in Nat, m % 3 = 0 PROVE m = 3 * ((m + 2) \div 3)
  BY <1>1, SMT
<1>2. IInv => WholePatterns
  BY <1>1 DEF IInv, TypeOK, PatternOK, WholePatterns, Writing
<1> QED BY <1>2, Inductive, PTL

(* The loop of the generator ends within 96 blocks for every request.      *)
THEOREM GeneratorEnds == Spec => []BlocksBounded
<1>1. ASSUME NEW b \in Nat, NEW m \in Nat \ {0}, b < 96 PROVE b * m < 96 * m
  BY <1>1, SMT
<1>2. IInv => BlocksBounded
  BY <1>1 DEF IInv, TypeOK, BlocksOK, After, BlocksBounded, Writing
<1> QED BY <1>2, Inductive, PTL

-----------------------------------------------------------------------------
(* What is generated for a name: the greatest common divisor of the counts *)
(* determines the block, and the block the number of times it is written.  *)
MemCount(name)  == (IF name[3] = "FMA" THEN 2 ELSE 1) * name[2]
FlopCount(name) == (name[4] * SimdBytes) \div SimdFlops

IsGcd(g, a, b) ==
    /\ Divides(g, a) /\ Divides(g, b)
    /\ \A d \in Nat \ {0} : Divides(d, a) /\ Divides(d, b) => Divides(d, g)
StopsAt(mem, m, f, b) ==
    /\ mem = "2LD1ST" => (b * m) % 3 = 0
    /\ \/ b * m + b * f > 64 /\ (b * m + b * f) % 32 >= NRegs \div 2
       \/ (b * m + b * f) % 32 = 0
FirstStop(mem, m, f, b) ==
    StopsAt(mem, m, f, b) /\ \A c \in Nat \ {0} : c < b => ~StopsAt(mem, m, f, c)
Generates(name, offset) ==
    \E g, b \in Nat \ {0} :
        /\ IsGcd(g, MemCount(name), FlopCount(name))
        /\ FirstStop(name[1], MemCount(name) \div g, FlopCount(name) \div g, b)
        /\ offset = (b * (MemCount(name) \div g)) * SimdBytes

CountsOfName ==
    /\ pc = "pgcd" =>
          /\ mem_ins = MemCount(Name) /\ flop_ins = FlopCount(Name)
          /\ \A d \in Nat \ {0} : Divides(d, mem_ins) /\ Divides(d, flop_ins)
                                  => Divides(d, max) /\ Divides(d, min)
    /\ pc \in Writing =>
          \E g \in Nat \ {0} : /\ IsGcd(g, MemCount(Name), FlopCount(Name))
                               /\ mem_ins = MemCount(Name) \div g
                               /\ flop_ins = FlopCount(Name) \div g
Blocks(b) ==
    /\ muops = b * mem_ins /\ fuops = b * flop_ins
    /\ regnum = (b * mem_ins + b * flop_ins) % 32
    /\ \A c \in Nat \ {0} : c < b \/ (pc = "write" /\ c = b) => ~StopsAt(Mem, mem_ins, flop_ins, c)
    /\ pc # "write" => b > 0 /\ StopsAt(Mem, mem_ins, flop_ins, b)
BlocksOfName == pc \in Writing => \E b \in Nat : Blocks(b)
ChunkOfCode  == pc = "load" => oi_chunk_size = Code.offset
LoadedOfName == \A lib \in loaded : Generates(lib.name, lib.code.offset)
Determined == CountsOfName /\ BlocksOfName /\ ChunkOfCode /\ LoadedOfName /\ ChunkOfBenchmark

LEMMA RestDivides ==
    ASSUME NEW a \in Nat, NEW b \in Nat \ {0}, NEW d \in Nat \ {0}, Divides(d, a), Divides(d, b)
    PROVE  Divides(d, a % b)
<1>1. PICK p \in Nat : a = d * p BY DEF Divides
<1>2. PICK q \in Nat : b = d * q BY DEF Divides
<1>3. PICK c \in Nat, r \in Nat : r = a % b /\ a = b * c + r BY DivisionRest
<1>4. q * c \in Nat /\ (d * q) * c = d * (q * c) BY Products
<1>5. PICK e \in Nat : e = q * c BY <1>4
<1>6. d * p = d * e + r BY <1>1, <1>2, <1>3, <1>4, <1>5
<1>7. p >= e /\ r = d * (p - e) BY <1>6, SMT
<1>8. p - e \in Nat BY <1>7, SMT
<1> QED BY <1>3, <1>7, <1>8 DEF Divides

LEMMA DivideEachOther ==
    ASSUME NEW g \in Nat \ {0}, NEW h \in Nat \ {0}, Divides(g, h), Divides(h, g)
    PROVE  g = h
<1>1. PICK x \in Nat : h = g * x BY DEF Divides
<1>2. PICK y \in Nat : g = h * y BY DEF Divides
<1>3. x # 0 /\ y # 0 BY <1>1, <1>2, Positive
<1>4. h >= g BY <1>1, <1>3, SMT
<1>5. g >= h BY <1>2, <1>3, SMT
<1> QED BY <1>4, <1>5, SMT

(* There is one greatest common divisor, one first block at which to stop, *)
(* and so one offset for each name.                                        *)
LEMMA OneOffset ==
    ASSUME NEW name, NEW x, NEW y, Generates(name, x), Generates(name, y) PROVE x = y
<1> DEFINE M == MemCount(name)
           F == FlopCount(name)
<1>1. PICK g \in Nat \ {0}, b \in Nat \ {0} :
          IsGcd(g, M, F) /\ FirstStop(name[1], M \div g, F \div g, b) /\ x = (b * (M \div g)) * SimdBytes
  BY DEF Generates
<1>2. PICK h \in Nat \ {0}, c \in Nat \ {0} :
          IsGcd(h, M, F) /\ FirstStop(name[1], M \div h, F \div h, c) /\ y = (c * (M \div h)) * SimdBytes
  BY DEF Generates
<1> HIDE DEF M, F
<1>3. g = h
  BY <1>1, <1>2, DivideEachOther DEF IsGcd
<1>4. ~(b < c) /\ ~(c < b)
  BY <1>1, <1>2, <1>3 DEF FirstStop
<1>5. b = c
  BY <1>4, SMT
<1> QED BY <1>1, <1>2, <1>3, <1>5

LEMMA CountDetermined == ASSUME IInv, Determined, Count PROVE Determined'
<1> DEFINE m == Fused * request.bytes
           f == (request.flops * SimdBytes) \div SimdFlops
<1>1. /\ mem_ins' = m /\ flop_ins' = f /\ pc' = "pgcd"
      /\ max' = (IF f > m THEN f ELSE m) /\ min' = (IF f < m THEN f ELSE m)
      /\ UNCHANGED <<request, i, j, oi_chunk_size, loaded, benchmark>>
  BY DEF Count
<1>2. m = MemCount(Name)' /\ f = FlopCount(Name)'
  <2>1. Name'[2] = request.bytes /\ Name'[3] = Flop /\ Name'[4] = request.flops
    BY <1>1 DEF Name, Flop
  <2> QED BY <2>1 DEF MemCount, FlopCount, Fused
<1> HIDE DEF m, f
<1>3. max' \in {m, f} /\ min' \in {m, f}
  BY <1>1
<1>4. \A d \in Nat \ {0} : Divides(d, m) /\ Divides(d, f) => Divides(d, max') /\ Divides(d, min')
  BY <1>3
<1>5. CountsOfName'
  BY <1>1, <1>2, <1>4 DEF CountsOfName, Writing, Divides
<1> QED BY <1>1, <1>5 DEF Determined, BlocksOfName, ChunkOfCode, LoadedOfName, ChunkOfBenchmark, Writing

LEMMA ReduceDetermined == ASSUME IInv, Determined, Reduce PROVE Determined'
<1>1. /\ pc = "pgcd" /\ pc' = pc /\ max' = min /\ min' = max % min
      /\ UNCHANGED <<request, i, j, mem_ins, flop_ins, oi_chunk_size, loaded, benchmark>>
      /\ max \in Nat /\ min \in Nat \ {0}
  BY DEF Reduce, IInv, TypeOK
<1>2. \A d \in Nat \ {0} : Divides(d, max) /\ Divides(d, min) => Divides(d, max % min)
  BY <1>1, RestDivides
<1>3. Name' = Name
  BY <1>1 DEF Name, Mem, Flop
<1>4. CountsOfName'
  BY <1>1, <1>2, <1>3 DEF Determined, CountsOfName, MemCount, FlopCount, Writing, Divides
<1> QED BY <1>1, <1>4 DEF Determined, BlocksOfName, ChunkOfCode, LoadedOfName, ChunkOfBenchmark, Writing

LEMMA DivideDetermined == ASSUME IInv, Determined, Divide PROVE Determined'
<1>1. /\ pc = "pgcd" /\ pc' = "write" /\ max % min = 0
      /\ mem_ins' = mem_ins \div min /\ flop_ins' = flop_ins \div min
      /\ muops' = 0 /\ fuops' = 0 /\ regnum' = 0
      /\ UNCHANGED <<request, i, j, min, oi_chunk_size, loaded, benchmark>>
      /\ max \in Nat \ {0} /\ min \in Nat \ {0}
  BY DEF Divide, IInv, TypeOK
<1>2. Name' = Name
  BY <1>1 DEF Name, Mem, Flop
<1>3. mem_ins = MemCount(Name) /\ flop_ins = FlopCount(Name)
  BY <1>1 DEF Determined, CountsOfName
<1>4. IsGcd(min, MemCount(Name), FlopCount(Name))
  <2>1. Divides(min, max) BY <1>1, RestZero
  <2>2. Divides(min, min)
    <3>1. min = min * 1 /\ 1 \in Nat BY <1>1, SMT
    <3> QED BY <3>1 DEF Divides
  <2>3. Divides(min, mem_ins) /\ Divides(min, flop_ins)
    BY <1>1, <2>1, <2>2 DEF IInv, RatioOK
  <2> QED BY <1>1, <1>3, <2>3 DEF IsGcd, Determined, CountsOfName
<1>5. CountsOfName'
  BY <1>1, <1>2, <1>3, <1>4 DEF CountsOfName
<1>6. Blocks(0)'
  <2>1. mem_ins' \in Nat /\ flop_ins' \in Nat
    BY DivideInv DEF IInv, TypeOK
  <2> QED BY <1>1, <2>1, SMT DEF Blocks
<1> QED BY <1>1, <1>5, <1>6 DEF Determined, BlocksOfName, ChunkOfCode, LoadedOfName, ChunkOfBenchmark

LEMMA NextRegister ==
    ASSUME NEW x \in Nat, NEW a \in Nat PROVE ((x % 32) + a) % 32 = (x + a) % 32
BY SMT

LEMMA WriteBlockDetermined == ASSUME IInv, Determined, WriteBlock PROVE Determined'
<1> DEFINE mu  == muops + mem_ins
           fu  == fuops + flop_ins
           reg == (regnum + mem_ins + flop_ins) % 32
<1>1. /\ pc = "write" /\ muops' = mu /\ fuops' = fu /\ regnum' = reg
      /\ pc' = IF Stop(mu, fu, reg) THEN "written" ELSE "write"
      /\ UNCHANGED <<request, i, j, mem_ins, flop_ins, oi_chunk_size, loaded, benchmark>>
  BY DEF WriteBlock
<1>2. mem_ins \in Nat /\ flop_ins \in Nat
  BY DEF IInv, TypeOK
<1>3. PICK b \in Nat : Blocks(b)
  BY <1>1 DEF Determined, BlocksOfName, Writing
<1>4. PICK c \in Nat \ {0} : c = b + 1
  BY SMT
<1>5. mu = c * mem_ins /\ fu = c * flop_ins
  BY <1>2, <1>3, <1>4, OneMore DEF Blocks
<1>6. reg = (c * mem_ins + c * flop_ins) % 32
  <2>1. PICK x \in Nat, y \in Nat : x = b * mem_ins /\ y = b * flop_ins
    BY <1>2, Products
  <2>2. regnum = (x + y) % 32 /\ mu = x + mem_ins /\ fu = y + flop_ins
    BY <1>3, <2>1 DEF Blocks
  <2>3. (((x + y) % 32) + (mem_ins + flop_ins)) % 32 = ((x + y) + (mem_ins + flop_ins)) % 32
    BY <1>2, NextRegister, SMT
  <2>4. (x + y) + (mem_ins + flop_ins) = mu + fu
    BY <1>2, <2>1, <2>2, SMT
  <2>5. reg = (((x + y) % 32) + (mem_ins + flop_ins)) % 32
    BY <1>2, <2>1, <2>2, SMT
  <2> QED BY <1>5, <2>3, <2>4, <2>5
<1> HIDE DEF mu, fu, reg
<1>7. Mem' = Mem /\ Name' = Name
  BY <1>1 DEF Mem, Name, Flop
<1>8. StopsAt(Mem, mem_ins, flop_ins, c) <=> Stop(mu, fu, reg)
  BY <1>5, <1>6 DEF StopsAt, Stop
<1>9. \A d \in Nat \ {0} : d < c => ~StopsAt(Mem, mem_ins, flop_ins, d)
  <2>1. \A d \in Nat \ {0} : d < c => d < b \/ d = b
    BY <1>4, SMT
  <2> QED BY <1>1, <1>3, <2>1 DEF Blocks
<1>10. Blocks(c)'
  BY <1>1, <1>4, <1>5, <1>6, <1>7, <1>8, <1>9 DEF Blocks, StopsAt
<1>11. CountsOfName'
  BY <1>1, <1>7 DEF Determined, CountsOfName, MemCount, FlopCount, Writing
<1> QED BY <1>1, <1>10, <1>11
        DEF Determined, BlocksOfName, ChunkOfCode, LoadedOfName, ChunkOfBenchmark

LEMMA SetChunkDetermined == ASSUME IInv, Determined, SetChunk PROVE Determined'
<1>1. /\ pc = "written" /\ pc' = "load" /\ oi_chunk_size' = Code.offset
      /\ UNCHANGED <<request, i, j, mem_ins, flop_ins, muops, fuops, regnum, loaded, benchmark>>
  BY DEF SetChunk, writer
<1>2. Mem' = Mem /\ Name' = Name /\ Code' = Code
  BY <1>1 DEF Mem, Name, Flop, Code, Fused
<1>3. CountsOfName'
  BY <1>1, <1>2 DEF Determined, CountsOfName, MemCount, FlopCount, Writing
<1>4. BlocksOfName'
  BY <1>1, <1>2 DEF Determined, BlocksOfName, Blocks, StopsAt, Writing
<1> QED BY <1>1, <1>2, <1>3, <1>4 DEF Determined, ChunkOfCode, LoadedOfName, ChunkOfBenchmark

LEMMA CodeOfName == ASSUME IInv, Determined, pc = "load" PROVE Generates(Name, Code.offset)
<1>1. PICK g \in Nat \ {0} : /\ IsGcd(g, MemCount(Name), FlopCount(Name))
                             /\ mem_ins = MemCount(Name) \div g
                             /\ flop_ins = FlopCount(Name) \div g
  BY DEF Determined, CountsOfName, Writing
<1>2. PICK b \in Nat : Blocks(b)
  BY DEF Determined, BlocksOfName, Writing
<1>3. b \in Nat \ {0} /\ muops = b * mem_ins
  BY <1>2, SMT DEF Blocks
<1>4. FirstStop(Mem, mem_ins, flop_ins, b)
  BY <1>2 DEF Blocks, FirstStop
<1>5. Name[1] = Mem /\ Code.offset = (b * mem_ins) * SimdBytes
  BY <1>3 DEF Name, Code
<1> QED BY <1>1, <1>3, <1>4, <1>5 DEF Generates

LEMMA LoadDetermined == ASSUME IInv, Determined, LoadAgain \/ LoadNew PROVE Determined'
<1> DEFINE new == [name |-> Name, code |-> Code]
<1>1. /\ pc = "load" /\ pc' = "bench" /\ UNCHANGED oi_chunk_size
      /\ \/ \E lib \in loaded : lib.name = Name /\ benchmark' = lib.code /\ loaded' = loaded
         \/ benchmark' = Code /\ loaded' = loaded \cup {new}
  BY DEF LoadAgain, LoadNew
<1>2. new.name = Name /\ new.code = Code
  OBVIOUS
<1> HIDE DEF new
<1>3. Generates(Name, Code.offset) /\ oi_chunk_size = Code.offset
  BY <1>1, CodeOfName DEF Determined, ChunkOfCode
<1>4. benchmark'.offset = Code.offset
  BY <1>1, <1>3, OneOffset DEF Determined, LoadedOfName
<1>5. LoadedOfName'
  BY <1>1, <1>2, <1>3 DEF Determined, LoadedOfName
<1> QED BY <1>1, <1>3, <1>4, <1>5
        DEF Determined, CountsOfName, BlocksOfName, ChunkOfCode, ChunkOfBenchmark, Writing

(* Whether the library was compiled now or loaded by an earlier call, the  *)
(* chunk is that of the program in it: the name determines the program.    *)
THEOREM ChunkIsBenchmarks == Spec => []ChunkOfBenchmark
<1>1. Init => Determined
  BY DEF Init, Determined, CountsOfName, BlocksOfName, ChunkOfCode, LoadedOfName, ChunkOfBenchmark, Writing
<1>2. IInv /\ Determined /\ [Next]_vars => Determined'
  <2> SUFFICES ASSUME IInv, Determined, [Next]_vars PROVE Determined'
    OBVIOUS
  <2>1. CASE (\E r \in Requests : Call(r)) \/ NextMem \/ EndCall \/ Refuse \/ LoadFails \/ Measure
    <3>1. pc' \in {"idle", "types"} /\ loaded' = loaded
      BY <2>1 DEF Call, NextMem, EndCall, Refuse, AtPair, LoadFails, Measure
    <3> QED BY <3>1 DEF Determined, CountsOfName, BlocksOfName, ChunkOfCode, LoadedOfName,
                        ChunkOfBenchmark, Writing
  <2>2. CASE Done \/ UNCHANGED vars
    <3>1. UNCHANGED <<request, i, j, mem_ins, flop_ins, max, min, muops, fuops, regnum,
                      oi_chunk_size, loaded, benchmark, pc>>
      BY <2>2 DEF Done, vars, writer
    <3>2. Name' = Name /\ Mem' = Mem /\ Code' = Code
      BY <3>1 DEF Name, Mem, Flop, Code, Fused
    <3>3. CountsOfName'
      BY <3>1, <3>2 DEF Determined, CountsOfName, MemCount, FlopCount, Divides, Writing
    <3>4. BlocksOfName'
      BY <3>1, <3>2 DEF Determined, BlocksOfName, Blocks, StopsAt, Writing
    <3> QED BY <3>1, <3>2, <3>3, <3>4
            DEF Determined, ChunkOfCode, LoadedOfName, ChunkOfBenchmark
  <2> QED BY <2>1, <2>2, CountDetermined, ReduceDetermined, DivideDetermined, WriteBlockDetermined,
             SetChunkDetermined, LoadDetermined DEF Next
<1>3. Determined => ChunkOfBenchmark
  BY DEF Determined
<1> QED BY <1>1, <1>2, <1>3, Inductive, PTL DEF Spec

-----------------------------------------------------------------------------
(* roofline_PGCD() by its recursive definition.  The set of the greatest   *)
(* common divisors solves the equation, so that the function has a value.  *)
Gcds(a, b) == {g \in Nat \ {0} : IsGcd(g, a, b)}

LEMMA GcdsOfMultiple ==
    ASSUME NEW a \in Nat, NEW b \in Nat \ {0}, a % b = 0
    PROVE  Gcds(a, b) = {b}
<1>1. Divides(b, a) /\ Divides(b, b)
  <2>1. b = b * 1 /\ 1 \in Nat
    BY SMT
  <2> QED BY <2>1, RestZero DEF Divides
<1>2. IsGcd(b, a, b)
  BY <1>1 DEF IsGcd
<1>3. \A g \in Nat \ {0} : IsGcd(g, a, b) => g = b
  BY <1>1, DivideEachOther DEF IsGcd
<1> QED BY <1>2, <1>3 DEF Gcds

LEMMA GcdsOfRest ==
    ASSUME NEW a \in Nat, NEW b \in Nat \ {0}
    PROVE  Gcds(a, b) = Gcds(b, a % b)
<1>1. \A d \in Nat \ {0} : Divides(d, a) /\ Divides(d, b) <=> Divides(d, b) /\ Divides(d, a % b)
  BY DividesRest, RestDivides
<1>2. \A g \in Nat \ {0} : IsGcd(g, a, b) <=> IsGcd(g, b, a % b)
  BY <1>1 DEF IsGcd
<1> QED BY <1>2 DEF Gcds

LEMMA PGCDEquation ==
    ASSUME NEW a \in Nat, NEW b \in Nat \ {0}
    PROVE  PGCD[<<a, b>>] = IF a % b = 0 THEN b ELSE PGCD[<<b, a % b>>]
<1> DEFINE D == Nat \X (Nat \ {0})
           Solves(f) == f = [p \in D |-> IF p[1] % p[2] = 0 THEN p[2] ELSE f[<<p[2], p[1] % p[2]>>]]
           one(p) == CHOOSE g \in Gcds(p[1], p[2]) : TRUE
           h == [p \in D |-> one(p)]
<1>1. Solves(h)
  <2>1. ASSUME NEW p \in D PROVE one(p) = IF p[1] % p[2] = 0 THEN p[2] ELSE h[<<p[2], p[1] % p[2]>>]
    <3>1. p[1] \in Nat /\ p[2] \in Nat \ {0}
      OBVIOUS
    <3>2. CASE p[1] % p[2] = 0
      <4>1. Gcds(p[1], p[2]) = {p[2]}
        BY <3>1, <3>2, GcdsOfMultiple
      <4> QED BY <3>2, <4>1
    <3>3. CASE p[1] % p[2] # 0
      <4> DEFINE q == <<p[2], p[1] % p[2]>>
      <4>1. q \in D /\ q[1] = p[2] /\ q[2] = p[1] % p[2]
        <5>1. p[1] % p[2] \in Nat \ {0}
          BY <3>1, <3>3, DivisionRest
        <5> QED BY <3>1, <5>1
      <4> HIDE DEF q, D
      <4>2. h[q] = one(q)
        BY <4>1
      <4>3. Gcds(q[1], q[2]) = Gcds(p[1], p[2])
        BY <3>1, <4>1, GcdsOfRest
      <4>4. one(q) = one(p)
        BY <4>3
      <4>5. h[q] = one(p)
        BY <4>2, <4>4
      <4> QED BY <3>3, <4>5 DEF q
    <3> QED BY <3>2, <3>3
  <2>2. h = [p \in D |-> one(p)]
    OBVIOUS
  <2> HIDE DEF h, one, D
  <2> QED BY <2>1, <2>2
<1>2. \E f : Solves(f)
  <2> HIDE DEF h
  <2> QED BY <1>1
<1>3. PGCD = CHOOSE f : Solves(f)
  BY DEF PGCD
<1>4. Solves(PGCD)
  <2> HIDE DEF Solves
  <2> QED BY <1>2, <1>3
<1>5. <<a, b>> \in D /\ <<a, b>>[1] = a /\ <<a, b>>[2] = b
  OBVIOUS
<1> HIDE DEF D
<1> QED BY <1>4, <1>5

(* It divides both of its arguments: the least second argument for which   *)
(* it did not would have a smaller one.                                    *)
LEMMA PGCDDivides ==
    \A b \in Nat \ {0} : \A a \in Nat :
        /\ PGCD[<<a, b>>] \in Nat \ {0}
        /\ Divides(PGCD[<<a, b>>], a) /\ Divides(PGCD[<<a, b>>], b)
<1> DEFINE Fine(g, a, b) == g \in Nat \ {0} /\ Divides(g, a) /\ Divides(g, b)
           Bad == {b \in Nat \ {0} : \E a \in Nat : ~Fine(PGCD[<<a, b>>], a, b)}
<1> SUFFICES ASSUME Bad # {} PROVE FALSE
  OBVIOUS
<1>1. PICK b \in Bad : \A y \in Bad : b <= y
  <2>1. Bad \subseteq Nat
    OBVIOUS
  <2> HIDE DEF Bad
  <2> QED BY <2>1, LeastExists
<1>2. PICK a \in Nat : ~Fine(PGCD[<<a, b>>], a, b)
  BY <1>1
<1>3. b \in Nat \ {0}
  BY <1>1
<1>4. CASE a % b = 0
  <2>1. Divides(b, a) /\ Divides(b, b)
    <3>1. b = b * 1 /\ 1 \in Nat
      BY <1>3, SMT
    <3> QED BY <1>3, <1>4, <3>1, RestZero DEF Divides
  <2>2. PGCD[<<a, b>>] = b
    BY <1>3, <1>4, PGCDEquation
  <2> QED BY <1>2, <1>3, <2>1, <2>2
<1>5. CASE a % b # 0
  <2> DEFINE r == a % b
             g == PGCD[<<b, r>>]
  <2>1. r \in Nat \ {0} /\ r < b
    BY <1>3, <1>5
  <2>2. PGCD[<<a, b>>] = g
    BY <1>3, <1>5, PGCDEquation
  <2>3. Fine(g, b, r)
    <3>1. ~(b <= r)
      BY <1>3, <2>1
    <3>2. r \notin Bad
      BY <1>1, <3>1
    <3> HIDE DEF r
    <3> QED BY <1>3, <2>1, <3>2
  <2> HIDE DEF g, Fine
  <2>4. g \in Nat \ {0} /\ Divides(g, b) /\ Divides(g, r)
    BY <2>3 DEF Fine
  <2>5. Divides(g, a)
    BY <1>3, <2>4, DividesRest
  <2>6. Fine(g, a, b)
    BY <2>4, <2>5 DEF Fine
  <2> QED BY <1>2, <2>2, <2>6
<1> QED BY <1>4, <1>5

(* roofline_PPCM() is a multiple of its first argument, if the product of  *)
(* the two is an unsigned.                                                 *)
LEMMA QuotientOfProduct ==
    ASSUME NEW a \in Nat \ {0}, NEW g \in Nat \ {0}, NEW k \in Nat \ {0}
    PROVE  (a * (g * k)) \div g = a * k /\ a * k \in Nat \ {0}
<1>1. PICK x \in Nat \ {0} : x = a * k
  <2>1. a * k \in Nat \ {0}
    BY Products
  <2> QED BY <2>1
<1>2. a * (g * k) = g * x
  BY <1>1, SMT
<1>3. (g * x) \div g = x
  BY SMT
<1> QED BY <1>1, <1>2, <1>3

LEMMA PPCMMultiple ==
    ASSUME NEW a \in Nat \ {0}, NEW b \in Nat \ {0}, a * b < UINT
    PROVE  PPCM(a, b) \in Nat \ {0} /\ Divides(a, PPCM(a, b))
<1> DEFINE g == PGCD[<<a, b>>]
<1>1. g \in Nat \ {0} /\ Divides(g, b)
  BY PGCDDivides
<1>2. PICK k \in Nat : b = g * k
  BY <1>1 DEF Divides
<1>3. k \in Nat \ {0}
  BY <1>1, <1>2, Positive
<1> HIDE DEF g
<1>4. (a * b) \div g = a * k /\ a * k \in Nat \ {0}
  BY <1>1, <1>2, <1>3, QuotientOfProduct
<1>5. a % UINT = a /\ b % UINT = b /\ (a * b) % UINT = a * b
  <2>1. UINT \in Nat \ {0}
    BY SimdAssumption
  <2>2. a * b \in Nat /\ a <= a * b /\ b <= a * b
    BY SMT
  <2>3. \A n \in Nat : n < UINT => n % UINT = n
    BY <2>1, SMT
  <2>4. a < UINT /\ b < UINT
    BY <2>1, <2>2, SMT
  <2> QED BY <2>2, <2>3, <2>4
<1>6. PPCM(a, b) = (a * b) \div g
  BY <1>5 DEF PPCM, g
<1> QED BY <1>3, <1>4, <1>6 DEF Divides

LEMMA ChunkMultiple ==
    ASSUME oi_chunk_size \in Nat \ {0}, oi_chunk_size * Alignement < UINT
    PROVE  Chunk \in Nat \ {0} /\ Divides(oi_chunk_size, Chunk)
<1>1. Divides(oi_chunk_size, oi_chunk_size)
  <2>1. oi_chunk_size = oi_chunk_size * 1 /\ 1 \in Nat
    BY SMT
  <2> QED BY <2>1 DEF Divides
<1> QED BY <1>1, PPCMMultiple, SimdAssumption DEF Chunk

(* The nth of the sizes is not above the upper bound.                      *)
LEMMA PartOfWidth ==
    ASSUME NEW N \in Nat \ {0}, NEW n \in 0 .. N - 1, NEW w \in Nat
    PROVE  (n * w) \div N \in Nat /\ (n * w) \div N <= w
<1> DEFINE q == (n * w) \div N
<1>1. n * w \in Nat /\ n * w <= N * w
  BY SMT
<1>2. q \in Nat /\ N * q <= n * w
  <2>1. PICK x \in Nat : x = n * w
    BY <1>1
  <2>2. x \div N \in Nat /\ N * (x \div N) <= x
    BY <2>1, DivisionRest
  <2> QED BY <2>1, <2>2
<1> HIDE DEF q
<1>3. N * q <= N * w
  <2>1. N * q \in Nat /\ N * w \in Nat
    BY <1>2, Products
  <2> QED BY <1>1, <1>2, <2>1
<1>4. q <= w
  BY <1>2, <1>3, SMT
<1> QED BY <1>2, <1>4 DEF q

LEMMA DividesTransitive ==
    ASSUME NEW a \in Nat, NEW b \in Nat, NEW q \in Nat, Divides(a, b)
    PROVE  Divides(a, b * q)
<1>1. PICK k \in Nat : b = a * k
  BY DEF Divides
<1>2. b * q = a * (k * q) /\ k * q \in Nat
  BY <1>1, Products
<1> QED BY <1>2 DEF Divides

LEMMA NoRest ==
    ASSUME NEW a \in Nat \ {0}, NEW b \in Nat, Divides(a, b)
    PROVE  b % a = 0
<1>1. PICK k \in Nat : b = a * k
  BY DEF Divides
<1>2. (a * k) % a = 0
  BY SMT
<1> QED BY <1>1, <1>2

LEMMA SizesFit ==
    ASSUME oi_chunk_size \in Nat \ {0}, oi_chunk_size * Alignement < UINT,
           request \in Requests, NEW s \in Kept
    PROVE  s > 0 /\ s <= Up /\ s % oi_chunk_size = 0
<1>1. Low \in Nat \ {0} /\ Up \in Nat
  BY RequestAssumption DEF Low, Up
<1>2. ~(Up < Low) /\ s >= Low
  BY DEF Kept
<1>3. PICK n \in 0 .. NSizes - 1 : s = Size(n)
  BY <1>2 DEF Kept
<1> DEFINE w == Up - Low
           x == Low + (n * w) \div NSizes
<1>4. w \in Nat
  BY <1>1, <1>2
<1>5. s = Chunk * (x \div Chunk)
  BY <1>3 DEF Size, Resize
<1>6. x \in Nat /\ x <= Up
  <2>1. (n * w) \div NSizes \in Nat /\ (n * w) \div NSizes <= w
    <3> HIDE DEF w
    <3> QED BY <1>4, PartOfWidth, SimdAssumption
  <2> DEFINE q == (n * w) \div NSizes
  <2>2. q \in Nat /\ q <= Up - Low
    BY <2>1
  <2> HIDE DEF q, w
  <2>3. Low + q \in Nat /\ Low + q <= Up
    BY <1>1, <2>2
  <2> QED BY <2>3 DEF q
<1>7. Chunk \in Nat \ {0} /\ Divides(oi_chunk_size, Chunk)
  BY ChunkMultiple
<1> HIDE DEF x, w
<1>8. x \div Chunk \in Nat /\ s \in Nat /\ s <= x
  <2>1. /\ x \div Chunk \in Nat /\ x % Chunk \in Nat
        /\ x = Chunk * (x \div Chunk) + (x % Chunk)
    BY <1>6, <1>7, DivisionRest
  <2>2. Chunk * (x \div Chunk) \in Nat
    BY <1>7, <2>1, Products
  <2> QED BY <1>5, <1>6, <2>1, <2>2
<1>9. Divides(oi_chunk_size, s)
  BY <1>5, <1>7, <1>8, DividesTransitive
<1>10. s > 0 /\ s <= Up
  BY <1>1, <1>2, <1>6, <1>8
<1> QED BY <1>8, <1>9, <1>10, NoRest

(* The sizes are multiples of the chunk that the generator set, and this   *)
(* is the offset of the program that is measured: the loop of the program, *)
(* which subtracts its offset until nothing is left of the buffer, meets   *)
(* zero, for every size that is kept and every chunk whose product with    *)
(* the cache line is an unsigned.                                          *)
THEOREM LoopEnds == Spec => []LoopEndsWithBuffer
<1>1. IInv /\ ChunkOfBenchmark => LoopEndsWithBuffer
  <2> SUFFICES ASSUME IInv, ChunkOfBenchmark, pc = "bench",
                      oi_chunk_size * Alignement < UINT, NEW s \in Kept
               PROVE  s > 0 /\ s <= Up /\ s % benchmark.offset = 0
    BY DEF LoopEndsWithBuffer
  <2>1. oi_chunk_size \in Nat \ {0} /\ request \in Requests
    BY DEF IInv, TypeOK
  <2>2. oi_chunk_size = benchmark.offset
    BY DEF ChunkOfBenchmark
  <2> QED BY <2>1, <2>2, SizesFit
<1> QED BY <1>1, Inductive, ChunkIsBenchmarks, PTL
=============================================================================
