---------------------------- MODULE LatencyStream ----------------------------
(***************************************************************************)
(* The buffer of the latency benchmark (src/src/stream.c).  Each thread    *)
(* fills its own buffer with links, the numbers of the words in a random   *)
(* order, and then follows them from word 0: the next address is known     *)
(* only when the last load has come back.  The buffer is refilled for      *)
(* every size that roofline_memory() measures, and followed several times  *)
(* for each, to choose the number of repetitions and then to measure.      *)
(***************************************************************************)
EXTENDS Integers, FiniteSets

CONSTANTS Capacity,  \* the words of the buffer
          Sizes,     \* the words of the sizes that are measured
          Repeats,   \* the repetitions a caller may ask for
          Junk       \* what a word holds that was never written

Words == 0 .. Capacity - 1
ASSUME BufferAssumption ==
    /\ Capacity \in Nat /\ Sizes \subseteq 1 .. Capacity
    /\ Repeats \subseteq Nat \ {0} /\ Junk \notin Int

VARIABLES n,       \* the words in use
          links,   \* the buffer
          rands,   \* the numbers that are not placed yet
          i,       \* how many there are
          rax,     \* the word whose link is loaded next
          left,    \* loads to go
          visited, \* history: the words loaded since the loop started
          pc       \* "ready", "shuffle" or "load"

vars == <<n, links, rands, i, rax, left, visited, pc>>

Init ==
    /\ n = 0 /\ links = [w \in Words |-> Junk] /\ rands = links /\ i = 0
    /\ rax = 0 /\ left = 0 /\ visited = {}
    /\ pc = "ready"

(* The next size of the loop in roofline_memory(); latency_stream_init()   *)
(* allocates and fills rands.                                              *)
SetSize(s) ==
    /\ pc = "ready" /\ s > n
    /\ n' = s /\ i' = s
    /\ rands' = [w \in Words |-> IF w < s THEN w ELSE Junk]
    /\ visited' = {}
    /\ pc' = "shuffle"
    /\ UNCHANGED <<links, rax, left>>

\* Slip: the number that was placed stays among those to place.
ShuffleKeeps ==
    /\ pc = "shuffle" /\ i > 0
    /\ \E val \in 0 .. i - 1 : links' = [links EXCEPT ![i - 1] = rands[val]]
    /\ i' = i - 1
    /\ UNCHANGED <<n, rands, rax, left, visited, pc>>

\* Slip: the draw is from all the numbers, not from those left.
ShuffleFromAll ==
    /\ pc = "shuffle" /\ i > 0
    /\ \E val \in 0 .. n - 1 :
          /\ links' = [links EXCEPT ![i - 1] = rands[val]]
          /\ rands' = [rands EXCEPT ![val] = rands[i - 1]]
    /\ i' = i - 1
    /\ UNCHANGED <<n, rax, left, visited, pc>>

(* One of the numbers left, drawn by rand_r(), is placed in the last free  *)
(* word, and the last of them takes its place.                             *)
Shuffle ==
    /\ pc = "shuffle" /\ i > 0
    /\ \E val \in 0 .. i - 1 :
          /\ links' = [links EXCEPT ![i - 1] = rands[val]]
          /\ rands' = [rands EXCEPT ![val] = rands[i - 1]]
    /\ i' = i - 1
    /\ UNCHANGED <<n, rax, left, visited, pc>>

\* Slip: the loop stops before word 0.
EndShuffleEarly ==
    /\ pc = "shuffle" /\ i <= 1
    /\ rands' = [w \in Words |-> Junk]
    /\ pc' = "ready"
    /\ UNCHANGED <<n, links, i, rax, left, visited>>

EndShuffle ==
    /\ pc = "shuffle" /\ i = 0
    /\ rands' = [w \in Words |-> Junk]
    /\ pc' = "ready"
    /\ UNCHANGED <<n, links, i, rax, left, visited>>

\* Slip: the loads are counted in pairs of words.
LoadsInPairs(r) == (r * 8 * n) \div 16

(* repeat*size/sizeof(uint32_t), for n words of 8 bytes.                   *)
Loads(r) == (r * 8 * n) \div 4

(* roofline_latency_stream_load()                                          *)
StartLoads(r) ==
    /\ pc = "ready" /\ n > 0
    /\ rax' = 0 /\ left' = Loads(r) /\ visited' = {}
    /\ pc' = "load"
    /\ UNCHANGED <<n, links, rands, i>>

(* The body of the loop: movq, sub, jnz.                                   *)
Load ==
    /\ pc = "load"
    /\ rax' = links[rax] /\ visited' = visited \cup {rax}
    /\ left' = left - 1
    /\ pc' = IF left = 1 THEN "ready" ELSE "load"
    /\ UNCHANGED <<n, links, rands, i>>

Next == \/ \E s \in Sizes : SetSize(s)
        \/ Shuffle \/ EndShuffle
        \/ \E r \in Repeats : StartLoads(r)
        \/ Load

Spec == Init /\ [][Next]_vars

-----------------------------------------------------------------------------
InUse == 0 .. n - 1

TypeOK ==
    /\ n \in 0 .. Capacity /\ i \in 0 .. n /\ left \in Nat
    /\ links \in [Words -> Words \cup {Junk}] /\ rands \in [Words -> Words \cup {Junk}]
    /\ visited \subseteq Words /\ pc \in {"ready", "shuffle", "load"}

(* Once the buffer is filled its links are a permutation of the words in   *)
(* use, whatever was drawn and whatever a smaller size left there.         *)
LinksPermute ==
    pc # "shuffle" =>
        /\ \A v \in InUse : links[v] \in InUse
        /\ \A v, w \in InUse : links[v] = links[w] => v = w
        /\ \A w \in InUse : \E v \in InUse : links[v] = w

(* The loop never leaves the words in use.                                 *)
ChaseInBuffer == pc = "load" => rax \in InUse

(* The loads do not get caught in a part of the words they went through:   *)
(* when they come back to a word for the first time, it is word 0.         *)
NoShortcut ==
    pc = "load" /\ rax \notin visited /\ links[rax] \in visited \cup {rax} => links[rax] = 0

(* The loop goes at least once through all the words it can reach, so that *)
(* the time is that of the whole cycle.                                    *)
ClosesCycle ==
    pc = "ready" => \A v \in visited : links[v] \in visited
=============================================================================
