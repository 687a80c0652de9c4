---------------------------- MODULE LibraryProofs ----------------------------
(***************************************************************************)
(* For every machine and every sequence of programs, init shares out the   *)
(* samples of the PUs among the sublists of the objects, and fini gives    *)
(* back what init has allocated, once. The PUs below an object follow each *)
(* other in the order of their logical indexes, so that a sublist that     *)
(* begins at the first of them and has as many elements as there are of    *)
(* them consists of their samples.                                         *)
(*                                                                         *)
(* However programs end, the file has one header: what is in the file and  *)
(* the buffer together starts with it. The results of a program that ended *)
(* by fini stay in the file, in order and once, as long as no later        *)
(* program starts the file over; for this the proof assumes that nobody    *)
(* creates the file between access() and fopen().                          *)
(***************************************************************************)
EXTENDS Library, SetLemmas, SequenceTheorems

-----------------------------------------------------------------------------
LEMMA FirstExists ==
    ASSUME NEW T, T \subseteq Nat, T # {}
    PROVE  FirstOf(T) \in T /\ \A y \in T : FirstOf(T) <= y
BY LeastExists DEF FirstOf

(* The PUs below an object, from the first one on, without a gap.          *)
LEMMA PUsContiguous ==
    ASSUME NEW d \in Depths, NEW o \in ObjectsAt(d)
    PROVE  LET below == PUsBelow(d, o)
               first == FirstOf(below)
               n     == Cardinality(below)
           IN /\ first \in PUs /\ n \in Nat /\ first + n <= NPUs
              /\ below = first .. first + n - 1
<1> DEFINE below == PUsBelow(d, o)
           first == FirstOf(below)
<1>1. below # {} /\ below \subseteq PUs /\ below \subseteq Nat /\ NPUs \in Nat \ {0}
  <2>1. below # {} /\ below \subseteq PUs
    BY DEF ObjectsAt, PUsBelow
  <2>2. PUs \subseteq Nat /\ NPUs \in Nat \ {0}
    BY MachineAssumption DEF PUs
  <2> QED BY <2>1, <2>2
<1>2. first \in below /\ \A y \in below : first <= y
  BY <1>1, FirstExists
<1>3. PICK last \in below : \A y \in below : y <= last
  <2>1. below \subseteq 0 .. NPUs - 1 /\ NPUs - 1 \in Nat
    BY <1>1 DEF PUs
  <2> QED BY <1>1, <2>1, GreatestExists
<1>4. first .. last \subseteq below
  <2> SUFFICES ASSUME NEW p \in first .. last PROVE p \in below
    OBVIOUS
  <2>1. p \in PUs /\ first \in PUs /\ last \in PUs /\ first <= p /\ p <= last
    BY <1>1, <1>2, <1>3 DEF PUs
  <2>2. ObjectOf[d][first] <= ObjectOf[d][p] /\ ObjectOf[d][p] <= ObjectOf[d][last]
    BY <2>1, MachineAssumption
  <2>3. ObjectOf[d][first] = o /\ ObjectOf[d][last] = o
    BY <1>2, <1>3 DEF PUsBelow
  <2>4. ObjectOf[d][p] \in Nat /\ ObjectOf[d][first] \in Nat
    BY <2>1, MachineAssumption
  <2> QED BY <2>1, <2>2, <2>3, <2>4 DEF PUsBelow
<1>5. below = first .. last
  <2>1. first \in Nat /\ last \in Nat
    BY <1>1, <1>2, <1>3
  <2>2. below \subseteq first .. last
    BY <1>1, <1>2, <1>3, <2>1
  <2> QED BY <1>4, <2>2
<1>6. Cardinality(below) = last - first + 1
  <2>1. first \in Int /\ last \in Int /\ first <= last
    BY <1>1, <1>2, <1>3
  <2>2. Cardinality(first .. last) = last - first + 1
    BY <2>1, FS_Interval
  <2> QED BY <1>5, <2>2
<1>7. last <= NPUs - 1 /\ first \in Nat /\ last \in Nat /\ first <= last
  BY <1>1, <1>2, <1>3 DEF PUs
<1>8. /\ Cardinality(below) \in Nat /\ first + Cardinality(below) <= NPUs
      /\ first + Cardinality(below) - 1 = last
  <2> HIDE DEF first, below
  <2> QED BY <1>1, <1>6, <1>7
<1>9. first \in PUs /\ below = first .. first + Cardinality(below) - 1
  BY <1>1, <1>2, <1>5, <1>8
<1> QED BY <1>8, <1>9

-----------------------------------------------------------------------------
(* The inductive invariant: the list holds the samples of the first PUs,   *)
(* the objects served so far have theirs, and the heap holds what the      *)
(* steps so far have allocated.                                            *)
HasList == {"push", "sublists", "header", "ready", "samples"}
Lists   == [cell : [PUs -> PUs \cup {NULL}], length : 0 .. NPUs, allocated : {NPUs}]

SamplesInv ==
    /\ request \in Requests /\ reduction_depth \in Depths
    /\ pc \in HasList =>
          /\ samples \in Lists
          /\ \A c \in 0 .. samples.length - 1 : samples.cell[c] = c
    /\ pc \in HasList \ {"push"} => samples.length = NPUs

SublistOf(o) == LET below == PUsBelow(reduction_depth, o)
                IN SubList(FirstOf(below), Cardinality(below))
SublistsInv ==
    /\ DOMAIN userdata \subseteq ObjectsAt(reduction_depth)
    /\ \A o \in DOMAIN userdata : userdata[o] = SublistOf(o)
    /\ pc \in {"header", "ready"} => DOMAIN userdata = ObjectsAt(reduction_depth)
    /\ pc \notin {"sublists", "header", "ready"} => DOMAIN userdata = {}

OfTopology == IF pc \in HasList \cup {"new"} THEN {<<"topology", 0>>, <<"bindings", 0>>} ELSE {}
OfSamples  == IF pc \in HasList
              THEN {<<"list", 0>>, <<"cells", 0>>} \cup {<<"sample", i>> : i \in 0 .. samples.length - 1}
              ELSE {}
OfSublists == {<<"sublist", o>> : o \in DOMAIN userdata}
HeapInv == heap = OfTopology \cup OfSamples \cup OfSublists /\ fault = FALSE

IInv == SamplesInv /\ SublistsInv /\ HeapInv

LEMMA InitEstablishes == Init => IInv
<1> SUFFICES ASSUME Init PROVE IInv
  OBVIOUS
<1>1. SamplesInv
  BY MachineAssumption DEF Init, SamplesInv, HasList
<1>2. DOMAIN userdata = {}
  BY DEF Init
<1>3. SublistsInv
  BY <1>2 DEF Init, SublistsInv
<1>4. HeapInv
  BY <1>2 DEF Init, HeapInv, OfTopology, OfSamples, OfSublists, HasList
<1> QED BY <1>1, <1>3, <1>4 DEF IInv

(* Steps that leave memory alone.                                          *)
LEMMA MemoryKept ==
    ASSUME IInv, UNCHANGED memory, request' \in Requests,
           \/ pc' = pc
           \/ pc = "header" /\ pc' = "ready"
           \/ pc \notin HasList \cup {"new"} /\ pc' \notin HasList \cup {"new"}
    PROVE  IInv'
<1>1. SamplesInv'
  BY DEF IInv, SamplesInv, memory, HasList, Lists
<1>2. SublistsInv'
  BY DEF IInv, SublistsInv, SublistOf, memory, HasList, ObjectsAt
<1>3. HeapInv'
  BY DEF IInv, HeapInv, OfTopology, OfSamples, OfSublists, memory, HasList
<1> QED BY <1>1, <1>2, <1>3 DEF IInv

LEMMA StepOutside ==
    ASSUME IInv,
           \/ \E r \in Requests : CallInit(r)
           \/ Access \/ Fopen \/ PrintHeader \/ Region \/ Flush \/ CloseOutput \/ OtherProgram
           \/ UNCHANGED vars
    PROVE  IInv'
<1>0. request \in Requests
  BY DEF IInv, SamplesInv
<1>1. CASE \E r \in Requests : CallInit(r)
  BY <1>1, MemoryKept DEF CallInit, HasList
<1>2. CASE Access
  BY <1>0, <1>2, MemoryKept DEF Access, HasList
<1>3. CASE Fopen
  <2>1. UNCHANGED memory
    BY <1>3 DEF Fopen, memory
  <2> QED BY <1>0, <1>3, <2>1, MemoryKept DEF Fopen, HasList
<1>4. CASE PrintHeader
  BY <1>0, <1>4, MemoryKept DEF PrintHeader
<1>5. CASE Region
  BY <1>0, <1>5, MemoryKept DEF Region
<1>6. CASE Flush
  BY <1>0, <1>6, MemoryKept DEF Flush
<1>7. CASE CloseOutput
  BY <1>0, <1>7, MemoryKept DEF CloseOutput, HasList
<1>8. CASE OtherProgram
  BY <1>0, <1>8, MemoryKept DEF OtherProgram
<1>9. CASE UNCHANGED vars
  BY <1>0, <1>9, MemoryKept DEF vars
<1> QED BY <1>1, <1>2, <1>3, <1>4, <1>5, <1>6, <1>7, <1>8, <1>9

LEMMA LoadTopologyStep == ASSUME IInv, LoadTopology PROVE IInv'
<1>1. reduction_depth' \in Depths
  <2>1. request.reduction \in DOMAIN TypeDepth
    BY MachineAssumption, RequestAssumption DEF IInv, SamplesInv
  <2> QED BY <2>1, MachineAssumption DEF LoadTopology, ReductionDepth
<1>2. DOMAIN userdata = {} /\ userdata' = userdata
  BY DEF IInv, SublistsInv, LoadTopology
<1>3. SamplesInv'
  BY <1>1 DEF IInv, SamplesInv, LoadTopology, HasList
<1>4. SublistsInv'
  BY <1>2 DEF SublistsInv, LoadTopology
<1>5. HeapInv'
  BY <1>2 DEF IInv, HeapInv, OfTopology, OfSamples, OfSublists, LoadTopology, HasList
<1> QED BY <1>3, <1>4, <1>5 DEF IInv

LEMMA NewSamplesStep == ASSUME IInv, NewSamples PROVE IInv'
<1>1. samples' \in Lists /\ samples'.length = 0
  <2>1. NPUs \in Nat /\ 0 \in 0 .. NPUs
    BY MachineAssumption
  <2> QED BY <2>1 DEF NewSamples, NewList, Lists, PUs
<1>2. SamplesInv'
  BY <1>1 DEF IInv, SamplesInv, NewSamples, HasList, Lists
<1>3. SublistsInv'
  BY DEF IInv, SublistsInv, SublistOf, NewSamples, HasList, ObjectsAt
<1>4. HeapInv'
  <2>1. {<<"sample", i>> : i \in 0 .. samples'.length - 1} = {}
    BY <1>1
  <2> QED BY <2>1 DEF IInv, HeapInv, OfTopology, OfSamples, OfSublists, NewSamples, HasList
<1> QED BY <1>2, <1>3, <1>4 DEF IInv

LEMMA PushSampleStep == ASSUME IInv, PushSample PROVE IInv'
<1> DEFINE n == samples.length
<1>1. pc = "push" /\ samples \in Lists /\ n \in 0 .. NPUs /\ NPUs \in Nat
  BY MachineAssumption DEF PushSample, IInv, SamplesInv, HasList, Lists
<1>2. CASE n < NPUs
  <2>1. ~(n >= samples.allocated)
    BY <1>1, <1>2 DEF Lists
  <2>2. samples' = [samples EXCEPT !.cell = [@ EXCEPT ![n] = n], !.length = n + 1]
    <3>1. samples' = ListSet(samples, n, n)
      BY <1>2 DEF PushSample, ListPush
    <3>2. n <= n
      BY <1>1
    <3> QED BY <2>1, <3>1, <3>2 DEF ListSet
  <2>3. samples' \in Lists /\ samples'.length = n + 1
    <3>1. n \in PUs /\ n + 1 \in 0 .. NPUs
      BY <1>1, <1>2 DEF PUs
    <3>2. [samples.cell EXCEPT ![n] = n] \in [PUs -> PUs \cup {NULL}]
      BY <1>1, <3>1 DEF Lists
    <3> QED BY <1>1, <2>2, <3>1, <3>2 DEF Lists
  <2>4. \A c \in 0 .. n : samples'.cell[c] = c
    BY <1>1, <1>2, <2>2 DEF Lists, PUs, IInv, SamplesInv, HasList
  <2>5. SamplesInv'
    BY <1>1, <1>2, <2>3, <2>4 DEF PushSample, IInv, SamplesInv, HasList, Lists
  <2>6. SublistsInv'
    BY <1>2 DEF IInv, SublistsInv, SublistOf, PushSample, HasList, ObjectsAt
  <2>7. HeapInv'
    <3>1. {<<"sample", i>> : i \in 0 .. n} = {<<"sample", i>> : i \in 0 .. n - 1} \cup {<<"sample", n>>}
      BY <1>1
    <3>2. n + 1 - 1 = n
      BY <1>1
    <3> QED BY <1>1, <1>2, <2>3, <3>1, <3>2
            DEF IInv, HeapInv, OfTopology, OfSamples, OfSublists, PushSample, HasList
  <2> QED BY <2>5, <2>6, <2>7 DEF IInv
<1>3. CASE ~(n < NPUs)
  <2>1. n = NPUs
    BY <1>1, <1>3
  <2>2. SamplesInv'
    BY <1>1, <1>3, <2>1 DEF PushSample, IInv, SamplesInv, HasList, Lists
  <2>3. SublistsInv'
    BY <1>3 DEF IInv, SublistsInv, SublistOf, PushSample, HasList, ObjectsAt
  <2>4. HeapInv'
    BY <1>3 DEF IInv, HeapInv, OfTopology, OfSamples, OfSublists, PushSample, HasList
  <2> QED BY <2>2, <2>3, <2>4 DEF IInv
<1> QED BY <1>2, <1>3

LEMMA StoreSublistStep == ASSUME IInv, StoreSublist PROVE IInv'
<1>1. pc = "sublists" /\ UNCHANGED <<reduction_depth, samples, request, fault>>
  BY DEF StoreSublist
<1>2. CASE Unserved = {}
  <2>1. pc' = "header" /\ userdata' = userdata /\ heap' = heap
    BY <1>2 DEF StoreSublist
  <2>2. SamplesInv'
    BY <1>1, <2>1 DEF IInv, SamplesInv, HasList, Lists
  <2>3. SublistsInv'
    BY <1>1, <1>2, <2>1 DEF IInv, SublistsInv, SublistOf, ObjectsAt, Unserved
  <2>4. HeapInv'
    BY <1>1, <2>1 DEF IInv, HeapInv, OfTopology, OfSamples, OfSublists, HasList
  <2> QED BY <2>2, <2>3, <2>4 DEF IInv
<1>3. CASE Unserved # {}
  <2> DEFINE o == FirstOf(Unserved)
  <2>1. o \in ObjectsAt(reduction_depth)
    <3>1. Unserved \subseteq ObjectsAt(reduction_depth)
      BY DEF Unserved
    <3>2. ObjectsAt(reduction_depth) \subseteq Nat
      BY MachineAssumption DEF ObjectsAt, IInv, SamplesInv
    <3> QED BY <1>3, <3>1, <3>2, FirstExists
  <2>2. /\ userdata' = [x \in DOMAIN userdata \cup {o} |-> IF x = o THEN SublistOf(o) ELSE userdata[x]]
        /\ heap' = heap \cup {<<"sublist", o>>}
        /\ pc' = pc
    BY <1>3 DEF StoreSublist, SublistOf
  <2> HIDE DEF o
  <2>3. SamplesInv'
    BY <1>1, <2>2 DEF IInv, SamplesInv, HasList, Lists
  <2>4. SublistsInv'
    BY <1>1, <2>1, <2>2 DEF IInv, SublistsInv, SublistOf, ObjectsAt
  <2>5. HeapInv'
    <3>1. OfSublists' = OfSublists \cup {<<"sublist", o>>}
      BY <2>2 DEF OfSublists
    <3>2. OfTopology' = OfTopology /\ OfSamples' = OfSamples
      BY <1>1, <2>2 DEF OfTopology, OfSamples
    <3> QED BY <1>1, <2>2, <3>1, <3>2 DEF IInv, HeapInv
  <2> QED BY <2>3, <2>4, <2>5 DEF IInv
<1> QED BY <1>2, <1>3

LEMMA DeleteSublistsStep == ASSUME IInv, DeleteSublists PROVE IInv'
<1>1. /\ pc = "ready" /\ pc' = "samples" /\ userdata' = << >>
      /\ UNCHANGED <<reduction_depth, samples, request>>
  BY DEF DeleteSublists
<1>2. UNION {BlocksOfSublist(o) : o \in DOMAIN userdata} = OfSublists
  BY DEF BlocksOfSublist, OfSublists
<1>3. heap' = heap \ OfSublists /\ fault' = FALSE
  BY <1>2 DEF DeleteSublists, Free, IInv, HeapInv
<1>4. DOMAIN userdata' = {}
  BY <1>1
<1>5. SamplesInv'
  BY <1>1 DEF IInv, SamplesInv, HasList, Lists
<1>6. SublistsInv'
  BY <1>1, <1>4 DEF SublistsInv
<1>7. HeapInv'
  <2>1. OfTopology' = OfTopology /\ OfSamples' = OfSamples /\ OfSublists' = {}
    BY <1>1, <1>4 DEF OfTopology, OfSamples, OfSublists, HasList
  <2>2. OfSublists \cap (OfTopology \cup OfSamples) = {}
    BY DEF OfTopology, OfSamples, OfSublists
  <2> QED BY <1>3, <2>1, <2>2 DEF IInv, HeapInv
<1> QED BY <1>5, <1>6, <1>7 DEF IInv

LEMMA DeleteSamplesStep == ASSUME IInv, DeleteSamples PROVE IInv'
<1>1. /\ pc = "samples" /\ pc' = "close" /\ DOMAIN userdata = {}
      /\ UNCHANGED <<reduction_depth, userdata, request>>
  BY DEF DeleteSamples, IInv, SublistsInv
<1>2. heap = {<<"bindings", 0>>, <<"list", 0>>, <<"cells", 0>>, <<"topology", 0>>}
                 \cup {<<"sample", samples.cell[c]>> : c \in 0 .. samples.length - 1}
  <2>1. \A c \in 0 .. samples.length - 1 : samples.cell[c] = c
    BY <1>1 DEF IInv, SamplesInv, HasList
  <2>2. {<<"sample", samples.cell[c]>> : c \in 0 .. samples.length - 1}
            = {<<"sample", i>> : i \in 0 .. samples.length - 1}
    BY <2>1
  <2> QED BY <1>1, <2>2 DEF IInv, HeapInv, OfTopology, OfSamples, OfSublists, HasList
<1>3. heap' = {} /\ fault' = FALSE
  BY <1>2 DEF DeleteSamples, Free, IInv, HeapInv
<1>4. SamplesInv'
  BY <1>1 DEF IInv, SamplesInv, HasList
<1>5. SublistsInv'
  BY <1>1 DEF SublistsInv
<1>6. HeapInv'
  BY <1>1, <1>3 DEF HeapInv, OfTopology, OfSamples, OfSublists, HasList
<1> QED BY <1>4, <1>5, <1>6 DEF IInv

(* The end of a program, by exit or by a crash.                            *)
LEMMA DownStep == ASSUME IInv, Down PROVE IInv'
<1>1. DOMAIN userdata' = {} /\ heap' = {} /\ pc' = "down" /\ fault' = FALSE
  BY DEF Down, IInv, HeapInv
<1>2. SamplesInv'
  BY <1>1, MachineAssumption DEF Down, IInv, SamplesInv, HasList
<1>3. SublistsInv'
  BY <1>1 DEF SublistsInv
<1>4. HeapInv'
  BY <1>1 DEF HeapInv, OfTopology, OfSamples, OfSublists, HasList
<1> QED BY <1>2, <1>3, <1>4 DEF IInv

LEMMA Inductive == IInv /\ [Next]_vars => IInv'
<1> SUFFICES ASSUME IInv, [Next]_vars PROVE IInv'
  OBVIOUS
<1>1. CASE Exit \/ Crash
  BY <1>1, DownStep DEF Exit, Crash
<1> QED BY <1>1, StepOutside, LoadTopologyStep, NewSamplesStep, PushSampleStep, StoreSublistStep,
           DeleteSublistsStep, DeleteSamplesStep DEF Next

LEMMA Invariance == Spec => []IInv
BY InitEstablishes, Inductive, PTL DEF Spec

-----------------------------------------------------------------------------
(* Whatever the machine and the location that is asked for, the sublists   *)
(* that init stores in the objects share out the samples of all PUs.       *)
THEOREM SharesOutSamples == Spec => []EachSampleOnce
<1>1. IInv => EachSampleOnce
  <2> SUFFICES ASSUME IInv, pc = "ready", NEW p \in PUs, NEW o \in ObjectsAt(reduction_depth)
               PROVE  p \in Elements(userdata[o]) <=> ObjectOf[reduction_depth][p] = o
    BY DEF EachSampleOnce, IInv, SublistsInv
  <2> DEFINE below == PUsBelow(reduction_depth, o)
             first == FirstOf(below)
             n     == Cardinality(below)
  <2>1. /\ first \in PUs /\ n \in Nat /\ first + n <= NPUs
        /\ below = first .. first + n - 1
    BY PUsContiguous DEF IInv, SamplesInv
  <2>2. userdata[o] = [start |-> first, length |-> n]
    BY DEF IInv, SublistsInv, SublistOf, SubList
  <2>3. \A c \in first .. first + n - 1 : samples.cell[c] = c
    <3> HIDE DEF first, n, below
    <3>1. samples.length = NPUs /\ \A c \in 0 .. samples.length - 1 : samples.cell[c] = c
      BY DEF IInv, SamplesInv, HasList
    <3> QED BY <2>1, <3>1, MachineAssumption DEF PUs
  <2>4. Elements(userdata[o]) = below
    <3> HIDE DEF first, n, below
    <3> QED BY <2>1, <2>2, <2>3 DEF Elements
  <2> QED BY <2>4 DEF PUsBelow
<1> QED BY <1>1, Invariance, PTL

(* fini frees every block that init has allocated, and none of them twice. *)
THEOREM EverythingGivenBack == Spec => []GivesBack
<1>1. IInv => GivesBack
  <2> SUFFICES ASSUME IInv, pc \in {"close", "closed"} PROVE heap = {}
    BY DEF GivesBack, IInv, HeapInv
  <2>1. DOMAIN userdata = {}
    BY DEF IInv, SublistsInv
  <2> QED BY <2>1 DEF IInv, HeapInv, OfTopology, OfSamples, OfSublists, HasList
<1> QED BY <1>1, Invariance, PTL

-----------------------------------------------------------------------------
(* The file.  What it holds together with what the program has printed     *)
(* begins with the header; a program that appends finds it in the file.    *)
NoSequence  == \A S : Missing \notin Seq(S)  \* Missing is none of the contents of a file
IsSeq(s)    == \E S : s \in Seq(S)
NoHeader(s) == \A i \in 1 .. Len(s) : s[i] # Header
Starts(s)   == Len(s) > 0 /\ \A i \in 1 .. Len(s) : s[i] = Header <=> i = 1

LEMMA Joined ==
    ASSUME NEW a, NEW b, IsSeq(a), IsSeq(b)
    PROVE  /\ IsSeq(a \o b) /\ Len(a) \in Nat /\ Len(b) \in Nat
           /\ Len(a \o b) = Len(a) + Len(b)
           /\ \A i \in 1 .. Len(a) : (a \o b)[i] = a[i]
           /\ \A i \in 1 .. Len(b) : (a \o b)[Len(a) + i] = b[i]
           /\ b = << >> => a \o b = a
           /\ a = << >> => a \o b = b
<1>1. PICK S : a \in Seq(S)
  BY DEF IsSeq
<1>2. PICK T : b \in Seq(T)
  BY DEF IsSeq
<1>3. a \in Seq(S \cup T) /\ b \in Seq(S \cup T)
  BY <1>1, <1>2
<1>4. /\ a \o b \in Seq(S \cup T)
      /\ Len(a \o b) = Len(a) + Len(b)
      /\ \A i \in 1 .. Len(a) + Len(b) : (a \o b)[i] = IF i <= Len(a) THEN a[i] ELSE b[i - Len(a)]
  BY <1>3, ConcatProperties
<1>5. Len(a) \in Nat /\ Len(b) \in Nat
  BY <1>3, LenProperties
<1>6. (b = << >> => a \o b = a) /\ (a = << >> => a \o b = b)
  BY <1>3, ConcatEmptySeq
<1>7. \A i \in 1 .. Len(a) : (a \o b)[i] = a[i]
  BY <1>4, <1>5
<1>8. \A i \in 1 .. Len(b) : (a \o b)[Len(a) + i] = b[i]
  <2> SUFFICES ASSUME NEW i \in 1 .. Len(b) PROVE (a \o b)[Len(a) + i] = b[i]
    OBVIOUS
  <2>1. Len(a) + i \in 1 .. Len(a) + Len(b) /\ ~(Len(a) + i <= Len(a)) /\ (Len(a) + i) - Len(a) = i
    BY <1>5, SMT
  <2> QED BY <1>4, <2>1
<1> QED BY <1>4, <1>5, <1>6, <1>7, <1>8 DEF IsSeq

LEMMA Regrouped ==
    ASSUME NEW a, NEW b, NEW c, IsSeq(a), IsSeq(b), IsSeq(c)
    PROVE  (a \o b) \o c = a \o (b \o c)
<1>1. PICK S : a \in Seq(S)
  BY DEF IsSeq
<1>2. PICK T : b \in Seq(T)
  BY DEF IsSeq
<1>3. PICK U : c \in Seq(U)
  BY DEF IsSeq
<1> DEFINE W == S \cup T \cup U
<1>4. a \in Seq(W) /\ b \in Seq(W) /\ c \in Seq(W)
  BY <1>1, <1>2, <1>3
<1> HIDE DEF W
<1> QED BY <1>4, ConcatAssociative

LEMMA StartsJoined ==
    ASSUME NEW a, NEW b, IsSeq(a), IsSeq(b)
    PROVE  /\ Starts(a) /\ NoHeader(b) => Starts(a \o b)
           /\ Starts(a \o b) /\ Len(a) > 0 => Starts(a)
           /\ NoHeader(a) /\ NoHeader(b) => NoHeader(a \o b)
<1>1. /\ Len(a) \in Nat /\ Len(b) \in Nat
      /\ Len(a \o b) = Len(a) + Len(b)
      /\ \A i \in 1 .. Len(a) : (a \o b)[i] = a[i]
      /\ \A i \in 1 .. Len(b) : (a \o b)[Len(a) + i] = b[i]
  BY Joined
<1>2. \A i \in 1 .. Len(a \o b) : i \in 1 .. Len(a) \/ (i - Len(a) \in 1 .. Len(b) /\ i = Len(a) + (i - Len(a)))
  BY <1>1
<1>3. \A i \in 1 .. Len(a \o b) : \/ i \in 1 .. Len(a) /\ (a \o b)[i] = a[i]
                                  \/ i > Len(a) /\ \E j \in 1 .. Len(b) : (a \o b)[i] = b[j]
  BY <1>1, <1>2
<1>4. Starts(a) /\ NoHeader(b) => Starts(a \o b)
  BY <1>1, <1>3 DEF Starts, NoHeader
<1>5. Starts(a \o b) /\ Len(a) > 0 => Starts(a)
  BY <1>1 DEF Starts
<1>6. NoHeader(a) /\ NoHeader(b) => NoHeader(a \o b)
  BY <1>1, <1>3 DEF NoHeader
<1> QED BY <1>4, <1>5, <1>6

LEMMA Parted ==
    ASSUME NEW a, NEW b, IsSeq(a), IsSeq(b), NEW n \in 1 .. Len(b)
    PROVE  LET p == SubSeq(b, 1, n)
               q == SubSeq(b, n + 1, Len(b))
           IN /\ IsSeq(p) /\ IsSeq(q) /\ (a \o p) \o q = a \o b
              /\ NoHeader(b) => NoHeader(p) /\ NoHeader(q)
<1> DEFINE p == SubSeq(b, 1, n)
           q == SubSeq(b, n + 1, Len(b))
<1>1. PICK S : a \in Seq(S)
  BY DEF IsSeq
<1>2. PICK T : b \in Seq(T)
  BY DEF IsSeq
<1> DEFINE U == S \cup T
<1>3. a \in Seq(U) /\ b \in Seq(U) /\ Len(b) \in Nat
  BY <1>1, <1>2, LenProperties
<1> HIDE DEF U
<1>4. \A i \in 1 .. Len(b) : b[i] \in U
  BY <1>3, ElementOfSeq
<1>5. /\ p \in Seq(U) /\ Len(p) = n
      /\ \A i \in 1 .. n : p[i] = b[i]
  BY <1>3, <1>4
<1>6. /\ q \in Seq(U) /\ Len(q) = Len(b) - n
      /\ \A i \in 1 .. Len(b) - n : q[i] = b[n + i]
  BY <1>3, <1>4
<1>7. p \o q = b
  BY <1>3, <1>5, <1>6
<1>8. (a \o p) \o q = a \o (p \o q)
  <2>1. a \in Seq(U) /\ p \in Seq(U) /\ q \in Seq(U)
    BY <1>3, <1>5, <1>6
  <2> HIDE DEF p, q
  <2> QED BY <2>1, ConcatAssociative
<1>9. NoHeader(b) => NoHeader(p) /\ NoHeader(q)
  BY <1>3, <1>5, <1>6 DEF NoHeader
<1> QED BY <1>5, <1>6, <1>7, <1>8, <1>9 DEF IsSeq

Idle     == {"down", "access", "fopen", "closed"}
Opened   == {"topology", "new", "push", "sublists", "header"}
Printing == {"ready", "samples", "close"}
Writing  == output_file = "file" /\ pc \in Opened \cup Printing
Sound(f) == f = Missing \/ orphan \/ Starts(f)

RunsOK == runs \in Nat /\ (pc # "down" => runs > 0) /\ pc \in Idle \cup Opened \cup Printing
ModeOK ==
    /\ pc = "access" => mode = "a" /\ output_file = "none" /\ ~print_header
    /\ pc = "fopen" => /\ output_file = "none" /\ mode \in {"a", "w+"}
                       /\ print_header <=> mode = "w+"
                       /\ mode = "a" => file # Missing
    /\ pc \in Opened \cup Printing => output_file \in {"stdout", "file"}
    /\ Writing => mode \in {"a", "w+"}
    /\ Writing /\ pc \in Opened => (print_header <=> mode = "w+")
FileOK ==
    /\ file = Missing \/ IsSeq(file)
    /\ IsSeq(buffer)
    /\ pc \in Opened => buffer = << >>
    /\ ~Writing => buffer = << >> /\ Sound(file)
    /\ output_file = "file" => IsSeq(file)
    /\ Writing /\ mode = "a" => orphan \/ (Starts(file) /\ NoHeader(buffer))
    /\ Writing /\ mode = "w+" /\ pc \in Opened => file = << >>
    /\ Writing /\ mode = "w+" /\ pc \in Printing => orphan \/ Starts(file \o buffer)

FileInv == RunsOK /\ ModeOK /\ FileOK

LEMMA EmptyFacts ==
    /\ IsSeq(<< >>) /\ Len(<< >>) = 0 /\ NoHeader(<< >>) /\ ~Starts(<< >>)
    /\ IsSeq(<<Header>>) /\ Starts(<<Header>>)
    /\ IsSeq(<<Other>>) /\ NoHeader(<<Other>>)
    /\ IsSeq(<<Header, Other>>) /\ Starts(<<Header, Other>>)
<1>1. << >> \in Seq({}) /\ Len(<< >>) = 0
  OBVIOUS
<1>2. <<Header>> \in Seq({Header}) /\ Len(<<Header>>) = 1 /\ <<Header>>[1] = Header
  OBVIOUS
<1>3. <<Other>> \in Seq({Other}) /\ Len(<<Other>>) = 1 /\ <<Other>>[1] = Other
  OBVIOUS
<1>4. /\ <<Header, Other>> \in Seq({Header, Other}) /\ Len(<<Header, Other>>) = 2
      /\ <<Header, Other>>[1] = Header /\ <<Header, Other>>[2] = Other
  OBVIOUS
<1>5. Header # Other
  BY DEF Header, Other
<1> HIDE DEF Header, Other
<1>6. \A n \in 1 .. 2 : n = 1 \/ n = 2
  OBVIOUS
<1>7. \A n \in 1 .. 1 : n = 1
  OBVIOUS
<1>8. Starts(<<Header, Other>>)
  BY <1>4, <1>5, <1>6 DEF Starts
<1>9. Starts(<<Header>>)
  BY <1>2, <1>7 DEF Starts
<1>10. NoHeader(<<Other>>)
  BY <1>3, <1>5, <1>7 DEF NoHeader
<1> QED BY <1>1, <1>2, <1>3, <1>4, <1>8, <1>9, <1>10 DEF IsSeq, Starts, NoHeader

(* Steps that leave the file, what is printed and the mode alone.          *)
LEMMA FileKept ==
    ASSUME FileInv, UNCHANGED <<file, runs, mode, print_header, output_file, buffer, orphan>>,
           \/ pc' = pc
           \/ pc \in Opened /\ pc' \in Opened
           \/ pc \in Printing /\ pc' \in Printing
    PROVE  FileInv'
BY DEF FileInv, RunsOK, ModeOK, FileOK, Writing, Sound, Idle, Opened, Printing, Starts, NoHeader, Header

LEMMA FileInit == Init => FileInv
<1> SUFFICES ASSUME Init PROVE FileInv
  OBVIOUS
<1>1. file = Missing \/ (file = << >> /\ orphan)
  BY DEF Init
<1> QED BY <1>1, EmptyFacts
        DEF Init, FileInv, RunsOK, ModeOK, FileOK, Writing, Sound, Idle, Opened, Printing

LEMMA CallInitFile == ASSUME FileInv, NEW r \in Requests, CallInit(r) PROVE FileInv'
<1>1. pc \in {"down", "closed"} /\ pc' = "access" /\ UNCHANGED <<file, buffer, orphan>>
  BY DEF CallInit, history
<1>2. buffer = << >> /\ Sound(file)
  BY <1>1 DEF FileInv, FileOK, Writing, Opened, Printing
<1>3. RunsOK'
  BY <1>1 DEF CallInit, FileInv, RunsOK, Idle
<1>4. ModeOK'
  BY <1>1 DEF CallInit, ModeOK, Writing, Opened, Printing
<1>5. FileOK'
  BY <1>1, <1>2 DEF CallInit, FileInv, FileOK, Writing, Opened, Printing, Sound, Starts, Header
<1> QED BY <1>3, <1>4, <1>5 DEF FileInv

LEMMA AccessFile == ASSUME FileInv, Access PROVE FileInv'
<1>1. /\ pc = "access" /\ pc' \in {"topology", "fopen"} /\ UNCHANGED <<file, buffer, orphan, runs>>
      /\ mode = "a" /\ output_file = "none" /\ ~print_header
  BY DEF Access, history, FileInv, ModeOK
<1>2. buffer = << >> /\ Sound(file)
  BY <1>1 DEF FileInv, FileOK, Writing, Opened, Printing
<1>3. RunsOK'
  BY <1>1 DEF FileInv, RunsOK, Idle, Opened
<1>4. ~Writing'
  BY <1>1 DEF Access, Writing, Opened, Printing
<1>5. ModeOK'
  BY <1>1, <1>4 DEF Access, NewFile, ModeOK, Opened, Printing
<1>6. output_file' # "file" /\ (pc' \in Opened => buffer' = << >>)
  BY <1>1, <1>2 DEF Access
<1>7. FileOK'
  BY <1>1, <1>2, <1>4, <1>6 DEF FileInv, FileOK, Sound, Starts, Header
<1> QED BY <1>3, <1>5, <1>7 DEF FileInv

LEMMA FopenFile == ASSUME FileInv, Fopen PROVE FileInv'
<1>1. /\ pc = "fopen" /\ pc' = "topology" /\ output_file' = "file"
      /\ UNCHANGED <<mode, print_header, buffer, runs>>
      /\ mode \in {"a", "w+"} /\ (print_header <=> mode = "w+")
      /\ buffer = << >> /\ Sound(file)
  BY DEF Fopen, FileInv, ModeOK, FileOK, Writing, Opened, Printing
<1>2. RunsOK' /\ ModeOK'
  BY <1>1 DEF FileInv, RunsOK, ModeOK, Writing, Idle, Opened, Printing
<1>3. CASE mode = "w+"
  <2>1. file' = << >>
    BY <1>3 DEF Fopen
  <2>2. FileOK'
    BY <1>1, <1>3, <2>1, EmptyFacts DEF FileOK, Writing, Opened, Printing
  <2> QED BY <1>2, <2>2 DEF FileInv
<1>4. CASE mode = "a"
  <2>1. file # Missing /\ file' = file /\ (orphan' <=> orphan) /\ IsSeq(file)
    BY <1>1, <1>4 DEF Fopen, Content, FileInv, ModeOK, FileOK
  <2>2. FileOK'
    BY <1>1, <1>4, <2>1, EmptyFacts
       DEF FileOK, Sound, Writing, Opened, Printing, Starts, NoHeader, Header
  <2> QED BY <1>2, <2>2 DEF FileInv
<1> QED BY <1>1, <1>3, <1>4

LEMMA PrintHeaderFile == ASSUME FileInv, PrintHeader PROVE FileInv'
<1>1. /\ pc = "header" /\ pc' = "ready" /\ buffer = << >>
      /\ UNCHANGED <<file, runs, mode, print_header, output_file, orphan>>
  BY DEF PrintHeader, output, history, FileInv, FileOK, Opened
<1>2. RunsOK' /\ ModeOK' /\ Writing' = Writing
  BY <1>1 DEF FileInv, RunsOK, ModeOK, Writing, Idle, Opened, Printing
<1>3. CASE Writing /\ mode = "w+"
  <2>1. file = << >> /\ buffer' = <<Header>>
    BY <1>1, <1>3 DEF PrintHeader, FileInv, ModeOK, FileOK, Writing, Opened
  <2>2. file' \o buffer' = buffer'
    BY <1>1, <2>1, EmptyFacts, Joined
  <2>3. FileOK'
    BY <1>1, <1>2, <1>3, <2>1, <2>2, EmptyFacts DEF FileOK, Opened, Starts, Header
  <2> QED BY <1>2, <2>3 DEF FileInv
<1>4. CASE ~(Writing /\ mode = "w+")
  <2>1. buffer' = << >>
    BY <1>1, <1>4 DEF PrintHeader, FileInv, ModeOK, Writing, Opened
  <2>2. FileOK'
    BY <1>1, <1>2, <1>4, <2>1 DEF FileInv, FileOK, Sound, Opened, Starts, NoHeader, Header
  <2> QED BY <1>2, <2>2 DEF FileInv
<1> QED BY <1>3, <1>4

LEMMA ObjectsFinite == ASSUME NEW d PROVE IsFiniteSet(ObjectsAt(d))
<1>1. IsFiniteSet(PUs)
  <2>1. 0 \in Int /\ NPUs - 1 \in Int
    BY MachineAssumption
  <2> QED BY <2>1, FS_Interval DEF PUs
<1> DEFINE f == [p \in PUs |-> ObjectOf[d][p]]
<1>2. f \in Surjection(PUs, ObjectsAt(d))
  BY DEF Surjection, ObjectsAt
<1> QED BY <1>1, <1>2, FS_Surjection

LEMMA RegionFile == ASSUME FileInv, Region PROVE FileInv'
<1>1. /\ pc = "ready" /\ pc' = "ready"
      /\ UNCHANGED <<file, runs, mode, print_header, output_file, orphan>>
  BY DEF Region, output, history
<1>2. RunsOK' /\ ModeOK' /\ Writing' = Writing
  BY <1>1 DEF FileInv, RunsOK, ModeOK, Writing, Idle, Opened, Printing
<1>3. CASE output_file # "file"
  BY <1>1, <1>3, FileKept DEF Region
<1>4. CASE output_file = "file"
  <2> DEFINE lines == LinesOf(regions')
  <2>1. IsSeq(lines) /\ NoHeader(lines)
    <3> DEFINE objects == Ascending(ObjectsAt(reduction_depth))
               n       == Cardinality(ObjectsAt(reduction_depth))
    <3>1. runs > 0 /\ runs \in Nat
      BY <1>1 DEF FileInv, RunsOK
    <3>2. n \in Nat /\ reduction_depth' = reduction_depth
      BY ObjectsFinite, FS_CardinalityType DEF Region, memory
    <3>3. lines = [j \in 1 .. n |-> <<runs, regions', objects[j]>>]
      BY DEF LinesOf, Line
    <3> HIDE DEF lines, n, objects
    <3> DEFINE S == {lines[j] : j \in 1 .. n}
    <3>4. lines \in Seq(S) /\ Len(lines) = n
      <4>1. lines \in [1 .. n -> S]
        BY <3>3
      <4> HIDE DEF S
      <4> QED BY <3>2, <4>1
    <3>5. \A j \in 1 .. n : lines[j] # Header
      BY <3>1, <3>3 DEF Header
    <3> QED BY <3>4, <3>5 DEF IsSeq, NoHeader
  <2>2. buffer' = buffer \o lines
    BY <1>4 DEF Region
  <2> HIDE DEF lines
  <2>3. IsSeq(file) /\ IsSeq(buffer) /\ Writing
    BY <1>1, <1>4 DEF FileInv, FileOK, Writing, Printing
  <2>4. IsSeq(file \o buffer) /\ IsSeq(buffer \o lines)
    BY <2>1, <2>3, Joined
  <2>5. (file \o buffer) \o lines = file \o (buffer \o lines)
    BY <2>1, <2>3, Regrouped
  <2>6. Starts(file \o buffer) => Starts(file \o (buffer \o lines))
    BY <2>1, <2>4, <2>5, StartsJoined
  <2>7. NoHeader(buffer) => NoHeader(buffer \o lines)
    BY <2>1, <2>3, StartsJoined
  <2>8. mode = "w+" => (orphan \/ Starts(file \o buffer))'
    BY <1>1, <2>2, <2>3, <2>6 DEF FileInv, FileOK, Printing
  <2>9. mode = "a" => (orphan \/ (Starts(file) /\ NoHeader(buffer)))'
    BY <1>1, <2>2, <2>3, <2>7 DEF FileInv, FileOK, Starts, Header
  <2>10. FileOK'
    BY <1>1, <1>2, <2>2, <2>3, <2>4, <2>8, <2>9 DEF FileOK, Opened
  <2> QED BY <1>2, <2>10 DEF FileInv
<1> QED BY <1>3, <1>4

LEMMA FlushFile == ASSUME FileInv, Flush PROVE FileInv'
<1>1. PICK n \in 1 .. Len(buffer) :
          /\ file' = file \o SubSeq(buffer, 1, n)
          /\ buffer' = SubSeq(buffer, n + 1, Len(buffer))
  BY DEF Flush
<1>2. UNCHANGED <<runs, mode, print_header, output_file, orphan, pc>>
  BY DEF Flush, output, history
<1>3. buffer # << >>
  BY <1>1, EmptyFacts
<1>4. Writing /\ pc \in Printing /\ IsSeq(file) /\ IsSeq(buffer)
  BY <1>3 DEF FileInv, FileOK, Writing
<1>5. /\ IsSeq(SubSeq(buffer, 1, n)) /\ IsSeq(buffer')
      /\ file' \o buffer' = file \o buffer
      /\ NoHeader(buffer) => NoHeader(SubSeq(buffer, 1, n)) /\ NoHeader(buffer')
  BY <1>1, <1>4, Parted
<1>6. IsSeq(file') /\ (Starts(file) /\ NoHeader(buffer) => Starts(file'))
  BY <1>1, <1>4, <1>5, Joined, StartsJoined
<1>7. RunsOK' /\ Writing' = Writing
  BY <1>2 DEF FileInv, RunsOK, Writing
<1>8. ModeOK'
  BY <1>2, <1>4, <1>7 DEF FileInv, ModeOK, Writing, Opened, Printing
<1>9. FileOK'
  BY <1>2, <1>4, <1>5, <1>6, <1>7 DEF FileInv, FileOK, Opened, Printing, Starts, NoHeader, Header
<1> QED BY <1>7, <1>8, <1>9 DEF FileInv

LEMMA CloseOutputFile == ASSUME FileInv, CloseOutput PROVE FileInv'
<1>1. /\ pc = "close" /\ pc' = "closed" /\ file' = Written /\ buffer' = << >>
      /\ UNCHANGED <<runs, orphan, output_file>>
  BY DEF CloseOutput, output
<1>2. ~Writing'
  BY <1>1 DEF Writing, Opened, Printing
<1>3. RunsOK' /\ ModeOK'
  BY <1>1, <1>2 DEF FileInv, RunsOK, ModeOK, Idle, Opened, Printing
<1>4. CASE Writing
  <2>1. IsSeq(file) /\ IsSeq(buffer) /\ IsSeq(file') /\ file' = file \o buffer
    BY <1>1, <1>4, Joined DEF Written, Writing, FileInv, FileOK
  <2>2. orphan \/ Starts(file')
    BY <1>1, <1>4, <2>1, StartsJoined DEF FileInv, ModeOK, FileOK, Printing
  <2>3. FileOK'
    BY <1>1, <1>2, <2>1, <2>2, EmptyFacts DEF FileOK, Sound, Opened, Starts, Header
  <2> QED BY <1>3, <2>3 DEF FileInv
<1>5. CASE ~Writing
  <2>1. file' = file /\ output_file # "file"
    BY <1>1, <1>5 DEF Written, Writing, Printing
  <2>2. FileOK'
    BY <1>1, <1>2, <1>5, <2>1, EmptyFacts DEF FileInv, FileOK, Sound, Opened, Starts, Header
  <2> QED BY <1>3, <2>2 DEF FileInv
<1> QED BY <1>4, <1>5

(* A program that ends leaves a sound file: what it has printed is in the  *)
(* file, or the file was sound without it, or it is empty.                 *)
LEMMA EndFile ==
    ASSUME FileInv, Down, file' = Missing \/ IsSeq(file'), Sound(file)' PROVE FileInv'
<1>1. pc' = "down" /\ buffer' = << >> /\ runs' = runs /\ output_file' = "none"
  BY DEF Down
<1>2. RunsOK' /\ ModeOK' /\ ~Writing'
  BY <1>1 DEF FileInv, RunsOK, ModeOK, Writing, Idle, Opened, Printing
<1>3. FileOK'
  BY <1>1, <1>2, EmptyFacts DEF FileOK, Opened
<1> QED BY <1>2, <1>3 DEF FileInv

LEMMA ExitFile == ASSUME FileInv, Exit PROVE FileInv'
<1>1. /\ pc \in {"fopen", "topology", "ready", "closed"} /\ Down
      /\ file' = Written /\ (orphan' <=> orphan \/ Written = << >>)
  BY DEF Exit
<1>2. CASE Writing
  <2>1. IsSeq(file) /\ IsSeq(buffer) /\ file' = file \o buffer
    BY <1>1, <1>2 DEF Written, Writing, FileInv, FileOK
  <2>2. IsSeq(file')
    BY <2>1, Joined
  <2>3. CASE pc = "ready"
    <3>1. orphan \/ Starts(file')
      BY <1>2, <2>1, <2>3, StartsJoined DEF FileInv, ModeOK, FileOK, Printing
    <3>2. Sound(file)'
      BY <1>1, <3>1 DEF Sound, Starts, Header
    <3> QED BY <1>1, <2>2, <3>2, EndFile
  <2>4. CASE pc = "topology"
    <3>1. file' = file
      BY <2>1, <2>4, Joined DEF FileInv, FileOK, Opened
    <3>2. orphan \/ Starts(file) \/ file = << >>
      BY <1>2, <2>4 DEF FileInv, ModeOK, FileOK, Opened
    <3>3. Sound(file)'
      BY <1>1, <3>1, <3>2 DEF Sound, Starts, Header
    <3> QED BY <1>1, <2>2, <3>3, EndFile
  <2> QED BY <1>1, <1>2, <2>3, <2>4 DEF Writing, Opened, Printing
<1>3. CASE ~Writing
  <2>1. buffer = << >> /\ Sound(file) /\ (file = Missing \/ IsSeq(file))
    BY <1>3 DEF FileInv, FileOK
  <2>2. CASE output_file # "file"
    <3>1. file' = file
      BY <1>1, <2>2 DEF Written
    <3>2. Sound(file)'
      BY <1>1, <2>1, <3>1 DEF Sound, Starts, Header
    <3> QED BY <1>1, <2>1, <3>1, <3>2, EndFile
  <2>3. CASE output_file = "file"
    <3>1. file' = file
      BY <1>1, <2>1, <2>3, EmptyFacts, Joined DEF Written, FileInv, FileOK
    <3>2. Sound(file)'
      BY <1>1, <2>1, <3>1 DEF Sound, Starts, Header
    <3> QED BY <1>1, <2>1, <3>1, <3>2, EndFile
  <2> QED BY <2>2, <2>3
<1> QED BY <1>2, <1>3

LEMMA CrashFile == ASSUME FileInv, Crash PROVE FileInv'
<1>1. Down /\ file' = file /\ (orphan' <=> orphan \/ file = << >>)
  BY DEF Crash
<1>2. file = Missing \/ IsSeq(file)
  BY DEF FileInv, FileOK
<1>3. CASE Writing /\ mode = "w+" /\ pc \in Printing
  <2>1. IsSeq(file) /\ IsSeq(buffer) /\ (orphan \/ Starts(file \o buffer))
    BY <1>3 DEF FileInv, FileOK, Writing
  <2>2. orphan \/ Starts(file) \/ Len(file) = 0
    <3>1. Len(file) \in Nat
      BY <2>1, Joined
    <3> QED BY <2>1, <3>1, StartsJoined
  <2>3. Len(file) = 0 => file = << >>
    <3>1. PICK S : file \in Seq(S)
      BY <2>1 DEF IsSeq
    <3> QED BY <3>1, EmptySeq
  <2>4. Sound(file)'
    BY <1>1, <2>2, <2>3 DEF Sound, Starts, Header
  <2> QED BY <1>1, <1>2, <2>4, EndFile
<1>4. CASE ~(Writing /\ mode = "w+" /\ pc \in Printing)
  <2>1. Sound(file) \/ file = << >>
    BY <1>4 DEF FileInv, FileOK, ModeOK, Sound, Writing
  <2>2. Sound(file)'
    BY <1>1, <2>1 DEF Sound, Starts, Header
  <2> QED BY <1>1, <1>2, <2>2, EndFile
<1> QED BY <1>3, <1>4

LEMMA OtherProgramFile == ASSUME NoSequence, FileInv, OtherProgram PROVE FileInv'
<1>1. /\ UNCHANGED <<runs, mode, print_header, output_file, buffer, orphan, pc>>
      /\ output_file = "file" /\ pc # "closed" => mode = "a"
  BY DEF OtherProgram, output
<1>2. /\ file = Missing => file' = <<Header, Other>>
      /\ file # Missing => file' = file \o <<Other>>
  BY DEF OtherProgram
<1>3. IsSeq(file') /\ (file = Missing \/ Starts(file) => Starts(file'))
  <2>1. CASE file = Missing
    BY <1>2, <2>1, EmptyFacts
  <2>2. CASE file # Missing
    <3>1. IsSeq(file) /\ IsSeq(<<Other>>) /\ NoHeader(<<Other>>) /\ file' = file \o <<Other>>
      BY <1>2, <2>2, EmptyFacts DEF FileInv, FileOK
    <3> QED BY <2>2, <3>1, Joined, StartsJoined
  <2> QED BY <2>1, <2>2
<1>4. RunsOK' /\ Writing' = Writing /\ (Writing => mode = "a")
  BY <1>1 DEF FileInv, RunsOK, Writing, Idle, Opened, Printing
<1>5. ModeOK'
  <2>1. file' # Missing
    BY <1>3 DEF IsSeq, NoSequence
  <2> QED BY <1>1, <1>4, <2>1 DEF FileInv, ModeOK
<1>6. FileOK'
  BY <1>1, <1>3, <1>4 DEF FileInv, FileOK, Sound, Starts, NoHeader, Header
<1> QED BY <1>4, <1>5, <1>6 DEF FileInv

LEMMA FileInductive == NoSequence /\ FileInv /\ [Next]_vars => FileInv'
<1> SUFFICES ASSUME NoSequence, FileInv, [Next]_vars PROVE FileInv'
  OBVIOUS
<1>1. CASE UNCHANGED vars
  BY <1>1, FileKept DEF vars, output, history
<1>2. CASE LoadTopology \/ NewSamples \/ PushSample \/ StoreSublist
  BY <1>2, FileKept DEF LoadTopology, NewSamples, PushSample, StoreSublist, output, history, Opened
<1>3. CASE DeleteSublists \/ DeleteSamples
  BY <1>3, FileKept DEF DeleteSublists, DeleteSamples, output, history, Printing
<1> QED BY <1>1, <1>2, <1>3, CallInitFile, AccessFile, FopenFile, PrintHeaderFile, RegionFile,
           FlushFile, CloseOutputFile, ExitFile, CrashFile, OtherProgramFile DEF Next

(* Whatever programs follow each other, and whichever way they end, the    *)
(* file begins with its header and has it once.                            *)
THEOREM OneHeader == ASSUME NoSequence PROVE Spec => []HeaderFirst
<1>1. FileInv => HeaderFirst
  <2> SUFFICES ASSUME FileInv, pc \in {"down", "closed"}, file # Missing, ~orphan
               PROVE  /\ file # << >>
                      /\ \A i \in DOMAIN file : file[i] = Header <=> i = 1
    BY DEF HeaderFirst
  <2>1. Starts(file) /\ IsSeq(file)
    BY DEF FileInv, FileOK, Sound, Writing, Opened, Printing
  <2>2. DOMAIN file = 1 .. Len(file)
    <3>1. PICK S : file \in Seq(S)
      BY <2>1 DEF IsSeq
    <3> QED BY <3>1, LenProperties
  <2> QED BY <2>1, <2>2, EmptyFacts DEF Starts
<1> QED BY <1>1, FileInit, FileInductive, PTL DEF Spec

-----------------------------------------------------------------------------
(* The lines.  Those of one program stand in the order of their regions,   *)
(* and within a region in the order of the objects, in the file and the    *)
(* buffer together; so none of them is there twice.                        *)
Entries(s)    == {s[i] : i \in 1 .. Len(s)}
Before(x, y)  == x[2] < y[2] \/ (x[2] = y[2] /\ x[3] < y[3])
Follows(X, Y) == \A x \in X, y \in Y : x[1] = y[1] => Before(x, y)
Ordered(s)    == \A i, j \in 1 .. Len(s) : i < j /\ s[i][1] = s[j][1] => Before(s[i], s[j])
Everything    == Content \o buffer

(* Which entries there are: no line of a region still to come.             *)
EntryOK(x) ==
    /\ x \in Nat \X Nat \X Nat /\ x[1] <= runs
    /\ x[1] = 0 => x \in {Header, Other}
    /\ pc \notin {"down", "closed"} /\ x[1] = runs => x[2] <= regions
LinesPrinted == pc \in Printing /\ output_file = "file" =>
    \A g \in 1 .. regions, o \in ObjectsAt(reduction_depth) : Line(g, o) \in Entries(Everything)
KeptInv ==
    /\ regions \in Nat /\ Ordered(Everything)
    /\ \A x \in Entries(Everything) : EntryOK(x)
    /\ \A x \in Entries(buffer) : x[1] = runs \/ (mode = "w+" /\ x = Header)
    /\ Other \in Entries(Content) => Other \in promised
    /\ promised \subseteq Entries(Content)
    /\ LinesPrinted
    /\ pc = "fopen" => IF mode = "w+" THEN request.append => file = Missing ELSE request.append
    /\ pc \in {"access", "fopen"} \cup Opened => regions = 0

LEMMA OrderedJoined ==
    ASSUME NEW a, NEW b, IsSeq(a), IsSeq(b)
    PROVE  /\ Entries(a \o b) = Entries(a) \cup Entries(b)
           /\ Ordered(a \o b) <=> Ordered(a) /\ Ordered(b) /\ Follows(Entries(a), Entries(b))
<1> DEFINE c == a \o b
           m == Len(a)
           n == Len(b)
<1>1. /\ m \in Nat /\ n \in Nat /\ Len(c) = m + n
      /\ \A i \in 1 .. m : c[i] = a[i]
      /\ \A i \in 1 .. n : c[m + i] = b[i]
  BY Joined
<1> HIDE DEF c, m, n
<1>2. \A i \in 1 .. m + n : i \in 1 .. m \/ \E j \in 1 .. n : i = m + j
  <2> SUFFICES ASSUME NEW i \in 1 .. m + n, i \notin 1 .. m PROVE \E j \in 1 .. n : i = m + j
    OBVIOUS
  <2>1. i - m \in 1 .. n /\ i = m + (i - m)
    BY <1>1
  <2> QED BY <2>1
<1>3. \A i \in 1 .. m : i \in 1 .. m + n
  BY <1>1
<1>4. \A j \in 1 .. n : m + j \in 1 .. m + n
  BY <1>1
<1>5. Entries(c) = Entries(a) \cup Entries(b)
  <2>1. Entries(c) = {c[i] : i \in 1 .. m + n} /\ Entries(a) = {a[i] : i \in 1 .. m}
        /\ Entries(b) = {b[i] : i \in 1 .. n}
    BY <1>1 DEF Entries, m, n
  <2>2. ASSUME NEW i \in 1 .. m + n PROVE c[i] \in Entries(a) \cup Entries(b)
    <3>1. CASE i \in 1 .. m
      BY <1>1, <2>1, <3>1
    <3>2. CASE i \notin 1 .. m
      <4>1. PICK j \in 1 .. n : i = m + j
        BY <1>2, <3>2
      <4>2. c[i] = b[j]
        BY <1>1, <4>1
      <4> QED BY <2>1, <4>2
    <3> QED BY <3>1, <3>2
  <2>3. ASSUME NEW x \in Entries(a) \cup Entries(b) PROVE \E i \in 1 .. m + n : x = c[i]
    BY <1>1, <1>3, <1>4, <2>1
  <2> QED BY <2>1, <2>2, <2>3
<1>6. ASSUME Ordered(c) PROVE Ordered(a) /\ Ordered(b) /\ Follows(Entries(a), Entries(b))
  <2>0. \A i, j \in 1 .. m + n : i < j /\ c[i][1] = c[j][1] => Before(c[i], c[j])
    BY <1>1, <1>6 DEF Ordered
  <2>1. Ordered(a)
    BY <1>1, <1>3, <2>0 DEF Ordered, m
  <2>2. Ordered(b)
    <3> SUFFICES ASSUME NEW i \in 1 .. n, NEW j \in 1 .. n, i < j, b[i][1] = b[j][1]
                 PROVE  Before(b[i], b[j])
      BY DEF Ordered, n
    <3>1. m + i < m + j /\ m + i \in 1 .. m + n /\ m + j \in 1 .. m + n
      BY <1>1
    <3>2. c[m + i] = b[i] /\ c[m + j] = b[j]
      BY <1>1
    <3> QED BY <2>0, <3>1, <3>2
  <2>3. Follows(Entries(a), Entries(b))
    <3> SUFFICES ASSUME NEW i \in 1 .. m, NEW j \in 1 .. n, a[i][1] = b[j][1]
                 PROVE  Before(a[i], b[j])
      BY DEF Follows, Entries, m, n
    <3>1. i < m + j /\ i \in 1 .. m + n /\ m + j \in 1 .. m + n
      BY <1>1
    <3>2. c[i] = a[i] /\ c[m + j] = b[j]
      BY <1>1
    <3> QED BY <2>0, <3>1, <3>2
  <2> QED BY <2>1, <2>2, <2>3
<1>7. ASSUME Ordered(a), Ordered(b), Follows(Entries(a), Entries(b)) PROVE Ordered(c)
  <2> SUFFICES ASSUME NEW i \in 1 .. m + n, NEW j \in 1 .. m + n, i < j, c[i][1] = c[j][1]
               PROVE  Before(c[i], c[j])
    BY <1>1 DEF Ordered
  <2>1. CASE i \in 1 .. m /\ j \in 1 .. m
    BY <1>1, <1>7, <2>1 DEF Ordered, m
  <2>2. CASE i \in 1 .. m /\ j \notin 1 .. m
    <3>1. PICK l \in 1 .. n : j = m + l
      BY <1>2, <2>2
    <3>2. c[i] = a[i] /\ c[j] = b[l]
      BY <1>1, <2>2, <3>1
    <3>3. a[i] \in Entries(a) /\ b[l] \in Entries(b)
      BY <2>2 DEF Entries, m, n
    <3> QED BY <1>7, <3>2, <3>3 DEF Follows
  <2>3. CASE i \notin 1 .. m
    <3>1. PICK l \in 1 .. n : i = m + l
      BY <1>2, <2>3
    <3>2. j \notin 1 .. m
      BY <1>1, <3>1
    <3>3. PICK r \in 1 .. n : j = m + r
      BY <1>2, <3>2
    <3>4. l < r /\ c[i] = b[l] /\ c[j] = b[r]
      BY <1>1, <3>1, <3>3
    <3> QED BY <1>7, <3>4 DEF Ordered, n
  <2> QED BY <2>1, <2>2, <2>3
<1> QED BY <1>5, <1>6, <1>7 DEF c

LEMMA SmallOrdered ==
    /\ Entries(<< >>) = {} /\ Ordered(<< >>)
    /\ \A x : Entries(<<x>>) = {x} /\ Ordered(<<x>>) /\ IsSeq(<<x>>)
    /\ Entries(<<Header, Other>>) = {Header, Other} /\ Ordered(<<Header, Other>>)
    /\ Header # Other /\ Header \in Nat \X Nat \X Nat /\ Other \in Nat \X Nat \X Nat
    /\ Header[1] = 0 /\ Other[1] = 0 /\ Before(Header, Other)
<1>1. \A x : IsSeq(<<x>>)
  <2> SUFFICES ASSUME NEW x PROVE IsSeq(<<x>>)
    OBVIOUS
  <2>1. <<x>> \in Seq({x})
    OBVIOUS
  <2> QED BY <2>1 DEF IsSeq
<1>2. \A x : Entries(<<x>>) = {x} /\ Ordered(<<x>>)
  BY DEF Entries, Ordered
<1>3. Header # Other /\ Header[1] = 0 /\ Other[1] = 0 /\ Before(Header, Other)
      /\ Header \in Nat \X Nat \X Nat /\ Other \in Nat \X Nat \X Nat
  BY DEF Header, Other, Before
<1>4. Entries(<<Header, Other>>) = {Header, Other}
  BY DEF Entries
<1>5. Ordered(<<Header, Other>>)
  <2> HIDE DEF Header, Other
  <2> QED BY <1>3 DEF Ordered
<1>6. Entries(<< >>) = {} /\ Ordered(<< >>)
  BY DEF Entries, Ordered
<1> QED BY <1>1, <1>2, <1>3, <1>4, <1>5, <1>6

(* The entries are those of the file and those of the buffer.              *)
LEMMA EntriesFacts ==
    ASSUME NoSequence, FileInv
    PROVE  /\ IsSeq(Content) /\ IsSeq(buffer) /\ IsSeq(Everything)
           /\ IsSeq(file) => file # Missing /\ Content = file
           /\ Entries(Everything) = Entries(Content) \cup Entries(buffer)
           /\ Ordered(Everything) <=> /\ Ordered(Content) /\ Ordered(buffer)
                                      /\ Follows(Entries(Content), Entries(buffer))
           /\ buffer = << >> => Everything = Content
           /\ buffer # << >> => Writing /\ pc \in Printing
<1>1. IsSeq(Content) /\ IsSeq(buffer)
  BY EmptyFacts DEF Content, FileInv, FileOK
<1>2. IsSeq(file) => file # Missing /\ Content = file
  BY DEF NoSequence, IsSeq, Content
<1>3. IsSeq(Everything) /\ (buffer = << >> => Everything = Content)
  BY <1>1, Joined DEF Everything
<1>4. /\ Entries(Everything) = Entries(Content) \cup Entries(buffer)
      /\ Ordered(Everything) <=> /\ Ordered(Content) /\ Ordered(buffer)
                                 /\ Follows(Entries(Content), Entries(buffer))
  BY <1>1, OrderedJoined DEF Everything
<1>5. buffer # << >> => Writing /\ pc \in Printing
  BY DEF FileInv, FileOK, Writing
<1> QED BY <1>1, <1>2, <1>3, <1>4, <1>5

(* Steps that print nothing and leave the file alone.                      *)
LEMMA LinesKept ==
    ASSUME KeptInv, UNCHANGED <<file, runs, request, mode, output_file, buffer, regions, promised>>,
           \/ pc' = pc /\ (pc \in Printing => reduction_depth' = reduction_depth)
           \/ pc \in Opened /\ pc' \in Opened
           \/ pc \in Printing /\ pc' \in Printing /\ reduction_depth' = reduction_depth
    PROVE  KeptInv'
<1>1. Content' = Content /\ Everything' = Everything
  BY DEF Content, Everything
<1>2. (regions \in Nat /\ Ordered(Everything))'
  BY <1>1 DEF KeptInv, Ordered, Before
<1>3. (\A x \in Entries(Everything) : EntryOK(x))'
  BY <1>1 DEF KeptInv, EntryOK, Entries, Header, Other, Opened, Printing
<1>4. LinesPrinted'
  <2>1. pc' \in Printing => pc \in Printing /\ reduction_depth' = reduction_depth
    BY DEF Opened, Printing
  <2> QED BY <1>1, <2>1 DEF KeptInv, LinesPrinted, Line, ObjectsAt, Entries, Printing
<1>5. (/\ \A x \in Entries(buffer) : x[1] = runs \/ (mode = "w+" /\ x = Header)
       /\ Other \in Entries(Content) => Other \in promised
       /\ promised \subseteq Entries(Content))'
  BY <1>1 DEF KeptInv, Entries, Header, Other
<1>6. (/\ pc = "fopen" => IF mode = "w+" THEN request.append => file = Missing ELSE request.append
       /\ pc \in {"access", "fopen"} \cup Opened => regions = 0)'
  BY DEF KeptInv, Opened, Printing
<1> QED BY <1>2, <1>3, <1>4, <1>5, <1>6 DEF KeptInv

LEMMA InitKept == Init => KeptInv
<1> SUFFICES ASSUME Init PROVE KeptInv
  OBVIOUS
<1>1. Content = << >> /\ buffer = << >>
  BY DEF Init, Content
<1>2. Everything = << >>
  BY <1>1, EmptyFacts, Joined DEF Everything
<1> QED BY <1>1, <1>2, SmallOrdered DEF Init, KeptInv, LinesPrinted, Printing, Opened

LEMMA CallInitKept ==
    ASSUME NoSequence, FileInv, KeptInv, NEW r \in Requests, CallInit(r) PROVE KeptInv'
<1>1. /\ pc' = "access" /\ runs' = runs + 1 /\ regions' = 0 /\ UNCHANGED <<file, buffer, promised>>
      /\ pc \in {"down", "closed"}
  BY DEF CallInit, history
<1>2. buffer = << >> /\ runs \in Nat
  BY <1>1 DEF FileInv, FileOK, RunsOK, Writing, Opened, Printing
<1>3. Content' = Content /\ Everything' = Everything
  BY <1>1 DEF Content, Everything
<1>4. Ordered(Everything)'
  BY <1>3 DEF KeptInv, Ordered, Before
<1>5. (\A x \in Entries(Everything) : EntryOK(x))'
  <2> SUFFICES ASSUME NEW x \in Entries(Everything) PROVE EntryOK(x)'
    BY <1>3 DEF Entries
  <2>1. x \in Nat \X Nat \X Nat /\ x[1] <= runs /\ (x[1] = 0 => x \in {Header, Other})
    BY DEF KeptInv, EntryOK
  <2>2. x[1] <= runs' /\ x[1] # runs'
    BY <1>1, <1>2, <2>1
  <2> QED BY <2>1, <2>2 DEF EntryOK, Header, Other
<1>6. (/\ \A x \in Entries(buffer) : x[1] = runs \/ (mode = "w+" /\ x = Header)
       /\ Other \in Entries(Content) => Other \in promised
       /\ promised \subseteq Entries(Content))'
  BY <1>1, <1>2, <1>3, SmallOrdered DEF KeptInv, Entries, Other
<1> QED BY <1>1, <1>4, <1>5, <1>6 DEF KeptInv, LinesPrinted, Printing, Opened

LEMMA AccessKept == ASSUME NoSequence, FileInv, KeptInv, Access PROVE KeptInv'
<1>1. /\ pc = "access" /\ pc' \in {"topology", "fopen"} /\ mode = "a"
      /\ UNCHANGED <<file, buffer, runs, request, regions, promised>>
  BY DEF Access, history, FileInv, ModeOK
<1>2. buffer = << >>
  BY <1>1 DEF FileInv, FileOK, Writing, Opened, Printing
<1>3. Content' = Content /\ Everything' = Everything
  BY <1>1 DEF Content, Everything
<1>4. (regions \in Nat /\ Ordered(Everything))'
  BY <1>1, <1>3 DEF KeptInv, Ordered, Before
<1>5. (\A x \in Entries(Everything) : EntryOK(x))'
  BY <1>1, <1>3 DEF KeptInv, EntryOK, Entries, Header, Other
<1>6. (/\ \A x \in Entries(buffer) : x[1] = runs \/ (mode = "w+" /\ x = Header)
       /\ Other \in Entries(Content) => Other \in promised
       /\ promised \subseteq Entries(Content))'
  BY <1>1, <1>2, <1>3, SmallOrdered DEF KeptInv, Entries, Other
<1>7. (pc = "fopen" => IF mode = "w+" THEN request.append => file = Missing ELSE request.append)'
  BY <1>1 DEF Access, NewFile
<1>8. regions' = 0 /\ LinesPrinted'
  BY <1>1 DEF KeptInv, LinesPrinted, Printing
<1> QED BY <1>4, <1>5, <1>6, <1>7, <1>8 DEF KeptInv

LEMMA FopenKept == ASSUME NoSequence, FileInv, KeptInv, Fopen PROVE KeptInv'
<1>1. /\ pc = "fopen" /\ pc' = "topology"
      /\ UNCHANGED <<mode, buffer, runs, regions>>
      /\ mode \in {"a", "w+"} /\ (mode = "a" => file # Missing)
      /\ buffer = << >> /\ regions = 0
  BY DEF Fopen, FileInv, ModeOK, FileOK, KeptInv, Writing, Opened, Printing
<1>2. (pc = "fopen" => IF mode = "w+" THEN request.append => file = Missing ELSE request.append)'
      /\ LinesPrinted' /\ regions' = 0
  BY <1>1 DEF LinesPrinted, Printing
<1>3. CASE mode = "w+"
  <2>1. file' = << >> /\ << >> # Missing
    BY <1>3, EmptyFacts DEF Fopen, NoSequence, IsSeq
  <2>2. Content' = << >> /\ buffer' = << >> /\ Everything' = << >>
    BY <1>1, <2>1, EmptyFacts, Joined DEF Content, Everything
  <2>3. promised' = {}
    <3>1. request.append => Content = << >>
      BY <1>1, <1>3 DEF KeptInv, Content
    <3> QED BY <3>1, SmallOrdered DEF Fopen, KeptInv
  <2> QED BY <1>2, <2>2, <2>3, SmallOrdered DEF KeptInv
<1>4. CASE mode = "a"
  <2>1. request.append /\ file' = file /\ promised' = promised
    BY <1>1, <1>4 DEF Fopen, Content, KeptInv
  <2>2. Content' = Content /\ Everything' = Everything
    BY <1>1, <2>1 DEF Content, Everything
  <2>3. Ordered(Everything)'
    BY <2>2 DEF KeptInv, Ordered, Before
  <2>4. (\A x \in Entries(Everything) : EntryOK(x))'
    BY <1>1, <2>2 DEF KeptInv, EntryOK, Entries, Header, Other
  <2>5. (/\ \A x \in Entries(buffer) : x[1] = runs \/ (mode = "w+" /\ x = Header)
         /\ Other \in Entries(Content) => Other \in promised
         /\ promised \subseteq Entries(Content))'
    BY <1>1, <2>1, <2>2, SmallOrdered DEF KeptInv, Entries, Other
  <2> QED BY <1>1, <1>2, <2>3, <2>4, <2>5 DEF KeptInv
<1> QED BY <1>1, <1>3, <1>4

LEMMA PrintHeaderKept == ASSUME NoSequence, FileInv, KeptInv, PrintHeader PROVE KeptInv'
<1>1. /\ pc = "header" /\ pc' = "ready" /\ buffer = << >> /\ regions = 0
      /\ UNCHANGED <<file, runs, request, mode, print_header, output_file, reduction_depth, regions, promised>>
      /\ runs \in Nat /\ runs > 0
  BY DEF PrintHeader, output, memory, history, FileInv, FileOK, RunsOK, KeptInv, Opened
<1>2. Content' = Content
  BY <1>1 DEF Content
<1>3. LinesPrinted' /\ (pc = "fopen" => IF mode = "w+" THEN request.append => file = Missing
                                                       ELSE request.append)'
  BY <1>1 DEF LinesPrinted
<1>4. (Other \in Entries(Content) => Other \in promised)' /\ (promised \subseteq Entries(Content))'
  BY <1>1, <1>2 DEF KeptInv, Entries, Other
<1>5. CASE Writing /\ mode = "w+"
  <2>1. file = << >> /\ buffer' = <<Header>>
    BY <1>1, <1>5 DEF PrintHeader, FileInv, ModeOK, FileOK, Writing, Opened
  <2>2. Content = << >>
    BY <2>1 DEF Content
  <2>3. Everything' = <<Header>>
    BY <1>2, <2>1, <2>2, EmptyFacts, Joined DEF Everything
  <2>4. Ordered(Everything)' /\ Entries(Everything)' = {Header} /\ Entries(buffer)' = {Header}
    BY <2>1, <2>3, SmallOrdered
  <2>5. EntryOK(Header)'
    BY <1>1, SmallOrdered DEF EntryOK, Header
  <2>6. (\A x \in Entries(Everything) : EntryOK(x))'
    BY <2>4, <2>5
  <2>7. (\A x \in Entries(buffer) : x[1] = runs \/ (mode = "w+" /\ x = Header))'
    BY <1>1, <1>5, <2>4 DEF Header
  <2> QED BY <1>1, <1>3, <1>4, <2>4, <2>6, <2>7 DEF KeptInv, Opened
<1>6. CASE ~(Writing /\ mode = "w+")
  <2>1. buffer' = buffer
    BY <1>1, <1>6 DEF PrintHeader, FileInv, ModeOK, Writing, Opened
  <2>2. Everything' = Everything
    BY <1>2, <2>1 DEF Everything
  <2>3. Ordered(Everything)'
    BY <2>2 DEF KeptInv, Ordered, Before
  <2>4. (\A x \in Entries(Everything) : EntryOK(x))'
    BY <1>1, <2>2 DEF KeptInv, EntryOK, Entries, Header, Other
  <2>5. (\A x \in Entries(buffer) : x[1] = runs \/ (mode = "w+" /\ x = Header))'
    BY <1>1, <2>1, SmallOrdered
  <2> QED BY <1>1, <1>3, <1>4, <2>3, <2>4, <2>5 DEF KeptInv, Opened
<1> QED BY <1>5, <1>6

(* The lines of a region: one for each object, in the order of the objects. *)
LEMMA LinesInOrder ==
    ASSUME IInv, NEW g \in Nat
    PROVE  /\ IsSeq(LinesOf(g)) /\ Ordered(LinesOf(g))
           /\ Entries(LinesOf(g)) = {Line(g, o) : o \in ObjectsAt(reduction_depth)}
           /\ ObjectsAt(reduction_depth) \subseteq Nat
<1> DEFINE S == ObjectsAt(reduction_depth)
           o == Ascending(S)
           n == Cardinality(S)
<1>1. S \subseteq Nat /\ IsFiniteSet(S)
  <2>1. reduction_depth \in Depths
    BY DEF IInv, SamplesInv
  <2>2. \A p \in PUs : ObjectOf[reduction_depth][p] \in Nat
    BY <2>1, MachineAssumption
  <2> QED BY <2>2, ObjectsFinite DEF ObjectsAt
<1>2. n \in Nat
  BY <1>1, FS_CardinalityType
<1>3. /\ \A j \in 1 .. n : o[j] \in S /\ Cardinality(Smaller(S, o[j])) = j - 1
      /\ \A x \in S : \E j \in 1 .. n : o[j] = x
  <2>1. \A j \in 1 .. n : o[j] \in S /\ Cardinality(Smaller(S, o[j])) = j - 1
    BY <1>1, AscendingGoesThrough
  <2>2. \A x \in S : LET j == Cardinality(Smaller(S, x)) + 1 IN j \in 1 .. n /\ o[j] = x
    BY <1>1, AscendingGoesThrough
  <2> QED BY <2>1, <2>2
<1>4. LinesOf(g) = [j \in 1 .. n |-> Line(g, o[j])]
  BY DEF LinesOf
<1>5. \A i, j \in 1 .. n : i < j => o[i] < o[j]
  <2> SUFFICES ASSUME NEW i \in 1 .. n, NEW j \in 1 .. n, i < j PROVE o[i] < o[j]
    OBVIOUS
  <2>1. o[i] \in S /\ o[j] \in S /\ Cardinality(Smaller(S, o[i])) = i - 1
        /\ Cardinality(Smaller(S, o[j])) = j - 1
    BY <1>3
  <2>2. o[j] < o[i] => Cardinality(Smaller(S, o[j])) < Cardinality(Smaller(S, o[i]))
    BY <1>1, <2>1, SmallerInOrder
  <2>3. o[i] \in Nat /\ o[j] \in Nat /\ i \in Nat /\ j \in Nat
    BY <1>1, <1>2, <2>1
  <2>4. ~(o[j] < o[i])
    BY <2>1, <2>2, <2>3
  <2>5. o[i] # o[j]
    BY <2>1, <2>3
  <2> QED BY <2>3, <2>4, <2>5
<1> HIDE DEF S, o, n
<1>6. LinesOf(g) \in Seq({Line(g, o[j]) : j \in 1 .. n}) /\ Len(LinesOf(g)) = n
      /\ \A j \in 1 .. n : LinesOf(g)[j] = Line(g, o[j])
  <2> DEFINE T == {Line(g, o[j]) : j \in 1 .. n}
             l == LinesOf(g)
  <2>1. l \in [1 .. n -> T] /\ \A j \in 1 .. n : l[j] = Line(g, o[j])
    BY <1>4
  <2> HIDE DEF T, l
  <2>2. l \in Seq(T) /\ Len(l) = n
    BY <1>2, <2>1
  <2> QED BY <2>1, <2>2 DEF T, l
<1>7. Ordered(LinesOf(g))
  BY <1>2, <1>5, <1>6 DEF Ordered, Before, Line
<1>8. Entries(LinesOf(g)) = {Line(g, x) : x \in S}
  <2>1. Entries(LinesOf(g)) = {Line(g, o[j]) : j \in 1 .. n}
    BY <1>6 DEF Entries
  <2>2. \A j \in 1 .. n : o[j] \in S
    BY <1>3
  <2>3. \A x \in S : \E j \in 1 .. n : o[j] = x
    BY <1>3
  <2> QED BY <2>1, <2>2, <2>3
<1>9. IsSeq(LinesOf(g))
  BY <1>6 DEF IsSeq
<1> QED BY <1>1, <1>7, <1>8, <1>9 DEF S

LEMMA RegionKept == ASSUME NoSequence, IInv, FileInv, KeptInv, Region PROVE KeptInv'
<1>1. /\ pc = "ready" /\ pc' = "ready" /\ regions' = regions + 1 /\ regions \in Nat
      /\ UNCHANGED <<file, runs, request, mode, output_file, reduction_depth, promised>>
      /\ runs \in Nat /\ runs > 0
  BY DEF Region, output, memory, history, KeptInv, FileInv, RunsOK
<1>2. Content' = Content
  BY <1>1 DEF Content
<1>3. (Other \in Entries(Content) => Other \in promised)' /\ (promised \subseteq Entries(Content))'
  BY <1>1, <1>2 DEF KeptInv, Entries, Other
<1>4. \A x \in Entries(Everything) : EntryOK(x)'
  <2> SUFFICES ASSUME NEW x \in Entries(Everything) PROVE EntryOK(x)'
    OBVIOUS
  <2>1. EntryOK(x) /\ (x[1] = runs => x[2] <= regions) /\ x \in Nat \X Nat \X Nat
    BY <1>1 DEF KeptInv, EntryOK
  <2>2. x[2] \in Nat
    BY <2>1
  <2>3. x[1] = runs => x[2] <= regions + 1
    BY <1>1, <2>1, <2>2
  <2> QED BY <1>1, <2>1, <2>3 DEF EntryOK, Header, Other
<1>5. CASE output_file # "file"
  <2>1. buffer' = buffer
    BY <1>1, <1>5 DEF Region
  <2>2. Everything' = Everything
    BY <1>2, <2>1 DEF Everything
  <2>3. (Ordered(Everything) /\ \A x \in Entries(Everything) : EntryOK(x))'
    BY <1>4, <2>2 DEF KeptInv, Ordered, Before, Entries
  <2>4. (\A x \in Entries(buffer) : x[1] = runs \/ (mode = "w+" /\ x = Header))'
    BY <1>1, <2>1 DEF KeptInv, Entries, Header
  <2> QED BY <1>1, <1>3, <1>5, <2>3, <2>4 DEF KeptInv, LinesPrinted, Opened
<1>6. CASE output_file = "file"
  <2> DEFINE g == regions + 1
             lines == LinesOf(g)
  <2>1. g \in Nat /\ g = regions'
    BY <1>1
  <2>2. buffer' = buffer \o lines
    <3>1. LinesOf(regions') = lines
      BY <1>1
    <3> QED BY <1>6, <3>1 DEF Region
  <2>3. /\ IsSeq(lines) /\ Ordered(lines)
        /\ Entries(lines) = {Line(g, o) : o \in ObjectsAt(reduction_depth)}
        /\ ObjectsAt(reduction_depth) \subseteq Nat
    BY <2>1, LinesInOrder
  <2>4. \A x \in Entries(lines) : x \in Nat \X Nat \X Nat /\ x[1] = runs /\ x[2] = g
    BY <1>1, <2>1, <2>3 DEF Line
  <2> HIDE DEF lines, g
  <2>5. IsSeq(Content) /\ IsSeq(buffer) /\ IsSeq(Everything)
    BY EntriesFacts
  <2>6. Everything' = Everything \o lines
    BY <1>2, <2>2, <2>3, <2>5, Regrouped DEF Everything
  <2>7. Entries(buffer \o lines) = Entries(buffer) \cup Entries(lines)
    BY <2>3, <2>5, OrderedJoined
  <2>8. /\ Entries(Everything \o lines) = Entries(Everything) \cup Entries(lines)
        /\ Ordered(Everything \o lines) <=> /\ Ordered(Everything) /\ Ordered(lines)
                                            /\ Follows(Entries(Everything), Entries(lines))
    BY <2>3, <2>5, OrderedJoined
  <2>9. Follows(Entries(Everything), Entries(lines))
    <3> SUFFICES ASSUME NEW x \in Entries(Everything), NEW y \in Entries(lines), x[1] = y[1]
                 PROVE  x[2] < y[2]
      BY DEF Follows, Before
    <3>1. y[1] = runs /\ y[2] = regions + 1
      BY <2>4 DEF g
    <3>2. x[2] <= regions /\ x \in Nat \X Nat \X Nat
      BY <1>1, <3>1 DEF KeptInv, EntryOK
    <3>3. x[2] \in Nat
      BY <3>2
    <3> QED BY <1>1, <3>1, <3>2, <3>3
  <2>10. Ordered(Everything')
    BY <2>3, <2>6, <2>8, <2>9 DEF KeptInv
  <2>11. \A x \in Entries(Everything') : EntryOK(x)'
    <3> SUFFICES ASSUME NEW x \in Entries(lines) PROVE EntryOK(x)'
      BY <1>4, <2>6, <2>8
    <3>1. x \in Nat \X Nat \X Nat /\ x[1] = runs /\ x[2] = regions'
      BY <2>1, <2>4
    <3> QED BY <1>1, <3>1 DEF EntryOK
  <2>12. \A x \in Entries(buffer') : x[1] = runs \/ (mode = "w+" /\ x = Header)
    BY <2>2, <2>4, <2>7 DEF KeptInv
  <2>13. LinesPrinted'
    <3>1. \A h \in 1 .. regions + 1 : h \in 1 .. regions \/ h = g
      BY <1>1 DEF g
    <3>2. \A h \in 1 .. regions, o \in ObjectsAt(reduction_depth) : Line(h, o) \in Entries(Everything)
      BY <1>1, <1>6 DEF KeptInv, LinesPrinted, Printing
    <3>3. \A h \in 1 .. regions + 1, o \in ObjectsAt(reduction_depth) : Line(h, o) \in Entries(Everything')
      BY <2>3, <2>6, <2>8, <3>1, <3>2
    <3>4. \A h \in 1 .. regions', o \in ObjectsAt(reduction_depth)' : Line(h, o)' \in Entries(Everything')
      BY <1>1, <3>3 DEF Line, ObjectsAt
    <3> QED BY <3>4 DEF LinesPrinted, Entries
  <2>14. (Ordered(Everything) /\ \A x \in Entries(Everything) : EntryOK(x))'
    BY <2>10, <2>11 DEF Entries, Ordered, Before
  <2>15. (\A x \in Entries(buffer) : x[1] = runs \/ (mode = "w+" /\ x = Header))'
    BY <1>1, <2>12 DEF Entries, Header
  <2> QED BY <1>1, <1>3, <2>13, <2>14, <2>15 DEF KeptInv, Opened
<1> QED BY <1>5, <1>6

LEMMA FlushKept == ASSUME NoSequence, FileInv, KeptInv, Flush, FileInv' PROVE KeptInv'
<1>1. PICK n \in 1 .. Len(buffer) :
          /\ file' = file \o SubSeq(buffer, 1, n)
          /\ buffer' = SubSeq(buffer, n + 1, Len(buffer))
  BY DEF Flush
<1> DEFINE p == SubSeq(buffer, 1, n)
<1>2. UNCHANGED <<runs, request, mode, output_file, reduction_depth, regions, promised, pc>>
  BY DEF Flush, output, memory, history
<1>3. Writing /\ pc \in Printing /\ IsSeq(file) /\ IsSeq(buffer) /\ runs \in Nat /\ runs > 0
  <2>1. buffer # << >>
    BY <1>1, EmptyFacts
  <2> QED BY <2>1 DEF FileInv, FileOK, RunsOK, Writing, Printing
<1>4. IsSeq(p) /\ IsSeq(buffer') /\ file' \o buffer' = file \o buffer
  BY <1>1, <1>3, Parted
<1>5. IsSeq(file') /\ file # Missing /\ file' # Missing
  <2>1. IsSeq(file')
    BY <1>1, <1>3, <1>4, Joined
  <2> QED BY <1>3, <2>1 DEF NoSequence, IsSeq
<1>6. Content = file /\ Content' = file' /\ Everything' = Everything
  BY <1>4, <1>5 DEF Content, Everything
<1>7. /\ Entries(file') = Entries(file) \cup Entries(p)
      /\ Entries(p) \subseteq Entries(buffer) /\ Entries(buffer') \subseteq Entries(buffer)
  <2> HIDE DEF p
  <2>1. Entries(file') = Entries(file) \cup Entries(p)
    BY <1>1, <1>3, <1>4, OrderedJoined DEF p
  <2>2. /\ Len(buffer) \in Nat
        /\ Len(p) = n /\ \A i \in 1 .. n : p[i] = buffer[i]
        /\ Len(buffer') = Len(buffer) - n /\ \A i \in 1 .. Len(buffer) - n : buffer'[i] = buffer[n + i]
    <3>1. PICK S : buffer \in Seq(S)
      BY <1>3 DEF IsSeq
    <3>2. Len(buffer) \in Nat /\ \A i \in 1 .. Len(buffer) : buffer[i] \in S
      BY <3>1, LenProperties, ElementOfSeq
    <3>3. Len(p) = n /\ \A i \in 1 .. n : p[i] = buffer[i]
      BY <3>1, <3>2 DEF p
    <3>4. Len(buffer') = Len(buffer) - n /\ \A i \in 1 .. Len(buffer) - n : buffer'[i] = buffer[n + i]
      BY <1>1, <3>1, <3>2
    <3> QED BY <3>2, <3>3, <3>4
  <2>3. \A i \in 1 .. n : i \in 1 .. Len(buffer)
    BY <2>2
  <2>4. \A i \in 1 .. Len(buffer) - n : n + i \in 1 .. Len(buffer)
    BY <2>2
  <2>5. \A i \in 1 .. Len(buffer) : buffer[i] \in Entries(buffer)
    BY DEF Entries
  <2>6. Entries(p) = {p[i] : i \in 1 .. n} /\ Entries(buffer') = {buffer'[i] : i \in 1 .. Len(buffer) - n}
    BY <2>2 DEF Entries
  <2>7. \A i \in 1 .. n : p[i] \in Entries(buffer)
    BY <2>2, <2>3, <2>5
  <2>8. \A i \in 1 .. Len(buffer) - n : buffer'[i] \in Entries(buffer)
    BY <2>2, <2>4, <2>5
  <2> QED BY <2>1, <2>6, <2>7, <2>8
<1>8. \A x \in Entries(buffer) : x # Other
  BY <1>3, SmallOrdered DEF KeptInv
<1>9. (regions \in Nat /\ Ordered(Everything))'
  BY <1>2, <1>6 DEF KeptInv, Ordered, Before
<1>10. (\A x \in Entries(Everything) : EntryOK(x))'
  BY <1>2, <1>6 DEF KeptInv, EntryOK, Entries, Header, Other
<1>11. (\A x \in Entries(buffer) : x[1] = runs \/ (mode = "w+" /\ x = Header))'
  <2>1. \A x \in Entries(buffer') : x[1] = runs \/ (mode = "w+" /\ x = Header)
    BY <1>7 DEF KeptInv
  <2> QED BY <1>2, <2>1 DEF Entries, Header
<1>12. (/\ Other \in Entries(Content) => Other \in promised
        /\ promised \subseteq Entries(Content))'
  <2>1. /\ Other \in Entries(file') => Other \in promised
        /\ promised \subseteq Entries(file')
    BY <1>6, <1>7, <1>8 DEF KeptInv
  <2> QED BY <1>2, <1>6, <2>1 DEF Entries, Other
<1>13. LinesPrinted'
  <2>1. LinesPrinted /\ Entries(Everything)' = Entries(Everything)
    BY <1>6 DEF KeptInv, Entries
  <2> QED BY <1>2, <2>1 DEF LinesPrinted, Line, ObjectsAt
<1> QED BY <1>2, <1>3, <1>9, <1>10, <1>11, <1>12, <1>13 DEF KeptInv, Opened, Printing

(* A program that ends: the file has everything, or what it had.           *)
LEMMA EndKept ==
    ASSUME NoSequence, FileInv, KeptInv, FileInv',
           pc' \in {"down", "closed"}, buffer' = << >>, runs' = runs, regions' \in Nat,
           \/ file' = file /\ promised' = promised
           \/ /\ output_file = "file" /\ file' = file \o buffer
              /\ promised' = promised \/ (promised' = Kept /\ pc \in Printing)
    PROVE  KeptInv'
<1>1. runs \in Nat /\ (buffer # << >> => runs > 0)
  BY DEF FileInv, RunsOK, FileOK, Writing, Opened, Printing
<1>2. Everything' = Content'
  <2>1. IsSeq(Content')
    BY EmptyFacts DEF FileInv, FileOK, Content
  <2> QED BY <2>1, EmptyFacts, Joined DEF Everything
<1>3. \A x \in Entries(Everything) : EntryOK(x)'
  BY DEF KeptInv, EntryOK, Header, Other
<1>4. ASSUME Ordered(Content'), Entries(Content') \subseteq Entries(Everything),
             Other \in Entries(Content') => Other \in promised',
             promised' \subseteq Entries(Content')
      PROVE  KeptInv'
  <2>1. Ordered(Everything)' /\ (\A x \in Entries(Everything) : EntryOK(x))'
    BY <1>2, <1>3, <1>4 DEF Ordered, Before, Entries
  <2>2. (/\ Other \in Entries(Content) => Other \in promised
         /\ promised \subseteq Entries(Content))'
    BY <1>4 DEF Entries, Other
  <2>3. Entries(buffer)' = {}
    BY SmallOrdered DEF Entries
  <2> QED BY <2>1, <2>2, <2>3 DEF KeptInv, LinesPrinted, Printing, Opened
<1>5. CASE file' = file /\ promised' = promised
  <2>1. Content' = Content
    BY <1>5 DEF Content
  <2> QED BY <1>4, <1>5, <2>1, EntriesFacts DEF KeptInv
<1>6. CASE /\ output_file = "file" /\ file' = file \o buffer
           /\ promised' = promised \/ (promised' = Kept /\ pc \in Printing)
  <2>1. IsSeq(file) /\ IsSeq(buffer) /\ Content = file
    BY <1>6, EntriesFacts DEF FileInv, FileOK
  <2>2. Content' = Everything
    <3>1. file' # Missing
      <4>1. IsSeq(file')
        BY <1>6, <2>1, Joined
      <4> QED BY <4>1 DEF NoSequence, IsSeq
    <3> QED BY <1>6, <2>1, <3>1 DEF Content, Everything
  <2>3. Entries(Everything) = Entries(Content) \cup Entries(buffer)
    BY EntriesFacts
  <2>4. Other \in Entries(Everything) => Other \in promised
    <3>1. Entries(<< >>) = {}
      BY SmallOrdered
    <3>2. Other \notin Entries(buffer)
      BY <1>1, <3>1, SmallOrdered DEF KeptInv
    <3> QED BY <2>3, <3>2 DEF KeptInv
  <2>5. promised' \subseteq Entries(Everything) /\ promised \subseteq promised'
    <3>1. promised \subseteq Entries(Everything)
      BY <2>3 DEF KeptInv
    <3>2. pc \in Printing => Kept \subseteq Entries(Everything) /\ promised \subseteq Kept
      BY <1>6, <3>1 DEF Kept, KeptInv, LinesPrinted
    <3> QED BY <1>6, <3>1, <3>2
  <2> QED BY <1>4, <2>2, <2>4, <2>5 DEF KeptInv
<1> QED BY <1>5, <1>6

LEMMA ProgramEndsKept ==
    ASSUME NoSequence, FileInv, KeptInv, FileInv', CloseOutput \/ Exit \/ Crash PROVE KeptInv'
<1>1. pc' \in {"down", "closed"} /\ buffer' = << >> /\ runs' = runs /\ regions' \in Nat
  BY DEF CloseOutput, Exit, Crash, Down, KeptInv
<1>2. CASE Crash
  BY <1>1, <1>2, EndKept DEF Crash
<1>3. CASE CloseOutput
  BY <1>1, <1>3, EndKept DEF CloseOutput, Written, Kept, Printing
<1>4. CASE Exit
  BY <1>1, <1>4, EndKept DEF Exit, Written, Kept, Printing
<1> QED BY <1>2, <1>3, <1>4

LEMMA OtherProgramKept ==
    ASSUME NoSequence, Racing = FALSE, FileInv, KeptInv, FileInv', OtherProgram PROVE KeptInv'
<1>1. /\ UNCHANGED <<runs, request, mode, output_file, buffer, reduction_depth, regions, pc>>
      /\ Other \notin promised /\ promised' = promised \cup {Other}
      /\ ~(pc = "fopen" /\ mode = "w+")
      /\ output_file = "file" /\ pc # "closed" => mode = "a"
  BY DEF OtherProgram, output, memory
<1>2. /\ file = Missing => file' = <<Header, Other>>
      /\ file # Missing => file' = file \o <<Other>>
  BY DEF OtherProgram
<1>3. runs \in Nat /\ \A x \in Entries(buffer) : x[1] = runs /\ runs > 0
  <2>1. Entries(<< >>) = {}
    BY SmallOrdered
  <2>2. buffer # << >> => runs > 0 /\ mode = "a"
    BY <1>1 DEF FileInv, RunsOK, FileOK, Writing, Opened, Printing
  <2> QED BY <2>1, <2>2 DEF KeptInv, FileInv, RunsOK
<1>4. /\ IsSeq(Content') /\ Ordered(Content')
      /\ Entries(Content') \subseteq Entries(Content) \cup {Header, Other}
      /\ Entries(Content) \cup {Other} \subseteq Entries(Content')
  <2>1. CASE file = Missing
    <3>1. Content' = <<Header, Other>> /\ Content = << >>
      BY <1>2, <2>1, EmptyFacts DEF Content, NoSequence, IsSeq
    <3> QED BY <3>1, EmptyFacts, SmallOrdered
  <2>2. CASE file # Missing
    <3>1. IsSeq(file) /\ IsSeq(<<Other>>) /\ Content = file /\ file' = file \o <<Other>>
      BY <1>2, <2>2, EmptyFacts DEF FileInv, FileOK, Content
    <3>2. IsSeq(file') /\ file' # Missing
      BY <3>1, Joined DEF NoSequence, IsSeq
    <3>3. Content' = Content \o <<Other>>
      BY <3>1, <3>2 DEF Content
    <3>4. Entries(<<Other>>) = {Other} /\ Ordered(<<Other>>)
      BY SmallOrdered
    <3>5. Follows(Entries(Content), {Other})
      <4> SUFFICES ASSUME NEW x \in Entries(Content), x[1] = 0 PROVE Before(x, Other)
        BY SmallOrdered DEF Follows
      <4>1. x \in {Header, Other} /\ x # Other
        BY <1>1, EntriesFacts DEF KeptInv, EntryOK
      <4> QED BY <4>1, SmallOrdered
    <3>6. Ordered(Content)
      BY EntriesFacts DEF KeptInv
    <3> QED BY <3>1, <3>2, <3>3, <3>4, <3>5, <3>6, OrderedJoined
  <2> QED BY <2>1, <2>2
<1>5. buffer' = buffer /\ IsSeq(buffer)
  BY <1>1, EntriesFacts
<1>6. Follows(Entries(Content'), Entries(buffer))
  <2> SUFFICES ASSUME NEW x \in Entries(Content'), NEW y \in Entries(buffer), x[1] = y[1]
               PROVE  Before(x, y)
    BY DEF Follows
  <2>1. x[1] > 0
    BY <1>3
  <2>2. x \in Entries(Content)
    BY <1>4, <2>1, SmallOrdered
  <2> QED BY <2>2, EntriesFacts DEF KeptInv, Follows
<1>7. /\ Entries(Everything') = Entries(Content') \cup Entries(buffer)
      /\ Ordered(Everything')
  <2>1. Everything' = Content' \o buffer
    BY <1>5 DEF Everything
  <2>2. Ordered(buffer)
    BY EntriesFacts DEF KeptInv
  <2> QED BY <1>4, <1>5, <1>6, <2>1, <2>2, OrderedJoined
<1>8. \A x \in Entries(Everything') : EntryOK(x)'
  <2>1. EntryOK(Header)' /\ EntryOK(Other)'
    <3>1. runs' = runs /\ regions' = regions /\ pc' = pc /\ (runs = 0 => pc = "down")
      BY <1>1 DEF FileInv, RunsOK
    <3>2. 0 <= runs /\ (pc \notin {"down", "closed"} => runs # 0)
      BY <1>3, <3>1
    <3> QED BY <3>1, <3>2, SmallOrdered DEF EntryOK, Header, Other
  <2>2. \A x \in Entries(Everything) : EntryOK(x)'
    BY <1>1 DEF KeptInv, EntryOK, Header, Other
  <2>3. \A x \in Entries(Everything') : x \in Entries(Everything) \/ x \in {Header, Other}
    BY <1>4, <1>7, EntriesFacts
  <2> QED BY <2>1, <2>2, <2>3
<1>9. LinesPrinted'
  <2>1. Entries(Everything) \subseteq Entries(Everything')
    BY <1>4, <1>7, EntriesFacts
  <2> QED BY <1>1, <2>1 DEF KeptInv, LinesPrinted, Line, ObjectsAt, Entries
<1>10. (Ordered(Everything) /\ \A x \in Entries(Everything) : EntryOK(x))'
  BY <1>7, <1>8 DEF Ordered, Before, Entries
<1>11. (\A x \in Entries(buffer) : x[1] = runs \/ (mode = "w+" /\ x = Header))'
  BY <1>1, <1>3 DEF Entries
<1>12. (/\ Other \in Entries(Content) => Other \in promised
        /\ promised \subseteq Entries(Content))'
  <2>1. promised' \subseteq Entries(Content') /\ Other \in promised'
    BY <1>1, <1>4 DEF KeptInv
  <2> QED BY <2>1 DEF Entries, Other
<1>13. (/\ pc = "fopen" => IF mode = "w+" THEN request.append => file = Missing ELSE request.append
        /\ pc \in {"access", "fopen"} \cup Opened => regions = 0
        /\ regions \in Nat)'
  BY <1>1 DEF KeptInv, Opened
<1> QED BY <1>9, <1>10, <1>11, <1>12, <1>13 DEF KeptInv

LEMMA KeptInductive ==
    NoSequence /\ Racing = FALSE /\ IInv /\ FileInv /\ KeptInv /\ [Next]_vars => KeptInv'
<1> SUFFICES ASSUME NoSequence, Racing = FALSE, IInv, FileInv, KeptInv, [Next]_vars PROVE KeptInv'
  OBVIOUS
<1>1. FileInv'
  BY FileInductive
<1>2. CASE UNCHANGED vars
  BY <1>2, LinesKept DEF vars, output, memory, history
<1>3. CASE LoadTopology \/ NewSamples \/ PushSample \/ StoreSublist
  BY <1>3, LinesKept DEF LoadTopology, NewSamples, PushSample, StoreSublist, output, history, Opened
<1>4. CASE DeleteSublists \/ DeleteSamples
  BY <1>4, LinesKept DEF DeleteSublists, DeleteSamples, output, history, Printing
<1> QED BY <1>1, <1>2, <1>3, <1>4, CallInitKept, AccessKept, FopenKept, PrintHeaderKept, RegionKept,
           FlushKept, ProgramEndsKept, OtherProgramKept DEF Next

(* What a program that ended well has printed stays in the file, once and  *)
(* in order, until a program asks for a new one - as long as no other      *)
(* program creates the file between access() and fopen().                  *)
THEOREM PromiseKept == ASSUME NoSequence, Racing = FALSE PROVE Spec => []ResultsKept
<1>1. FileInv /\ KeptInv => ResultsKept
  <2> SUFFICES ASSUME FileInv, KeptInv PROVE ResultsKept
    OBVIOUS
  <2>1. ASSUME file = Missing PROVE promised = {}
    BY <2>1, SmallOrdered DEF Content, KeptInv
  <2>2. ASSUME file # Missing, NEW x \in promised
        PROVE  /\ Cardinality({i \in DOMAIN file : file[i] = x}) = 1
               /\ \A i, j \in DOMAIN file :
                     (file[i] = x /\ i < j /\ file[j][1] = x[1]) => file[j][2] >= x[2]
    <3>1. IsSeq(file) /\ Content = file
      BY <2>2 DEF FileInv, FileOK, Content
    <3>2. DOMAIN file = 1 .. Len(file) /\ Len(file) \in Nat
      <4>1. PICK S : file \in Seq(S)
        BY <3>1 DEF IsSeq
      <4> QED BY <4>1, LenProperties
    <3>3. Ordered(file) /\ \A y \in Entries(file) : y \in Nat \X Nat \X Nat
      <4>1. Ordered(Content) /\ \A y \in Entries(Content) : EntryOK(y)
        BY EntriesFacts DEF KeptInv
      <4> QED BY <3>1, <4>1 DEF EntryOK
    <3>4. x \in Entries(file) /\ x[2] \in Nat /\ x[3] \in Nat
      BY <2>2, <3>1, <3>3 DEF KeptInv
    <3>5. PICK k \in 1 .. Len(file) : file[k] = x
      BY <3>4 DEF Entries
    <3>6. ~Before(x, x)
      BY <3>4 DEF Before
    <3>7. \A i \in 1 .. Len(file) : file[i] = x => i = k
      <4> SUFFICES ASSUME NEW i \in 1 .. Len(file), file[i] = x, i # k PROVE FALSE
        OBVIOUS
      <4>1. i < k \/ k < i
        BY <3>2
      <4> QED BY <3>3, <3>5, <3>6, <4>1 DEF Ordered
    <3>8. {i \in DOMAIN file : file[i] = x} = {k}
      BY <3>2, <3>5, <3>7
    <3>9. Cardinality({i \in DOMAIN file : file[i] = x}) = 1
      BY <3>8, FS_Singleton
    <3>10. ASSUME NEW i \in DOMAIN file, NEW j \in DOMAIN file, file[i] = x, i < j, file[j][1] = x[1]
           PROVE  file[j][2] >= x[2]
      <4>1. Before(x, file[j])
        BY <3>2, <3>3, <3>10 DEF Ordered
      <4>2. file[j][2] \in Nat
        BY <3>2, <3>3 DEF Entries
      <4> QED BY <3>4, <4>1, <4>2 DEF Before
    <3> QED BY <3>9, <3>10
  <2> QED BY <2>1, <2>2 DEF ResultsKept
<1>2. Init => KeptInv /\ FileInv /\ IInv
  BY InitKept, FileInit, InitEstablishes
<1>3. IInv /\ FileInv /\ KeptInv /\ [Next]_vars => (IInv /\ FileInv /\ KeptInv)'
  BY Inductive, FileInductive, KeptInductive
<1> QED BY <1>1, <1>2, <1>3, PTL DEF Spec
=============================================================================
