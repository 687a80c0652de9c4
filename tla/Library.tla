------------------------------- MODULE Library -------------------------------
(***************************************************************************)
(* The life of the sampling library (roofline_sampling_init() and _fini()  *)
(* of src/src/sampling.c, with the lists of src/src/list.c): programs that *)
(* run one after the other open the output, create a sample for each PU    *)
(* and a sublist of them for each object at the reduction depth, print     *)
(* regions and give everything back.  A region prints one line for each    *)
(* sublist; what is in the line is the subject of Sampling.                *)
(*                                                                         *)
(* The output file is what is left when a program ends, by fini, by        *)
(* exit() or by a crash.  stdio keeps what is printed in a buffer, whose   *)
(* entries reach the file when it is full or closed.                       *)
(***************************************************************************)
EXTENDS Integers, Sequences, FiniteSets, SequencesExt, Order

CONSTANTS NPUs,       \* the PUs of the machine
          Depths,     \* the depths of the levels above the PUs
          ObjectOf,   \* the object above each PU at each depth, by logical index
          NodeOf,     \* the NUMA node of each PU
          TypeDepth,  \* hwloc_get_type_depth()
          Requests,   \* what the programs ask of init
          MaxRuns,    \* bound: calls of init
          MaxRegions, \* bound: regions between init and fini
          Racing,     \* whether another program may create the file as well
          NULL, Missing

PUs == 0 .. NPUs - 1
ASSUME MachineAssumption ==
    /\ NPUs \in Nat \ {0}
    /\ Depths \subseteq Nat /\ 0 \in Depths
    /\ ObjectOf \in [Depths -> [PUs -> Nat]]
    /\ \A d \in Depths, p, q \in PUs : p <= q => ObjectOf[d][p] <= ObjectOf[d][q]
    /\ TypeDepth \in [{"MACHINE", "NUMA", "CORE"} -> Int]
    /\ \A t \in DOMAIN TypeDepth : TypeDepth[t] >= 0 => TypeDepth[t] \in Depths
ASSUME RequestAssumption ==
    /\ Requests \subseteq [output : {"stdout", "file"}, append : BOOLEAN,
                           reduction : {"MACHINE", "NUMA", "CORE"}]
    /\ MaxRuns \in Nat /\ MaxRegions \in Nat /\ Racing \in BOOLEAN

VARIABLES file,             \* the output file: Missing, or its entries
          runs,             \* calls of init so far
          request,          \* the arguments of the last one
          mode, print_header,
          output_file,      \* "none", "stdout" or "file"
          buffer,           \* printed, and not in the file yet
          reduction_depth,
          samples,          \* the list of the samples, or NULL
          userdata,         \* the sublists, by the object that holds them
          heap,             \* the blocks that are allocated
          regions,          \* regions since init
          promised,         \* history: the lines of programs that ended well,
                            \* since a program asked for a new file
          orphan,           \* history: the file was created without a header
          fault,            \* history: a block was freed that was not allocated
          pc

output  == <<mode, print_header, output_file>>
memory  == <<reduction_depth, samples, userdata, heap, fault>>
history == <<promised, orphan>>
vars == <<file, runs, request, output, buffer, memory, regions, history, pc>>

-----------------------------------------------------------------------------
(* list.c: a list of at most max elements; its sublists share its cells.   *)
NewList(max) == [cell |-> [c \in 0 .. max - 1 |-> NULL], length |-> 0, allocated |-> max]

\* Slip: the length of the sublist is an index of its last cell.
SubListToIndex(start, n) == [start |-> start, length |-> n - start]

SubList(start, n) == [start |-> start, length |-> n]

\* list_chk_length() and list_set(): the list is doubled until it is long enough.
Grown(l, i) ==
    LET doublings == CHOOSE k \in 1 .. i + 1 :
            /\ l.allocated * 2^k >= i
            /\ \A j \in 1 .. k - 1 : l.allocated * 2^j < i
        size == l.allocated * 2^doublings
    IN [l EXCEPT !.allocated = size,
                 !.cell = [c \in 0 .. size - 1 |-> IF c < l.length THEN l.cell[c] ELSE NULL]]
ListSet(l, i, e) ==
    LET m == IF i >= l.allocated THEN Grown(l, i) ELSE l
    IN [m EXCEPT !.cell[i] = e, !.length = IF @ <= i THEN i + 1 ELSE @]
ListPush(l, e) == ListSet(l, l.length, e)

(* The elements that list_reduce() goes through.                           *)
Elements(sub) == {samples.cell[c] : c \in sub.start .. sub.start + sub.length - 1}

-----------------------------------------------------------------------------
(* The objects at a depth, and the PUs below one.                          *)
ObjectsAt(d)   == {ObjectOf[d][p] : p \in PUs}
PUsBelow(d, o) == {p \in PUs : ObjectOf[d][p] = o}
FirstOf(S)     == CHOOSE p \in S : \A q \in S : p <= q

ReductionDepth(type) == IF TypeDepth[type] < 0 THEN 0 ELSE TypeDepth[type]

Init ==
    /\ file \in {Missing, << >>} /\ runs = 0
    /\ request \in Requests
    /\ mode = "a" /\ print_header = FALSE /\ output_file = "none" /\ buffer = << >>
    /\ reduction_depth = 0 /\ samples = NULL /\ userdata = << >> /\ heap = {}
    /\ regions = 0
    /\ promised = {} /\ orphan = (file # Missing) /\ fault = FALSE
    /\ pc = "down"
-----------------------------------------------------------------------------
Header == <<0, 0, 0>>
Other  == <<0, 1, 0>>  \* a line of another program
Content == IF file = Missing THEN << >> ELSE file
Line(g, o) == <<runs, g, o>>
LinesOf(g) == [j \in 1 .. Cardinality(ObjectsAt(reduction_depth)) |->
                  Line(g, Ascending(ObjectsAt(reduction_depth))[j])]

(* A program calls roofline_sampling_init(); one that has called fini may  *)
(* call it again for a file (fini has closed stdout).                      *)
CallInit(r) ==
    /\ pc = "down" \/ (pc = "closed" /\ r.output = "file")
    /\ runs < MaxRuns
    /\ runs' = runs + 1 /\ request' = r
    /\ mode' = "a" /\ print_header' = FALSE /\ output_file' = "none"
    /\ regions' = 0
    /\ pc' = "access"
    /\ UNCHANGED <<file, buffer, memory, history>>

\* Slips: a missing file is left to fopen(); the argument is taken the other way round.
NewFileWhenAsked  == ~request.append
NewFileToAppendTo == file = Missing \/ request.append

NewFile == file = Missing \/ ~request.append

(* Without a file name the output is stdout; else access() is asked.       *)
Access ==
    /\ pc = "access"
    /\ \/ /\ request.output = "stdout"
          /\ output_file' = "stdout" /\ print_header' = TRUE /\ pc' = "topology"
          /\ UNCHANGED mode
       \/ /\ request.output = "file"
          /\ IF NewFile
             THEN mode' = "w+" /\ print_header' = TRUE
             ELSE UNCHANGED <<mode, print_header>>
          /\ pc' = "fopen"
          /\ UNCHANGED output_file
    /\ UNCHANGED <<file, runs, request, buffer, memory, regions, history>>

(* fopen(): "w+" empties the file.  The promise of the lines in it ends    *)
(* when the caller did not ask to append.                                  *)
Fopen ==
    /\ pc = "fopen"
    /\ file' = IF mode = "w+" THEN << >> ELSE Content
    /\ output_file' = "file"
    /\ promised' = IF request.append THEN promised ELSE {}
    /\ orphan' = (orphan /\ mode = "a")
    /\ pc' = "topology"
    /\ UNCHANGED <<runs, request, mode, print_header, buffer, memory, regions, fault>>

(* The topology, the array of bindings and the depth of the reduction.     *)
LoadTopology ==
    /\ pc = "topology"
    /\ heap' = heap \cup {<<"topology", 0>>, <<"bindings", 0>>}
    /\ reduction_depth' = ReductionDepth(request.reduction)
    /\ pc' = "new"
    /\ UNCHANGED <<file, runs, request, output, buffer, samples, userdata, fault, regions, history>>

NewSamples ==
    /\ pc = "new"
    /\ samples' = NewList(NPUs)
    /\ heap' = heap \cup {<<"list", 0>>, <<"cells", 0>>}
    /\ pc' = "push"
    /\ UNCHANGED <<file, runs, request, output, buffer, reduction_depth, userdata, fault, regions, history>>

(* The i-th sample is that of the i-th PU.                                 *)
PushSample ==
    /\ pc = "push"
    /\ LET i == samples.length
       IN IF i < NPUs
          THEN /\ samples' = ListPush(samples, i)
               /\ heap' = heap \cup {<<"sample", i>>}
               /\ UNCHANGED pc
          ELSE pc' = "sublists" /\ UNCHANGED <<samples, heap>>
    /\ UNCHANGED <<file, runs, request, output, buffer, reduction_depth, userdata, fault, regions, history>>

(* The next object at the depth gets the sublist of the PUs inside it,     *)
(* from the first one below it on.                                         *)
Unserved == ObjectsAt(reduction_depth) \ DOMAIN userdata
StoreSublist ==
    /\ pc = "sublists"
    /\ IF Unserved = {}
       THEN pc' = "header" /\ UNCHANGED <<userdata, heap>>
       ELSE LET o     == FirstOf(Unserved)
                below == PUsBelow(reduction_depth, o)
                sub   == SubList(FirstOf(below), Cardinality(below))
            IN /\ userdata' = [x \in DOMAIN userdata \cup {o} |-> IF x = o THEN sub ELSE userdata[x]]
               /\ heap' = heap \cup {<<"sublist", o>>}
               /\ UNCHANGED pc
    /\ UNCHANGED <<file, runs, request, output, buffer, reduction_depth, samples, fault, regions, history>>

PrintHeader ==
    /\ pc = "header"
    /\ buffer' = IF print_header /\ output_file = "file" THEN <<Header>> ELSE << >>
    /\ pc' = "ready"
    /\ UNCHANGED <<file, runs, request, output, memory, regions, history>>

(* roofline_sampling_stop() prints a region; only files are kept track of. *)
Region ==
    /\ pc = "ready" /\ regions < MaxRegions
    /\ regions' = regions + 1
    /\ buffer' = IF output_file = "file" THEN buffer \o LinesOf(regions') ELSE buffer
    /\ UNCHANGED <<file, runs, request, output, memory, history, pc>>

(* stdio makes room in the buffer.                                         *)
Flush ==
    /\ \E n \in 1 .. Len(buffer) :
          /\ file' = file \o SubSeq(buffer, 1, n)
          /\ buffer' = SubSeq(buffer, n + 1, Len(buffer))
    /\ UNCHANGED <<runs, request, output, memory, regions, history, pc>>

-----------------------------------------------------------------------------
Free(blocks) == /\ heap' = heap \ blocks
                /\ fault' = (fault \/ ~(blocks \subseteq heap))

\* Slip: the cells of a sublist are freed with it.
BlocksWithCells(o) == {<<"sublist", o>>, <<"cells", 0>>}

(* What delete_list() frees of a sublist.                                  *)
BlocksOfSublist(o) == {<<"sublist", o>>}

(* roofline_sampling_fini(): the sublists, the bindings, the samples, ...  *)
DeleteSublists ==
    /\ pc = "ready"
    /\ Free(UNION {BlocksOfSublist(o) : o \in DOMAIN userdata})
    /\ userdata' = << >>
    /\ pc' = "samples"
    /\ UNCHANGED <<file, runs, request, output, buffer, reduction_depth, samples, regions, history>>

DeleteSamples ==
    /\ pc = "samples"
    /\ Free({<<"bindings", 0>>, <<"list", 0>>, <<"cells", 0>>, <<"topology", 0>>}
            \cup {<<"sample", samples.cell[c]>> : c \in 0 .. samples.length - 1})
    /\ samples' = NULL
    /\ pc' = "close"
    /\ UNCHANGED <<file, runs, request, output, buffer, reduction_depth, userdata, regions, history>>

(* ... and the output: what is in the buffer reaches the file.             *)
Written == IF output_file = "file" THEN file \o buffer ELSE file
Kept    == IF output_file = "file"
           THEN promised \cup {Line(g, o) : g \in 1 .. regions, o \in ObjectsAt(reduction_depth)}
           ELSE promised

CloseOutput ==
    /\ pc = "close"
    /\ file' = Written /\ buffer' = << >> /\ promised' = Kept
    /\ pc' = "closed"
    /\ UNCHANGED <<runs, request, output, memory, regions, orphan>>

(* The end of a program gives its memory back.                             *)
Down ==
    /\ buffer' = << >> /\ output_file' = "none"
    /\ reduction_depth' = 0 /\ samples' = NULL /\ userdata' = << >> /\ heap' = {}
    /\ regions' = 0 /\ pc' = "down"
    /\ UNCHANGED <<runs, request, mode, print_header, fault>>

(* exit(): by the program, with or without fini, or in init when a file    *)
(* cannot be opened or the topology not be loaded.                         *)
Exit ==
    /\ pc \in {"fopen", "topology", "ready", "closed"}
    /\ file' = Written
    /\ promised' = IF pc = "ready" THEN Kept ELSE promised
    /\ orphan' = (orphan \/ Written = << >>)
    /\ Down

(* A crash at any time loses what is in the buffer.                        *)
Crash ==
    /\ pc # "down"
    /\ orphan' = (orphan \/ file = << >>)
    /\ UNCHANGED <<file, promised>>
    /\ Down

(* Another program that uses the file adds a region to it, while this one  *)
(* does not or has it open to append.                                      *)
OtherProgram ==
    /\ Other \notin promised
    /\ pc = "fopen" /\ mode = "w+" => Racing
    /\ output_file = "file" /\ pc # "closed" => mode = "a"
    /\ file' = IF file = Missing THEN <<Header, Other>> ELSE file \o <<Other>>
    /\ promised' = promised \cup {Other}
    /\ UNCHANGED <<runs, request, output, buffer, memory, regions, orphan, pc>>

Next ==
    \/ \E r \in Requests : CallInit(r)
    \/ Access \/ Fopen \/ LoadTopology \/ NewSamples \/ PushSample \/ StoreSublist \/ PrintHeader
    \/ Region \/ Flush
    \/ DeleteSublists \/ DeleteSamples \/ CloseOutput
    \/ Exit \/ Crash \/ OtherProgram

Spec == Init /\ [][Next]_vars

-----------------------------------------------------------------------------
(* When init returns, the sublists of the objects at the reduction depth   *)
(* share out the samples: reducing a sublist accounts for the PUs below    *)
(* its object and no others, so that a region counts every PU once.        *)
EachSampleOnce ==
    pc = "ready" =>
        /\ DOMAIN userdata = ObjectsAt(reduction_depth)
        /\ \A p \in PUs : \A o \in DOMAIN userdata :
              p \in Elements(userdata[o]) <=> ObjectOf[reduction_depth][p] = o

(* fini gives back each block that init has allocated, and gives back      *)
(* nothing twice, though sublists share the cells of the list.             *)
GivesBack == ~fault /\ (pc \in {"close", "closed"} => heap = {})

(* Between programs, the file has its header, first and once, however      *)
(* programs that append, start over, exit or crash have followed each      *)
(* other - unless one has left the file empty.                             *)
HeaderFirst ==
    (pc \in {"down", "closed"} /\ file # Missing /\ ~orphan) =>
        /\ file # << >>
        /\ \A i \in DOMAIN file : file[i] = Header <=> i = 1

(* What a program that ended well has printed is in the file once and in   *)
(* order, until a program asks for a new file; a crash of a later program  *)
(* takes nothing of it away.                                               *)
ResultsKept ==
    /\ file = Missing => promised = {}
    /\ file # Missing =>
          \A x \in promised :
              /\ Cardinality({i \in DOMAIN file : file[i] = x}) = 1
              /\ \A i, j \in DOMAIN file :
                    (file[i] = x /\ i < j /\ file[j][1] = x[1]) => file[j][2] >= x[2]

(* sampling.h: the samples are reduced by the locations that were asked    *)
(* for, the NUMA domains of the machine for ROOFLINE_NUMA.                 *)
LocationAsAsked ==
    (pc = "ready" /\ request.reduction = "NUMA") =>
        \A p, q \in PUs : ObjectOf[reduction_depth][p] = ObjectOf[reduction_depth][q]
                              <=> NodeOf[p] = NodeOf[q]
==============================================================================
