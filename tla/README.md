# LARM in TLA+

A specification of the Locality-Aware Roofline Model tools: the program
`roofline`, which measures the bandwidth of every memory and the peak
performance of a machine, and the library `librfsampling`, which samples the
flops, bytes and time of regions of other programs. The modules are translated
from the C code under `src/src/` (called by file name below), TLC checks them on
small instances and TLAPS proves every safety invariant for all of them.

- [The system](#the-system)
- [Modules](#modules)
- [How the models correspond to the code](#how-the-models-correspond-to-the-code)
- [What the runs check](#what-the-runs-check)
- [Disagreements between the code and its documentation](#disagreements-between-the-code-and-its-documentation)
- [What is proved](#what-is-proved)
- [What is only model-checked](#what-is-only-model-checked)
- [What is not modelled](#what-is-not-modelled)
- [Notes on the code](#notes-on-the-code)
- [Plan](#plan)

Every module is parsed with SANY, every `.cfg` is for the module that
`PROJECT.json` names (`tlc -config team.cfg MCTeam`), and the `*Proofs`
modules are checked with `tlapm`. The file also maps each definition to its
lines of code, gives for each property a slip in the code that would break it,
and lists the hazards the properties are for.

## The system

### Inventory

| Component | State it keeps | Operations | Correct when |
|---|---|---|---|
| Sampling library, `sampling.c` | one sample for each PU (`n_threads`, `last_thread`, `s_nano`, `e_nano`, `bytes`, `flops`), a sublist of them for each object of one depth, the binding of each thread, the output file | `init`, `start`, `stop`, `fini`; a reduction to the objects of one depth | a printed line holds what the threads of its location did, the next region starts from nothing, every sample is in one sublist, and the file has one header and keeps its results |
| Benchmark rounds, `roofline.c`, `stats.c`, `output.c` | shared `repeat` and `test_stop`, an output for each memory group, each thread's own output | `roofline_memory`, `roofline_fpeak`, `roofline_autoset_repeat`, the functions on outputs | all threads measure the same thing at the same time, each size is printed once for each group with the work of all its threads, and the call returns |
| Binding of the team, `roofline_set_root` | `root`, `n_threads`, the binding of each thread | bind the team to the leaves of an object | each thread is on the leaf of its number, unless that is refused |
| Latency stream, `stream.c` | the linked words in the buffer | fill for a size, follow the links | the links stay in the buffer and the loads go around one cycle |
| Sizes of buffers, `stream.c`, `MSC/intel/MSC.c` | `oi_chunk_size` | chunks, linear sizes | sizes are multiples of what a kernel consumes |
| Validation generator, `MSC/intel/validation.c`, `roofline_oi` | the file it writes, loaded libraries, `oi_chunk_size` | write, compile, load and measure a program | the program has exactly the intensity asked for and stops at the end of its buffer |
| Walks over the topology, `topology.c` | the machine as hwloc found it, constant | next memory, memory below, bounds of sizes, memory groups, binding of memory | each memory is found once, the ranges of sizes adjoin, the data are where they should be |
| Types and driver, `types.c`, `main.c` | the options, the root | default and filtered types, list, walk and matrix of memories | what was asked for is run, once |
| List, `list.c` | a growable array, and sublists that share its cells | new, push, sublist, reduce, sort, delete (others are not called) | an element is found where it was pushed; cells are freed once |
| Kernels, `MSC/intel/{mov,flops}.c`, `intel.h`, `output.c` | registers; cycles, bytes, flops and instructions of a measure | loops in assembly, between `begin_measure` and `end_measure` | they access every byte of the buffer and nothing else, and report what they did |
| ARM and generic back ends, `MSC/arm`, `MSC/generic.c` | as Intel's | as Intel's | as Intel's |
| Plot script, `utils/plot_roofs.R`; makefiles | none | | |

### How they interact

`main()` reads the options, calls `roofline_lib_init()`, which binds the team
(`roofline_set_root`), runs the benchmarks of the flops and then those of each
memory: of the walk `get_next_memory`, of the list of `-m`, or of the matrix
clusters × nodes of `-mat`, for which it moves the team before each row. For a
memory and a type, `roofline_bandwidth` calls `roofline_memory` once; for an
intensity `roofline_oi` first has a program generated and loaded. Inside
`roofline_memory` an OpenMP team runs: each thread allocates its buffer on the
nodes that `set_area_membind` chooses and loops over the sizes of
`roofline_linear_sizes`. Threads communicate through shared variables between
barriers, through `single` constructs, and through the critical section around
the outputs. There are no callbacks and no messages.

`librfsampling` is a separate program's library. Its `start` and `stop` are
called by the threads of a parallel region of that program, or by its master,
for which the library forks a team itself. It shares only the list and the
output format with `roofline`.

### What is hard

- *Interleavings*: threads that share a PU share its sample; the first and the
  last of them handle the timer, found by an atomic counter. The scheduler may
  move unbound threads between any two statements.
- *Barriers in loops*: the threads decide for themselves which sizes to skip,
  whether to choose `repeat` again, and when to stop choosing. A disagreement
  leaves threads at different barriers: a deadlock, or measurements beside the
  wrong code, silently.
- *Stale state*: samples looked up again, `repeat` assigned by all threads while
  others read it, a buffer filled again for another size, a chunk size that
  stays when compilation fails, a library that stays loaded under its name.
- *Numbers*: divisions of sizes among cores, of totals among threads, of flops
  into instructions; loops that end when a size is *exactly* zero or two
  counters come around *together*.
- *Termination*: `repeat` is doubled until a measurement is long enough; the
  walk over the memories goes up the tree and along the nodes.
- *What programs leave behind*: the output file of the sampling library outlives
  the program. Programs append to it or start it over, and end by `fini`, by
  `exit()`, or by a crash that loses what stdio has in its buffer.
- *Unchecked loops*: the kernels step through the buffer by whole chunks until a
  register is exactly zero, and report amounts that are computed beside them.

Nothing is sent, so that there are no lost messages. `PROJECT.json` lists forty
hazards with their lines and properties; those without a property say why.

## Modules

| Module | Models | Lines |
|---|---|---|
| `Sampling` | `sampling.c`: start and stop by concurrent threads, the reduction, the reset | 403 |
| `SamplingReport` | abstract: what `sampling.h` promises to threads on PUs of their own | 98 |
| `SamplingRefinement` | the mapping from `Sampling` to `SamplingReport` | 26 |
| `Library` | `sampling.c`: init and fini of one program after the other, the output file, the samples and sublists of `list.c` | 333 |
| `Bench` | `roofline_memory`, `roofline_fpeak`, `autoset_repeat`, the outputs | 408 |
| `Intel` | what `MSC/intel` defines for an instruction set: registers, strides, chunks, operations | 41 |
| `Kernels` | the loops of `mov.c` and `flops.c` and what they report; extends `Intel` | 218 |
| `LatencyStream` | the buffer of the latency benchmark, filled and followed | 143 |
| `SetRoot` | `roofline_set_root` called again and again | 111 |
| `Validation` | `roofline_oi` and the generator, with the sizes of the buffers | 293 |
| `Order` | the elements of a set of numbers in increasing order, in which the code goes through objects and sizes | 12 |
| `Topology` | operators for the queries of `topology.c` | 175 |
| `Driver` | `main.c`, `types.c`, `roofline_bandwidth`, `roofline_flops`; extends `Topology` | 277 |
| `SamplingProofs`, `LibraryProofs`, `BenchProofs`, `KernelsProofs`, `SetRootProofs`, `ValidationProofs`, `DriverProofs` | the theorems | |
| `SetLemmas` | lemmas on finite sets that several of them use | |
| `MCSampling`, `MCSamplingRefinement`, `MCLibrary`, `MCBench`, `MCTeam`, `MCValidation`, `MCDriver` | the instances for TLC | |

The modules compose along the calls: one step of `Driver` runs all benchmarks of
a memory, `SetRoot` refines what that step calls "the root", `Validation` shows
which program and which sizes `roofline_oi` hands to `roofline_memory`, and
`Bench` is one call of it with any sizes. `Kernels` and `LatencyStream` are what
one thread does between two barriers of `Bench`, for a size that is a multiple
of the chunk; `MCTeam` has both, and `SetRoot` beside them, which comes before. One
line of `Library` is one reduction of `Sampling`. A single module of everything
would multiply states that do not interact: between two calls of `roofline_memory` all
threads but the master are idle, and what survives a call (`test_stop`,
`oi_chunk_size`, the loaded libraries, the bindings) is kept or chosen freely by
the module that reads it.

## How the models correspond to the code

**Sampling.** A thread's `pc` names the statement it is at. In
`roofline_sequential_sampling_start`: `caller` (the lookup of its PU), `count`
(the atomic increment of `n_threads`), `start_barrier`, `set_work` (the
assignment of bytes and flops, which the code treats alike, so one counter
stands for both), `first` (fetch-and-add on `last_thread`), `start_timer`. In
`..._stop`: `stop` (the clock), `last`, `stop_timer`, `stop_barrier`, `single`,
`reset`, `end`. The three ways a program may call the library are the values of
`mode`; in `forced` mode `stop` forks a second team, whose workers take their PU
from `bindings[]` (`StopCaller`). The environment may run a thread's CPU clock
(`Tick`) or move an unbound thread (`Migrate`) at any time. A thread whose PU
neither `hwloc_get_cpubind` nor `sched_getcpu` tells returns from `start` or
`stop` before the barrier (`StartFails`, `StopFails`, for the threads of
`MayFail`), and the rest of the team waits there for ever. A barrier is one
action of the whole team. A statement that only touches the thread's own
variables is joined to the one after it.

**Library.** Each statement of `roofline_sampling_init` that a crash may come
after is an action: `Access` (which asks whether the file exists), `Fopen`,
`LoadTopology`, `NewSamples`, one `PushSample` for each PU, one `StoreSublist`
for each object, `PrintHeader`; and likewise for `roofline_sampling_fini`.
`heap` has a name for each block, so that a block that is freed twice, or not
at all, is seen. A printed line is the number of its program, its region and
its object. The buffer of stdio reaches the file when it is full (`Flush`, at
any time and by whole lines, while real stdio may cut a line in two) or when it
is closed. `Exit` is `exit()` by the program, or in `init` where `init` calls it;
`Crash` may come at any time. After `fini` a program may initialise the library
again, but only for a file, because `fini` has closed stdout. Another program
may write to the file while this one does not have it open, or has it open to
append. With `Racing` it may also create the file between `access()` and
`fopen()`. What goes to stdout is not kept track of.

**Bench.** As in `Sampling`, a thread's `pc` names its statement, in the loop over
the sizes. Barriers are those of libgomp, which counts arrivals: threads at
*different* barriers of the program release each other, so that `BarriersMatch` is
a property of the code and not of the model. `roofline_output_aggregate_result`
is a read and a write, so that the
critical section around it matters; the locations that it merges
(`output.c:29-31`) are left out. A measurement takes any of `Costs` cycles
for each repetition and the overhead any of `Overheads`, different on each
thread. Five samples, 100 initial repetitions and half a second are
the constants `NSamples`, `InitialRepeat` and `Limit`. The samples are sorted for
their median and variance (`list_sort`, `stats.c:25`), which decide only where the
total is exactly the limit: there `Verdicts` has both outcomes.

**SetRoot.** `tid` is a variable of the function and so shared: a thread enters
the critical section, sets it and reads it again to bind itself. The system may
refuse a leaf (`CanBind`).

**Kernels.** The labels of the loops are the values of `step`; `r11`, `r12` and
`iterations` are their registers. One pass of an inner loop is an action, with
all thirty accesses of the unrolled body, and time is counted in instructions.
`Call` takes the place of `roofline_memory`, with any supported operation and
any size of whole chunks. `moved` counts the accesses to each unit of 16 bytes.
The `repeat` operand is decremented by the assembly while declared as an input
(see the notes): the model has the outcome of the build of the makefiles, in
which the parameter keeps its value.

**LatencyStream.** The buffer as an array of links, the numbers left to draw,
and the draw as a free choice; then the loads as a walk with the set of
words seen. The sizes grow, as those of `roofline_linear_sizes` do. `free()`
leaves `Junk`.

**Validation.** The text that is written is abstracted to the instructions it
executes: `muops`, `fuops` and the register number that the writer loop counts
are its variables, `Code` the flops and bytes of a pass. The compiler may fail
(`LoadFails`), and a library already loaded under the name is returned without
a look at the file (`LoadAgain`). `Kept` are the sizes of
`roofline_linear_sizes` that `roofline_memory` keeps. `roofline_PPCM` has
`unsigned` parameters and its product is one too: `PPCM` computes modulo `UINT`.
The numbers of instructions fit by the range of the requests
(`RequestAssumption`).

**Topology, Driver.** A machine is a tree as hwloc 2 gives it, with NUMA nodes as
memory children at depth −3. `Driver` has one action for each phase of `main()`
and one step for each memory. `ran` records benchmarks with the root they ran
below, `areas` the nodes of the buffers of the memory measured last: those of the
threads whose binding is accepted (`AreasBound`), as `set_area_membind` returns
before it touches the buffer when the system refuses, for the cores of
`MayRefuse`, and the benchmark goes on. `1/oi` is a double, which may be rounded
up to the next whole number when that is as near as `Precision` says, and is
cut off to an `unsigned` of `UINT` values as x86-64 does it (`ToUnsigned`).

## What the runs check

Deadlock is checked in all passing runs but `library`, which stops when no call
of `init` is left and everything that can happen to the file has happened.

| Run | Instance | Checks | Shows |
|---|---|---|---|
| `sampling_pinned` | 2 threads on PUs of their own below two locations, 3 PUs, any mix of the modes in 2 regions, `Work` {2, 4}, clocks up to 2 | `TypeOK`, `PrintedIsFinal`, `CleanBetweenRegions`, `KeepsPromise` | used as documented, the library prints what it promises, leaves clean samples, and implements `SamplingReport` |
| `sampling_shared` | 3 threads on 2 PUs, of which only the master is bound, 2 regions; the lookups of the master and of one other may fail | `TimersBalanced`, `ThreadsCountedOnce`, `RegionsEnd` | however threads share PUs and move, timers stay paired, everyone is counted once, and nothing but a failed lookup keeps a region from its end |
| `bench` | `roofline_memory`: 3 threads in groups of 2, 1 and 0; sizes 1, 2, 2, 3 of which the first is too small and one doubled; 2 samples of an overhead and a measured stage; costs {1, 2}. Beside it `roofline_fpeak`: the same team, 2 rounds, overheads {0, 1} | `TypeOK`, `BarriersMatch`, `MeasuredTogether`, `LinesComplete`, `EveryLineOnce`, `Returns` | threads of different speed agree at every barrier, every line is right and printed once, also where the master chooses `repeat` alone before the team is forked |
| `team` | `roofline_set_root`: 4 threads, the machine and two of its parts, one refused leaf, 2 calls. The kernels: every operation of AVX2 with FMA on 1 to 3 chunks, 1 to 3 times. The latency loop: buffers of 2, 4 and 5 words, each filled after smaller ones or first, 1 or 2 rounds | `BoundToOwnLeaf`, `AccessesInBuffer`, `EveryByteMoved`, `CountsOfLoops`, `LinksPermute`, `ChaseInBuffer`, `NoShortcut`, `ClosesCycle`, `CountsDown` | the shared `tid` does no harm, and no binding of the call before is left; the assembly stays in the buffer, accesses all of it as often as it reports, and comes one step nearer to its end with each step; any draw of the numbers makes links on which loads stay in the buffer and go around one cycle |
| `validation` | the 29 intensities of `roofline -v` and four more, of which one has no flops and one has a chunk too long for the `unsigned` of the run; LOAD and 2LD1ST with FMA and MAD; 32-byte registers; 2 calls | `TypeOK`, `IntensityExact`, `LoopEndsWithBuffer`, `ChunkOfBenchmark`, `BlocksBounded` | every generated program has the intensity asked for and ends where its buffer ends, also when an attempt failed before or the library was loaded before |
| `driver` | four machines (desktop; two packages; clusters with fast memory; clusters below an L3), two cores whose memory binding may be refused, with the options two at a time | `WholeHierarchy`, `MatrixComplete`, `NothingTwice`, `LevelsAdjoin`, `DataOnTarget`, `OwnGroup`, `NearIntensity`, `Ends` | the walk, the list and the matrix run what they should, once, on the right nodes, with sizes that follow each other and with the intensity asked for |
| `library` | 4 PUs in 3 cores, 2 NUMA nodes and 1 machine; 3 programs one after the other, to the file or stdout, appending or not, by core or by node, 2 regions each, and a fourth program beside them | `EachSampleOnce`, `GivesBack`, `HeaderFirst`, `ResultsKept` | samples are shared out, blocks freed once, and whatever way programs end, the file has one header and keeps the results of those that ended well |
| `sampling_shared_bytes`, `sampling_master_moves`, `driver_policy`, `driver_matrix`, `library_numa` | | one property each | disagreements, see below |

### Bounds

- *Threads and PUs.* Hazards of the samples are between two threads of a PU, or
  a thread on one PU and another elsewhere. Two of three threads on one of two
  PUs have both, and a thread that moves may meet either. `Bench` needs two
  threads that share a group (lost updates), one in another group (lines per
  group), and an empty group (not printed). The theorems hold for any number.
- *Regions and calls*: two, so that the second meets what the first left. The
  state after a region or a call is the initial one but for what the model
  keeps on purpose (bindings, `test_stop`, libraries, chunk).
- *Work.* {2, 4} for two threads avoids the remainder of the division in
  `forced` mode on purpose: it *is* lost (see the notes).
- *Clocks.* Two ticks make a slower and a faster thread; a third adds nothing to
  a maximum and a difference.
- *Repeat.* With costs {1, 2} and the limits 4 and 5, `repeat` is doubled once
  or twice, or not at all, depending on who executes the `single`.
- *Words.* Five words have permutations of all cycle shapes, and the sizes 2, 4
  and 5 fill a buffer over what a smaller size has left, or for the first time.
- *Chunks.* Loops over chunks differ in the first pass, the last one and one in
  between; so do the repetitions. The theorems are for any number, and for all
  extensions.
- *Programs.* Two programs show what the second finds, and the third what the
  second has made of what the first left. Two regions make a first and a last
  one, of which a crash may take the second only.
- *PUs of the library.* Cores with one and with two PUs, so that the sublists
  have different lengths and starts, and a list that is filled to its end. More
  growth of the list does not happen: it is as long as the machine has PUs.
- *Failures.* In `sampling_shared` the master's lookup may fail, which asks the
  system in `stop` too, and that of one other thread (`MayFail`). In `driver` one
  core of each machine may have its memory binding refused (`MayRefuse`).
- *Widths.* `UINT` is 1024 in `driver` and 2^20 in `validation`, `Precision` 64:
  small enough for counts on both sides of the limit (`Edges` in `MCDriver`: 1/1022
  just fits, 1/1500 and 9000 do not, and 33/98 is rounded up to 1/3; in
  `validation` the chunk for 1/4097 is 131104, whose product with the cache line
  wraps around). The theorems are for any.
- *Intensities.* All that `roofline -v` asks for; `-oi 7.75` and others reach
  the blocks whose length is a multiple of 32. The theorems are for any.
- *Machines.* The four differ in what the walks branch on: nodes on the package,
  on groups, one or several; caches above or below the groups; shared caches. The
  theorems are for any, with the hypotheses named below.

### Fairness

`Sampling` and `Bench` assume weak fairness of every thread's own step and of
the barrier: OpenMP threads are runnable, the operating system runs them, and a
barrier at which all have arrived opens. The critical section of `Bench` is
entered once by each thread between two barriers, so that nobody can overtake a
waiting thread for ever and weak fairness is enough: the lock is free for good
once the others have passed. `Bench` also needs that repetitions take time
(`Costs` are positive), from which `repeat` reaches `Limit`. Neither the program
that opens regions, nor clocks, nor the scheduler's moves are assumed fair.
`RegionsEnd` allows for failed lookups: no fairness excludes them. `Kernels` and
`Library` have no liveness property and assume nothing; `CountsDown` bounds the
steps of a call. `Driver` is a sequential program whose
benchmarks return (`Bench!Returns`), and so makes steps while it can.

## Disagreements between the code and its documentation

- `sampling_shared_bytes`. `sampling.c:414` *assigns* `s->bytes` (and
  `s->flops`): of two threads on a PU only one's work is printed. `sampling.h:15`
  has the sample of a PU updated by all threads that call from it and
  `sampling.h:50` has the counts for the calling thread only.
- `sampling_master_moves`. In a forced region `stop` looks the master's sample up
  again (`sampling.c:507`). The run has a team of one, so that no PU is shared.
  When the master is not bound and has moved, `stop` takes `last_thread` of a
  sample that was never started from 0 to −1, no end stamp is written
  (`sampling.c:483`), and the line that counts the thread prints a time of 0;
  `sampling.h:65` has the time between the two calls.
- `driver_policy`. The branch for memories of several nodes (`topology.c:179`)
  tests for a depth below that of NUMA nodes, which is −3 with hwloc 2: it is
  never taken and `-p` (`main.c:33`) does nothing.
- `driver_matrix`. The rows of the matrix are the hwloc *groups* (`main.c:170`),
  whatever `--src` says: a machine without groups has an empty matrix, and any other
  that of its groups. `main.c:31` has it "at --src level".
- `library_numa`. A negative depth becomes 0 (`sampling.c:251`). With hwloc 2 the
  depth of NUMA nodes is always negative, so that `ROOFLINE_NUMA` reduces the
  samples over the whole machine, while `sampling.h:6-7` offers the topology root
  (`ROOFLINE_MACHINE`) and the NUMA domains (`ROOFLINE_NUMA`) as two locations.

## What is proved

Every safety invariant that a run without a disagreement checks is stated by a
theorem: `Spec => []Inv` for all values of the constants that satisfy the
modules' assumptions, with a named hypothesis where the code needs one. One more
theorem is a refinement.

**Sampling** (`SamplingProofs`): `TypeCorrect`, `TimersStayBalanced`,
`RegionsStartClean`, `PrintedStaysFinal`, `EveryThreadCounted`. The premise is
`Steady == Master \in Bound \/ "forced" \notin Modes`: with an unbound master in
forced mode the two lookups may differ, and then `last_thread` becomes negative,
as `sampling_master_moves` shows. Bindings of the *other* threads do not matter.
`TimersBalanced` says that `last_thread` of a PU counts the threads between
their increment and their decrement there. It is inductive only with
`LookupInv` (the decrement goes to the sample of the increment) and `TeamInv`
(the two barriers keep the team in one of three parts of a region, so that no
thread counts itself while another resets). `CleanBetweenRegions` adds that the
reset happens once (`ClaimInv`) and that nothing is set before the first barrier
(`CountInv`, `CleanInv`). `last_thread` is not reset by the code: that it is
zero again is `TimersBalanced`. `EveryThreadCounted` (`ThreadsCountedOnce`) then
follows without another invariant: at the reduction all have passed the first
barrier, so that `n_threads` of each PU is the number of threads that entered
there, and sums of cardinalities over disjoint sets are cardinalities of unions.

**Sampling implements SamplingReport** (`SamplingProofs`,
`SamplingKeepsPromise`): `OwnPU => (Spec => KeepsPromise)`, where `OwnPU` binds
all threads to PUs of their own. `RInv` adds to the invariant what each sample
holds while its only thread is at each statement (`ContentInv`), from which the
line printed equals the abstract one. Each action of the library maps to
`Tick`, `BeginRegion`, `Enter`, `Leave`, `Publish`, `EndRegion` or a stutter.

**Bench** (`BenchProofs`): `TypeCorrect`, `InLockStep` (`BarriersMatch`),
`NobodyMeasuresAlone` (`MeasuredTogether`), `NoWorkLost` (`LinesComplete`),
`OneRowPerSize` (`EveryLineOnce`), for any team, sizes, stages, limit and timing.
The invariant says for each thread where it will wait next, and with what:
`Meet(t)` is the barrier, the kept sizes still ahead, the task, the
repetitions, sample and stage. `InStep` says all threads have the same. A
thread between two barriers has a meeting point that depends on shared
variables (`repeat`, `test_stop`), and the proof shows that nobody who still
depends on one sees it change. For `test_stop` the reason is the `single`
between two barriers; for `repeat`, which every thread assigns *while* others
may read it in the test that begins the next size, that all assign the same
value, and that a barrier lies between. `PlaceOK` ties the labels to the tasks
and `TeamOK` says who is in the team.
A second invariant, `RInv`, follows the work from the threads into the lines.
`ThreadInv` says what a thread's own output holds at each statement, and that
what it has read inside the critical section still stands. `GroupInv` says that
an output counts the threads of its group that have added theirs since the last
print, each with the work of one benchmark of the size all are at. `LinesInv`
gives the number of lines as a function of the sizes passed and of who is in the
`single`, and says of each row that it is for its size and group. The sizes do
not decrease, as `roofline_linear_sizes` (`stream.c:41-56`) makes them, so that
equal ones are neighbours and are measured once.

**SetRoot** (`SetRootProofs`): `TypeCorrect`, `EachOnItsLeaf` (`BoundToOwnLeaf`),
for any objects and any refusals, by `TidIsOwn` (in the critical section `tid`
is that of the thread) and `TeamIsRoots` (the team has the size of the root).

**LatencyStream** (`KernelsProofs`): `LinksArePermutation`,
`ChaseStaysInBuffer`, `ChaseIsOneCycle`, `ChaseClosesCycle`, for buffers of any
size filled for any sequence of growing sizes. `MixedPermutes` says that the numbers left
and the links placed *together* permute the words, `Trail` that the words seen are linked to
one another from word 0 on, so that the only one the next link can return to is
word 0. `CycleInv` says that the cycle is closed, or that there are more loads to
go than words not visited, of which every load takes one away; so that the cycle
is closed when no load is left.

**Validation** (`ValidationProofs`): `TypeCorrect`, `IntensityIsExact`,
`PatternsWhole`, `GeneratorEnds`, `ChunkIsBenchmarks`, `LoopEnds`, for any
intensity, register width and sequence of calls. `RatioOK` keeps the proportion of
instructions through Euclid's loop: it says that every common divisor of the
variables of `roofline_PGCD` divides the two counts, so that the quotients are
exact. In `BlocksOK` after `b` blocks the counts are `b` times those of a block
and the register number is their sum modulo 32; 96 is a multiple of 32 and of
the three instructions of 2LD1ST, so that the loop ends by then (`PatternsWhole`
says that it ends between two patterns; no run checks that by itself).
`LoadedOK` says that a loaded library has the intensity of its *name*, whatever
wrote the file later. `Determined` says more: its name determines the number of
bytes the program consumes in a pass, because numbers that divide each other are
equal (so that Euclid's loop has one result) and the first block at which the
writer stops is unique. The chunk of a call is computed from the name, and so
fits a library of an earlier call. `LoopEnds` (`LoopEndsWithBuffer`) is about the
chunks whose product with the cache line is an `unsigned`. It adds that
the chunk is a multiple of those bytes, because `roofline_PPCM` multiplies by the
quotient of a number and a divisor of it, and that each size is a multiple of
the chunk; the lower bound asked for is positive unless it is left out.

**Kernels** (`KernelsProofs`): `TypeCorrect`, `StaysInBuffer`, for every
extension, as is `CallsReturn` (`CountsDown`), and `MovesEveryByte`,
`CountsAreOfLoops` for all but SSE, for any size
and number of repetitions. `AtChunk` says that what is left of the buffer is a
positive number of whole chunks inside a loop, so that the register that counts
down meets zero. A pass accesses each byte of its chunk once because thirty
strides of a register *are* a chunk, which is where SSE fails (see the notes).
`Tally` relates the history to the registers by equations: `moves` registers
are the bytes of the repetitions done and of the chunks before `r11`, and thirty
times the clock of a memory kernel is `34 * moves + 150` for each repetition.
When the loops end, the amounts computed beside them are what these equations
give, and the overhead has fewer instructions than the measure.

**Library** (`LibraryProofs`): `SharesOutSamples`, `EverythingGivenBack`,
`OneHeader`, for any machine, requests and sequence of programs, with crashes at
any time and the race between `access()` and `fopen()`; and `PromiseKept`
(`ResultsKept`) without that race (`Racing = FALSE`), in which results may be
lost (see the notes). The PUs below an object have consecutive logical indexes,
which hwloc gives and `MachineAssumption` says; that a sublist of as many
elements as there are PUs, from the first of
them on, has just those needs the size of an interval and that a finite set of
numbers has a least and a greatest element. `HeapInv` says which blocks there
are at each statement of `init` and `fini`. For the header, `FileOK` speaks of
the file followed by the buffer: it starts with the header, once, while a
program that has created the file has it open, and one that appends has found
the header there and prints none. `NoSequence` says that the constant `Missing`
is not itself a sequence, as a model value is not. For `PromiseKept`, `KeptInv`
says that the entries of the file followed by the buffer are in the order of
region and object among those of one program, so that none is there twice; that
the buffer has only entries of the program that runs; and that `fopen` discards
a file only where no earlier program was promised its lines.

**Driver** (`DriverProofs`), for any machine that is a tree of numbered objects
with parents before children, and any well-formed options. `DriverInv` is
inductive: `OptionsInv` (the list of `-m` is filtered, the other options stay),
`StartInv` (the branch of `main()` is that of the options), and one invariant for
each way to choose memories. `MatrixInv` says that the pairs measured are those
up to the position of the two loops, `ListInv` that the memories measured are
those of the list before `next`, `WalkInv` that they are those which the walk
passes before `mem`: the caches below the nodes, the nodes from left to right,
the caches above. `TargetInv` adds that all of them are memories, and what was
bound for the last one.

- `MatrixMeasured`: `MatrixComplete`, which is about machines that have groups.
  `IntensityNear`: `NearIntensity`, which is about intensities whose counts fit in
  an `unsigned` (`InRange`). Beyond, the low bits of the counts are tried. `Fits`
  says that in range nothing is cut off but the fraction, `Rounding` bounds what
  `round()` does, and the byte count is `1/oi` without its fraction, or the next
  whole number if a double cannot tell them apart.
- `WalkMeasuresAll`: `Regular => WholeHierarchy`. `RunOnce`:
  `opts.matrix \/ opts.given \/ Regular => NothingTwice`. `Regular` says that the
  nodes that the walk meets above the first L1 hang below *one* object, which is
  not a cache, and that the caches above the last node are the ones above this
  object. The walk goes up from the L1, turns to the nodes where it meets them,
  and goes on from the last of them.
- `BuffersOnTarget`, for the threads whose memory binding is not refused, and
  `GroupOfResults`: `OneLevel => DataOnTarget`, `OneLevel
  => OwnGroup`. `OneLevel` says that the objects with NUMA nodes are those of one
  depth, all with cores below them. `roofline_hwloc_local_domain` and the
  outputs use the depth of the *first* such object for all
  (`roofline_hwloc_memory_group_depth`).
- `RangesFollow`: `Even => LevelsAdjoin`. `Even` says that caches and cores are
  shared out evenly, and that a core's share grows from each level to the next
  and is less than half a gigabyte in the caches. The code divides a size by the
  *number* of objects, so that uneven ones give two bounds for one boundary.

The three hypotheses are about the machine, and the four machines of the run
`driver` have all three: they exclude shapes that the code relies on without a
test, not the machines it was written for.

**How recursion is proved about.** What a recursive function computes for every
input needs an induction that the provers do not have. Where a proof depends on
one (`Ancestors`, the function of `roofline_PGCD`, the halving of the upper bound,
the sum over a function), it gives a set or a least number that *solves* the
function's equation, so that the function the definition chooses solves it too,
and then takes a smallest counterexample instead of an induction. For this,
`Order` defines the elements of a set in increasing order by their rank, and
the divisor is a function of pairs. `SetLemmas` has the least and greatest
elements, the enumeration and the sums.

The proofs use the assumptions named in the modules, which TLC evaluates in the
runs: finite sets of threads, with a master, and of locations; positive numbers
of samples and instructions; sizes that do not decrease; a benchmark that
measures at least once; labels such as `"none"` that are no threads; and for the
driver finite machines with natural sizes, on which plain loads and latency
loads are always supported, as on every target of `MSC/intel`.

## What is only model-checked

- Liveness (`RegionsEnd`, `Returns`, `Ends`), as TLAPS has no
  support for `ENABLED` here, and `Ends` moreover needs induction over the tree.
- The five disagreements: their runs are counterexamples.

What the hypotheses of the theorems leave out is also outside the passing runs:
an unbound master in forced mode (`sampling_master_moves`), SSE and a file that
another program creates between `access()` and `fopen()` (see the notes), for
which the properties are false; and machines that are not `Regular`, `OneLevel`
or `Even`, of which nothing is claimed.

## What is not modelled

- The build with PAPI, where the samples hold event sets and the counts come
  from the hardware: what the counters return is not defined by this code.
- The operations of `list.c` that nothing calls (`list_dup`, `_pop`, `_insert`,
  `_remove`, `_find`, `_insert_sorted`), and the kernels of `copy.c`,
  which nothing calls either.
- The kernels for plain SSE, whose names of operations are of single precision.
- ARM and generic back ends: `output.c` and `sampling.c` execute CPUID and RDTSC
  in every build, which no ARM compiler accepts, and `generic.c` is in no rule
  of the makefile. No program exists that these files are part of.
- A team that is larger in a region than it was at `init`: its threads are
  written past the end of `bindings[]` (`sampling.c:310`), which has no outcome
  to model. Likewise a list of memories longer than the topology is deep
  (`main.c:149`).
- The locations that a printed line merges (`output.c:29-31`), and the `info`
  strings of the library with their allocations (`sampling.c:48, 217-226`).
- Requests to the generator whose numbers of instructions do not fit in an
  `unsigned` (`RequestAssumption`): those of `-oi` beyond some 10^7 flops or bytes.
- Where the pages of a thread are whose memory binding was refused.
- Parsing of option strings, names of objects, the format of the output, and the
  R script: no property is about them.

## Notes on the code

Met while modelling, and not the subject of a run of their own.

- The latency links are drawn by a plain Fisher-Yates shuffle, so that word 0
  may be on a short cycle, or link to itself. `NoShortcut` and `ClosesCycle`
  therefore speak of *its* cycle, not of the buffer.
- With SSE a chunk has 512 bytes, thirty accesses of 16 bytes have 480: 32 bytes
  of each chunk are never accessed, and 32 instructions are reported for thirty.
- The overhead of the memory kernels is measured for one repetition, whatever
  `repeat`, and subtracted once.
- `asm_benchmark_mov` decrements an operand that is declared as an input only.
  The amounts after it are computed from the same variable: they are right in
  the build of the makefiles, which does not optimise.
- `__AVX512__` (`intel.h`, `MSC.c`) is not a macro GCC defines: it has to be given
  by hand.
- Latency loads are counted in units of 4 bytes while words have 8: twice the
  number of words.
- When two threads share a PU, the first to arrive starts the timer and the last
  to leave stops it. The time is then the difference of two threads' CPU clocks
  (`sampling.c:483`), the elapsed time of neither. `TimersBalanced` holds for
  such teams; `NanosIsElapsed` is only claimed for threads on PUs of their own.
- A forced region loses the remainder of `bytes / n_threads` (`sampling.c:439`).
- Small levels print fewer than `ROOFLINE_N_SAMPLES` sizes: rounding makes
  neighbours equal.
- `list_chk_length` grows one too little for an index equal to the allocated
  length, which pushing never asks for, and would leave the sublists with the
  cells the list had before; `list_insert_sorted` misplaces small elements.
  Neither happens in this program.
- `fini` closes stdout too (`sampling.c:357`): a program that initialises the
  library again prints to a closed stream, which the model leaves out.
- A program that is killed before its first line is flushed leaves an empty file,
  to which later ones append without a header (`HeaderFirst` excepts it).
- With `Racing = TRUE`, `ResultsKept` is violated: another program creates the
  file after `access()`, and `w+` discards it, though appending was asked for.
- A refused memory binding returns no location and skips the `memset`: the pages
  stay where they were or come to where they are touched first (`topology.c:239`),
  and the thread's results are printed like the others.
- The walk starts at the first L1 of the machine whatever `--src` says.
- A NUMA node that is a memory child of a *cache* would be passed by in the walk.
- `roofline_hwloc_get_next_memory` falls off its end when a NUMA node has a
  cousin. Without optimisation, as the makefiles build it, the caller finds the
  cousin in the return register; `NextMemory` models that build.
- The upper bound of the sizes of a memory is halved while it is above a gigabyte
  and above twice the lower bound (`topology.c:53`). With an upper bound of
  exactly twice the lower bound and one, the half *is* the lower bound and no
  size is left. It takes half a gigabyte of cache for a core, which `Even` excludes.
- `-oi` is approximate: bytes are `1/oi` cut off and flops are rounded, so that
  2/3 becomes 1. Below 2^-32 the bytes, and from 2^26 on the flops, do not fit in
  an `unsigned`, and their low bits are tried.
- `roofline_PPCM` has `unsigned` parameters and computes in 32 bits
  (`stats.c:19-21`), while `stream.c:36` gives it chunks and cache lines as
  `size_t`. With lines of 64 bytes a chunk of 64 MB wraps around: sizes need not be
  multiples of what the generated loop consumes. It takes an intensity whose
  pass moves that much, of the order of 10^-6 flops for a byte.
- A thread that does not find its PU returns from `start` or `stop` before the
  barrier (`sampling.c:404, 452`), where the others wait for ever.
- After `-oi` or `-v` the chunk of latency loads is still that of the last
  generated program.
- `-m` fills an array with as many entries as the topology has levels.
- Non-temporal loads of caches are listed as possible and filtered out.

## Plan

The order was by what could go wrong most: first the library that many threads
enter at once, then the lock step of the benchmarks, the generator and the
walks, then the kernels and what programs leave in a file. That is done, and the
safety invariants are proved. What is left, in this order:

1. `NanosIsElapsed` for threads on PUs of their own from `ContentInv`.
2. The PAPI build of `start` and `stop` as a second next-state relation, with
   counters that return any value, for the integer division at `sampling.c:464`.
3. A team that may grow up to a bound, with `bindings[]` in a heap of blocks.
