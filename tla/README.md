# A TLA+ verification of Trace4J

Trace4J is a JVMTI agent that samples a Java program with hardware performance
counters and, from every sample on, follows the thread from control transfer to
control transfer with a hardware watchpoint, so that it can report function
*instances* (start, length, calling context) instead of aggregated samples. The raw
files are turned into tables and Perfetto traces by Python scripts.

Paths below are relative to the repository; `profiler/` is `src/profiler/`.

## 1. The system

### Components, state and operations

| Component | State | Operations | Model |
|---|---|---|---|
| Code cache manager: `profiler/code_cache.*`, `src/util/range.h`, `lock.h` | `_method_id_map` of groups (versions, code by start address), `_method_range_set`, the set of methods never compiled, one spin lock | add a compiled method (in two critical sections with JVMTI calls between them), remove one, look an address up, file a method at thread end, dump at VM death | `CodeCache`, which implements `CodeIndex` |
| Call tracer: `profiler/profiler.cpp` 112-1149 | thread local: `WP_Stack`, `retCtxtStack`, `CPUEventStack`, `CPUEventCntStack`, `decodeInsCounter`, `eventRDCnt`, `RuntimeCallCount` | `OnSample`, `decoder`, `OnBranchWatchPoint`, `OnRetWatchPoint` | the stacks in `CallTracer`, the walk and the branch conditions in `BranchFollower`, start and end of an instance in `Timeline` |
| Watchpoint library: `thirdparty/watchpoint-lib` | thread local slots, the last counter reading | `WP_Subscribe`, `OnWatchPoint`, disable | the one slot the tracer uses, in `CallTracer`, `BranchFollower` and `Sampling` |
| Context tree: `profiler/context.*`, `constructContext`, `threadStart`, `threadEnd` | per thread: contexts by id, parent and child links, metrics | find or create a child, record, write contexts with metrics and their ancestors | `ContextTree` |
| Output: `profiler/io.cpp`, `xml.cpp` | one file per thread, the method file | open (a taken name gets a suffix), write | entries only, in `ContextTree` and `CodeCache` |
| Offline processing: `offlineprocess/process_raw_data.py`, `pylib/` | queue, flag, root of parsed nodes, worker list; `_context_dict`, `_root_set`, `_parent_root_dict` | group files by thread id, parse with one producer and ten consumers, rebuild the tree, tables, timeline | `OfflineReader` up to `load_context`, `Timeline` from there to the track |
| Perf events and ring buffer: `src/perf/` | descriptors and mapped buffers per thread | set up, handle the overflow signal, read a sample, stop, refresh and start the event | `Sampling` over `PerfBuffer`, which implement `SampleQueue`; the set-up through libpfm is left out |
| Sampling guard and thread data: `src/util/safe-sampling.h`, `profiler/thread_data.cpp` | `inside_agent` flag per thread, thread data block, its key | enter, exit, allocate, free | `Sampling` |
| Agent life cycle: `profiler/agent.cpp` | JVMTI environment, callbacks | load, attach, stop, VM death, unload | callbacks, late attach, the stop option and the unload in `CodeCache` and `Sampling`; the option parser and the order of start-up are left out |
| Metrics: `profiler/metrics.*`, `welford.h` | metric tables, running mean | register, increment | not modelled: floating-point means |
| Instruction helpers: `profiler_support.*`, `x86-misc.*` | tables of opcodes | decode, resolve a target | what the tracer takes from an instruction, in `BranchFollower`; XED's tables are left out |
| Method filter: `profiler_support.*` | name patterns | match | not modelled: strings; the tracer leaves the outcome open |
| Data-centric analysis: `data_centric.*`, `splay.*` | splay tree of objects | insert, find | not modelled: not reachable in this build's event dispatch |
| `preload/`, `perfetto/`, `thirdparty/libpfm*`, `src/external/`, `perfetto_trace_pb2.py` | | | not modelled: forwarding wrappers, vendored and generated code |

### How they interact

JVM threads enter the agent through JVMTI callbacks (compiled method load and
unload, thread start and end, VM death) and through signals (a counter overflow
leads to `OnSample`, a watchpoint trap to `OnRetWatchPoint`). Handlers call
`CodeCacheManager::getMethod` under the spin lock, add contexts to their own thread's
tree, and arm the thread's watchpoint. `threadEnd` writes the thread's contexts and
tells the code cache which methods they name. The method file and the context files
are the only link to the Python scripts.

### What is hard

* The code cache is the one structure all threads share. `addMethod` gives its lock up
  in the middle, because JVMTI may need a safepoint that a handler spinning on the lock
  would prevent; handlers use `CompiledMethod` pointers after they have released it.
* The tracer's state is thread local and sequential, but what drives it is not under
  its control: a sample can arrive in every state of an unfinished trace, traps are
  dropped on several early returns, a subscription may be refused, and past the
  threshold the code unwinds frames it learnt of earlier. Two stacks, two counter
  stacks, a counter and the watchpoint must agree through all of it.
* The overflow handler, the trap handler and the callbacks interrupt each other on one
  thread. They share a flag that does not nest, a counter that each of them switches off
  and on, and a ring buffer that the kernel fills meanwhile and that the reader decodes
  with offsets that do not match the records.
* The tracer predicts where the thread goes: it evaluates conditions from the saved
  registers and remembers decoded blocks by address. One wrong prediction and the
  watchpoint waits where the thread never comes.
* Contexts are written in the order of an unordered map and parsed by racing
  consumers, so the reader sees nodes in any order; thread ids are used again.

`PROJECT.json` lists the hazards one by one at their lines.

### What makes each component correct

* Code cache: live published code resolves, held pointers stay valid, every dumped
  method is filed in exactly one way, versions are unambiguous, nobody waits for ever.
* Call tracer: no empty stack is popped, no array index leaves its array, an interval is
  filed under the frame it belongs to and never charged more than happened.
* Branch following: the watched instruction is the thread's next transfer, and the walk
  that looks for it, in a signal handler, ends.
* Sampling: the flag is set exactly while the agent is active, one overflow gives one
  sample with all its fields from one record, the event is on again when a handler
  returns, the handler returns.
* Timeline: every recorded instance gives one row, and the track shows, at every time,
  the innermost instance that was recorded.
* Context tree and reader: a call path is one context, a file is a complete subtree,
  and what is read back is what was written.

## 2. Modules and how they correspond to the code

### `CodeCache` (instances in `MCCodeCache`, proofs in `CodeCacheProofs`)

Every JVM thread has a program counter `pc[t]`. One action is one critical section,
one JVMTI call or one event from the JVM; `LoadLock`, `UnloadLock`, `SampleLock`,
`EndLock` and `AddMethodRelock` are the acquisitions of the spin lock. `groups`,
`recent`, `addressMap`, `rangeSet` and `heap` are the manager's maps and the objects
they own; `uncompiled` is its `MethodCache`, whose `performActionAll` walks under a
mutex no writer takes: `Disturb` lets a concurrent write lose or repeat elements of
the walk. The lookup (`LastStart`, `GetRange`) is `upper_bound` and one step back.

`CodeIndex` is what the cache promises: a map from addresses to code that changes in one
step when a method is published or removed, and that a lookup reads in one step.
`CodeCache` implements it (`ImplementsCodeIndex`) although it publishes in the second of
two critical sections and searches a map of intervals by start address.

External are the JVM's promises: live code does not overlap, memory is reused only
after the unload callback returned, code a thread executes is not unloaded, JVMTI
queries wait for a safepoint, and a thread in a signal handler is not at one.

### `CallTracer` (proofs in `CallTracerProofs`)

One thread and one counted event. The state is thread local and its handlers are not
interrupted by each other, so one trap or one sample is one step; the module has one
action per path through the handlers, early returns included. `Decoder` is
`Profiler::decoder` as a function of the two stacks and the counter; which transfer it
meets (`x`), whether the trapped pc is compiled Java code, and whether a call goes to
the runtime are open. How a conditional branch is evaluated only
decides which transfer comes next; `BranchFollower` has it. A stack entry is the call
level it was pushed for. `truth` and `rec` are history variables: what really happened
on each level, and the instance recorded last. `fault` names the assertion or bound that
stopped the process.

`WP_Subscribe` refuses an address that overlaps the watched one and leaves the slot as it
was (`DecodeKeeping`): the watchpoint, and the callee frame that came with it, stay those
of the earlier trace, which `old` marks in the slot and in the record. `CanOverlap` says
where that can happen. Two stack words can always be the same, when a frame is sampled
again before its word was touched; two instructions only when they lie within 8 bytes,
which is the parameter `Overlaps`.

### `BranchFollower` (proofs in `BranchFollowerProofs`)

A program is an instruction for each of the addresses `0..MaxAddr`; an instruction is
one of the classes `decoder` distinguishes and a target. `decoder` is one step per
instruction it looks at: `DecodeKnown` when `basic_block_map` has the end of the block,
`DecodeSequential` and `DecodeJump` when it walks on, `DecodeTransfer` when it arms the
watchpoint. `bb` holds three kinds of entries, as the code's map does: none, one whose
walk was not finished (`WP_IP` is -1; the first walk from an address leaves it so) and
the address of a transfer. `Taken` has the conditions of `OnBranchWatchPoint` with their
masks, `Jumped` what the processor does with the same flags and count; `Outcomes` are
all pairs of the two. `ReadReg` is `readReg` reduced to the registers that matter.
`Leads(a, t)` says, without recursion, that `t` is the first transfer on the thread's
way from `a`. `Replace` puts another instruction at an address while the thread is
elsewhere, as a code heap does. `fresh` and `astray` are history variables: the blocks
remembered since the code last changed, and the first reason why the thread may be lost.

The sampled address is taken to be the interrupted one. Calls and returns are transfers
like any other here; the watchpoints on stack words, on the return of a runtime call and
past the threshold are in `CallTracer`. The target of a memory operand (`xed_agen`) and
the registers for which `readReg` asserts are left out.

### `Sampling` over `PerfBuffer`, which implement `SampleQueue` (proofs in `SamplingProofs`)

One thread. `base` is what it does under the handlers: Java code, or a place in one of
the callbacks of `agent.cpp`; `hnd` is the place in `perf_event_handler` and `trap` in
`OnWatchPoint`. A pending overflow signal is delivered before the next step of `base`;
a trap can also come inside `OnSample`, which walks the stack. `td` is the thread data
block, with the flag and whether it has a list of events. An access without a block, or
after the key was deleted, meets a fresh one, as `thread_data_get` allocates it.
`Shutdown` is `JVM::shutdown` on another thread at any time: by the stop option of an
attached agent, or by `Agent_OnUnload` of a loaded one, after which the JVM begins no
further callback. `ev`
and `limit` are the perf event: `restart_perf_event` adds one to the overflows the kernel
lets pass before it disables the event, `perf_start_all` enables it without a limit of
its own. `fault` names the assertion or null pointer that stopped the process. `run`
holds the handler's `cnt` and two history values.

`PerfBuffer` is the ring in words of four bytes. A word is the overflow it was written
for and its field, so the properties can say that a decoded sample is put together from
one record. The reader takes 9 of the 16 words of a sample. What it then takes for a
header has size 0, and `perf_skip_all` drops whatever is left; that is why `assert(cnt <
2)` holds although several samples may wait, unless a trap switched the counter on again
under the handler. `addr` and `cpu` are decoded from the wrong words; nothing uses them.
`SampleQueue` is the promise: samples in the order of the overflows, none twice, the
oldest first, the rest may be discarded.

### `Timeline` (proofs in `TimelineProofs`)

The counter arithmetic of `OnSample` and `OnBranchWatchPoint` for start and end, and
`output_to_file` and `output_to_pftrace` on what was recorded. `level` is the two counter
stacks with the call path of each level; `origin` is the lowest element of `CPUEventStack`,
which outlives a trace. `ContextOf` is `constructContext`: the callers are frames with a
bytecode index, and the instance ends the context with a frame that has an instruction
address, so a context with metrics is never above another one. `OutputPath` is one path
from the root to a leaf, in any order. One action is one path through the body of the loop
over the rows; `LeaveEnded` is one turn of the inner loop. Runtime calls and the path past
the threshold are left to `CallTracer`.

### `ContextTree`, `OfflineReader`, composed by `ContextRoundTrip` (proofs in `ContextTreeProofs`, `ContextRoundTripProofs`)

`ContextTree` is the tree of the threads that run under one thread id, one after the
other, and their files. `AddContext` is `ContextTree::addContext`, called for each
frame of a `constructContext` chain; `ConstructedContext` is its return, after which
some callers record metrics and some do not. `VisitContext` and `WalkParent` are the
two loops of `threadEnd`, in any order of the map. A frame is a model value: the code
compares frames field by field.

`OfflineReader` is `HomoXMLParser` with its `WorkerManager`, then `load_context`. The
two halves of the consumer's loop test are separate steps, as are taking a node and
adding it. `AssignWork` runs a task on the main thread when no worker is left, and
then assigns nothing until it returns. `maxWorkers` is the machine's processor count
less one, 0 included. `truncated` is a file that ends inside a node: the producer
raises, which ends its thread without the finish callback. `AddContext` is
`ContextManager.addContext` on the next node, with `set.remove` raising where it would.

`ContextRoundTrip` lets threads run, then starts the scripts on the files they left.

## 3. Runs

| Run | Shows | Distinct states |
|---|---|---|
| `codecache` | two threads, two methods, two addresses, two loads, two signals: lookups, pointers, files and assertions; the cache implements `CodeIndex`; every callback and handler returns | 472 794 |
| `codecache_attach` | finding: unload of code older than the attach | |
| `calltracer_deep` | threshold 3, three samples, accepted or refused, four events: the stacks agree, attribution is never too high | 845 904 |
| `calltracer_assert` | finding: the call that reaches the threshold is handled as a return | |
| `branchfollower` | every program of three instructions, every condition with every flags and count, one replaced instruction: the watchpoint is on the thread's next transfer, the walk ends | 945 789 |
| `sampling` | callbacks, overflows, signals, traps and a shutdown (stop option or unload) on one thread, up to six overflows: flag, buffer and counter agree, the buffer is a `SampleQueue`, the handler returns | 231 347 |
| `sampling_stop` | finding: a dropped signal ends the sampling of the thread | |
| `timeline` | up to five instances on three levels, interrupted or not: one row per instance, where the rows nest the track shows the innermost recorded instance, and it is finished | 223 155 |
| `timeline_order` | finding: a track that runs backwards after an interrupted trace | |
| `timeline_depth` | finding: a track that runs backwards although nothing was interrupted | |
| `roundtrip` | trees of up to three contexts, one producer, two consumers, 0 to 3 workers: what is read back is what was written, and reading ends | 182 076 |
| `roundtrip_reuse` | finding: two threads with the same id | |

Why the bounds are enough to meet the interesting cases:

* Two addresses give methods of one and of two addresses, adjacent methods, and a probe
  below the first entry. Two loads give two versions of one method, two methods, and
  reuse of an address after an unload; two threads let a handler overlap with a load, an
  unload or a thread end, and a load with another load of the same method. The theorems
  drop these bounds.
* Threshold 3 gives nested callees, sibling callees and the unwinding of two open
  levels; three samples interrupt an unfinished trace twice, and each can be refused. The
  theorems drop these bounds too.
* Three addresses give forward and backward branches, blocks through jumps, circles of
  jumps and branches into the middle of a block; one replaced instruction makes a
  remembered block stale. The counts 0, 1 and 2 give the loop that wraps, the one that
  ends and the one that goes on. The theorems drop these bounds.
* A ring of 64 words holds three samples, so with six overflows several wait, one is lost
  and reported, and the ring wraps. The signals of that many overflows meet every place
  in the callbacks and handlers.
* Five instances of two methods on three levels give siblings, nested and repeated
  contexts, contexts with two children, rows that touch, rows that overlap without nesting
  and interrupted traces. With one instruction between two transfers an interval is as long
  as it has transfers; `timeline_order` has two, and the theorems any number.
* Three contexts give chains, siblings, and inner contexts with and without metrics of
  their own. Two consumers are enough to race for the last node; with three workers
  every task has a thread, with none they run one after the other on the main thread.

Deadlock is checked in every passing run except the tracer's, whose behaviours end when
the bounds on samples and events are used up. `Done` marks the ends that are meant in
`Sampling` and `Timeline`.

### Fairness

`CodeCache` assumes weak fairness of each thread's steps inside the agent: JVM threads
are scheduled by the kernel and a thread in the agent is never stopped for good.
Nothing is assumed of the JVM's events. The spin lock is not fair, and weak fairness
does not make it so; signals and loads are finite in the instance, so no thread is
overtaken for ever. `ContextRoundTrip` assumes weak fairness of the script's main
thread and of each task: a consumer that finds the queue empty sleeps and tries again.
Nothing forces the user to start the scripts.
`Timeline` assumes weak fairness of the script once it is started. `Sampling` and
`BranchFollower` assume weak fairness of the steps of a thread inside a signal handler,
which the kernel schedules like any other; nothing is assumed of overflows, traps or
the thread's own steps.

### Findings

Each is a run whose one property TLC violates; `PROJECT.json` quotes the lines.

1. `codecache_attach`: a method compiled before the agent was attached and compiled
   again later makes `removeMethod` fail its assertion when the old code is unloaded.
2. `calltracer_assert`: the call that reaches the threshold is handled as a return;
   the last return then finds `retCtxtStack` empty and asserts.
3. `sampling_stop`: the first sample turns the event into one that the kernel disables
   after one overflow. When that overflow's signal is dropped inside a callback nothing
   restarts the event. `SamplingStopsOnlyByDrop` shows that this is the only way.
   A trap of a watchpoint that is still armed switches the event on again; without one
   nothing does.
4. `timeline_order`: a sample that interrupts a trace starts at the origin of that trace;
   rows then overlap without nesting and the track goes back in time.
5. `timeline_depth`: a return adds its last reading to its direct caller only, so what the
   callees of a callee counted is missing further out. One trace of three levels, without
   any interruption, is recorded as f = [0,3], g = [1,4], h = [2,3], and the track closes g
   at 4 and f at 3. Where rows nest, `ShowsInnermost` holds.
6. `roundtrip_reuse`: contexts of a thread overwrite those of an earlier thread with
   the same id.

What the passing runs leave room for, met while modelling:

* `OnTrack` names four ways in which the tracer loses the thread: blocks remembered from
  code that was replaced (`profiler.cpp:54`), RBP read as RDI (`511`), the count of a loop
  compared as signed (`821`), and a refused subscription (`watchpoint.c:688`). The walk of
  `decoder` does not end on a circle of direct jumps (`284`).
* A frame that is sampled again while its stack word is still watched is not dropped, as
  the comment at the refusal says (`watchpoint.c:688`): only the subscription is. The new
  trace goes on, and its outermost interval is filed under the callee frame of the earlier
  sample (`profiler.cpp:994`, `1077`). `RecordedFrameMatches` says that no other interval is.
* When the subscription for an instruction is refused and the threshold is above 0
  (`Overlaps`), a watchpoint of the old trace fires into the stacks of the new one and
  an empty stack is popped: the theorems about the tracer assume that away. A threshold
  above `MAX_STACK` (64; the manual's example uses 100) writes behind the counter
  stacks: `DepthWithinThreshold` and `DepthBounded` say that a smaller one cannot.
* A call into the runtime drops what its caller counted since its last trap
  (`profiler.cpp:874`); `NoOverattribution` is therefore an inequality.
* A thread that was running before the attach ends with a null pointer in
  `WP_ThreadTerminate`, and a trap after the events were closed or the key was deleted fails
  an assertion (`FaultsExplained`). After the stop option contexts of running threads are
  not written.
* A signal that no overflow sent, before the events of a thread exist, leaves the flag
  set until the callback ends (`GuardMatchesActivity`).
* Reopened slices carry the call path and metrics of another row
  (`process_raw_data.py:186`, `198`).

## 4. Theorems

All proofs are checked by TLAPS to the last leaf. They hold for every value of the
constants that satisfies the modules' assumptions.

### Code cache

`Invariance` proves `Spec => []IInv`. None of the properties is inductive by itself:

* `HeldInv`, `CodeInv`: the code a callback is about is live and no other callback's,
  and live code does not overlap. Without it two loads could publish at one address.
* `RangeInv`, `GroupInv`: the range set, the groups, the heap and the JVM's live code
  agree on every entry.
* `FreshInv`, `PublishedInv`: code being loaded has no entry yet, all other code has
  the right one. This carries the argument over the gap in which the lock is free.
* `HandlerInv`: code under a handler is not being unloaded, so its object is not
  deleted between `getMethod` and its use.
* `VersionInv`: versions in flight and versions described are drawn once.

From it: `TypeCorrect`, `PointersStayValid`, `PublishedCodeResolves` (with
`GetRangeResult`, that the lookup returns the entry covering an address when ranges do
not overlap), `MethodsFiledOnce`, `VersionsUnambiguous`, and `RemoveNeverAborts` under
the assumption `PreAttach = {}`, which `codecache_attach` shows to be needed.
`Refinement` proves that `CodeCache` implements `CodeIndex`: publishing, removing and
looking up are the abstract steps, every other step leaves the abstract map alone.

### Call tracer

`Invariance` is proved under `NoNearTransfers`: no subscription for an instruction is
refused, or the threshold is 0, where no instruction is watched. Without it a refused
sample leaves the watchpoint on an instruction armed over new stacks. That the stack
word of a sample is still watched is not excluded: the stacks then are those of the new
trace and only the callee frame in the slot is old (`old`), which `FramesMatch` confines
to the interval of the sampled frame. The key conjunct is `Shape`: how `WP_Stack`,
`retCtxtStack`, the counter index and the call counter are related depends on what the
armed watchpoint is for. Nothing is claimed of the stacks while no watchpoint is armed:
dropped traps leave them inconsistent, and the next sample replaces them. `Staircase`
says which level each stack entry is for, which is why the frame read from the slot that
was just armed is the right one; `AttributionInv` bounds what is counted by what
happened.

From it: `TypeCorrect`, `NoUnderflow`, `DepthBounded`, `FramesMatch`,
`NeverOvercounts`; and, with `Threshold = 0`, `DefaultNeverAborts`.

### Branch following

`ConditionsExact` compares the conditions of `OnBranchWatchPoint` with the processor's for
all flags and all counts. `Leads` is the least set closed under "leads into", stated over
all sets of addresses; the lemmas `LeadsSelf`, `LeadsBack`, `LeadsStops` and `LeadsOn` get
everything the proof needs from that form by choosing a set, without induction.
`OnTrack` alone is not inductive: `WalkInv` says that the walk has not left the block it
started in and that it started where the thread goes next, `KnownInv` that every block
remembered since the code last changed ends where it says, `ThreadInv` that the tracer works
only for a thread that is in the code.

From it: `TypeCorrect` and `FollowsThread`, for code of any length.

### Sampling (`SamplingProofs`)

For every size of the ring and every number of overflows. What the reader finds at an
offset depends on what was written there any number of turns ago, so the buffer is
followed by stream positions, not by offsets: `BufferInv` says that from the tail on the
words between tail and head are whole records, one after the other, samples numbered
upwards, and `Records` says what stands behind each position. The tail is at the head of
a record (`AtRecord`) or, inside a run of the handler, behind the nine words of a sample
that were taken (`AfterSample`), where the next word is not a header. `ModUnique`,
`ModAdd` and `UnreadWords` carry words over a wrap and over a write.

* `GuardInv` relates flag, thread data and the places of callback, handler and trap.
* `WatchInv` says when a trap can come and what it finds.
* `SignalInv` counts: a signal on its way, a unit of the limit and a handler that has not
  answered stem from different overflows, so that together they are at most the overflows
  so far; a handler that leaves has switched the event on, or the next signal waits.
* `RunInv` relates `cnt` and the sample passed on to the oldest record of the run.

From it: `SamplingTypes`, `GuardIsActivity`, `FaultsAreExplained`, `HandlerPassesOldest`,
the action property `OnlyDropsStopSampling`, and the refinement `BufferIsSampleQueue`:
an overflow that fits is the abstract enqueue, taking a sample the abstract take,
`perf_skip_all` the discard, and all other steps leave the abstract queue alone.

### Context tree and round trip (`ContextTreeProofs`, `ContextRoundTripProofs`)

For every number of contexts, threads, consumers and workers.

`TreeInv` is the agent's half. `TreeShape`: parents are older than their children, so
walks end at the root. `DumpClosed`: what is written is closed under parents except for
the context the walk has reached, and until the root is written the walk is above all of
it; a walk can therefore stop at the first context that is written already. When a file
is finished this is `FileIsSubtree`; `FilesComplete` keeps it for the files of earlier
threads, without the tree they came from.

The scripts' half of `IInv` starts from files of that form:

* `WorkersInv`, `ProducerInv`, `ConsumersInv`: a consumer leaves its loop only when the
  producer had finished before it found the queue empty, so nothing is left behind.
* `CountInv`: for every set of nodes, those parsed, queued and held by consumers are
  together as many as the producer has put, and the root has those of the files before.
  It is stated for all sets and not for single nodes: that a whole file was parsed
  needs the set of all nodes, that none came twice needs the singletons.
* `ChildrenInv`: the nodes read so far are a subtree, and of two nodes with one id the
  second comes after the parent of the first. The latter is what keeps `set.remove`
  from raising when a thread id was used again.
* `LoadInv`: `_root_set` and `_parent_root_dict` have exactly the nodes that wait for
  a parent. `RebuildInv`: the frames and children are those written, when no id
  occurs twice.

From it: `RoundTripTypes`, `SiblingsStayDistinct`, `FilesAreSubtrees`,
`EveryNodeParsedOnce`, `RootListsAgree`, `FailsOnCutOffOnly`, and `TreeIsRebuilt` for a
thread id that was used once. TLC refutes `TreeRebuilt` as well as `ContextsPerThread`
where an id is used twice. The only assumption besides the bounds is
`SentinelAssumption`: the value that stands for "not in `_context_dict`" is not a frame.
One root remains at the end because the parent of a root other than 0 would be in the
file; the argument takes the smallest such id (`Least`, from the well-foundedness of
the naturals).

### Timeline (`TimelineProofs`)

For every depth of calls, length of the work between them and number of instances.

* `TraceInv`: what the tracer recorded lasted for some time, under contexts whose last
  frame alone has an instruction address.
* `RowsInv`: the rows are the instances of the paths that were output. When all leaves
  are done they are all instances, because every context with metrics is above a leaf
  (`LeafAbove`: a longest context below it); after the sort they are ordered by start.
* `LoopInv`, when the rows nest: `my_stack` is a chain of rows each strictly inside the
  one below, every row that was left has ended, the next row is still to start, and the
  track is right up to its last event. So the top of the stack is the innermost instance
  from there to its end or to the next start (`TopIsInnermost`), which is the slice the
  next step closes. `StackInv` is what holds when the rows do not nest.
* `CountInv`, a second invariant over the first: a context has as many rows as instances
  once its path was output, and none before. The leaves are the recorded contexts
  (`LeavesRecorded`, from the frames with an instruction address), so a path gives the
  rows of its last context only (`LeafRows`), and the sort changes no count, since the
  ranks are a bijection (`CountSorted`).

`Sorted` is proved from its definition by ranks: ranks are different and below the number
of rows, hence each is taken (`RankProperties`, `RankOnto`), so the sort is a permutation
in the order of start. What `FlattenSeq` computes is proved in `FlatteningExists` and
`FlattenProperties` with the smallest counterexample (`Least`) in place of an induction.

From them: `TimelineTypes`, `TrackShowsInnermost` and `OneRowPerInstance`. That rows nest
stays a premise: it fails where an unfinished trace was given up and the next one starts
at the value the lowest level has kept (`timeline_order`), and also within one
uninterrupted trace of three levels (`timeline_depth`).

### Only model-checked

Liveness (`EveryCallReturns`, `ReadTerminates`, `HandlerReturns`, `TrackWritten`,
`DecoderReturns`), which is outside this prover's reach. Every invariant and every
action property of a passing run is stated by a theorem.

## 5. Not modelled

Formatting and parsing of XML, names and lines of methods, opcode tables, floating-point
statistics, `perf_event_open`, XED's tables, and the parts the table in section 1 marks
so. In the tracer and in the sampling handlers: more than one counted event at a time,
and with it the path of `perf_event_handler` for a descriptor that is none of the
thread's. In the round trip: a file that ends between two nodes; the agent promises
nothing for it. In the code cache: characters of two method descriptions that mix in the
unlocked output stream. `data_centric.cpp` and `splay.cpp` are compiled but nothing
calls them; `preload.cpp` forwards to libc. By far the largest part of the repository is
vendored (`perfetto/`, `thirdparty/libpfm-4.13.0/`, `src/external/`); it is other
projects' code and is only used through its interfaces.

## 6. Plan

1. `Timeline`: that the rows of uninterrupted traces of at most two levels nest, which
   would replace the premise of `ShowsInnermost` by a property of the tracer for them.
