# Verification of LLVM-Tracer

TLA+ models of LLVM-Tracer, checked with TLC on small instances, and theorems about
them, proved with TLAPS: about the runtime library of traced programs and the files it
writes, the instrumentation pass, the label map tool and the build. Paths below are those
of the repository under `src/`.

## The system

LLVM-Tracer instruments a C program so that running it produces a compressed
dynamic trace of LLVM instructions. Five parts do so, under the control of make.

| Part | Source | State it keeps | Operations |
|---|---|---|---|
| Label map tool | `ast-pass/GetLabeledStmts.cpp` | the global `labelMap`, the output file | visit a function, end a source file, search the callers of an inlined function |
| Build | `playground/Makefile.tracer` | the files and their ages, `WORKLOAD` | `make trace-binary`: label map, objects, binary; `make clean` |
| Instrumentation pass `fulltrace` | `full-trace/full_trace.cpp`, `.h` | `tracked_functions`, `mangledNameMap`, `is_toplevel_mode`; per function the slot tracker, `slotToVarName`, `vector_buffers`, `valueDebugName`; per block `InstEnv::instc` | `doInitialization`, `runOnFunction`, `runOnBasicBlock`, `runOnFunctionEntry` |
| Label map pass `labelmapwriter` | `full-trace/full_trace.cpp` | the label map text | read the file, insert two calls at the start of `main` |
| Runtime library | `profile-func/trace_logger.cpp`, `.h` | per thread `trace` (name, stream, count, top-level function, status); shared `gz_files`, its mutex, `labelmap_str`, the streams | `trace_logger_update_status`, `_log_entry`, `_log0`, `_log_int` etc., `_init`, `_register_labelmap`, `llvmtracer_set_trace_name`, `fin_main` |
| Traced application | any; `playground/` has examples | its stacks and threads | calls, returns, spawns threads, names its traces |

The tool writes a file that the label map pass reads; the passes insert calls of
the runtime library into the application; at run time every thread meets these
calls (hooks) in the order in which they were inserted, and the threads share the
registry of open files. `exit` calls `fin_main`, registered with `atexit`, which
closes the streams while other threads may still run.

What is hard, and what makes each part correct:

* **Runtime library.** Threads interleave in `open_trace_file`; the registry is
  guarded by a mutex, but `fin_main` does not take it and writing to a stream
  takes no lock. Whether to log depends on a truth table over the function, the
  opcode and the status left by earlier hooks, and `trace` is deleted and created
  again along the way. `gzopen` may fail with the mutex held. Correct means: a
  thread logs exactly inside top-level calls; a file is opened, truncated and
  headed once; lines go to the file that was asked for; the file reads as a
  sequence of numbered spans; every stream is closed in the end.
* **Instrumentation pass.** Hooks are inserted while the code is walked, and the
  entry hooks last though they run first; names and buffers are cached in maps
  that must be valid at the point of use. Correct means: hooks surround their
  instruction, every path through a workload function switches the tracer on and
  off, a buffer is allocated before its uses and has the right type, values, blocks
  and arguments go by one name wherever they are shown, numbers are those of the
  source, and opcodes, sizes and values are those of the program.
* **Label map tool.** A callee may be seen before it is visited, the search for
  callers is recursive on a graph that may have cycles, and a global map is reused
  for several sources. Correct means: exact callers, one line per label, an end.
* **Build.** make knows ages, not contents: sources change while it runs, the tool
  writes its file bit by bit and may die half way, and `WORKLOAD` is no file. Correct
  means: a binary holds the label map of its own sources, and its objects were
  instrumented for one workload.

`PROJECT.json` lists every hazard of this kind at its line, with the properties
that cover it or the reason why none does yet.

## The modules

**TraceLogger** is the runtime library. Its operators keep the names of the C++
functions and give the effect of a call on the library's variables; functions in
which another thread can run half way (`open_trace_file`, `fin_main`) are split
where it can. `NoTrace` is the null pointer, `NoFile` a `trace_file` that was never
assigned. A `gzFile` is represented by the name it was opened under, which is
unique because a name is opened at most once. A failed assertion, `exit` and
a crash are values of `process`. A hook writes its line with up to three `gzprintf`
and the label map is three `gzwrite`. These calls are one step, but a thread that stands
at that step counts as being in the midst of them (`AtWrite`): when another thread
writes to the stream, or `fin_main` closes it, meanwhile, the outcome is undefined. The
line may be lost or the process crash, or the file is `Damaged`: its lines may be torn or
overwritten, nothing more is said about it, and nothing written later repairs it. Writing
through a stream that is closed or was never assigned may damage any open file, since
the memory may have been given to another stream.

**TracedProgram** composes it with the application: each thread has a stack of
active functions and a label `pc` that runs through the hooks in the order in
which the pass inserts them (header, operands, the instruction, result; status,
entry, arguments at a function entry; status before a return). What the
application does is a parameter: the static call graph `Calls`, which functions are
C (`Native`), who calls `llvmtracer_set_trace_name` and how often, and whether main
joins its threads. Within these, a thread chooses its instructions freely.

**TraceFiles** is the abstract specification of the trace files, with no threads
in it: a header, then spans, each an entry line followed by instruction lines
numbered from 0 and by value lines; nothing between two spans, nothing taken back,
nothing after the file is closed. `TracedProgram!Files` maps the
implementation to it: `log` is the streams' lines, `inSpan` the streams some thread
is between its entry line and its return, `next` that thread's `inst_count`, and
`shut` the closed streams. **ExitingFiles** extends it to processes that end while threads
still trace: from `exit` on a file may be damaged, and what is not damaged keeps
following TraceFiles. `TracedProgram!AtExit` is its refinement mapping.

**Instrument** is the instrumentation pass: `doInitialization` from the workload
and the debug information, `runOnFunction` with `collectDebugInfo`, and one step per
basic block, instruction and function entry, which rewrite `code`, the items of each
block. An instruction is known by its place; a hook carries all that is passed to the
logger: kind, id and block id, opcode, parameter number, type, size, the logging
function and whether it is given a value, the buffer of a vector, the block a phi
came from. `processAllocaInstruction` is left out because it does nothing: it looks
for the `dbg.declare` of an alloca without a name, and `collectDebugInfo` has already
given every such alloca the name of its declaration. TracedProgram is the run-time
counterpart of what Instrument inserts; the property `HooksAround` is what entitles
it to its fixed order of hooks.

**Values** holds the pure parts of a trace line: `getMemSize` over a grammar of LLVM
types, the choice of the logging function and the value passed to it
(`printParamLine`), what that function prints of it (`trace_logger_log_int` and its
siblings, `convert_bytes_to_hex`), and the truncation in `makeValueId`. A value is the
bytes a store would write. A type carries its width and alignment in memory, as LLVM lays it
out, padding included, beside which `getMemSize` computes the code's own size. For what
the pass takes for a string (`StringKinds` in Instrument) it fixes the text at compile
time, so the line does not depend on the value. **SlotTracker** numbers the values of a function as
`SlotTracker.h` does: lazily, when the first number is asked for. The pass uses
LLVM's own copy of this class. Instrument extends both.

**LabelMap** is the label map tool: the visits of the functions of each source, the
recursive search as an explicit stack of frames, and the output.

**Build** extends LabelMap with make: `tree` holds the sources, `outdated` the targets
that are missing or older than what they are made from (all make knows), `obj` and
`exe` what each object and the binary were made from. Within `make` the tool runs by
LabelMap's own actions and its `output` is the file `labelmap`; `Compile` stands for
clang and opt with both passes and embeds that file where main is defined
(`readLabelMap`, `runOnModule`); `Link` makes the binary. Around it the user edits
sources and headers, sets `WORKLOAD` and cleans up, the tool may crash or be killed, and a
compilation may fail. No rule names a header, so an edit of one outdates nothing: a
translation unit has a field `text`, what the source file itself says, and an edit
outdates the targets of the sources whose text changes. `disturbed` records that
something failed or changed during a make; it is `"healing"` in the next make that makes the
label map anew, and with it every object, and `"no"` when that make ends well.

**MCTracedProgram**, **MCInstrument**, **MCLabelMap**, **MCBuild** give TLC its applications,
modules, sources and edits.

The theorems are in modules of their own. **TracedProgram_proofs** is about threads and
the registry; two modules extend it, **Nesting_proofs** on top-level calls within one
another and **TraceFiles_proofs** on what is written to the files. **Instrument_proofs** is
about the pass, where it leaves which hook and what is in it; it rests on the lemmas of
**Insertion_proofs**, on what an insertion makes of the items of a block. **Names_proofs**
extends it with the numbers and names of values and blocks. **LabelMap_proofs** is about the
tool; **Build_proofs** extends it with what make does and follows the lines into the binary.

A definition named "Mutant of ..." in its comment is a variant of the definition
that follows it, as a plausible mistake in the code would have it. No specification
uses one. Putting it in the place of its original makes TLC find the property violated that
`PROJECT.json` lists with it.

## The runs

Runs that pass:

| Run | What is instantiated | What it shows |
|---|---|---|
| `unique_names` | main and two workers as in `playground/multithreading.cc`; the top-level function calls another C function; each worker names its trace before every top-level call; main joins | `TypeOK`; `TracedExactlyInside`: threads log exactly inside top-level calls and no assertion fails; `NoStreamRace`; `NameHonoured`; `WellFormedFiles`: refinement of TraceFiles; `FilesClosed` |
| `shared_name` | the same, but both workers ask for one name | `RegistryExclusive`; `HeaderFirst`: one label map, first in the file, whichever thread wins; `AppendOnly`: a file in the registry is never truncated again. The threads do race on the stream here, so files need not be well formed |
| `early_exit` | main does not join, and `gzopen` may fail: `fin_main` runs beside tracing threads, and closes streams they are in the midst of writing to | `FilesUntilExit`: refinement of ExitingFiles. Files are damaged here, but none before `exit` is called, and a file that is not damaged is well formed to the end |
| `abnormal_ends` | two top-level functions, mutually and self recursive, a helper outside the workload, `gzopen` that may fail | `NestedCallsAbort`: once a top-level call is nested in another, the outermost never returns to its caller; `ProcessEnds`: the process ends even when `exit` runs with the mutex held |
| `instrument` | 602 modules, for every kind of workload, an empty item in `WORKLOAD` included. 576 as clang writes them with names: five functions with a loop, phis, casts, calls of every kind, vectors of every pair of six types. 24 whose names survive in debug information only, that of a variable without a name included, with values of every type, variadic calls, strings and `_fxp` nowhere, in the middle or at the end of a name. 2 nests of 100 loops | about the code that is written out: `HooksAround`, `EveryPathSwitches`, `BuffersDominate`, `BuffersFit`; `IdsUnique`, `OperandsAgree`: values go by one name; `SlotsOfSource`: numbers are those of the module before the pass, although it is numbered while buffers are inserted; `BlocksNamed`: one id per block wherever it is shown, with its loop depth; `CallArgsMatch`: a call lists its arguments as the callee does; `ValuesShown`: different values make different lines, from the choice of the logging function to its format. And `TypeOK` |
| `label_map` | the label map tool within make. Undisturbed builds of every call graph and choice of inlined functions among three functions, and of pairs of sources; and one project of two sources that include one header with up to three edits, changes of `WORKLOAD`, deaths of the tool or failing compilations at any moment | `CallersExact`, `OverflowOnlyOnCycle`, `OneLinePerLabel`; `BinaryExact`: the binary holds one line for each label of a C function of the very sources it was made from, and no label that is not in them; `OneWorkload`: its objects were instrumented for one workload, although make does not know of it; `ToolEnds`: the tool ends, by success or by exhausting its stack |

Runs that show where the code departs from its documentation, comments or
assertions (`findings` in `PROJECT.json` quotes the lines):

| Run | Property | What happens |
|---|---|---|
| `name_once` | `NameHonoured` | a thread that names its trace once, as the README says, loses the name when its first top-level call returns |
| `helper_return` | `FinOnlyAtToplevel` | a C function outside the workload that returns while nothing is traced deletes the trace, and the name just given |
| `recursion` | `UncalledAssertTruthful` | the outer return of a recursive top-level function fails the assertion that it was never called |
| `workload_list` | `WorkloadTraced` | several workload functions without `-trace-all-callees` are never traced: nobody opens a file |
| `named_bitcast` | `ArtificialIds` | a cast of a named pointer that is itself named makes later instructions without a value appear under the pointer's name |
| `label_map_cxx` | `OnlyExternC` | labels of functions outside `extern "C"` appear in the label map, which `ast-pass/test.cpp` does not expect: the tool leaves out member functions only |

Other departures from comments are in the models, and no run is spent on them; the
properties they concern except them by name, see below:

* Calls from main are not recorded as callers (`GetLabeledStmts.cpp:149`), so main is
  missing where the comment at lines 235-237 promises all functions that are not inlined
  (`Record`).
* With `WORKLOAD=main` the return of main is hooked and its entry is not
  (`full_trace.cpp:351`), so the assertion at `trace_logger.cpp:131` fails though main was
  called (`After`, `EntryHook`; no run has main in the workload of a traced program).
* `_fxp` is found anywhere in a name that is long enough, not at its end only
  (`full_trace.cpp:366`; `opcode`).
* `getMemSize`, "the bitwidth of this type", is 0 for vectors of pointers, and for a struct
  it leaves out the padding (`getMemSize` in Values, beside the width `bits`).
* The text of a string is that of the global's initializer, whatever the offset of the
  expression and whatever the program has written there (`full_trace.cpp:649-658`;
  `StringKinds`).

### Bounds, and why they are enough

* `Threads`: main and two workers. The library treats all workers alike, and a
  conflict over the mutex, the registry or a stream is between two threads.
* `Budget`, instructions of each thread: in `unique_names` one worker has 4, two
  top-level calls with a named trace each, which is where state left over from
  the first call could show, or one that runs instructions and calls another
  function; its neighbour has 3 and main 1. `shared_name` has 2 for each, enough for both
  workers to reach the registry at any moment of each other's call; more makes the
  outcomes of racing writes multiply beyond reach. `early_exit` has 1 for main, and 2 and 3: a
worker is at every hook of a call while `fin_main` closes its stream.
* `MaxDepth`, frames per thread: 3 for a top-level function and a function it
  calls (2 in `shared_name`, where what happens inside is not the question), 4 where
  nesting and recursion matter (start routine, outer, inner, and one more).
* `Names`: the default name and one per worker.
* In `instrument`, vectors of four elements: floats and integers of equal size,
  integers of 1 and 4 bits, two pointer types. The two types of a module meet in
  arguments, loads, phis and operands, before and after one another. Every block
  shape of the walk occurs: with and without phis, entry and others, with calls
  that are traced, skipped, and indirect. Every branch of `getMemSize`,
  `printParamLine`, `collectDebugInfo` and `opcodeToFixedPoint` that the supported
  types reach is taken. 100 nested loops are the first whose depth does not fit in
  two digits, with and without labels; in the unnamed nest slots grow to three digits.
  `ValuesShown` compares values that differ in one byte, each in turn, and for
  floating-point numbers by the last decimal that is printed.
* In `label_map`, three functions suffice for chains of two inlined functions, for
  self and mutual inlining and for two callers; `StackLimit` 4 is longer than
  any path without a repetition among them. Three disturbances are enough to have the
  tool die or a compilation fail, edit a source so that the next make heals it, and change
  a header or `WORKLOAD` after that or in between. Each source may gain a label, in its
  own text or in the header both include, and lose it again.

`shared_name` uses symmetry of the two workers; it checks no liveness property.

### Fairness

`FairSpec` assumes weak fairness of each thread's steps: the operating system
eventually runs a thread that can run. A thread waiting for the mutex or for a
join has no enabled step, so nothing is assumed of it. Weak fairness suffices for
the mutex because threads take it boundedly often. In LabelMap the tool is a single
sequential process. `BuildSpec` assumes weak fairness of the tool's steps (`ToolStep`) and of make
noticing that it has succeeded (`ToolSucceeds`) or overflown its stack (`ToolCrashes`): the
system runs a process that make has started. That the tool is killed (`ToolKilled`) is
possible at any moment and never assumed. Nothing is assumed of the user, who may never
call make again, or of compilations.

### What the properties except

Where the code does not do what one would wish and no comment promises it, the
property says so by name instead of leaving the case out of the model:

* `Blurred`, in `BuffersFit`: vectors of pointers and of elements smaller than a byte,
  whose keys collide: the width of a pointer is 0 in the key and bits are counted in
  bytes.
* `NamedCast`, in `IdsUnique` and `OperandsAgree`: functions with a named cast of a named
  pointer, which `named_bitcast` is about. `OperandsAgree` also excepts a phi that
  shows the number of a cast that comes later, and constants that debug information
  describes as variables.
* `DepthFits`, in `BlocksNamed`: loop depths that do not fit in an id. The comment in
  `makeValueId` says "10^3 - 1 is the maximum loop depth"; a named block has room for
  99, and an unnamed one for what its slot leaves of six characters.
* `Hidden`, in `ValuesShown`: operands of a phi, labels and functions, pointers
  passed to an intrinsic, which are shown as 0, blurred vectors, and the lines of
  `trace_logger_log_string`.
* `Damaged`, in `HeaderFirst` and `AppendOnly`: a file that threads have raced for. The
  races of `shared_name` come after the label map is written; that they are absent with
  files of one's own is `NoStreamRace`, and `WellFormedFiles` excepts nothing.
* `CxxFunctions`, in `OneLinePerLabel` and `BinaryExact`: how often a label of a function
  outside `extern "C"` appears. Tests expect not at all (`label_map_cxx`), the code
  writes it as those of C functions.
* `ClonedInto`, in `CallersExact` and `OverflowOnlyOnCycle`, is about free
  functions: callers that are member functions are left out, as the tool does not visit them
  (`GetLabeledStmts.cpp:181`).
* `disturbed`, in `BinaryExact` and `OneWorkload`: what comes after something failed or
  changed during a make, until `make clean`, or until the label map is made anew in a make
  that nothing disturbs. In between, a partial label map is taken as up to date, and
  objects for two workloads may be linked. That nothing outdated means up to date holds
  for the texts of the sources only: of headers make knows nothing.

## What is proved

Each theorem holds for every value of the constants that satisfies the named assumptions of
the modules: sentinels are distinct and parameters well typed (TraceLogger,
TracedProgram), a translation unit is one (`UnitOK` in LabelMap), a project defines main
in one source and keeps it there (`ProjectsAssumption` in Build), a module to instrument
is one that LLVM's verifier accepts (`NamesAssumption`, `ModulesAssumption` in Instrument:
names of values are unique, phi nodes come first in a block and not in the entry block, a
block has one terminator, its last instruction, operands are no void values, refer to
instructions, arguments and blocks that are there, and have their types, functions as
operands are pointers, arguments are neither void nor labels, phi nodes and casts
produce values, constants have no name; types are those the pass can convert). What a
theorem needs beyond that is its hypothesis, and a run shows what happens without it.

### Threads and the registry: `TracedProgram_proofs`

For every set of threads, names and functions, every call graph and every budget:

* **TypeCorrect**: `Spec => []TypeOK`. `TypeOK` alone is not inductive: the hooks
  of `open_trace_file` dereference `trace`, so `TypeInv` adds that a thread at such
  a hook has one (`HasTrace`), and that a thread about to name its trace has a name
  (`HasName`).
* **InsideCorrect**: `Spec => []TracedExactlyInside`, in top-level mode, if no
  top-level function can be reached from a top-level function. The hypothesis
  `NoNesting(S)` asks for a set `S` of functions closed under calls from
  top-level functions and holding none of them; main is not in the workload. The
  runs `abnormal_ends` and `recursion` show what happens without the hypothesis.
  The invariant `InsideInv(S)` relates each stack to the thread's trace: what lies
  above a top-level function is in `S` and the bottom frame is not top-level
  (`StackOK`), a thread is at a hook only where that hook was inserted (`HookOK`),
  `current_toplevel_function` is the traced function that is active (`ToplevelOK`), and
  the thread logs exactly while there is one (`LogsInside`). `StackOK` gives that at
  most one frame is traced (lemma `OneTraced`), so that the return of a traced
  function finds itself in `current_toplevel_function` and the status table
  takes its `DO_NOT_LOG` row (`ReturnStops`).
* **RegistryCorrect**: `Spec => []RegistryExclusive`, if main joins its threads
  and `gzopen` succeeds: no two threads access `gz_files` at once. The invariant
  says that a thread between lock and unlock owns the mutex (`LockInv`), and
  that `fin_main` runs only on main when all workers have finished or never started
  (`CloseInv`). Without the assumptions `fin_main` does access the map
  unprotected; that is why they are there.

### Nested top-level calls: `Nesting_proofs`

* **NestedCorrect**: `Spec => NestedCallsAbort`, in top-level mode, for every application:
  recursion, failing `gzopen` and unjoined threads included. The tracer has room for one
  top-level function. The second one is entered with the tracer logging, and the hook
  at the return of the inner one either fails or, if inner and outer are the same
  function, deletes the trace. From then on the tracer has forgotten a function that is
  still active (`Forgotten`), no hook but that of another top-level call makes it remember
  one, and the hook at the return of the outermost one fails. The invariant of a nested
  thread is `Trapped`: nested or forgotten; that no thread completes the return of a
  traced function with the trace in place (`LeavingOK`) is the strengthening it needs.

### The trace files: `TraceFiles_proofs`

* **AppendOnlyCorrect**: `Spec => AppendOnly`, with no hypothesis: races, failing
  `gzopen` and `fin_main` included, a file in the registry is never truncated, and its lines
  stay unless a race damages it.
* **HeaderCorrect**: `Spec => []HeaderFirst`, if main joins its threads and `gzopen`
  succeeds. Whichever threads race for one name, a file has one label map, on its first line.
  The invariant `HeaderInv` says that a file in the registry has its header or one
  thread is about to write it (`Opening`), and that then nobody else has got the file
  (`FreshInv`) — the one who opened it holds the mutex. So no race can reach a file before
  its label map is there.

The other three are about applications whose threads use files of their own, as
`playground/multithreading.cc` does, in which every C function but main and the workload is
reached from top-level functions only. The hypothesis `Separate(S, H)` says so: no
nesting as above; a set `H` of functions, called by top-level functions and by one another
only, that holds every other C function (`Sheltered`); every top-level call is preceded
by a call of `llvmtracer_set_trace_name` if the thread has a name; and no two threads
have the same (`SeparateFiles`). The runs `helper_return`, `name_once` and
`shared_name` show what each part keeps away. The instance of `unique_names` satisfies it.

* **FinCorrect**: `Spec => FinOnlyAtToplevel` without naming or files: a trace
  is deleted at top-level returns only. A sheltered function on a stack has a traced one
  below it (`ShelterOK`), so when it returns the tracer is logging.
* **NameCorrect**: `Spec => []NameHonoured`: spans go to the file the thread asked for. The
  invariant `SpanInv` follows the name from the call that sets it to the return that
  deletes it (`NameOK`), and the stream from the registry to the trace (`FileOK`).
* **StreamsCorrect**: `Spec => []NoStreamRace`, if moreover main joins and `gzopen`
  succeeds, by `SpanInv` and `HeaderInv`: streams belong to one thread each, and
  `fin_main` walks the registry when no thread is left to write.
* **FilesCorrect**: `Spec => WellFormedFiles`, the refinement of TraceFiles, under the same
  hypotheses. `Init` maps to `Init`; each of the 26 kinds of steps maps to a step of
  TraceFiles or a stutter: opening maps to `Create`, the label map to the header, the
  entry line to the start of a span, a header line to the next numbered line, and a status
  update at the return to the end of the span. The part that takes the hypotheses is that
  no write is undefined: whoever writes has an open stream of its own (`Written`,
  lemma `NoUndefined`), so no file is ever damaged (`Undamaged`). Beyond `SpanInv`, this
  takes that a stream is closed once, after `exit` (`WalkInv`), and that a file is
  empty exactly as long as its owner has the label map to write (`EmptyInv`). Without
  joins, files may be damaged after `exit`; what holds then is `FilesUntilExit`,
  which is model-checked.

### The instrumentation pass: `Insertion_proofs`, `Instrument_proofs`

For every set of modules, with any number of functions, blocks, instructions and operands:

* **PassInvariant**: `Spec => []PassInv`. Every item of a block has a key (`Key`): its
  instruction's place, and its rank among the hooks of that instruction; the hooks of
  phi nodes have keys between the phi nodes and what follows them, the buffers come before
  everything and the hooks of the function entry behind the buffers. The pass never builds
  this order as a whole. It computes insertion points one at a time, and the entry
  hooks come last though they stand first. Five conjuncts make it inductive:
  - `WalkInv`: `pc` and `at` are at a place of the walk;
  - `LayoutInv`: the items of a block are `Placed`, sorted by their keys, and
    include the whole program;
  - `FreshInv`: what the walk has not reached is as it was, so an insertion never meets hooks
    that belong behind it (lemmas `Fits`, `Inserted`);
  - `SwitchInv`: the hooks that switch the tracer are there in what it has left behind;
  - `BufferInv`: there is one buffer for each key in `vector_buffers`, allocated in the
    entry block of its own function, and hooks are passed no other.
* **AroundCorrect**: `Spec => []HooksAround`: the pass moves, drops and doubles no instruction,
  and the hooks of an instruction surround it. It follows from the order alone: what
  stands between two items of one instruction has a key between theirs, so it belongs to
  that instruction (lemma `Together`). This is the order of hooks that TracedProgram takes
  for granted.
* **SwitchCorrect**: `Spec => []EveryPathSwitches`: `SwitchInv` says that the hooks are there,
  the order that the entry hooks precede all others, and that nothing but the
  return follows the update of the status.
* **DominateCorrect**: `Spec => []BuffersDominate`: buffers are cached per function in
  `vector_buffers`, and the cache outlives the block that filled it. A buffer
  allocated late, for a hook in a later block, still stands in the entry block, and
  ahead of all hooks there.
* **HookInvariant**: `Spec => []HookInv`, what is in the hooks. Each `Carries` what its own
  instruction and the types of its operands call for: the opcode, and for a line
  (`IsLine`) a type the pass can convert, its size, the logging function and whether
  there is a value to pass. The buffer of a hook is another matter: `createVectorArg` takes it
  from `vector_buffers` by a key of the type, so what can be maintained is that both types
  are vectors with the same key (`Stored`). The invariant is carried through the insertions
  by the order of `PassInv`: a step leaves every hook as it is but those it inserts.
* **BuffersCorrect**: `Spec => []BuffersFit`: two vectors that are not blurred and have one
  key have one type (lemma `SameKey`), for every element type and every length, so
  `Stored` says that the buffer has the vector's own type.
* **TypeCorrect**: `Spec => []TypeOK`: the types, and that no two buffers of
  `vector_buffers` have the same key, from `BufferInv` and the invariant `NameInv`. The
  maps of names may hold an empty name (`Empty`): `collectDebugInfo` records a variable
  that has none.
* **ValuesCorrect**: `Spec => []ValuesShown`: what is not `Hidden` is given and goes to the
  function whose format tells its values apart: integers and pointers of at most
  eight bytes by `int64`, vectors of any length by the digits of all their bytes, which
  `value_str` has room for (lemma `VectorSize`: of a vector of whole bytes, `getMemSize` is
  the width). It says nothing about strings, whose text is not that of the value.

### Numbers and names: `Names_proofs`

On top of `PassInv` and `HookInv`:

* **NumberInvariant**: `Spec => []NumberInv`. The pass asks for the first number of a
  function while it inserts hooks in it, and `initialize` numbers whatever stands in the
  function by then. `NumberInv` keeps that this is the source: as long as the tracker has not
  numbered the function, its blocks are the `Original` ones, since the first step that
  inserts anything also asks for a number, before it inserts (a block without phi nodes
  is passed without one, and lemma `NoPhis` shows that it is left exactly as it was);
  afterwards `fMap` is the numbering of the source and stays so.
* **IdInvariant**: `Spec => []IdInv`. Every hook is made with names and numbers that can be
  told from the source alone (`Names`): a number it shows is the one its value has
  there, and a block goes by `BlockId`. What is counted has a number of its own, below the
  number of values (lemma `ProcessFacts`), and every block and every instruction with a
  result is counted unless it has a name (lemmas `CountableFacts`, `SourceFacts`).
* **SlotsCorrect**: `FewValues` implies `Spec => []SlotsOfSource`. Without `FewValues`, no
  function having more than a million values, the number of a block may lose digits in its id.
* **BlocksCorrect**: `FewValues` implies `Spec => []BlocksNamed`. Blocks with a name differ in
  it (`NamesAssumption`), blocks without one in their number, of which no digit is lost; and
  a depth that `DepthFits` is shown in full, by the digits of each number (lemmas
  `DigitsFacts`, `DepthShown`).
* **CastInvariant**: `Spec => []CastInv`. `slotToVarName` fills up while hooks are made, so the
  name of an operand depends on when it is asked for. `CastInv` says what the map
  holds at each point of the walk: exactly the slots of the casts of named pointers that are
  behind, each with the pointer's name. No two casts share a slot (`SourceFacts`), and such a
  cast has one, unless it is named (`NamedCast`).
* **AgreeCorrect**: `Spec => []OperandsAgree`. By `CastInv` every result line shows `IdOf`
  its instruction, a name told from the source alone, and so does an operand, since in
  the layout its instruction is behind, except for a phi (`AgreeInv`). Both lines keep
  their ids, whatever else is inserted.
* **IdsCorrect**: `FewValues` implies `Spec => []IdsUnique`, about what readers of a trace take
  for granted: an id tells an instruction from all others of the function. Names and
  slots do by `SourceFacts`; what has neither goes by its block and `instc`, which is
  reset for each block, also for the phi nodes that are handled ahead of the others.
  **OrderInvariant** says that no instruction has two headers, and **HeadInvariant** that each
  header shows its `HeadId`, where the values of `instc` in one block differ, being all
  below the current one.
* **CallArgsCorrect**: `Spec => []CallArgsMatch`, where two functions meet that are
  instrumented at different times, in either order. The caller shows the operands that
  have a logging function: none that has not (`ListInv`), none left out once the callee is
  named (**ArgumentsInvariant**), in the order of their numbers (**OrderInvariant**, which is
  about parameters too). The callee shows the arguments that have one, once and in order
  (**ArgInvariant**). Types of operands and arguments agree in a valid call, so both list
  the same set of numbers in order, and there is only one way to (lemma `EnumSame`).

### The label map tool: `LabelMap_proofs`

For every command line, every translation unit and every order of the keys:

* **CallersCorrect**: `Spec => []CallersExact`: the line of a label in an inlined function
  names exactly the functions its body is cloned into, main apart. `MapInv` says what
  `labelMap` holds when part of a source has been visited, and that nothing of an earlier
  source is in it. `SearchInv` is about the recursion: every frame is a caller of
  the one below (`Chained`), so all that is found is right; and there is a set of
  functions `D` whose callers have been found, are in `D` in turn, or wait on the stack
  (`Searched`), so that once the stack is empty, `D` is closed under calls and nothing
  is missing. `ClonedInto` is stated as a least closed set to match: no induction
  over call paths is needed.
* **OverflowCorrect**: `Spec => []OverflowOnlyOnCycle`, if the stack has room for one
  call per inlined function: a chain of more frames holds one function twice
  (pigeonhole), and a function above itself is inlined into itself.
* **LinesCorrect**: `Spec => []OneLinePerLabel`. `LinesInv` counts the lines of a
  label: one for each source before this one that has it, and one if this one has
  and its function has been passed. The code does not tell C functions from others, so the
  invariant counts for all free functions and the property claims it for C functions.

### The build: `Build_proofs`

For every project, every sequence of edits and every number of them:

* **BuildCallersCorrect**, **BuildOverflowCorrect**, **BuildLinesCorrect**: the same
  three in a build, where the tool is killed and started again, and sources change
  while it runs.
* **WorkloadCorrect**: `BuildSpec => []OneWorkload`. `OneWorkload` speaks of the binary;
  the invariant follows the objects through a make. While the tool runs, either the
  label map is outdated or every object is, and the latter once its file exists again
  (`ToolInv`), so that all objects are outdated when it succeeds; while objects are
  made, those up to date were made for `WORKLOAD` as it is, or none needs making and all
  agree (`CompileInv`); between two makes, the label map is outdated or no object is
  and all agree (`IdleInv`). An edit can only break this by outdating the label map. If
  the objects did not depend on the label map, the property would not hold (its mutant).
* **BinaryCorrect**: `BuildSpec => []BinaryExact`. `CountInv` adds to `LinesInv` that
  the tool writes no other line; so when it succeeds, the output is `Exact` for the
  sources it has read. `BinaryInv` takes it from there: the label map, each object and
  the binary, as far as each is up to date, come from the same sources, with the texts of the
  tree (a header may have changed since). A make after a disturbed one that makes the label
  map anew makes every object anew (`AllMade`), so the same holds when it ends; lemmas
  `CompileExact`, `FailExact` and `LinkExact` are the steps. That
  the file is embedded once rests on main being defined in one source: the label maps of
  the objects, joined, are that one (lemma `FlattenOne`).

### What is only model-checked

The liveness properties `FilesClosed`, `ProcessEnds` and `ToolEnds`: fairness is stated with
ENABLED, which is out of the prover's reach. The refinement `FilesUntilExit`. Every other
invariant, action property and refinement that a passing run checks is stated by a theorem.

## What is left out, and why

* The layout of a trace line, and what is printed on stdout. Strings are printed raw,
  so a comma in one breaks the line's fields; no property is about that.
* Data computed by the application: its instructions matter by their kind only.
* Names of blocks that read like a number (`%"5"`), whose ids look like those of blocks
  without a name. `clang` makes none.
* Strings on external globals, where the pass asserts that there is an initializer, and
  initializers with an embedded NUL.
* Source line numbers (`setLineNumberIfExists`, `preheaderLineNum`): looked up in
  metadata and passed on, with no other effect. The sharing of equal global strings.
* Types the pass itself cannot convert: integers wider than 64 bits and `long double`,
  for which it builds an invalid cast; alignment of buffers; `llvm.dbg.addr`, whose
  branch in `collectDebugInfo` dereferences a null pointer.
* Functions whose blocks are laid out so that a use comes before its definition (LLVM
  allows it, `clang` rarely emits it).
* C code called from static constructors, before main and `trace_logger_init`.
* Slots of globals, metadata and attributes in `SlotTracker.h`, which nothing asks for;
  `deleteLabelMap`, which nothing calls.
* The CMake functions, which build the repository's own tests, and the scripts that
  find and install LLVM: they run once, at configuration time.

## Plan

In this order; all of it is in place.

1. TraceLogger, TracedProgram, TraceFiles, ExitingFiles: the runtime under threads, the
   refinements, and the theorems above.
2. LabelMap: the tool.
3. Instrument: the pass, and what it inserts where.
4. Theorems: types, tracing exactly inside, exclusive registry, one workload.
5. Values and SlotTracker: the contents of the hooks Instrument inserts, down to
   the text of the lines.
6. Build: the label map's way from the tool through make and the pass into the
   binary.
7. Theorems: headers, names, streams and the refinement of TraceFiles; the callers, lines
   and stack of the tool; the label map in the binary.
8. Theorems: `NestedCallsAbort` for every call graph; the places of hooks, switches and
   buffers for every module.
9. Theorems: what is in the hooks (`BuffersFit`, `ValuesShown`), with an invariant that each hook is one its instruction calls for.
10. Theorems: the numbers in the hooks. That the numbering takes no account of inserted
    items (`SlotsOfSource`), and that blocks go by one id (`BlocksNamed`).
11. Theorems: one name per value (`OperandsAgree`), with an invariant on `slotToVarName`.
12. Theorems: one value per name (`IdsUnique`), with an invariant on `instc`; the order of
    parameter and argument lines (`CallArgsMatch`).
