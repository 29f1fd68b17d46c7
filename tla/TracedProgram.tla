--------------------------- MODULE TracedProgram ---------------------------
(***************************************************************************)
(* A multithreaded program after instrumentation: which hooks of           *)
(* TraceLogger the pass (full-trace/full_trace.cpp) inserts around a       *)
(* function entry, an instruction, a call and a return, and in which order *)
(* each thread meets them while the threads interleave.                    *)
(*                                                                         *)
(* The application itself is a parameter: its static call graph, who names *)
(* traces and when, and whether main joins its threads.  A thread executes *)
(* a bounded number of instructions (Budget) on a bounded stack (MaxDepth).*)
(***************************************************************************)
EXTENDS TraceLogger

CONSTANTS
  Main,           \* the thread that runs main; every other one is a worker
  MainFn,         \* main
  WorkerFn,       \* the start routine of the workers, a C++ function
  Native,         \* functions with C linkage: the only ones the pass visits
  Calls,          \* static call graph, pairs <<caller, callee>>
  Namers,         \* functions that call llvmtracer_set_trace_name
  NameOf,         \* the name a thread asks for; NoFile if it never does
  NameEveryCall,  \* threads ask again before every top-level call
  JoinsThreads,   \* main joins every worker before it returns
  Budget,         \* instructions each thread executes, returns apart
  MaxDepth        \* frames on a thread's stack

VARIABLES
  stack,    \* active functions of each thread, the innermost last
  pc,       \* what each thread does next
  instr,    \* instruction each thread is executing
  wanted,   \* name each thread asked for, NoFile when none is asked for
  left      \* instructions each thread may still execute

progVars == <<stack, pc, instr, wanted, left>>
vars == <<trace, gz_files, lock, labelmap, disk, closed, closing, process,
          stack, pc, instr, wanted, left>>

ASSUME ProgramAssumption ==
  /\ Main \in Threads
  /\ {MainFn, WorkerFn} \subseteq Funcs /\ MainFn # WorkerFn
  /\ Native \subseteq Funcs \ {WorkerFn} /\ Namers \subseteq Funcs
  /\ Calls \subseteq Funcs \X (Funcs \ {MainFn, WorkerFn})
  /\ NameOf \in [Threads -> Names \cup {NoFile}]
  /\ {NameEveryCall, JoinsThreads} \subseteq BOOLEAN
  /\ Budget \in [Threads -> Nat] /\ MaxDepth \in Nat \ {0}

Workers == Threads \ {Main}
Root(t) == IF t = Main THEN MainFn ELSE WorkerFn
Top(t) == stack[t][Len(stack[t])]

Ops == {"plain", "call", "name", "spawn", "ret"}
Instr(op, f) == [op |-> op, callee |-> f]
NoInstr == Instr("plain", NoFunc)
InstrType == [op : {"call"}, callee : Funcs] \cup [op : Ops \ {"call"}, callee : {NoFunc}]

Labels == {"unborn", "init", "register", "run", "header", "operands", "exec",
           "status_in", "entry", "lock", "lookup", "labelmap", "unlock", "print",
           "args", "status_ret", "result", "closing", "finished"}

----------------------------------------------------------------------------
(* What the pass instruments.                                              *)

\* runOnFunction skips C++ functions; runOnBasicBlock instruments the rest in
\* top-level mode, and only tracked ones otherwise.
Instrumented(f) == f \in Native /\ (TopLevelMode \/ f \in Tracked)

\* runOnBasicBlock: is the instruction i of f preceded by log0?
Hooked(f, i) ==
  /\ Instrumented(f)
  /\ i.op \in {"plain", "ret"} \/ TopLevelMode \/ i.callee \in Tracked

\* runOnFunctionEntry, the call to which runOnFunction skips for main.
EntryHook(f) ==
  CASE f \notin Native -> "run"
    [] f \in Native /\ f \in Tracked /\ TopLevelMode -> "status_in"
    [] f \in Native /\ ~(f \in Tracked /\ TopLevelMode) -> "args"

\* Where f goes on after instruction i, which produces a value (or does not).
After(f, i) == IF Hooked(f, i) /\ i.op # "name" THEN "result" ELSE "run"

----------------------------------------------------------------------------
(* Undefined behaviour: two threads use one stream at the same time.  A    *)
(* thread at a hook that writes may be in the midst of its calls of zlib.  *)

AtWrite(t) ==
  \/ pc[t] \in {"labelmap", "print"}
  \/ pc[t] \in {"header", "operands", "args", "result"} /\ ~do_not_log(t)

Uses(t, n) == AtWrite(t) /\ trace[t].file = n

Racing(t) == \E u \in Threads \ {t} : Uses(u, trace[t].file)

----------------------------------------------------------------------------
Goto(t, label) == pc' = [pc EXCEPT ![t] = label]

Init ==
  /\ LoggerInit
  /\ stack = [t \in Threads |-> <<Root(t)>>]
  /\ pc = [t \in Threads |-> IF t = Main THEN "init" ELSE "unborn"]
  /\ instr = [t \in Threads |-> NoInstr]
  /\ wanted = [t \in Threads |-> NoFile]
  /\ left = Budget

\* The calls the label map pass inserts at the start of main.
InitLogger(t) ==
  /\ pc[t] = "init"
  /\ trace_logger_init(t)
  /\ Goto(t, IF HasLabelMap THEN "register" ELSE "run")
  /\ UNCHANGED <<stack, instr, wanted, left>>

RegisterLabelmap(t) ==
  /\ pc[t] = "register"
  /\ trace_logger_register_labelmap
  /\ Goto(t, "run")
  /\ UNCHANGED <<stack, instr, wanted, left>>

----------------------------------------------------------------------------
(* The application chooses its next instruction.                           *)

MayCall(t, f) ==
  /\ <<Top(t), f>> \in Calls
  /\ Len(stack[t]) < MaxDepth
  /\ f \in Tracked /\ NameOf[t] # NoFile => wanted[t] # NoFile

MayReturn(t) ==
  \/ Len(stack[t]) > 1
  \/ t \in Workers
  \/ JoinsThreads => \A w \in Workers : pc[w] = "finished"

Choices(t) ==
  (IF left[t] > 0
   THEN {Instr("call", f) : f \in {g \in Funcs : MayCall(t, g)}}
        \cup (IF Instrumented(Top(t)) THEN {NoInstr} ELSE {})
        \cup (IF Top(t) \in Namers /\ NameOf[t] # NoFile /\ wanted[t] = NoFile
              THEN {Instr("name", NoFunc)} ELSE {})
   ELSE {})
  \cup (IF t = Main /\ Len(stack[t]) = 1 /\ \E w \in Workers : pc[w] = "unborn"
        THEN {Instr("spawn", NoFunc)} ELSE {})
  \cup (IF MayReturn(t) THEN {Instr("ret", NoFunc)} ELSE {})

Choose(t) ==
  /\ pc[t] = "run"
  /\ \E i \in Choices(t) :
       /\ instr' = [instr EXCEPT ![t] = i]
       /\ Goto(t, IF Hooked(Top(t), i) THEN "header" ELSE "exec")
       /\ left' = [left EXCEPT ![t] = IF i.op \in {"ret", "spawn"} THEN @ ELSE @ - 1]
  /\ UNCHANGED loggerVars /\ UNCHANGED <<stack, wanted>>

----------------------------------------------------------------------------
(* Hooks before the instruction: the line that names it and its operands;  *)
(* before a return, the status of the tracer is updated last.              *)

Header(t) ==
  /\ pc[t] = "header"
  /\ trace_logger_log0(t, Top(t), instr[t].op, Racing(t))
  /\ Goto(t, "operands")
  /\ UNCHANGED <<stack, instr, wanted, left>>

Operands(t) ==
  /\ pc[t] = "operands"
  /\ trace_logger_log_value(t, "param", Top(t), Racing(t))
  /\ Goto(t, IF instr[t].op = "ret" THEN "status_ret" ELSE "exec")
  /\ UNCHANGED <<stack, instr, wanted, left>>

----------------------------------------------------------------------------
(* The instruction.                                                        *)

ExecPlain(t) ==
  /\ pc[t] = "exec" /\ instr[t].op = "plain"
  /\ Goto(t, After(Top(t), instr[t]))
  /\ UNCHANGED loggerVars /\ UNCHANGED <<stack, instr, wanted, left>>

ExecName(t) ==
  /\ pc[t] = "exec" /\ instr[t].op = "name"
  /\ llvmtracer_set_trace_name(t, NameOf[t])
  /\ wanted' = [wanted EXCEPT ![t] = NameOf[t]]
  /\ instr' = [instr EXCEPT ![t] = NoInstr]
  /\ Goto(t, After(Top(t), instr[t]))
  /\ UNCHANGED <<stack, left>>

ExecSpawn(t) ==
  /\ pc[t] = "exec" /\ instr[t].op = "spawn"
  /\ \E w \in {u \in Workers : pc[u] = "unborn"} :
       pc' = [pc EXCEPT ![w] = "run", ![t] = After(Top(t), instr[t])]
  /\ instr' = [instr EXCEPT ![t] = NoInstr]
  /\ UNCHANGED loggerVars /\ UNCHANGED <<stack, wanted, left>>

ExecCall(t) ==
  /\ pc[t] = "exec" /\ instr[t].op = "call"
  /\ stack' = [stack EXCEPT ![t] = Append(@, instr[t].callee)]
  /\ instr' = [instr EXCEPT ![t] = NoInstr]
  /\ Goto(t, EntryHook(instr[t].callee))
  /\ UNCHANGED loggerVars /\ UNCHANGED <<wanted, left>>

\* Return of an instrumented function: the hook before the instruction.
StatusRet(t) ==
  /\ pc[t] = "status_ret"
  /\ trace_logger_update_status(t, Top(t), "ret")
  /\ Goto(t, "exec")
  /\ UNCHANGED <<stack, instr, wanted, left>>

\* The caller resumes, with the result of its call.  A thread that names its
\* trace for every top-level call has to ask again.
ExecRet(t) ==
  LET below == SubSeq(stack[t], 1, Len(stack[t]) - 1)
      caller == below[Len(below)]
  IN /\ pc[t] = "exec" /\ instr[t].op = "ret" /\ Len(stack[t]) > 1
     /\ stack' = [stack EXCEPT ![t] = below]
     /\ instr' = [instr EXCEPT ![t] = NoInstr]
     /\ Goto(t, After(caller, Instr("call", Top(t))))
     /\ wanted' = [wanted EXCEPT ![t] =
          IF NameEveryCall /\ Top(t) \in Tracked THEN NoFile ELSE @]
     /\ UNCHANGED loggerVars /\ UNCHANGED left

\* A worker's start routine ends.
WorkerReturn(t) ==
  /\ pc[t] = "exec" /\ instr[t].op = "ret" /\ Len(stack[t]) = 1 /\ t \in Workers
  /\ Goto(t, "finished")
  /\ instr' = [instr EXCEPT ![t] = NoInstr]
  /\ UNCHANGED loggerVars /\ UNCHANGED <<stack, wanted, left>>

\* main returns to the C runtime, which calls exit.
MainReturn(t) ==
  /\ pc[t] = "exec" /\ instr[t].op = "ret" /\ Len(stack[t]) = 1 /\ t = Main
  /\ exit(t)
  /\ Goto(t, "closing")
  /\ UNCHANGED <<stack, instr, wanted, left>>

Result(t) ==
  /\ pc[t] = "result"
  /\ trace_logger_log_value(t, "result", Top(t), Racing(t))
  /\ Goto(t, "run")
  /\ UNCHANGED <<stack, instr, wanted, left>>

----------------------------------------------------------------------------
(* Hooks at the entry of a function.                                       *)

StatusIn(t) ==
  /\ pc[t] = "status_in"
  /\ trace_logger_update_status(t, Top(t), "none")
  /\ Goto(t, "entry")
  /\ UNCHANGED <<stack, instr, wanted, left>>

\* trace_logger_log_entry as far as its early return.
LogEntry(t) ==
  /\ pc[t] = "entry"
  /\ trace' = [trace EXCEPT ![t] = current(t)]
  /\ UNCHANGED process /\ unchangedFiles
  /\ Goto(t, IF do_not_log(t) THEN "args" ELSE "lock")
  /\ UNCHANGED <<stack, instr, wanted, left>>

LockRegistry(t) ==
  /\ pc[t] = "lock"
  /\ lock_registry(t)
  /\ Goto(t, "lookup")
  /\ UNCHANGED <<stack, instr, wanted, left>>

\* Mutant of FindFile: the label map is written to a file found in the map, too.
FindFileThenLabelmap(t) ==
  /\ pc[t] = "lookup"
  /\ find_file(t)
  /\ Goto(t, "labelmap")
  /\ UNCHANGED <<stack, instr, wanted, left>>

FindFile(t) ==
  /\ pc[t] = "lookup"
  /\ find_file(t)
  /\ Goto(t, "unlock")
  /\ UNCHANGED <<stack, instr, wanted, left>>

OpenFile(t) ==
  /\ pc[t] = "lookup"
  /\ open_file(t)
  /\ Goto(t, "labelmap")
  /\ UNCHANGED <<stack, instr, wanted, left>>

OpenFails(t) ==
  /\ pc[t] = "lookup"
  /\ open_fails(t)
  /\ Goto(t, "closing")
  /\ UNCHANGED <<stack, instr, wanted, left>>

WriteLabelmap(t) ==
  /\ pc[t] = "labelmap"
  /\ write_labelmap(t, Racing(t))
  /\ Goto(t, "unlock")
  /\ UNCHANGED <<stack, instr, wanted, left>>

UnlockRegistry(t) ==
  /\ pc[t] = "unlock"
  /\ unlock_registry(t)
  /\ Goto(t, "print")
  /\ UNCHANGED <<stack, instr, wanted, left>>

PrintEntry(t) ==
  /\ pc[t] = "print"
  /\ print_entry(t, Top(t), Racing(t))
  /\ Goto(t, "args")
  /\ UNCHANGED <<stack, instr, wanted, left>>

\* The arguments as the callee sees them.
Args(t) ==
  /\ pc[t] = "args"
  /\ trace_logger_log_value(t, "param", Top(t), Racing(t))
  /\ Goto(t, "run")
  /\ UNCHANGED <<stack, instr, wanted, left>>

----------------------------------------------------------------------------
(* The end of the process, on the thread that called exit.                 *)

CloseNext(t) ==
  /\ pc[t] = "closing" /\ process = "exiting"
  /\ \E n \in closing : close_next(n, \E u \in Threads : Uses(u, n))
  /\ UNCHANGED progVars

FinMainDone(t) ==
  /\ pc[t] = "closing" /\ process = "exiting"
  /\ fin_main_done
  /\ UNCHANGED progVars

Step(t) ==
  /\ process \notin Ended
  /\ \/ InitLogger(t) \/ RegisterLabelmap(t)
     \/ Choose(t) \/ Header(t) \/ Operands(t)
     \/ ExecPlain(t) \/ ExecName(t) \/ ExecSpawn(t) \/ ExecCall(t)
     \/ ExecRet(t) \/ WorkerReturn(t) \/ MainReturn(t)
     \/ StatusRet(t) \/ Result(t)
     \/ StatusIn(t) \/ LogEntry(t) \/ LockRegistry(t) \/ FindFile(t)
     \/ OpenFile(t) \/ OpenFails(t) \/ WriteLabelmap(t)
     \/ UnlockRegistry(t) \/ PrintEntry(t) \/ Args(t)
     \/ CloseNext(t) \/ FinMainDone(t)

Stopped == process \in Ended /\ UNCHANGED vars

Next == Stopped \/ \E t \in Threads : Step(t)

Spec == Init /\ [][Next]_vars

\* Every thread that can run is eventually scheduled.
FairSpec == Spec /\ \A t \in Threads : WF_vars(Step(t))

----------------------------------------------------------------------------
(* Properties.                                                             *)

\* Every variable has its type; only streams in the registry are walked or
\* closed by fin_main.
TypeOK ==
  /\ LoggerTypeOK
  /\ stack \in [Threads -> Seq(Funcs)]
  /\ \A t \in Threads : stack[t] # << >>
  /\ pc \in [Threads -> Labels]
  /\ instr \in [Threads -> InstrType]
  /\ wanted \in [Threads -> Names \cup {NoFile}]
  /\ left \in [Threads -> Nat]

\* Functions whose activation switches the tracer on.
Traced == Tracked \cap Native

\* A traced function is active on the thread, past its update_status hook at
\* the entry and not yet past the one before its return.
InsideTraced(t) ==
  \E i \in 1 .. Len(stack[t]) :
    /\ stack[t][i] \in Traced
    /\ i = Len(stack[t]) =>
         ~(pc[t] = "status_in" \/ (pc[t] = "exec" /\ instr[t].op = "ret"))

\* Between any two hooks a thread logs if and only if it is executing a
\* top-level function or something it called (the truth table of log_or_not
\* and the lifetime of trace together); and no assertion of the tracer fails.
TracedExactlyInside ==
  /\ process \notin FailedAsserts
  /\ \A t \in Threads :
       pc[t] # "closing" /\ process \notin Ended => (~do_not_log(t) <=> InsideTraced(t))

\* The map gz_files is never accessed by two threads at once: open_trace_file
\* does so under the mutex, fin_main without it.
RegistryExclusive ==
  \A t, u \in Threads :
    pc[t] = "lookup" /\ pc[u] \in {"lookup", "closing"} => t = u

\* No two threads use one stream at a time, and none uses a stream that
\* fin_main is about to close, has closed, or that was never assigned.
NoStreamRace ==
  process \notin Ended =>
    \A t \in Threads : AtWrite(t) =>
      /\ trace[t].file \in gz_files \ (closed \cup closing)
      /\ ~Racing(t)

\* When a span starts, it starts in the file the thread asked for.
NameHonoured ==
  \A t \in Threads :
    pc[t] = "print" /\ wanted[t] # NoFile => trace[t].file = wanted[t]

\* Whatever the order in which threads reach a file, its first line is the
\* label map, written once and with no other thread on the stream, unless the
\* thread that opened it is about to, or a later race has damaged the file.
HeaderFirst ==
  \A n \in gz_files :
    \/ Damaged(n)
    \/ \E t \in Threads : pc[t] = "labelmap" /\ trace[t].file = n /\ ~Racing(t)
    \/ /\ disk[n] # << >>
       /\ \A i \in 1 .. Len(disk[n]) :
            disk[n][i].kind \in {"labelmap", "no labelmap"} <=> i = 1

\* A file that is in the registry is never truncated or rewritten, except by
\* the damage of a race.
AppendOnly ==
  [][\A n \in gz_files :
       /\ n \in gz_files'
       /\ \/ Damaged(n)'
          \/ /\ Len(disk'[n]) >= Len(disk[n])
             /\ SubSeq(disk'[n], 1, Len(disk[n])) = disk[n]]_vars

\* A top-level function called from within another one (or itself) is never
\* survived: the outermost one does not return to its caller.
TracedFrames(t) == {i \in 1 .. Len(stack[t]) : stack[t][i] \in Traced}
Nested(t) == \E i, j \in TracedFrames(t) : i # j
NestedCallsAbort == \A t \in Threads : [](Nested(t) => [](TracedFrames(t) # {}))

\* While the tracer is idle its trace is left alone: fin_toplevel runs when a
\* top-level function returns or main does, and at no other time.
FinOnlyAtToplevel ==
  [][\A t \in Threads :
       trace[t] # NoTrace /\ trace'[t] = NoTrace =>
         ~do_not_log(t) \/ Top(t) = MainFn \/ pc'[t] = "closing"]_vars

\* The assertion "Returning from within a toplevel function before it was
\* called!" fails only on a thread that has not called one.
UncalledAssertTruthful ==
  process = "assert_uncalled" =>
    \E t \in Threads : pc[t] = "exec" /\ instr[t].op = "ret" /\ TracedFrames(t) = {}

\* A function of the workload does not complete without a trace file: by the
\* time it returns, one has been opened.
WorkloadTraced ==
  \A t \in Threads :
    pc[t] = "exec" /\ instr[t].op = "ret" /\ Top(t) \in Traced => gz_files # {}

\* The process ends, and then every file in the registry has been closed.
FilesClosed == <>(process = "exited" /\ gz_files = closed)

\* The process ends.
ProcessEnds == <>(process \in Ended)

----------------------------------------------------------------------------
(* What the trace files promise.                                           *)

AfterEntry == Labels \ {"status_in", "entry", "lock", "lookup", "labelmap",
                        "unlock", "print", "closing"}

\* Threads that are writing a span to stream n.
SpanWriters(n) ==
  {t \in Threads : ~do_not_log(t) /\ trace[t].file = n /\ pc[t] \in AfterEntry}

Spanned == {n \in gz_files \ closed : SpanWriters(n) # {}}

\* The lines of each file, as far as a reader tells them apart.
FileLog ==
  [n \in Names |->
     IF n \in gz_files
     THEN [i \in 1 .. Len(disk[n]) |-> <<disk[n][i].kind, disk[n][i].count>>]
     ELSE << >>]

SpanCount ==
  [n \in Names |->
     IF n \in Spanned THEN trace[CHOOSE t \in SpanWriters(n) : TRUE].count ELSE 0]

Files == INSTANCE TraceFiles WITH
  Headers <- {"labelmap", "no labelmap"},
  Values  <- {"param", "result"},
  log     <- FileLog,
  inSpan  <- Spanned,
  next    <- SpanCount,
  shut    <- closed

\* Threads that write under different names, all of which main waits for,
\* produce well-formed files.
WellFormedFiles == Files!Spec

DamagedFiles == {n \in gz_files : Damaged(n)}

AtExit == INSTANCE ExitingFiles WITH
  Headers <- {"labelmap", "no labelmap"},
  Values  <- {"param", "result"},
  log     <- [n \in Names |-> IF n \in DamagedFiles THEN << >> ELSE FileLog[n]],
  inSpan  <- Spanned \ DamagedFiles,
  next    <- [n \in Names |-> IF n \in DamagedFiles THEN 0 ELSE SpanCount[n]],
  shut    <- closed \ DamagedFiles,
  exiting <- process # "running",
  damaged <- DamagedFiles

\* If threads that write under different names outlive main, what fin_main
\* does beside them can damage files, but none before exit is called, and a
\* file it does not damage is well formed to the end.
FilesUntilExit == AtExit!ExitSpec
=============================================================================
