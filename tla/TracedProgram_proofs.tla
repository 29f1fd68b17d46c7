------------------------ MODULE TracedProgram_proofs ------------------------
(***************************************************************************)
(* Theorems about TracedProgram, for every set of threads, names and       *)
(* functions, every call graph and every bound.                            *)
(***************************************************************************)
EXTENDS TracedProgram, SequenceTheorems, TLAPS

\* Where a thread is inside open_trace_file, which dereferences its trace.
InOpen == {"lock", "lookup", "labelmap", "unlock", "print"}

\* What TypeOK needs to be inductive: a thread in open_trace_file has a trace,
\* and a thread that is about to name its trace has a name.
HasTrace == \A t \in Threads : pc[t] \in InOpen => trace[t] # NoTrace
HasName == \A t \in Threads : instr[t].op = "name" => NameOf[t] # NoFile
TypeInv == TypeOK /\ HasTrace /\ HasName

\* A set of functions that top-level functions call, directly or not: closed
\* under calls.  If there is one without traced functions, none of these is
\* ever called within another.
Encloses(S) ==
  /\ S \subseteq Funcs
  /\ \A c \in Calls : c[1] \in Traced \cup S => c[2] \in S

NoNesting(S) == TopLevelMode /\ MainFn \notin Tracked /\ Encloses(S) /\ S \cap Traced = {}

\* Everything above a traced function on a stack lies in S, and the function
\* at the bottom is not traced.
StackOK(S, t) ==
  /\ \A i, j \in 1 .. Len(stack[t]) : i < j /\ stack[t][i] \in Traced => stack[t][j] \in S
  /\ stack[t][1] \notin Traced
  /\ instr[t].op = "call" => <<Top(t), instr[t].callee>> \in Calls

\* What each hook may rely on.
HookOK(t) ==
  /\ pc[t] = "init" => trace[t] = NoTrace
  /\ pc[t] \in InOpen \cup {"status_in", "entry"} => Top(t) \in Traced
  /\ pc[t] \in {"header", "operands", "status_ret"} => Instrumented(Top(t))
  /\ pc[t] = "status_ret" => instr[t].op = "ret"

\* current_toplevel_function is the traced function on the stack while the
\* thread logs, and empty otherwise.
ToplevelOK(t) ==
  pc[t] # "closing" /\ trace[t] # NoTrace =>
    IF do_not_log(t)
    THEN trace[t].toplevel = NoFunc
    ELSE \E i \in 1 .. Len(stack[t]) :
           stack[t][i] \in Traced /\ trace[t].toplevel = stack[t][i]

\* The thread logs if and only if it is inside a traced function.
LogsInside(t) == pc[t] # "closing" => (~do_not_log(t) <=> InsideTraced(t))

ThreadInv(S, t) == StackOK(S, t) /\ HookOK(t) /\ ToplevelOK(t) /\ LogsInside(t)

InsideInv(S) ==
  /\ TypeInv
  /\ process \notin FailedAsserts
  /\ \A t \in Threads : ThreadInv(S, t)

\* The innermost function is not, or no longer, counted by InsideTraced.
Outside(t) == pc[t] = "status_in" \/ (pc[t] = "exec" /\ instr[t].op = "ret")

\* A step that leaves status and current_toplevel_function of a thread alone.
QuietTrace(t) ==
  \/ /\ do_not_log(t) /\ do_not_log(t)'
     /\ \/ trace'[t] = NoTrace
        \/ trace'[t].toplevel = NoFunc
        \/ trace[t] # NoTrace /\ trace'[t].toplevel = trace[t].toplevel
  \/ /\ ~do_not_log(t) /\ ~do_not_log(t)'
     /\ trace'[t].toplevel = trace[t].toplevel

----------------------------------------------------------------------------
(* Type correctness.                                                       *)

\* The initial state is well typed.
LEMMA InitType == Init => TypeInv
<1> SUFFICES ASSUME Init PROVE TypeInv
  OBVIOUS
<1>1. disk \in [Names -> Seq(LineType)]
  <2>1. StaleLine \in LineType
    BY DEF StaleLine, Line, LineType, Kinds
  <2> QED
    BY <2>1 DEF Init, LoggerInit
<1>2. LoggerTypeOK
  BY <1>1 DEF Init, LoggerInit, LoggerTypeOK
<1>3. stack \in [Threads -> Seq(Funcs)] /\ \A t \in Threads : stack[t] # << >>
  BY ProgramAssumption DEF Init, Root
<1>4. /\ pc \in [Threads -> Labels]
      /\ \A t \in Threads : pc[t] \notin InOpen
  BY DEF Init, Labels, InOpen
<1>5. /\ instr \in [Threads -> InstrType]
      /\ \A t \in Threads : instr[t].op # "name"
  BY DEF Init, InstrType, NoInstr, Instr, Ops
<1>6. /\ wanted \in [Threads -> Names \cup {NoFile}]
      /\ left \in [Threads -> Nat]
  BY ProgramAssumption DEF Init
<1> QED
  BY <1>2, <1>3, <1>4, <1>5, <1>6 DEF TypeInv, TypeOK, HasTrace, HasName

\* A new trace is a trace_info; so is the one a hook works on.
LEMMA TraceTyped ==
  ASSUME TypeOK, NEW t \in Threads
  PROVE  /\ \A n \in Names : create_trace(n) \in TraceInfo
         /\ current(t) \in TraceInfo
         /\ Top(t) \in Funcs
         /\ ~do_not_log(t) => trace[t] \in TraceInfo
<1>1. \A n \in Names : create_trace(n) \in TraceInfo
  BY DEF create_trace, TraceInfo, Statuses
<1>2. current(t) \in TraceInfo
  BY <1>1, NamesAssumption DEF current, TypeOK, LoggerTypeOK
<1>3. Top(t) \in Funcs
  BY DEF TypeOK, Top
<1>4. ~do_not_log(t) => trace[t] \in TraceInfo
  BY DEF do_not_log, TypeOK, LoggerTypeOK
<1> QED
  BY <1>1, <1>2, <1>3, <1>4

\* The status a thread is given is one, unless an assertion fails.
LEMMA StatusTyped ==
  ASSUME NEW tr \in TraceInfo, NEW f \in Funcs, NEW op
  PROVE  log_or_not(tr, f, op) \in Statuses \cup FailedAsserts
<1>1. tr.status \in Statuses
  BY DEF TraceInfo
<1>2. CASE ~TopLevelMode
  <2>1. log_or_not(tr, f, op) = IF f \in Tracked THEN "LOG_AND_CONTINUE" ELSE "DO_NOT_LOG"
    BY <1>2 DEF log_or_not
  <2> QED
    BY <2>1 DEF Statuses
<1>3. CASE TopLevelMode /\ f \notin Tracked
  <2>1. log_or_not(tr, f, op) = tr.status
    BY <1>3 DEF log_or_not
  <2> QED
    BY <1>1, <2>1
<1>4. CASE TopLevelMode /\ f \in Tracked
  BY <1>4 DEF log_or_not, Statuses, FailedAsserts
<1> QED
  BY <1>2, <1>3, <1>4

\* trace_logger_update_status keeps the library well typed.
LEMMA UpdateStatusTyped ==
  ASSUME TypeOK, NEW t \in Threads, NEW f \in Funcs, NEW op,
         trace_logger_update_status(t, f, op)
  PROVE  LoggerTypeOK'
<1> DEFINE status == log_or_not(current(t), f, op)
           logging == [current(t) EXCEPT !.status = status,
                                         !.toplevel = IF @ = NoFunc THEN f ELSE @]
<1>1. current(t) \in TraceInfo
  BY TraceTyped
<1>2. status \in Statuses => logging \in TraceInfo
  BY <1>1 DEF TraceInfo
<1>3. trace' \in [Threads -> TraceInfo \cup {NoTrace}]
  <2>1. CASE UNCHANGED trace
    BY <2>1 DEF TypeOK, LoggerTypeOK
  <2>2. CASE fin_toplevel(t)
    BY <2>2 DEF fin_toplevel, TypeOK, LoggerTypeOK
  <2>3. CASE status = "LOG_AND_CONTINUE" /\ trace' = [trace EXCEPT ![t] = logging]
    BY <2>3, <1>2 DEF Statuses, TypeOK, LoggerTypeOK
  <2> QED
    BY <2>1, <2>2, <2>3 DEF trace_logger_update_status
<1>4. process' \in {"running", "exiting"} \cup Ended
  BY DEF trace_logger_update_status, TypeOK, LoggerTypeOK, Ended
<1> QED
  BY <1>3, <1>4 DEF trace_logger_update_status, unchangedFiles, TypeOK, LoggerTypeOK

\* The contents of the files have their type: the line that stands for damage is one.
LEMMA DiskTyped ==
  ASSUME TypeOK, NEW n \in Names, NEW line \in LineType,
         disk' \in {disk, [disk EXCEPT ![n] = Append(@, line)],
                    [disk EXCEPT ![n] = <<DamagedLine>>]}
  PROVE  disk' \in [Names -> Seq(LineType)]
<1>1. DamagedLine \in LineType
  BY DEF DamagedLine, Line, LineType, Kinds
<1>2. <<DamagedLine>> \in Seq(LineType) /\ Append(disk[n], line) \in Seq(LineType)
  BY <1>1 DEF TypeOK, LoggerTypeOK
<1> QED
  BY <1>2 DEF TypeOK, LoggerTypeOK

\* Writing a line adds it to the thread's file, unless that is damaged, or to none, and
\* may damage a file if the stream is not the thread's to use.
LEMMA LinesAdded ==
  ASSUME TypeOK, NEW t, NEW line, NEW racing, gzprintf(t, line, racing)
  PROVE  /\ UNCHANGED <<gz_files, lock, labelmap, closed, closing>>
         /\ process' \in {process, "crashed"}
         /\ \/ /\ disk' = disk
               /\ trace[t].file \notin Names \ closed \/ racing \/ Damaged(trace[t].file)
            \/ /\ trace[t].file \in Names \ closed /\ ~Damaged(trace[t].file)
               /\ disk' = [disk EXCEPT ![trace[t].file] = Append(@, line)]
            \/ /\ trace[t].file \notin Names \ closed \/ racing
               /\ \E n \in gz_files : Damage(n)
<1>1. disk = [n \in Names |-> disk[n]]
  BY DEF TypeOK, LoggerTypeOK
<1>2. CASE trace[t].file \in Names \ closed /\ Damaged(trace[t].file)
           /\ disk' = [disk EXCEPT ![trace[t].file] = @]
  BY <1>1, <1>2 DEF gzprintf, undefined
<1>3. CASE trace[t].file \notin Names \ closed \/ racing
  BY <1>2, <1>3 DEF gzprintf, undefined
<1> QED
  BY <1>2, <1>3 DEF gzprintf

\* Writing a line keeps all but the trace well typed.
LEMMA GzprintfTyped ==
  ASSUME TypeOK, NEW t, NEW line \in LineType, NEW racing, gzprintf(t, line, racing),
         trace' \in [Threads -> TraceInfo \cup {NoTrace}]
  PROVE  LoggerTypeOK'
<1>1. disk' \in [Names -> Seq(LineType)]
  <2>1. gz_files \subseteq Names /\ disk \in [Names -> Seq(LineType)]
    BY DEF TypeOK, LoggerTypeOK
  <2>2. \/ disk' = disk
        \/ \E n \in Names : disk' = [disk EXCEPT ![n] = Append(@, line)]
        \/ \E n \in Names : disk' = [disk EXCEPT ![n] = <<DamagedLine>>]
    BY <2>1, LinesAdded DEF Damage
  <2> QED
    BY <2>1, <2>2, DiskTyped
<1> QED
  BY <1>1, LinesAdded DEF TypeOK, LoggerTypeOK, Ended

\* The instruction and value lines are well typed, and so are their writers.
LEMMA LogTyped ==
  ASSUME TypeOK, NEW t \in Threads, NEW f \in Funcs, NEW racing
  PROVE  /\ \A op \in Ops : trace_logger_log0(t, f, op, racing) => LoggerTypeOK'
         /\ \A kind \in {"param", "result"} :
              trace_logger_log_value(t, kind, f, racing) => LoggerTypeOK'
         /\ print_entry(t, f, racing) => LoggerTypeOK'
         /\ write_labelmap(t, racing) => LoggerTypeOK'
<1>1. ASSUME NEW op \in Ops, trace_logger_log0(t, f, op, racing)
      PROVE  LoggerTypeOK'
  <2>1. CASE UNCHANGED loggerVars
    BY <2>1 DEF loggerVars, TypeOK, LoggerTypeOK
  <2>2. CASE ~UNCHANGED loggerVars
    <3>1. trace[t] \in TraceInfo
      BY <2>2, <1>1, TraceTyped DEF trace_logger_log0
    <3>2. trace[t].count \in Nat
      BY <3>1 DEF TraceInfo
    <3>3. Line("inst", t, f, op, trace[t].count) \in LineType
      BY <3>2 DEF Line, LineType, Kinds, Ops
    <3>4. [trace[t] EXCEPT !.count = @ + 1] \in TraceInfo
      BY <3>1, <3>2 DEF TraceInfo
    <3>5. trace' \in [Threads -> TraceInfo \cup {NoTrace}]
      BY <2>2, <1>1, <3>4 DEF trace_logger_log0, TypeOK, LoggerTypeOK
    <3> QED
      BY <2>2, <1>1, <3>3, <3>5, GzprintfTyped DEF trace_logger_log0
  <2> QED
    BY <2>1, <2>2
<1>2. ASSUME NEW kind \in {"param", "result"}, trace_logger_log_value(t, kind, f, racing)
      PROVE  LoggerTypeOK'
  <2>1. Line(kind, t, f, "none", 0) \in LineType
    BY DEF Line, LineType, Kinds
  <2>2. CASE UNCHANGED loggerVars
    BY <2>2 DEF loggerVars, TypeOK, LoggerTypeOK
  <2>3. CASE ~UNCHANGED loggerVars
    BY <2>3, <1>2, <2>1, GzprintfTyped DEF trace_logger_log_value, TypeOK, LoggerTypeOK
  <2> QED
    BY <2>2, <2>3
<1>3. ASSUME print_entry(t, f, racing) PROVE LoggerTypeOK'
  <2>1. Line("entry", t, f, "none", 0) \in LineType
    BY DEF Line, LineType, Kinds
  <2> QED
    BY <1>3, <2>1, GzprintfTyped DEF print_entry, TypeOK, LoggerTypeOK
<1>4. ASSUME write_labelmap(t, racing) PROVE LoggerTypeOK'
  <2>1. Line(IF labelmap THEN "labelmap" ELSE "no labelmap", NoThread, NoFunc, "none", 0)
          \in LineType
    BY DEF Line, LineType, Kinds
  <2> QED
    BY <1>4, <2>1, GzprintfTyped DEF write_labelmap, TypeOK, LoggerTypeOK
<1> QED
  BY <1>1, <1>2, <1>3, <1>4

\* So do the steps of open_trace_file and of fin_main, and set_trace_name.
LEMMA RegistryTyped ==
  ASSUME TypeOK, NEW t \in Threads, NEW racing \in BOOLEAN
  PROVE  /\ \A n \in Names : llvmtracer_set_trace_name(t, n) => LoggerTypeOK'
         /\ exit(t) => LoggerTypeOK'
         /\ \A n \in closing : close_next(n, racing) => LoggerTypeOK'
         /\ fin_main_done => LoggerTypeOK'
         /\ lock_registry(t) => LoggerTypeOK'
         /\ unlock_registry(t) => LoggerTypeOK'
         /\ find_file(t) /\ trace[t] # NoTrace => LoggerTypeOK'
         /\ open_file(t) /\ trace[t] # NoTrace => LoggerTypeOK'
         /\ trace_logger_init(t) => LoggerTypeOK'
         /\ trace_logger_register_labelmap => LoggerTypeOK'
<1> USE DEF TypeOK, LoggerTypeOK, unchangedFiles
<1>1. ASSUME NEW n \in Names, llvmtracer_set_trace_name(t, n) PROVE LoggerTypeOK'
  <2>1. trace[t] # NoTrace => [trace[t] EXCEPT !.name = n] \in TraceInfo
    BY DEF TraceInfo
  <2> QED
    BY <1>1, <2>1, TraceTyped DEF llvmtracer_set_trace_name
<1>2. ASSUME exit(t) PROVE LoggerTypeOK'
  BY <1>2 DEF exit, fin_toplevel, Ended
<1>3. ASSUME NEW n \in closing, close_next(n, racing) PROVE LoggerTypeOK'
  <2>1. n \in Names /\ DamagedLine \in LineType
    BY <1>3 DEF DamagedLine, Line, LineType, Kinds
  <2>2. disk' \in [Names -> Seq(LineType)]
    BY <1>3, <2>1, DiskTyped DEF close_next, Damage
  <2> QED
    BY <1>3, <2>2 DEF close_next, Ended
<1>4. ASSUME fin_main_done PROVE LoggerTypeOK'
  BY <1>4 DEF fin_main_done, Ended
<1>5. ASSUME lock_registry(t) PROVE LoggerTypeOK'
  BY <1>5 DEF lock_registry
<1>6. ASSUME unlock_registry(t) PROVE LoggerTypeOK'
  BY <1>6 DEF unlock_registry
<1>7. ASSUME find_file(t), trace[t] # NoTrace PROVE LoggerTypeOK'
  <2>1. [trace[t] EXCEPT !.file = trace[t].name] \in TraceInfo
    BY <1>7 DEF TraceInfo
  <2> QED
    BY <1>7, <2>1 DEF find_file
<1>8. ASSUME open_file(t), trace[t] # NoTrace PROVE LoggerTypeOK'
  <2>1. /\ trace[t].name \in Names
        /\ [trace[t] EXCEPT !.file = trace[t].name] \in TraceInfo
    BY <1>8 DEF TraceInfo
  <2>2. /\ trace' \in [Threads -> TraceInfo \cup {NoTrace}]
        /\ disk' \in [Names -> Seq(LineType)]
    BY <1>8, <2>1 DEF open_file
  <2> QED
    BY <1>8, <2>1, <2>2 DEF open_file, Ended
<1>9. ASSUME trace_logger_init(t) PROVE LoggerTypeOK'
  BY <1>9, TraceTyped, NamesAssumption DEF trace_logger_init
<1>10. ASSUME trace_logger_register_labelmap PROVE LoggerTypeOK'
  BY <1>10, ModeAssumption DEF trace_logger_register_labelmap
<1> QED
  BY <1>1, <1>2, <1>3, <1>4, <1>5, <1>6, <1>7, <1>8, <1>9, <1>10

\* A frame is taken off a stack that has another one.
LEMMA Popped ==
  ASSUME NEW s \in Seq(Funcs), Len(s) > 1
  PROVE  LET below == SubSeq(s, 1, Len(s) - 1)
         IN  /\ below \in Seq(Funcs) /\ below # << >> /\ Len(below) = Len(s) - 1
             /\ \A i \in 1 .. Len(s) - 1 : below[i] = s[i]
<1> DEFINE n == Len(s) - 1
<1>1. n \in Int /\ n > 0 /\ \A i \in 1 .. n : s[i] \in Funcs
  BY ElementOfSeq, LenProperties
<1> HIDE DEF n
<1>2. /\ SubSeq(s, 1, n) \in Seq(Funcs) /\ Len(SubSeq(s, 1, n)) = n
      /\ \A i \in 1 .. n : SubSeq(s, 1, n)[i] = s[i]
  BY <1>1, SubSeqProperties
<1>3. SubSeq(s, 1, n) # << >>
  BY <1>1, <1>2
<1> QED
  BY <1>2, <1>3 DEF n

\* A step of one thread leaves the rest of the threads where they are, except
\* that it may start one.
LEMMA StepFrame ==
  ASSUME TypeOK, NEW t \in Threads, Step(t), NEW u \in Threads \ {t}
  PROVE  /\ trace'[u] = trace[u] /\ stack'[u] = stack[u] /\ instr'[u] = instr[u]
         /\ pc'[u] = pc[u] \/ (pc[u] = "unborn" /\ pc'[u] = "run")
<1> USE DEF TypeOK, LoggerTypeOK, Goto, loggerVars, unchangedFiles
<1>1. CASE InitLogger(t) \/ RegisterLabelmap(t)
  BY <1>1 DEF InitLogger, RegisterLabelmap, trace_logger_init, trace_logger_register_labelmap
<1>2. CASE Choose(t)
  BY <1>2 DEF Choose
<1>3. CASE Header(t)
  BY <1>3 DEF Header, trace_logger_log0
<1>4. CASE Operands(t) \/ Args(t) \/ Result(t)
  BY <1>4 DEF Operands, Args, Result, trace_logger_log_value
<1>5. CASE ExecPlain(t) \/ ExecName(t)
  BY <1>5 DEF ExecPlain, ExecName, llvmtracer_set_trace_name
<1>6. CASE ExecSpawn(t)
  BY <1>6 DEF ExecSpawn
<1>7. CASE ExecCall(t) \/ ExecRet(t) \/ WorkerReturn(t)
  BY <1>7 DEF ExecCall, ExecRet, WorkerReturn
<1>8. CASE MainReturn(t) \/ OpenFails(t)
  BY <1>8 DEF MainReturn, OpenFails, open_fails, exit, fin_toplevel
<1>9. CASE StatusRet(t) \/ StatusIn(t)
  BY <1>9 DEF StatusRet, StatusIn, trace_logger_update_status, fin_toplevel
<1>10. CASE LogEntry(t) \/ LockRegistry(t) \/ UnlockRegistry(t)
  BY <1>10 DEF LogEntry, LockRegistry, UnlockRegistry, lock_registry, unlock_registry
<1>11. CASE FindFile(t) \/ OpenFile(t)
  BY <1>11 DEF FindFile, OpenFile, find_file, open_file
<1>12. CASE WriteLabelmap(t) \/ PrintEntry(t)
  BY <1>12 DEF WriteLabelmap, PrintEntry, write_labelmap, print_entry
<1>13. CASE CloseNext(t) \/ FinMainDone(t)
  BY <1>13 DEF CloseNext, FinMainDone, close_next, fin_main_done, progVars
<1> QED
  BY <1>1, <1>2, <1>3, <1>4, <1>5, <1>6, <1>7, <1>8, <1>9, <1>10, <1>11, <1>12, <1>13
     DEF Step

\* The library stays well typed.
LEMMA StepLogger ==
  ASSUME TypeInv, NEW t \in Threads, Step(t)
  PROVE  LoggerTypeOK'
<1> USE DEF TypeInv
<1>1. instr[t].op \in Ops /\ Top(t) \in Funcs
  BY TraceTyped DEF TypeOK, InstrType, Ops
<1>2. CASE UNCHANGED loggerVars
  BY <1>2 DEF loggerVars, TypeOK, LoggerTypeOK
<1>3. CASE InitLogger(t) \/ RegisterLabelmap(t)
  BY <1>3, RegistryTyped DEF InitLogger, RegisterLabelmap
<1>4. CASE Header(t)
  BY <1>4, <1>1, LogTyped DEF Header
<1>5. CASE Operands(t) \/ Args(t) \/ Result(t)
  BY <1>5, <1>1, LogTyped DEF Operands, Args, Result
<1>6. CASE ExecName(t)
  <2>1. NameOf[t] \in Names
    BY <1>6, ProgramAssumption DEF ExecName, HasName
  <2> QED
    BY <1>6, <2>1, RegistryTyped DEF ExecName
<1>7. CASE MainReturn(t) \/ OpenFails(t)
  BY <1>7, RegistryTyped DEF MainReturn, OpenFails, open_fails
<1>8. CASE StatusRet(t) \/ StatusIn(t)
  BY <1>8, <1>1, UpdateStatusTyped DEF StatusRet, StatusIn
<1>9. CASE LogEntry(t)
  BY <1>9, TraceTyped DEF LogEntry, unchangedFiles, TypeOK, LoggerTypeOK
<1>10. CASE LockRegistry(t) \/ UnlockRegistry(t)
  BY <1>10, RegistryTyped DEF LockRegistry, UnlockRegistry
<1>11. CASE FindFile(t) \/ OpenFile(t)
  BY <1>11, RegistryTyped DEF FindFile, OpenFile, HasTrace, InOpen
<1>12. CASE WriteLabelmap(t) \/ PrintEntry(t)
  BY <1>12, <1>1, LogTyped DEF WriteLabelmap, PrintEntry
<1>13. CASE CloseNext(t)
  BY <1>13, RegistryTyped DEF CloseNext
<1>14. CASE FinMainDone(t)
  BY <1>14, RegistryTyped DEF FinMainDone
<1> QED
  BY <1>2, <1>3, <1>4, <1>5, <1>6, <1>7, <1>8, <1>9, <1>10, <1>11, <1>12, <1>13, <1>14
     DEF Step, Choose, ExecPlain, ExecSpawn, ExecCall, ExecRet, WorkerReturn

\* What a thread chooses to execute is an instruction.
LEMMA ChoiceTyped ==
  ASSUME NEW t \in Threads, NEW i \in Choices(t)
  PROVE  /\ i \in InstrType
         /\ i.op = "name" => NameOf[t] # NoFile
         /\ i.op \notin {"ret", "spawn"} => left[t] > 0
         /\ i.op = "call" => MayCall(t, i.callee)
<1>1. CASE \E f \in Funcs : MayCall(t, f) /\ i = Instr("call", f) /\ left[t] > 0
  BY <1>1 DEF Instr, InstrType
<1>2. CASE i = NoInstr /\ left[t] > 0
  BY <1>2 DEF NoInstr, Instr, InstrType, Ops
<1>3. CASE i = Instr("name", NoFunc) /\ NameOf[t] # NoFile /\ left[t] > 0
  BY <1>3 DEF Instr, InstrType, Ops
<1>4. CASE i = Instr("spawn", NoFunc) \/ i = Instr("ret", NoFunc)
  BY <1>4 DEF Instr, InstrType, Ops
<1> QED
  BY <1>1, <1>2, <1>3, <1>4 DEF Choices

\* The application and the program counters stay well typed.
LEMMA StepProgram ==
  ASSUME TypeInv, NEW t \in Threads, Step(t)
  PROVE  /\ stack' \in [Threads -> Seq(Funcs)] /\ stack'[t] # << >>
         /\ pc' \in [Threads -> Labels]
         /\ instr' \in [Threads -> InstrType]
         /\ wanted' \in [Threads -> Names \cup {NoFile}]
         /\ left' \in [Threads -> Nat]
         /\ instr'[t].op = "name" => NameOf[t] # NoFile
         /\ pc'[t] \in InOpen => trace'[t] # NoTrace
<1> USE DEF TypeInv, TypeOK, Goto, progVars
<1>0. /\ NoInstr \in InstrType /\ NoInstr.op # "name"
      /\ \A f, i : After(f, i) \in Labels \ InOpen
      /\ \A f : EntryHook(f) \in Labels \ InOpen
      /\ instr[t].op = "name" => NameOf[t] # NoFile
  BY DEF NoInstr, Instr, InstrType, Ops, After, EntryHook, Labels, InOpen, HasName
<1> DEFINE Same == UNCHANGED <<stack, instr, wanted, left>>
<1>1. CASE Same /\ pc' = [pc EXCEPT ![t] = pc'[t]] /\ pc'[t] \in Labels \ InOpen
  BY <1>1, <1>0
<1>2. CASE UNCHANGED progVars /\ pc[t] = "closing"
  BY <1>2, <1>0 DEF InOpen
<1>3. CASE Choose(t)
  <2>1. PICK i \in Choices(t) :
          /\ instr' = [instr EXCEPT ![t] = i]
          /\ pc' = [pc EXCEPT ![t] = IF Hooked(Top(t), i) THEN "header" ELSE "exec"]
          /\ left' = [left EXCEPT ![t] = IF i.op \in {"ret", "spawn"} THEN @ ELSE @ - 1]
    BY <1>3 DEF Choose
  <2>2. left' \in [Threads -> Nat]
    BY <2>1, ChoiceTyped
  <2> QED
    BY <1>3, <2>1, <2>2, ChoiceTyped DEF Choose, Labels, InOpen
<1>4. CASE ExecName(t)
  <2>1. NameOf[t] \in Names \cup {NoFile}
    BY ProgramAssumption
  <2> QED
    BY <1>4, <1>0, <2>1 DEF ExecName
<1>5. CASE ExecSpawn(t) \/ WorkerReturn(t)
  <2>1. \/ pc' = [pc EXCEPT ![t] = "finished"]
        \/ \E w \in Threads : pc[w] = "unborn" /\
             pc' = [pc EXCEPT ![w] = "run", ![t] = After(Top(t), instr[t])]
    BY <1>5 DEF ExecSpawn, WorkerReturn, Workers
  <2>2. {"run", "finished"} \subseteq Labels \ InOpen
    BY DEF Labels, InOpen
  <2>3. ASSUME NEW w \in Threads, NEW l \in Labels \ InOpen,
               pc' = [pc EXCEPT ![w] = "run", ![t] = l]
        PROVE  pc' \in [Threads -> Labels] /\ pc'[t] \notin InOpen
    BY <2>2, <2>3
  <2>4. pc' \in [Threads -> Labels] /\ pc'[t] \notin InOpen
    BY <2>1, <2>2, <2>3, <1>0
  <2> QED
    BY <1>5, <1>0, <2>4 DEF ExecSpawn, WorkerReturn
<1>6. CASE ExecCall(t)
  <2>1. instr[t].callee \in Funcs
    BY <1>6 DEF ExecCall, InstrType
  <2>2. stack' \in [Threads -> Seq(Funcs)] /\ stack'[t] # << >>
    BY <1>6, <2>1, AppendProperties DEF ExecCall
  <2> QED
    BY <1>6, <1>0, <2>2 DEF ExecCall
<1>7. CASE ExecRet(t)
  <2>1. stack' \in [Threads -> Seq(Funcs)] /\ stack'[t] # << >>
    BY <1>7, Popped DEF ExecRet
  <2>2. wanted' \in [Threads -> Names \cup {NoFile}]
    BY <1>7 DEF ExecRet
  <2>3. pc' \in [Threads -> Labels] /\ pc'[t] \notin InOpen
    BY <1>7, <1>0 DEF ExecRet
  <2> QED
    BY <1>7, <1>0, <2>1, <2>2, <2>3 DEF ExecRet
<1>8. CASE LogEntry(t)
  <2>1. trace'[t] # NoTrace
    BY <1>8, TraceTyped, SentinelAssumption DEF LogEntry, LoggerTypeOK
  <2> QED
    BY <1>8, <1>0, <2>1 DEF LogEntry, Labels
<1>9. CASE \/ LockRegistry(t) \/ FindFile(t) \/ OpenFile(t)
           \/ WriteLabelmap(t) \/ UnlockRegistry(t)
  <2>1. Same /\ pc' = [pc EXCEPT ![t] = pc'[t]] /\ pc'[t] \in Labels /\ pc[t] \in InOpen
    BY <1>9 DEF LockRegistry, FindFile, OpenFile, WriteLabelmap, UnlockRegistry, Labels, InOpen
  <2>2. trace[t] \in TraceInfo /\ trace[t] # NoTrace
    BY <2>1 DEF HasTrace, LoggerTypeOK
  <2>3. \/ UNCHANGED trace
        \/ \E n \in Names : trace' = [trace EXCEPT ![t].file = n]
    BY <1>9, <2>2
       DEF LockRegistry, FindFile, OpenFile, WriteLabelmap, UnlockRegistry, lock_registry,
           find_file, open_file, write_labelmap, unlock_registry, TraceInfo
  <2>4. \A n \in Names : [trace[t] EXCEPT !.file = n] \in TraceInfo
    BY <2>2 DEF TraceInfo
  <2>5. trace'[t] # NoTrace
    BY <2>2, <2>3, <2>4, SentinelAssumption DEF LoggerTypeOK
  <2> QED
    BY <2>1, <2>5, <1>0
<1>10. CASE InitLogger(t) \/ RegisterLabelmap(t) \/ Header(t) \/ Operands(t) \/ ExecPlain(t)
  BY <1>10, <1>1
     DEF InitLogger, RegisterLabelmap, Header, Operands, ExecPlain, Labels, InOpen, After
<1>11. CASE MainReturn(t) \/ StatusRet(t) \/ Result(t) \/ StatusIn(t) \/ OpenFails(t)
  BY <1>11, <1>1 DEF MainReturn, StatusRet, Result, StatusIn, OpenFails, Labels, InOpen
<1>12. CASE PrintEntry(t) \/ Args(t) \/ CloseNext(t) \/ FinMainDone(t)
  BY <1>12, <1>1, <1>2 DEF PrintEntry, Args, CloseNext, FinMainDone, Labels, InOpen
<1> QED
  BY <1>3, <1>4, <1>5, <1>6, <1>7, <1>8, <1>9, <1>10, <1>11, <1>12 DEF Step

\* Type correctness is kept by every step.
LEMMA NextType == TypeInv /\ [Next]_vars => TypeInv'
<1> SUFFICES ASSUME TypeInv, [Next]_vars PROVE TypeInv'
  OBVIOUS
<1>1. CASE UNCHANGED vars
  BY <1>1 DEF vars, TypeInv, TypeOK, LoggerTypeOK, HasTrace, HasName
<1>2. ASSUME NEW t \in Threads, Step(t) PROVE TypeInv'
  <2>1. LoggerTypeOK'
    BY <1>2, StepLogger
  <2>2. TypeOK'
    BY <1>2, <2>1, StepProgram, StepFrame DEF TypeInv, TypeOK
  <2>3. HasTrace' /\ HasName'
    BY <1>2, StepProgram, StepFrame DEF TypeInv, HasTrace, HasName, InOpen
  <2> QED
    BY <2>2, <2>3 DEF TypeInv
<1> QED
  BY <1>1, <1>2 DEF Next, Stopped

\* Every variable keeps its type in every behaviour of every application; in
\* particular fin_main only ever walks and closes streams of the registry.
THEOREM TypeCorrect == Spec => []TypeOK
<1>1. TypeInv => TypeOK
  BY DEF TypeInv
<1> QED
  BY <1>1, InitType, NextType, PTL DEF Spec

----------------------------------------------------------------------------
(* A thread logs exactly inside top-level calls.                           *)

\* Without nesting, a stack holds one traced function at most.
LEMMA OneTraced ==
  ASSUME NEW S, NoNesting(S), NEW t \in Threads, TypeOK, StackOK(S, t),
         NEW i \in 1 .. Len(stack[t]), NEW j \in 1 .. Len(stack[t]),
         stack[t][i] \in Traced, stack[t][j] \in Traced
  PROVE  i = j
<1>1. i \in Int /\ j \in Int
  OBVIOUS
<1>2. i < j => stack[t][j] \in S
  BY DEF StackOK
<1>3. j < i => stack[t][i] \in S
  BY DEF StackOK
<1> QED
  BY <1>1, <1>2, <1>3 DEF NoNesting

\* A step that changes neither the status of a thread nor what counts as inside.
LEMMA Quiet ==
  ASSUME NEW t \in Threads, TypeOK, ToplevelOK(t), LogsInside(t),
         stack'[t] = stack[t], QuietTrace(t),
         pc'[t] # "closing" => pc[t] # "closing",
         pc'[t] # "closing" /\ Top(t) \in Traced => (Outside(t)' <=> Outside(t))
  PROVE  ToplevelOK(t)' /\ LogsInside(t)'
<1> SUFFICES ASSUME pc'[t] # "closing" PROVE ToplevelOK(t)' /\ LogsInside(t)'
  BY DEF ToplevelOK, LogsInside
<1>1. Len(stack[t]) \in Nat
  BY DEF TypeOK
<1>2. InsideTraced(t)' <=> InsideTraced(t)
  BY DEF InsideTraced, Outside, Top
<1>3. LogsInside(t)'
  BY <1>2 DEF LogsInside, QuietTrace
<1>4. ToplevelOK(t)'
  BY DEF ToplevelOK, QuietTrace, do_not_log
<1> QED
  BY <1>3, <1>4

\* Counting an instruction changes nothing else in a trace.
LEMMA Counted ==
  ASSUME NEW tr \in TraceInfo
  PROVE  LET new == [tr EXCEPT !.count = @ + 1]
         IN  new \in TraceInfo /\ new.status = tr.status /\ new.toplevel = tr.toplevel
<1> DEFINE new == [tr EXCEPT !.count = @ + 1]
<1>1. tr.count \in Nat
  BY DEF TraceInfo
<1>2. new \in TraceInfo
  BY <1>1 DEF TraceInfo
<1>3. new.status = tr.status /\ new.toplevel = tr.toplevel
  BY DEF TraceInfo
<1> QED
  BY <1>2, <1>3

\* The hooks that write, and those of the application and of open_trace_file,
\* leave the status of the thread alone.
LEMMA QuietLogger ==
  ASSUME TypeOK, NEW t \in Threads
  PROVE  /\ UNCHANGED trace => QuietTrace(t)
         /\ \A f, op, racing : trace_logger_log0(t, f, op, racing) => QuietTrace(t)
         /\ \A n \in Names : llvmtracer_set_trace_name(t, n) => QuietTrace(t)
         /\ \A n \in Names : trace[t] # NoTrace /\ trace' = [trace EXCEPT ![t].file = n] => QuietTrace(t)
         /\ trace' = [trace EXCEPT ![t] = current(t)] => QuietTrace(t)
         /\ trace[t] = NoTrace /\ trace_logger_init(t) => QuietTrace(t)
<1> USE DEF TypeOK, LoggerTypeOK, do_not_log, QuietTrace
<1>1. trace \in [Threads -> TraceInfo \cup {NoTrace}]
  OBVIOUS
<1>2. UNCHANGED trace => QuietTrace(t)
  OBVIOUS
<1>3. ASSUME NEW f, NEW op, NEW racing, trace_logger_log0(t, f, op, racing)
      PROVE  QuietTrace(t)
  <2>1. CASE UNCHANGED loggerVars
    BY <2>1 DEF loggerVars
  <2>2. CASE ~do_not_log(t) /\ trace' = [trace EXCEPT ![t].count = @ + 1]
    <3>1. trace[t] \in TraceInfo
      BY <2>2
    <3>2. trace'[t] = [trace[t] EXCEPT !.count = @ + 1] /\ trace[t].count \in Nat
      BY <3>1, <2>2 DEF TraceInfo
    <3> QED
      BY <2>2, <3>1, <3>2, Counted, SentinelAssumption
  <2> QED
    BY <1>3, <2>1, <2>2 DEF trace_logger_log0
<1>4. ASSUME NEW n \in Names, llvmtracer_set_trace_name(t, n) PROVE QuietTrace(t)
  <2>1. CASE trace[t] = NoTrace
    BY <1>4, <2>1 DEF llvmtracer_set_trace_name, create_trace
  <2>2. CASE trace[t] # NoTrace
    <3>1. /\ trace'[t] = [trace[t] EXCEPT !.name = n] /\ trace[t] \in TraceInfo
      BY <1>4, <2>2 DEF llvmtracer_set_trace_name
    <3>2. /\ trace'[t] \in TraceInfo
          /\ trace'[t].status = trace[t].status /\ trace'[t].toplevel = trace[t].toplevel
      BY <3>1 DEF TraceInfo
    <3> QED
      BY <2>2, <3>2, SentinelAssumption
  <2> QED
    BY <2>1, <2>2
<1>5. ASSUME NEW n \in Names, trace[t] # NoTrace, trace' = [trace EXCEPT ![t].file = n]
      PROVE  QuietTrace(t)
  <2>1. /\ trace'[t] = [trace[t] EXCEPT !.file = n] /\ trace[t] \in TraceInfo
    BY <1>5
  <2>2. /\ trace'[t] \in TraceInfo
        /\ trace'[t].status = trace[t].status /\ trace'[t].toplevel = trace[t].toplevel
    BY <2>1 DEF TraceInfo
  <2> QED
    BY <1>5, <2>2, SentinelAssumption
<1>6. trace' = [trace EXCEPT ![t] = current(t)] => QuietTrace(t)
  BY DEF current, create_trace
<1>7. trace[t] = NoTrace /\ trace_logger_init(t) => QuietTrace(t)
  BY DEF trace_logger_init, create_trace
<1> QED
  BY <1>2, <1>3, <1>4, <1>5, <1>6, <1>7

\* The hook at the entry of a traced function switches the tracer on.
LEMMA EntryLogs ==
  ASSUME NEW S, NoNesting(S), NEW t \in Threads, TypeInv, ThreadInv(S, t), StatusIn(t)
  PROVE  /\ process' = process
         /\ ToplevelOK(t)' /\ LogsInside(t)'
<1> DEFINE top == Len(stack[t])
<1>1. /\ top \in 1 .. Len(stack[t]) /\ Top(t) = stack[t][top]
      /\ Top(t) \in Traced /\ Top(t) \in Funcs
      /\ stack'[t] = stack[t] /\ pc[t] = "status_in" /\ pc'[t] = "entry"
  BY TraceTyped DEF StatusIn, Goto, ThreadInv, HookOK, TypeInv, TypeOK, Top
<1>2. ~InsideTraced(t)
  BY <1>1, OneTraced DEF InsideTraced, ThreadInv, TypeInv
<1>3. do_not_log(t)
  BY <1>1, <1>2 DEF ThreadInv, LogsInside
<1>4. current(t) \in TraceInfo /\ current(t).toplevel = NoFunc
  <2>1. current(t) \in TraceInfo
    BY TraceTyped DEF TypeInv
  <2>2. current(t).toplevel = NoFunc
    BY <1>1, <1>3 DEF current, create_trace, ThreadInv, ToplevelOK
  <2> QED
    BY <2>1, <2>2
<1>5. Top(t) \in Tracked /\ log_or_not(current(t), Top(t), "none") = "LOG_AND_CONTINUE"
  BY <1>1 DEF log_or_not, NoNesting, Traced
<1>6. /\ process' = process
      /\ trace'[t] = [current(t) EXCEPT !.status = "LOG_AND_CONTINUE", !.toplevel = Top(t)]
  BY <1>4, <1>5 DEF StatusIn, trace_logger_update_status, FailedAsserts,
                    TypeInv, TypeOK, LoggerTypeOK
<1>7. /\ trace'[t] \in TraceInfo
      /\ trace'[t].status = "LOG_AND_CONTINUE" /\ trace'[t].toplevel = Top(t)
  BY <1>1, <1>4, <1>6 DEF TraceInfo, Statuses
<1>8. ~do_not_log(t)'
  BY <1>7, SentinelAssumption DEF do_not_log
<1>9. InsideTraced(t)'
  BY <1>1 DEF InsideTraced
<1> QED
  BY <1>1, <1>6, <1>7, <1>8, <1>9 DEF ToplevelOK, LogsInside

\* The hook before the return of a function switches the tracer off if it is
\* the traced one, and changes nothing otherwise; no assertion fails.
LEMMA ReturnStops ==
  ASSUME NEW S, NoNesting(S), NEW t \in Threads, TypeInv, ThreadInv(S, t), StatusRet(t)
  PROVE  /\ process' = process
         /\ ToplevelOK(t)' /\ LogsInside(t)'
<1> DEFINE top == Len(stack[t])
<1>1. /\ top \in 1 .. Len(stack[t]) /\ Top(t) = stack[t][top]
      /\ Top(t) \in Native /\ Top(t) \in Funcs
      /\ stack'[t] = stack[t] /\ pc[t] = "status_ret" /\ pc'[t] = "exec"
      /\ instr[t].op = "ret" /\ instr'[t] = instr[t]
  BY TraceTyped
     DEF StatusRet, Goto, ThreadInv, HookOK, Instrumented, TypeInv, TypeOK, Top
<1>2. TopLevelMode /\ trace_logger_update_status(t, Top(t), "ret")
  BY DEF NoNesting, StatusRet
<1>3. CASE Top(t) \in Tracked
  <2>1. Top(t) \in Traced
    BY <1>1, <1>3 DEF Traced
  <2>2. ~do_not_log(t)
    BY <1>1, <2>1 DEF InsideTraced, ThreadInv, LogsInside
  <2>3. trace[t] \in TraceInfo /\ trace[t] # NoTrace
    BY <2>2, TraceTyped DEF TypeInv, do_not_log
  <2>4. trace[t].toplevel = Top(t)
    BY <1>1, <2>1, <2>2, <2>3, OneTraced DEF ThreadInv, ToplevelOK, TypeInv
  <2>5. current(t) = trace[t] /\ Top(t) # NoFunc
    BY <1>1, <2>3, SentinelAssumption DEF current
  <2>6. log_or_not(current(t), Top(t), "ret") = "DO_NOT_LOG"
    BY <1>2, <1>3, <2>4, <2>5 DEF log_or_not
  <2>7. process' = process /\ trace'[t] = NoTrace
    BY <1>2, <1>3, <2>6
       DEF trace_logger_update_status, fin_toplevel, FailedAsserts, TypeInv, TypeOK, LoggerTypeOK
  <2>8. ~InsideTraced(t)'
    BY <1>1, <2>1, OneTraced DEF InsideTraced, ThreadInv, TypeInv
  <2> QED
    BY <2>7, <2>8 DEF ToplevelOK, LogsInside, do_not_log
<1>4. CASE Top(t) \notin Tracked
  <2>1. log_or_not(current(t), Top(t), "ret") = current(t).status
    BY <1>2, <1>4 DEF log_or_not
  <2>2. process' = process /\ QuietTrace(t)
    <3>1. CASE trace[t] = NoTrace
      BY <1>2, <1>4, <3>1
         DEF trace_logger_update_status, QuietTrace, do_not_log, TypeInv, TypeOK, LoggerTypeOK
    <3>2. CASE trace[t] # NoTrace /\ do_not_log(t)
      <4>1. log_or_not(current(t), Top(t), "ret") = "DO_NOT_LOG"
        BY <2>1, <3>2 DEF do_not_log, current
      <4> QED
        BY <1>2, <3>2, <4>1
           DEF trace_logger_update_status, fin_toplevel, FailedAsserts, QuietTrace, do_not_log,
               TypeInv, TypeOK, LoggerTypeOK
    <3>3. CASE ~do_not_log(t)
      <4>1. /\ trace[t] \in TraceInfo /\ current(t) = trace[t] /\ trace[t] # NoTrace
            /\ trace[t].status = "LOG_AND_CONTINUE"
        BY <3>3, TraceTyped DEF current, do_not_log, TypeInv, TraceInfo, Statuses
      <4>2. trace[t].toplevel \in Funcs
        BY <1>1, <3>3, <4>1, TrackedAssumption DEF ThreadInv, ToplevelOK, Traced
      <4>3. /\ process' = process
            /\ trace'[t] = [trace[t] EXCEPT !.status = "LOG_AND_CONTINUE",
                                            !.toplevel = trace[t].toplevel]
        BY <1>2, <2>1, <4>1, <4>2, SentinelAssumption
           DEF trace_logger_update_status, FailedAsserts, TypeInv, TypeOK, LoggerTypeOK
      <4>4. /\ trace'[t] \in TraceInfo
            /\ trace'[t].status = "LOG_AND_CONTINUE"
            /\ trace'[t].toplevel = trace[t].toplevel
        BY <4>1, <4>2, <4>3 DEF TraceInfo, Statuses
      <4> QED
        BY <3>3, <4>3, <4>4, SentinelAssumption DEF QuietTrace, do_not_log
    <3> QED
      BY <3>1, <3>2, <3>3 DEF do_not_log
  <2>3. Top(t) \notin Traced
    BY <1>4 DEF Traced
  <2> QED
    BY <1>1, <2>2, <2>3, Quiet DEF ThreadInv, TypeInv
<1> QED
  BY <1>3, <1>4

\* No hook but update_status can fail an assertion, and here it does not.
LEMMA StepAsserts ==
  ASSUME NEW S, NoNesting(S), InsideInv(S), NEW t \in Threads, Step(t)
  PROVE  process' \notin FailedAsserts
<1>1. process \notin FailedAsserts /\ TypeInv /\ ThreadInv(S, t)
  BY DEF InsideInv
<1>2. CASE process' \in {process, "exiting", "exited", "crashed"}
  BY <1>1, <1>2 DEF FailedAsserts
<1>3. CASE StatusIn(t) \/ StatusRet(t)
  BY <1>1, <1>3, EntryLogs, ReturnStops
<1>4. CASE \/ InitLogger(t) \/ RegisterLabelmap(t) \/ Choose(t) \/ ExecPlain(t) \/ ExecName(t)
           \/ ExecSpawn(t) \/ ExecCall(t) \/ ExecRet(t) \/ WorkerReturn(t)
           \/ LogEntry(t) \/ LockRegistry(t) \/ UnlockRegistry(t) \/ FindFile(t)
  BY <1>2, <1>4
     DEF InitLogger, RegisterLabelmap, Choose, ExecPlain, ExecName, ExecSpawn, ExecCall,
         ExecRet, WorkerReturn, LogEntry, LockRegistry, UnlockRegistry, FindFile,
         trace_logger_init, trace_logger_register_labelmap, llvmtracer_set_trace_name,
         lock_registry, unlock_registry, find_file, loggerVars
<1>5. CASE Header(t) \/ Operands(t) \/ Args(t) \/ Result(t) \/ WriteLabelmap(t) \/ PrintEntry(t)
  BY <1>2, <1>5
     DEF Header, Operands, Args, Result, WriteLabelmap, PrintEntry, trace_logger_log0,
         trace_logger_log_value, write_labelmap, print_entry, gzprintf, undefined, loggerVars
<1>6. CASE \/ MainReturn(t) \/ OpenFails(t) \/ OpenFile(t) \/ CloseNext(t) \/ FinMainDone(t)
  BY <1>2, <1>6
     DEF MainReturn, OpenFails, OpenFile, CloseNext, FinMainDone, open_fails, exit,
         open_file, close_next, fin_main_done
<1> QED
  BY <1>3, <1>4, <1>5, <1>6 DEF Step

\* Calls stay within S above a traced function.
LEMMA StepStack ==
  ASSUME NEW S, NoNesting(S), InsideInv(S), NEW t \in Threads, Step(t)
  PROVE  StackOK(S, t)'
<1> DEFINE top == Len(stack[t])
<1>0. /\ StackOK(S, t) /\ NoInstr.op # "call"
      /\ stack[t] \in Seq(Funcs) /\ stack[t] # << >> /\ top \in Nat \ {0}
      /\ Top(t) = stack[t][top]
  BY DEF InsideInv, ThreadInv, TypeInv, TypeOK, NoInstr, Instr, Top
<1>1. CASE stack'[t] = stack[t] /\ (instr'[t] = instr[t] \/ instr'[t] = NoInstr)
  BY <1>0, <1>1 DEF StackOK, Top
<1>2. CASE Choose(t)
  <2>1. PICK i \in Choices(t) : instr'[t] = i
    BY <1>2 DEF Choose, InsideInv, TypeInv, TypeOK
  <2>2. i.op = "call" => <<Top(t), i.callee>> \in Calls
    BY ChoiceTyped DEF MayCall
  <2> QED
    BY <1>0, <1>2, <2>1, <2>2 DEF Choose, StackOK, Top
<1>3. CASE ExecCall(t)
  <2> DEFINE callee == instr[t].callee
  <2>1. callee \in Funcs /\ <<Top(t), callee>> \in Calls
    BY <1>0, <1>3 DEF ExecCall, StackOK, InsideInv, TypeInv, TypeOK, InstrType
  <2>2. /\ stack'[t] = Append(stack[t], callee)
        /\ instr'[t].op # "call"
    BY <1>0, <1>3 DEF ExecCall, InsideInv, TypeInv, TypeOK
  <2>3. /\ Len(stack'[t]) = top + 1
        /\ \A i \in 1 .. top : stack'[t][i] = stack[t][i]
        /\ stack'[t][top + 1] = callee
    BY <1>0, <2>1, <2>2, AppendProperties
  <2>4. ASSUME NEW i \in 1 .. top, stack[t][i] \in Traced PROVE callee \in S
    <3>1. Top(t) \in Traced \cup S
      BY <1>0, <2>4 DEF StackOK
    <3> QED
      BY <2>1, <3>1 DEF NoNesting, Encloses
  <2>5. ASSUME NEW i \in 1 .. top + 1, NEW j \in 1 .. top + 1, i < j, stack'[t][i] \in Traced
        PROVE  stack'[t][j] \in S
    <3>1. i \in 1 .. top /\ stack[t][i] \in Traced
      BY <1>0, <2>3, <2>5
    <3>2. CASE j = top + 1
      BY <2>3, <2>4, <3>1, <3>2
    <3>3. CASE j \in 1 .. top
      BY <1>0, <2>3, <2>5, <3>1, <3>3 DEF StackOK
    <3> QED
      BY <1>0, <3>2, <3>3
  <2>6. stack'[t][1] \notin Traced
    BY <1>0, <2>3 DEF StackOK
  <2> QED
    BY <2>2, <2>3, <2>5, <2>6 DEF StackOK
<1>4. CASE ExecRet(t)
  <2>1. /\ Len(stack[t]) > 1 /\ instr'[t] = NoInstr
        /\ stack'[t] = SubSeq(stack[t], 1, top - 1)
    BY <1>4 DEF ExecRet, InsideInv, TypeInv, TypeOK
  <2>2. Len(stack'[t]) = top - 1 /\ \A i \in 1 .. top - 1 : stack'[t][i] = stack[t][i]
    BY <1>0, <2>1, Popped
  <2>3. 1 .. top - 1 \subseteq 1 .. top /\ 1 \in 1 .. top - 1
    BY <1>0, <2>1
  <2> QED
    BY <1>0, <2>1, <2>2, <2>3 DEF StackOK
<1>5. CASE \/ InitLogger(t) \/ RegisterLabelmap(t) \/ Header(t) \/ Operands(t) \/ ExecPlain(t)
           \/ ExecName(t) \/ ExecSpawn(t) \/ WorkerReturn(t) \/ MainReturn(t) \/ StatusRet(t)
           \/ Result(t) \/ StatusIn(t)
  BY <1>1, <1>5
     DEF InitLogger, RegisterLabelmap, Header, Operands, ExecPlain, ExecName, ExecSpawn,
         WorkerReturn, MainReturn, StatusRet, Result, StatusIn, InsideInv, TypeInv, TypeOK
<1>6. CASE \/ LogEntry(t) \/ LockRegistry(t) \/ FindFile(t) \/ OpenFile(t) \/ OpenFails(t)
           \/ WriteLabelmap(t) \/ UnlockRegistry(t) \/ PrintEntry(t) \/ Args(t)
           \/ CloseNext(t) \/ FinMainDone(t)
  BY <1>1, <1>6
     DEF LogEntry, LockRegistry, FindFile, OpenFile, OpenFails, WriteLabelmap, UnlockRegistry,
         PrintEntry, Args, CloseNext, FinMainDone, progVars
<1> QED
  BY <1>2, <1>3, <1>4, <1>5, <1>6 DEF Step

\* A thread reaches a hook only in a function that has it.
LEMMA StepHook ==
  ASSUME NEW S, NoNesting(S), InsideInv(S), NEW t \in Threads, Step(t)
  PROVE  HookOK(t)'
<1> USE DEF Goto
<1>0. /\ HookOK(t) /\ pc \in [Threads -> Labels] /\ stack \in [Threads -> Seq(Funcs)]
      /\ instr \in [Threads -> InstrType]
      /\ \A f, i : After(f, i) \in {"run", "result"}
  BY DEF InsideInv, ThreadInv, TypeInv, TypeOK, After
<1>1. CASE pc'[t] \in {"register", "run", "result", "exec", "args", "finished", "closing"}
  BY <1>1 DEF HookOK, InOpen
<1>2. CASE Choose(t)
  <2>1. /\ pc'[t] \in {"header", "exec"}
        /\ pc'[t] = "header" => Instrumented(Top(t))
        /\ stack' = stack
    BY <1>0, <1>2 DEF Choose, Hooked
  <2> QED
    BY <1>1, <2>1 DEF HookOK, InOpen, Top, Instrumented
<1>3. CASE Header(t) \/ Operands(t)
  <2>1. /\ pc'[t] \in {"operands", "status_ret", "exec"}
        /\ pc'[t] = "status_ret" => instr[t].op = "ret"
        /\ stack' = stack /\ instr' = instr
        /\ Instrumented(Top(t))
    BY <1>0, <1>3 DEF Header, Operands, HookOK
  <2> QED
    BY <1>1, <2>1 DEF HookOK, InOpen, Top, Instrumented
<1>4. CASE ExecCall(t)
  <2> DEFINE callee == instr[t].callee
  <2>1. callee \in Funcs
    BY <1>0, <1>4 DEF ExecCall, InstrType
  <2>2. pc'[t] = EntryHook(callee) /\ Top(t)' = callee
    BY <1>0, <1>4, <2>1, AppendProperties DEF ExecCall, Top
  <2>3. /\ EntryHook(callee) \in {"run", "args", "status_in"}
        /\ EntryHook(callee) = "status_in" => callee \in Traced
    BY DEF EntryHook, Traced
  <2> QED
    BY <1>1, <2>2, <2>3 DEF HookOK, InOpen
<1>5. CASE \/ StatusIn(t) \/ LogEntry(t) \/ LockRegistry(t) \/ FindFile(t) \/ OpenFile(t)
           \/ WriteLabelmap(t) \/ UnlockRegistry(t)
  <2>1. /\ pc[t] \in InOpen \cup {"status_in", "entry"}
        /\ pc'[t] \in InOpen \cup {"entry", "args"}
        /\ stack' = stack
    BY <1>0, <1>5
       DEF StatusIn, LogEntry, LockRegistry, FindFile, OpenFile, WriteLabelmap,
           UnlockRegistry, InOpen
  <2> QED
    BY <1>0, <2>1 DEF HookOK, InOpen, Top
<1>6. CASE CloseNext(t) \/ FinMainDone(t)
  BY <1>1, <1>6 DEF CloseNext, FinMainDone, progVars
<1>7. CASE \/ InitLogger(t) \/ RegisterLabelmap(t) \/ ExecPlain(t) \/ ExecName(t)
           \/ WorkerReturn(t) \/ MainReturn(t) \/ StatusRet(t) \/ Result(t) \/ OpenFails(t)
           \/ PrintEntry(t) \/ Args(t)
  BY <1>0, <1>1, <1>7
     DEF InitLogger, RegisterLabelmap, ExecPlain, ExecName, WorkerReturn, MainReturn,
         StatusRet, Result, OpenFails, PrintEntry, Args
<1>8. CASE ExecSpawn(t) \/ ExecRet(t)
  BY <1>0, <1>1, <1>8 DEF ExecSpawn, ExecRet
<1> QED
  BY <1>2, <1>3, <1>4, <1>5, <1>6, <1>7, <1>8 DEF Step

\* A thread logs exactly inside top-level calls, after the step as before.
LEMMA StepLogs ==
  ASSUME NEW S, NoNesting(S), InsideInv(S), NEW t \in Threads, Step(t)
  PROVE  ToplevelOK(t)' /\ LogsInside(t)'
<1> DEFINE top == Len(stack[t])
<1>0. /\ TypeInv /\ ThreadInv(S, t)
      /\ StackOK(S, t) /\ HookOK(t) /\ ToplevelOK(t) /\ LogsInside(t)
      /\ stack[t] \in Seq(Funcs) /\ stack[t] # << >> /\ top \in Nat \ {0}
      /\ Top(t) = stack[t][top]
      /\ pc \in [Threads -> Labels] /\ instr \in [Threads -> InstrType]
      /\ stack \in [Threads -> Seq(Funcs)]
      /\ trace \in [Threads -> TraceInfo \cup {NoTrace}]
      /\ \A f, i : After(f, i) \in {"run", "result"}
  BY DEF InsideInv, ThreadInv, TypeInv, TypeOK, LoggerTypeOK, Top, After
<1>1. CASE /\ stack'[t] = stack[t] /\ QuietTrace(t)
           /\ pc[t] # "closing" /\ (Top(t) \in Traced => (Outside(t)' <=> Outside(t)))
  BY <1>0, <1>1, Quiet DEF TypeInv
<1>2. CASE pc'[t] = "closing"
  BY <1>2 DEF ToplevelOK, LogsInside
<1>3. CASE StatusIn(t) \/ StatusRet(t)
  BY <1>0, <1>3, EntryLogs, ReturnStops
<1>4. CASE Choose(t)
  <2>1. Top(t) \in Traced => Instrumented(Top(t))
    BY DEF Traced, Instrumented, NoNesting
  <2>2. PICK i \in Choices(t) : /\ instr'[t] = i
                                /\ pc'[t] = IF Hooked(Top(t), i) THEN "header" ELSE "exec"
    BY <1>0, <1>4 DEF Choose, Goto
  <2>3. Top(t) \in Traced => ~Outside(t)'
    BY <2>1, <2>2 DEF Outside, Hooked
  <2>4. UNCHANGED trace /\ stack' = stack /\ pc[t] = "run"
    BY <1>4 DEF Choose, loggerVars
  <2> QED
    BY <1>0, <1>1, <2>3, <2>4, QuietLogger DEF Outside, TypeInv
<1>5. CASE ExecCall(t)
  <2> DEFINE callee == instr[t].callee
  <2>1. /\ callee \in Funcs /\ trace' = trace
        /\ pc[t] = "exec" /\ instr[t].op = "call" /\ pc'[t] = EntryHook(callee)
        /\ stack'[t] = Append(stack[t], callee)
    BY <1>0, <1>5 DEF ExecCall, InstrType, loggerVars, Goto
  <2>2. /\ Len(stack'[t]) = top + 1
        /\ \A i \in 1 .. top : stack'[t][i] = stack[t][i]
        /\ stack'[t][top + 1] = callee
    BY <1>0, <2>1, AppendProperties
  <2>3. /\ callee \in Traced => pc'[t] = "status_in"
        /\ pc'[t] \in {"status_in", "args", "run"}
    BY <2>1 DEF EntryHook, Traced, NoNesting
  <2>4. InsideTraced(t) <=> \E i \in 1 .. top : stack[t][i] \in Traced
    BY <2>1 DEF InsideTraced
  <2>5. InsideTraced(t)' <=> \E i \in 1 .. top : stack[t][i] \in Traced
    <3>1. InsideTraced(t)' <=>
            \E i \in 1 .. top + 1 : stack'[t][i] \in Traced /\ (i = top + 1 => ~Outside(t)')
      BY <2>2 DEF InsideTraced, Outside
    <3>2. stack'[t][top + 1] \in Traced => Outside(t)'
      BY <2>2, <2>3 DEF Outside
    <3>3. \A i : i \in 1 .. top + 1 <=> (i \in 1 .. top \/ i = top + 1)
      BY <1>0
    <3>4. top + 1 \notin 1 .. top
      BY <1>0
    <3>5. ASSUME NEW i \in 1 .. top + 1, stack'[t][i] \in Traced, i = top + 1 => ~Outside(t)'
          PROVE  i \in 1 .. top /\ stack[t][i] \in Traced
      BY <2>2, <3>2, <3>3, <3>5
    <3>6. ASSUME NEW i \in 1 .. top, stack[t][i] \in Traced
          PROVE  i \in 1 .. top + 1 /\ stack'[t][i] \in Traced /\ i # top + 1
      BY <2>2, <3>3, <3>4, <3>6
    <3> QED
      BY <3>1, <3>5, <3>6
  <2>6. LogsInside(t)'
    BY <1>0, <2>1, <2>4, <2>5 DEF LogsInside, do_not_log
  <2>7. ToplevelOK(t)'
    BY <1>0, <2>1, <2>2 DEF ToplevelOK, do_not_log
  <2> QED
    BY <2>6, <2>7
<1>6. CASE ExecRet(t)
  <2>1. /\ top > 1 /\ trace' = trace
        /\ pc[t] = "exec" /\ instr[t].op = "ret" /\ pc'[t] \in {"run", "result"}
        /\ stack'[t] = SubSeq(stack[t], 1, top - 1)
    BY <1>0, <1>6 DEF ExecRet, loggerVars, Goto
  <2>2. Len(stack'[t]) = top - 1 /\ \A i \in 1 .. top - 1 : stack'[t][i] = stack[t][i]
    BY <1>0, <2>1, Popped
  <2>3. InsideTraced(t) <=> \E i \in 1 .. top - 1 : stack[t][i] \in Traced
    BY <1>0, <2>1 DEF InsideTraced
  <2>4. InsideTraced(t)' <=> \E i \in 1 .. top - 1 : stack[t][i] \in Traced
    BY <1>0, <2>1, <2>2 DEF InsideTraced
  <2>5. LogsInside(t)'
    BY <1>0, <2>1, <2>3, <2>4 DEF LogsInside, do_not_log
  <2>6. ASSUME ~do_not_log(t)
        PROVE  \E i \in 1 .. top - 1 :
                 stack[t][i] \in Traced /\ trace[t].toplevel = stack[t][i]
    <3>1. PICK i \in 1 .. top - 1 : stack[t][i] \in Traced
      BY <1>0, <2>1, <2>3, <2>6 DEF LogsInside
    <3>2. PICK j \in 1 .. top : stack[t][j] \in Traced /\ trace[t].toplevel = stack[t][j]
      BY <1>0, <2>1, <2>6 DEF ToplevelOK, do_not_log
    <3>3. i \in 1 .. top
      BY <1>0
    <3>4. i = j
      BY <1>0, <3>1, <3>2, <3>3, OneTraced DEF TypeInv
    <3> QED
      BY <3>1, <3>2, <3>4
  <2>7. ToplevelOK(t)'
    BY <1>0, <2>1, <2>2, <2>6 DEF ToplevelOK, do_not_log
  <2> QED
    BY <2>5, <2>7
<1>7. CASE WorkerReturn(t)
  BY <1>0, <1>1, <1>7, QuietLogger DEF WorkerReturn, StackOK, loggerVars, TypeInv, Goto
<1>8. CASE InitLogger(t)
  BY <1>0, <1>1, <1>8, QuietLogger DEF InitLogger, HookOK, Outside, TypeInv, Goto
<1>9. CASE \/ RegisterLabelmap(t) \/ ExecPlain(t) \/ Result(t) \/ Args(t) \/ Operands(t)
           \/ LockRegistry(t) \/ UnlockRegistry(t) \/ WriteLabelmap(t) \/ PrintEntry(t)
  <2>1. trace' = trace
    BY <1>9
       DEF RegisterLabelmap, ExecPlain, Result, Args, Operands, LockRegistry, UnlockRegistry,
           WriteLabelmap, PrintEntry, trace_logger_register_labelmap, trace_logger_log_value,
           lock_registry, unlock_registry, write_labelmap, print_entry, loggerVars
  <2>2. /\ stack' = stack /\ instr' = instr /\ pc[t] # "closing" /\ ~Outside(t) /\ ~Outside(t)'
    BY <1>0, <1>9
       DEF RegisterLabelmap, ExecPlain, Result, Args, Operands, LockRegistry, UnlockRegistry,
           WriteLabelmap, PrintEntry, Outside, Goto
  <2> QED
    BY <1>0, <1>1, <2>1, <2>2, QuietLogger DEF TypeInv
<1>10. CASE Header(t)
  BY <1>0, <1>1, <1>10, QuietLogger DEF Header, Outside, TypeInv, Goto
<1>11. CASE ExecName(t)
  <2>1. NameOf[t] \in Names
    BY <1>0, <1>11, ProgramAssumption DEF ExecName, TypeInv, HasName
  <2> QED
    BY <1>0, <1>1, <1>11, <2>1, QuietLogger DEF ExecName, Outside, TypeInv, Goto
<1>12. CASE ExecSpawn(t)
  BY <1>0, <1>1, <1>12, QuietLogger DEF ExecSpawn, Outside, TypeInv, loggerVars
<1>13. CASE LogEntry(t)
  BY <1>0, <1>1, <1>13, QuietLogger DEF LogEntry, Outside, TypeInv, Goto
<1>14. CASE FindFile(t) \/ OpenFile(t)
  <2>1. pc[t] = "lookup" /\ trace[t] # NoTrace
    BY <1>0, <1>14 DEF FindFile, OpenFile, TypeInv, HasTrace, InOpen
  <2>2. trace[t].name \in Names
    BY <1>0, <2>1 DEF TraceInfo
  <2>3. QuietTrace(t)
    BY <1>0, <1>14, <2>1, <2>2, QuietLogger
       DEF FindFile, OpenFile, find_file, open_file, TypeInv
  <2> QED
    BY <1>0, <1>1, <1>14, <2>1, <2>3 DEF FindFile, OpenFile, Outside, Goto
<1>15. CASE MainReturn(t) \/ OpenFails(t) \/ CloseNext(t) \/ FinMainDone(t)
  BY <1>0, <1>2, <1>15 DEF MainReturn, OpenFails, CloseNext, FinMainDone, progVars, Goto
<1> QED
  BY <1>3, <1>4, <1>5, <1>6, <1>7, <1>8, <1>9, <1>10, <1>11, <1>12, <1>13, <1>14, <1>15
     DEF Step

\* A step of one thread does not touch what is claimed of another.
LEMMA OthersInside ==
  ASSUME NEW S, InsideInv(S), NEW t \in Threads, Step(t), NEW u \in Threads \ {t}
  PROVE  ThreadInv(S, u)'
<1>1. /\ trace'[u] = trace[u] /\ stack'[u] = stack[u] /\ instr'[u] = instr[u]
      /\ pc'[u] = pc[u] \/ (pc[u] = "unborn" /\ pc'[u] = "run")
  BY StepFrame DEF InsideInv, TypeInv
<1>2. ThreadInv(S, u)
  BY DEF InsideInv
<1>3. StackOK(S, u)'
  BY <1>1, <1>2 DEF ThreadInv, StackOK, Top
<1>4. HookOK(u)'
  BY <1>1, <1>2 DEF ThreadInv, HookOK, Top, InOpen, Instrumented
<1>5. ToplevelOK(u)'
  BY <1>1, <1>2 DEF ThreadInv, ToplevelOK, do_not_log
<1>6. LogsInside(u)'
  BY <1>1, <1>2 DEF ThreadInv, LogsInside, InsideTraced, do_not_log
<1> QED
  BY <1>3, <1>4, <1>5, <1>6 DEF ThreadInv

LEMMA InitInside == ASSUME NEW S, NoNesting(S), Init PROVE InsideInv(S)
<1>1. TypeInv
  BY InitType
<1>2. ASSUME NEW t \in Threads PROVE ThreadInv(S, t)
  <2>1. /\ stack[t] = <<Root(t)>> /\ trace[t] = NoTrace /\ instr[t].op = "plain"
        /\ pc[t] \in {"init", "unborn"}
    BY DEF Init, LoggerInit, NoInstr, Instr
  <2>2. Root(t) \notin Traced
    BY ProgramAssumption DEF Root, Traced, NoNesting
  <2> QED
    BY <2>1, <2>2
       DEF ThreadInv, StackOK, HookOK, ToplevelOK, LogsInside, InsideTraced, do_not_log, InOpen
<1> QED
  BY <1>1, <1>2 DEF InsideInv, Init, LoggerInit, FailedAsserts

LEMMA NextInside ==
  ASSUME NEW S, NoNesting(S), InsideInv(S), [Next]_vars PROVE InsideInv(S)'
<1>1. TypeInv'
  BY NextType DEF InsideInv
<1>2. CASE UNCHANGED vars
  BY <1>1, <1>2
     DEF vars, InsideInv, ThreadInv, StackOK, HookOK, ToplevelOK, LogsInside, InsideTraced,
         do_not_log, Top, Instrumented
<1>3. ASSUME NEW t \in Threads, Step(t) PROVE InsideInv(S)'
  <2>1. ThreadInv(S, t)'
    BY <1>3, StepStack, StepHook, StepLogs DEF ThreadInv
  <2>2. \A u \in Threads \ {t} : ThreadInv(S, u)'
    BY <1>3, OthersInside
  <2>3. process' \notin FailedAsserts
    BY <1>3, StepAsserts
  <2> QED
    BY <1>1, <2>1, <2>2, <2>3 DEF InsideInv
<1> QED
  BY <1>2, <1>3 DEF Next, Stopped

\* In top-level mode, if no top-level function is called (directly or not)
\* from within another one or itself, every thread logs exactly between the
\* entry and the return of a top-level function, whatever the other threads
\* and the helpers in between do, and no assertion of log_or_not fails.
THEOREM InsideCorrect ==
  ASSUME NEW S, NoNesting(S)
  PROVE  Spec => []TracedExactlyInside
<1>1. Init => InsideInv(S)
  BY InitInside
<1>2. InsideInv(S) /\ [Next]_vars => InsideInv(S)'
  BY NextInside
<1>3. InsideInv(S) => TracedExactlyInside
  BY DEF InsideInv, ThreadInv, LogsInside, TracedExactlyInside
<1> QED
  BY <1>1, <1>2, <1>3, PTL DEF Spec

----------------------------------------------------------------------------
(* The registry.                                                           *)

\* Where a thread owns the mutex.
Critical == {"lookup", "labelmap", "unlock"}

LockInv == \A t \in Threads : pc[t] \in Critical => lock = t

\* Only main ends the process, after its threads have.
MainReturning == instr[Main].op = "ret" /\ Len(stack[Main]) = 1
Joined == \A w \in Workers : pc[w] = "finished"
CloseInv ==
  /\ \A t \in Threads : pc[t] = "closing" => t = Main /\ Joined
  /\ MainReturning => Joined

RegistryInv == TypeInv /\ LockInv /\ CloseInv

\* A thread enters and leaves the critical section with the mutex only.
LEMMA LockSteps ==
  ASSUME TypeOK, NEW t \in Threads, Step(t)
  PROVE  \/ LockRegistry(t)
         \/ UnlockRegistry(t)
         \/ lock' = lock /\ (pc'[t] \in Critical => pc[t] \in Critical)
<1> USE DEF TypeOK, Goto, Critical
<1>1. CASE \/ InitLogger(t) \/ RegisterLabelmap(t) \/ Choose(t) \/ ExecPlain(t) \/ ExecName(t)
           \/ WorkerReturn(t)
  BY <1>1
     DEF InitLogger, RegisterLabelmap, Choose, ExecPlain, ExecName, WorkerReturn, After,
         trace_logger_init, trace_logger_register_labelmap, llvmtracer_set_trace_name,
         unchangedFiles, loggerVars
<1>2. CASE ExecSpawn(t)
  BY <1>2 DEF ExecSpawn, After, loggerVars
<1>3. CASE ExecCall(t) \/ ExecRet(t)
  BY <1>3 DEF ExecCall, ExecRet, After, EntryHook, loggerVars
<1>4. CASE StatusIn(t) \/ StatusRet(t) \/ LogEntry(t) \/ MainReturn(t) \/ OpenFails(t)
  BY <1>4
     DEF StatusIn, StatusRet, LogEntry, MainReturn, OpenFails, trace_logger_update_status,
         unchangedFiles, open_fails, exit
<1>5. CASE Header(t) \/ Operands(t) \/ Args(t) \/ Result(t) \/ PrintEntry(t)
  BY <1>5
     DEF Header, Operands, Args, Result, PrintEntry, trace_logger_log0,
         trace_logger_log_value, print_entry, gzprintf, loggerVars
<1>6. CASE FindFile(t) \/ OpenFile(t) \/ WriteLabelmap(t)
  BY <1>6
     DEF FindFile, OpenFile, WriteLabelmap, find_file, open_file, write_labelmap, gzprintf,
         unchangedFiles
<1>7. CASE CloseNext(t) \/ FinMainDone(t)
  BY <1>7 DEF CloseNext, FinMainDone, close_next, fin_main_done, progVars
<1> QED
  BY <1>1, <1>2, <1>3, <1>4, <1>5, <1>6, <1>7 DEF Step

\* A thread that has finished, or ends the process, goes nowhere else.
LEMMA FinalSteps ==
  ASSUME TypeOK, ~OpenMayFail, NEW t \in Threads, Step(t)
  PROVE  /\ pc[t] # "finished"
         /\ pc'[t] = "closing" => pc[t] = "closing" \/ MainReturn(t)
         /\ \/ Choose(t)
            \/ ExecRet(t)
            \/ instr'[t].op = "ret" => instr[t].op = "ret" /\ Len(stack'[t]) = Len(stack[t])
<1> USE DEF TypeOK, Goto
<1>0. NoInstr.op # "ret"
  BY DEF NoInstr, Instr
<1>1. CASE \/ InitLogger(t) \/ RegisterLabelmap(t) \/ Choose(t) \/ ExecPlain(t) \/ ExecName(t)
           \/ WorkerReturn(t)
  BY <1>0, <1>1
     DEF InitLogger, RegisterLabelmap, Choose, ExecPlain, ExecName, WorkerReturn, After
<1>2. CASE ExecSpawn(t)
  BY <1>0, <1>2 DEF ExecSpawn, After
<1>3. CASE ExecCall(t) \/ ExecRet(t)
  BY <1>0, <1>3 DEF ExecCall, ExecRet, After, EntryHook
<1>4. CASE StatusIn(t) \/ StatusRet(t) \/ LogEntry(t) \/ MainReturn(t) \/ OpenFails(t)
  BY <1>4 DEF StatusIn, StatusRet, LogEntry, MainReturn, OpenFails, open_fails
<1>5. CASE Header(t) \/ Operands(t) \/ Args(t) \/ Result(t) \/ PrintEntry(t)
  BY <1>5 DEF Header, Operands, Args, Result, PrintEntry
<1>6. CASE \/ FindFile(t) \/ OpenFile(t) \/ WriteLabelmap(t) \/ LockRegistry(t)
           \/ UnlockRegistry(t)
  BY <1>6 DEF FindFile, OpenFile, WriteLabelmap, LockRegistry, UnlockRegistry
<1>7. CASE CloseNext(t) \/ FinMainDone(t)
  BY <1>7 DEF CloseNext, FinMainDone, progVars
<1> QED
  BY <1>1, <1>2, <1>3, <1>4, <1>5, <1>6, <1>7 DEF Step

LEMMA InitRegistry == Init => RegistryInv
<1>1. NoInstr.op # "ret"
  BY DEF NoInstr, Instr
<1> QED
  BY <1>1, InitType, ProgramAssumption
     DEF Init, RegistryInv, LockInv, CloseInv, Critical, MainReturning, TypeInv, HasTrace

LEMMA NextRegistry ==
  ASSUME JoinsThreads, ~OpenMayFail, RegistryInv, [Next]_vars PROVE RegistryInv'
<1> USE DEF RegistryInv
<1>1. TypeInv'
  BY NextType
<1>2. CASE UNCHANGED vars
  BY <1>1, <1>2 DEF vars, LockInv, CloseInv, MainReturning, Joined
<1>3. ASSUME NEW t \in Threads, Step(t) PROVE RegistryInv'
  <2>0. TypeOK /\ Main \in Threads /\ Workers = Threads \ {Main}
    BY ProgramAssumption DEF TypeInv, Workers
  <2>1. \A u \in Threads \ {t} :
          /\ stack'[u] = stack[u] /\ instr'[u] = instr[u]
          /\ pc'[u] = pc[u] \/ (pc[u] = "unborn" /\ pc'[u] = "run")
    BY <1>3, <2>0, StepFrame
  <2>2. LockInv'
    <3>1. CASE LockRegistry(t)
      <4>1. lock = NoThread /\ lock' = t
        BY <3>1 DEF LockRegistry, lock_registry
      <4>2. \A u \in Threads \ {t} : pc'[u] \notin Critical
        BY <2>1, <4>1, SentinelAssumption DEF LockInv, Critical
      <4> QED
        BY <4>1, <4>2 DEF LockInv
    <3>2. CASE UnlockRegistry(t)
      <4>1. lock = t /\ pc'[t] \notin Critical
        BY <2>0, <3>2 DEF UnlockRegistry, LockInv, Critical, Goto, TypeOK
      <4>2. \A u \in Threads \ {t} : pc'[u] \notin Critical
        BY <2>1, <4>1 DEF LockInv, Critical
      <4> QED
        BY <4>1, <4>2 DEF LockInv
    <3>3. CASE lock' = lock /\ (pc'[t] \in Critical => pc[t] \in Critical)
      BY <2>1, <3>3 DEF LockInv, Critical
    <3> QED
      BY <1>3, <2>0, <3>1, <3>2, <3>3, LockSteps
  <2>3. Joined => Joined'
    BY <1>3, <2>0, <2>1, FinalSteps DEF Joined
  <2>4. ASSUME NEW u \in Threads, pc'[u] = "closing" PROVE u = Main /\ Joined'
    <3>1. CASE u # t
      BY <2>1, <2>3, <2>4, <3>1 DEF CloseInv
    <3>2. CASE u = t /\ pc[t] = "closing"
      BY <2>3, <3>2 DEF CloseInv
    <3>3. CASE u = t /\ MainReturn(t)
      BY <2>3, <3>3 DEF MainReturn, CloseInv, MainReturning
    <3> QED
      BY <1>3, <2>0, <2>4, <3>1, <3>2, <3>3, FinalSteps
  <2>5. ASSUME MainReturning' PROVE Joined'
    <3>1. CASE t # Main
      BY <2>0, <2>1, <2>3, <2>5, <3>1 DEF MainReturning, CloseInv
    <3>2. CASE t = Main /\ Choose(t)
      <4>1. PICK i \in Choices(t) : instr'[t] = i
        BY <2>0, <3>2 DEF Choose, TypeOK
      <4>2. stack' = stack /\ i.op = "ret" /\ Len(stack[t]) = 1
        BY <2>5, <3>2, <4>1 DEF Choose, MainReturning
      <4>3. MayReturn(t)
        BY <4>2 DEF Choices, Instr, NoInstr
      <4>4. Joined
        BY <2>0, <3>2, <4>2, <4>3 DEF MayReturn, Joined
      <4> QED
        BY <2>3, <4>4
    <3>3. CASE t = Main /\ ExecRet(t)
      BY <2>0, <2>5, <3>3 DEF ExecRet, MainReturning, NoInstr, Instr, TypeOK
    <3>4. CASE t = Main /\ (instr'[t].op = "ret" => /\ instr[t].op = "ret"
                                                    /\ Len(stack'[t]) = Len(stack[t]))
      BY <2>3, <2>5, <3>4 DEF MainReturning, CloseInv
    <3> QED
      BY <1>3, <2>0, <3>1, <3>2, <3>3, <3>4, FinalSteps
  <2> QED
    BY <1>1, <2>2, <2>4, <2>5 DEF CloseInv
<1> QED
  BY <1>2, <1>3 DEF Next, Stopped

\* If main joins its threads and every file can be opened, gz_files is never
\* accessed by two threads at once: the mutex protects it from the others, and
\* joining protects it from fin_main, which does not take the mutex.
THEOREM RegistryCorrect ==
  ASSUME JoinsThreads, ~OpenMayFail
  PROVE  Spec => []RegistryExclusive
<1>1. RegistryInv /\ [Next]_vars => RegistryInv'
  BY NextRegistry
<1>2. RegistryInv => RegistryExclusive
  <2> SUFFICES ASSUME RegistryInv, NEW t \in Threads, NEW u \in Threads,
                      pc[t] = "lookup", pc[u] \in {"lookup", "closing"}
               PROVE  t = u
    BY DEF RegistryExclusive
  <2>1. CASE pc[u] = "lookup"
    BY <2>1 DEF RegistryInv, LockInv, Critical
  <2>2. CASE pc[u] = "closing"
    BY <2>2 DEF RegistryInv, CloseInv, Joined, Workers
  <2> QED
    BY <2>1, <2>2
<1> QED
  BY <1>1, <1>2, InitRegistry, PTL DEF Spec
=============================================================================
