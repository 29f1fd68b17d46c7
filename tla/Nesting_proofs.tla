--------------------------- MODULE Nesting_proofs ---------------------------
(***************************************************************************)
(* Top-level calls within one another, for every application in top-level  *)
(* mode: the tracer has room for one of them, and the thread that nests    *)
(* them does not get out of the outermost one.                             *)
(***************************************************************************)
EXTENDS TracedProgram_proofs

\* About to complete the return from a traced function.
Leaving(t) == pc[t] = "exec" /\ instr[t].op = "ret" /\ Top(t) \in Traced

\* No top-level function is recorded as active.
Idle(t) == trace[t] # NoTrace => trace[t].status = "DO_NOT_LOG" /\ trace[t].toplevel = NoFunc

\* A traced function that returns has had its trace deleted.
LeavingOK(t) == Leaving(t) => trace[t] = NoTrace \/ process \in Ended

NestInv ==
  /\ TypeInv
  /\ \A t \in Threads : (pc[t] = "status_in" => Top(t) \in Traced) /\ LeavingOK(t)

\* A traced function is active that the tracer has forgotten: it cannot return.
Forgotten(t) ==
  /\ TracedFrames(t) # {} /\ Idle(t)
  /\ pc[t] # "status_in" /\ (Leaving(t) => process \in Ended)

\* From the moment top-level calls are nested.
Trapped(t) == Nested(t) \/ Forgotten(t)

----------------------------------------------------------------------------
(* Steps of a thread.                                                      *)

\* Which steps change the stack, begin a call of a traced function or complete one's
\* return.
LEMMA StackSteps ==
  ASSUME TypeInv, NEW t \in Threads, Step(t)
  PROVE  /\ stack'[t] = stack[t] \/ ExecCall(t) \/ ExecRet(t)
         /\ pc'[t] = "status_in" => ExecCall(t)
         /\ pc'[t] = "exec" /\ instr'[t].op = "ret" => Choose(t) \/ StatusRet(t)
<1> USE DEF TypeInv, TypeOK, Goto
<1>1. CASE \/ InitLogger(t) \/ RegisterLabelmap(t) \/ Choose(t) \/ ExecPlain(t) \/ ExecName(t)
           \/ WorkerReturn(t)
  BY <1>1
     DEF InitLogger, RegisterLabelmap, Choose, ExecPlain, ExecName, WorkerReturn, After
<1>2. CASE ExecSpawn(t)
  BY <1>2 DEF ExecSpawn, After
<1>3. CASE ExecCall(t) \/ ExecRet(t)
  BY <1>3 DEF ExecCall, ExecRet, EntryHook, After
<1>4. CASE StatusIn(t) \/ StatusRet(t) \/ LogEntry(t) \/ MainReturn(t) \/ OpenFails(t)
  BY <1>4 DEF StatusIn, StatusRet, LogEntry, MainReturn, OpenFails
<1>5. CASE Header(t) \/ Operands(t) \/ Args(t) \/ Result(t) \/ PrintEntry(t)
  BY <1>5 DEF Header, Operands, Args, Result, PrintEntry
<1>6. CASE \/ FindFile(t) \/ OpenFile(t) \/ WriteLabelmap(t) \/ LockRegistry(t)
           \/ UnlockRegistry(t)
  BY <1>6 DEF FindFile, OpenFile, WriteLabelmap, LockRegistry, UnlockRegistry
<1>7. CASE CloseNext(t) \/ FinMainDone(t)
  BY <1>7 DEF CloseNext, FinMainDone, progVars
<1> QED
  BY <1>1, <1>2, <1>3, <1>4, <1>5, <1>6, <1>7 DEF Step

\* The hook before the return of a traced function deletes the trace if it is that
\* of the function itself, and otherwise fails.
LEMMA TracedReturn ==
  ASSUME TopLevelMode, TypeInv, NEW t \in Threads, StatusRet(t), Top(t) \in Traced
  PROVE  /\ trace'[t] = NoTrace \/ process' \in Ended
         /\ Idle(t) => process' \in Ended /\ trace' = trace
<1> DEFINE status == log_or_not(current(t), Top(t), "ret")
<1>1. /\ Top(t) \in Tracked /\ Top(t) \in Funcs
      /\ trace \in [Threads -> TraceInfo \cup {NoTrace}]
      /\ FailedAsserts \subseteq Ended
      /\ trace_logger_update_status(t, Top(t), "ret")
  BY TraceTyped DEF StatusRet, Traced, TypeInv, TypeOK, LoggerTypeOK, FailedAsserts, Ended
<1>2. status \in {"assert_uncalled", "DO_NOT_LOG", "assert_nested"}
  BY <1>1 DEF log_or_not
<1>3. trace'[t] = NoTrace \/ process' \in Ended
  BY <1>1, <1>2 DEF trace_logger_update_status, fin_toplevel, FailedAsserts
<1>4. ASSUME Idle(t) PROVE process' \in Ended /\ trace' = trace
  <2>1. current(t).toplevel = NoFunc
    BY <1>4 DEF Idle, current, create_trace
  <2>2. status = "assert_uncalled"
    BY <1>1, <2>1 DEF log_or_not
  <2> QED
    BY <1>1, <2>2 DEF trace_logger_update_status, FailedAsserts
<1> QED
  BY <1>3, <1>4

\* Unless a traced function is entered, an idle tracer stays idle.
LEMMA StepIdle ==
  ASSUME TopLevelMode, TypeInv, NEW t \in Threads, Step(t), ~StatusIn(t), Idle(t)
  PROVE  Idle(t)'
<1>0. /\ TypeOK /\ do_not_log(t)
      /\ trace \in [Threads -> TraceInfo \cup {NoTrace}]
  BY DEF Idle, do_not_log, TypeInv, TypeOK, LoggerTypeOK
<1>1. QuietTrace(t) => Idle(t)'
  BY <1>0 DEF QuietTrace, Idle, do_not_log
<1>2. trace'[t] = NoTrace \/ UNCHANGED trace => Idle(t)'
  BY DEF Idle
<1>3. CASE InitLogger(t)
  BY <1>0, <1>3 DEF InitLogger, trace_logger_init, create_trace, Idle
<1>4. CASE \/ RegisterLabelmap(t) \/ Choose(t) \/ Operands(t) \/ ExecPlain(t) \/ ExecSpawn(t)
           \/ ExecCall(t) \/ ExecRet(t) \/ WorkerReturn(t) \/ Result(t) \/ Args(t)
  BY <1>2, <1>4
     DEF RegisterLabelmap, Choose, Operands, ExecPlain, ExecSpawn, ExecCall, ExecRet,
         WorkerReturn, Result, Args, trace_logger_register_labelmap, trace_logger_log_value,
         loggerVars
<1>5. CASE Header(t)
  BY <1>0, <1>1, <1>5, QuietLogger DEF Header
<1>6. CASE ExecName(t)
  <2>1. NameOf[t] \in Names
    BY <1>6, ProgramAssumption DEF ExecName, TypeInv, HasName
  <2> QED
    BY <1>0, <1>1, <1>6, <2>1, QuietLogger DEF ExecName
<1>7. CASE StatusRet(t)
  <2>1. CASE Top(t) \in Traced
    BY <1>2, <1>7, <2>1, TracedReturn
  <2>2. CASE Top(t) \in Tracked /\ Top(t) \notin Traced
    <3>1. current(t).toplevel = NoFunc
      BY DEF Idle, current, create_trace
    <3>2. log_or_not(current(t), Top(t), "ret") = "assert_uncalled"
      BY <2>2, <3>1 DEF log_or_not
    <3> QED
      BY <1>2, <1>7, <3>2 DEF StatusRet, trace_logger_update_status, FailedAsserts
  <2>3. CASE Top(t) \notin Tracked
    <3>1. current(t).status = "DO_NOT_LOG"
      BY DEF Idle, current, create_trace
    <3>2. log_or_not(current(t), Top(t), "ret") = "DO_NOT_LOG"
      BY <2>3, <3>1 DEF log_or_not
    <3> QED
      BY <1>0, <1>2, <1>7, <3>2
         DEF StatusRet, trace_logger_update_status, fin_toplevel, FailedAsserts
  <2> QED
    BY <2>1, <2>2, <2>3
<1>8. CASE LogEntry(t)
  BY <1>0, <1>1, <1>8, QuietLogger DEF LogEntry
<1>9. CASE \/ LockRegistry(t) \/ UnlockRegistry(t) \/ WriteLabelmap(t) \/ PrintEntry(t)
  BY <1>2, <1>9
     DEF LockRegistry, UnlockRegistry, WriteLabelmap, PrintEntry, lock_registry,
         unlock_registry, write_labelmap, print_entry
<1>10. CASE FindFile(t) \/ OpenFile(t)
  <2>1. trace[t] # NoTrace
    BY <1>10 DEF FindFile, OpenFile, TypeInv, HasTrace, InOpen
  <2>2. trace[t].name \in Names
    BY <1>0, <2>1 DEF TraceInfo
  <2> QED
    BY <1>0, <1>1, <1>10, <2>1, <2>2, QuietLogger DEF FindFile, OpenFile, find_file, open_file
<1>11. CASE MainReturn(t) \/ OpenFails(t) \/ CloseNext(t) \/ FinMainDone(t)
  BY <1>0, <1>2, <1>11
     DEF MainReturn, OpenFails, CloseNext, FinMainDone, open_fails, exit, fin_toplevel,
         close_next, fin_main_done
<1> QED
  BY <1>3, <1>4, <1>5, <1>6, <1>7, <1>8, <1>9, <1>10, <1>11 DEF Step

----------------------------------------------------------------------------
(* The invariant.                                                          *)

LEMMA InitNest == Init => NestInv
<1> SUFFICES ASSUME Init PROVE NestInv
  OBVIOUS
<1>1. \A t \in Threads : pc[t] \in {"init", "unborn"}
  BY DEF Init
<1> QED
  BY <1>1, InitType DEF NestInv, LeavingOK, Leaving

LEMMA NextNest ==
  ASSUME TopLevelMode, NestInv, [Next]_vars PROVE NestInv'
<1>1. TypeInv /\ TypeInv'
  BY NextType DEF NestInv
<1>2. CASE UNCHANGED vars
  BY <1>1, <1>2 DEF vars, NestInv, LeavingOK, Leaving, Top
<1>3. ASSUME NEW t \in Threads, Step(t) PROVE NestInv'
  <2>1. ASSUME NEW u \in Threads \ {t}
        PROVE  ((pc[u] = "status_in" => Top(u) \in Traced) /\ LeavingOK(u))'
    <3>1. /\ trace'[u] = trace[u] /\ stack'[u] = stack[u] /\ instr'[u] = instr[u]
          /\ pc'[u] = pc[u] \/ (pc[u] = "unborn" /\ pc'[u] = "run")
      BY <1>1, <1>3, StepFrame DEF TypeInv
    <3>2. process \notin Ended
      BY <1>3 DEF Step
    <3> QED
      BY <3>1, <3>2 DEF NestInv, LeavingOK, Leaving, Top
  <2>2. ASSUME pc'[t] = "status_in" PROVE Top(t)' \in Traced
    <3>1. ExecCall(t)
      BY <1>1, <1>3, <2>2, StackSteps
    <3> DEFINE callee == instr[t].callee
    <3>2. callee \in Funcs /\ stack[t] \in Seq(Funcs)
      BY <1>1, <3>1 DEF ExecCall, TypeInv, TypeOK, InstrType
    <3>3. pc'[t] = EntryHook(callee) /\ stack'[t] = Append(stack[t], callee)
      BY <1>1, <3>1 DEF ExecCall, Goto, TypeInv, TypeOK
    <3>4. Top(t)' = callee
      BY <3>2, <3>3, AppendProperties DEF Top
    <3> QED
      BY <2>2, <3>3, <3>4 DEF EntryHook, Traced
  <2>3. LeavingOK(t)'
    <3> SUFFICES ASSUME Leaving(t)' PROVE trace'[t] = NoTrace \/ process' \in Ended
      BY DEF LeavingOK
    <3>1. CASE Choose(t)
      <4>1. PICK i \in Choices(t) : /\ instr'[t] = i
                                    /\ pc'[t] = IF Hooked(Top(t), i) THEN "header" ELSE "exec"
        BY <1>1, <3>1 DEF Choose, Goto, TypeInv, TypeOK
      <4>2. stack' = stack
        BY <3>1 DEF Choose
      <4> QED
        BY <4>1, <4>2 DEF Leaving, Hooked, Instrumented, Traced, Top
    <3>2. CASE StatusRet(t)
      <4>1. stack' = stack
        BY <3>2 DEF StatusRet
      <4> QED
        BY <1>1, <3>2, <4>1, TracedReturn DEF Leaving, Top
    <3> QED
      BY <1>1, <1>3, <3>1, <3>2, StackSteps DEF Leaving
  <2> QED
    BY <1>1, <2>1, <2>2, <2>3 DEF NestInv
<1> QED
  BY <1>2, <1>3 DEF Next, Stopped

\* Once top-level calls are nested, a traced function stays on the stack.
LEMMA NextTrapped ==
  ASSUME TopLevelMode, NestInv, NEW t \in Threads, Trapped(t), [Next]_vars
  PROVE  Trapped(t)'
<1> DEFINE top == Len(stack[t])
<1>1. CASE UNCHANGED vars
  BY <1>1 DEF vars, Trapped, Nested, Forgotten, TracedFrames, Idle, Leaving, Top
<1>2. ASSUME NEW u \in Threads \ {t}, Step(u) PROVE Trapped(t)'
  <2>1. /\ trace'[t] = trace[t] /\ stack'[t] = stack[t] /\ instr'[t] = instr[t]
        /\ pc'[t] = pc[t] \/ (pc[t] = "unborn" /\ pc'[t] = "run")
    BY <1>2, StepFrame DEF NestInv, TypeInv
  <2>2. process \notin Ended
    BY <1>2 DEF Step
  <2>3. TracedFrames(t)' = TracedFrames(t)
    BY <2>1 DEF TracedFrames
  <2> QED
    BY <2>1, <2>2, <2>3 DEF Trapped, Nested, Forgotten, Idle, Leaving, Top
<1>3. ASSUME Step(t) PROVE Trapped(t)'
  <2>1. /\ TypeInv /\ process \notin Ended /\ LeavingOK(t)
        /\ pc[t] = "status_in" => Top(t) \in Traced
        /\ stack[t] \in Seq(Funcs) /\ top \in Nat \ {0} /\ Top(t) = stack[t][top]
        /\ instr \in [Threads -> InstrType]
    BY <1>3 DEF NestInv, Step, TypeInv, TypeOK, Top
  <2>2. CASE stack'[t] = stack[t]
    <3>1. TracedFrames(t)' = TracedFrames(t) /\ Top(t)' = Top(t)
      BY <2>2 DEF TracedFrames, Top
    <3>2. CASE Nested(t)
      BY <3>1, <3>2 DEF Trapped, Nested
    <3>3. CASE Forgotten(t)
      <4>1. Idle(t)'
        BY <1>3, <2>1, <3>3, StepIdle DEF Forgotten, StatusIn
      <4>2. pc'[t] # "status_in"
        <5>1. ~ExecCall(t)
          <6>1. ASSUME ExecCall(t) PROVE FALSE
            <7>1. instr[t].callee \in Funcs /\ stack'[t] = Append(stack[t], instr[t].callee)
              BY <2>1, <6>1 DEF ExecCall, InstrType, TypeInv, TypeOK
            <7>2. Len(stack'[t]) = top + 1
              BY <2>1, <7>1, AppendProperties
            <7> QED
              BY <2>1, <2>2, <7>2
          <6> QED
            BY <6>1
        <5> QED
          BY <1>3, <2>1, <5>1, StackSteps
      <4>3. ASSUME Leaving(t)' PROVE process' \in Ended
        <5>1. CASE Choose(t)
          <6>1. PICK i \in Choices(t) :
                  /\ instr'[t] = i
                  /\ pc'[t] = IF Hooked(Top(t), i) THEN "header" ELSE "exec"
            BY <2>1, <5>1 DEF Choose, Goto, TypeInv, TypeOK
          <6> QED
            BY <3>1, <4>3, <6>1 DEF Leaving, Hooked, Instrumented, Traced
        <5>2. CASE StatusRet(t)
          BY <2>1, <3>1, <3>3, <4>3, <5>2, TracedReturn DEF Leaving, Forgotten
        <5> QED
          BY <1>3, <2>1, <4>3, <5>1, <5>2, StackSteps DEF Leaving
      <4> QED
        BY <3>1, <3>3, <4>1, <4>2, <4>3 DEF Trapped, Forgotten
    <3> QED
      BY <3>2, <3>3 DEF Trapped
  <2>3. CASE ExecCall(t)
    <3> DEFINE callee == instr[t].callee
    <3>1. /\ callee \in Funcs /\ trace' = trace /\ pc'[t] = EntryHook(callee)
          /\ stack'[t] = Append(stack[t], callee)
      BY <2>1, <2>3 DEF ExecCall, InstrType, loggerVars, Goto, TypeInv, TypeOK
    <3>2. /\ Len(stack'[t]) = top + 1
          /\ \A i \in 1 .. top : stack'[t][i] = stack[t][i]
          /\ stack'[t][top + 1] = callee
      BY <2>1, <3>1, AppendProperties
    <3>3. TracedFrames(t) \subseteq TracedFrames(t)'
      BY <2>1, <3>2 DEF TracedFrames
    <3>4. CASE Nested(t)
      BY <3>3, <3>4 DEF Trapped, Nested
    <3>5. CASE Forgotten(t) /\ callee \in Traced
      <4>1. PICK i : i \in TracedFrames(t)
        BY <3>5 DEF Forgotten
      <4>2. i \in TracedFrames(t)' /\ top + 1 \in TracedFrames(t)' /\ i # top + 1
        BY <2>1, <3>2, <3>3, <3>5, <4>1 DEF TracedFrames
      <4> QED
        BY <4>2 DEF Trapped, Nested
    <3>6. CASE Forgotten(t) /\ callee \notin Traced
      <4>1. pc'[t] \in {"run", "args"}
        BY <3>1, <3>6 DEF EntryHook, Traced
      <4>2. Idle(t)'
        BY <3>1, <3>6 DEF Forgotten, Idle
      <4> QED
        BY <3>3, <3>6, <4>1, <4>2 DEF Trapped, Forgotten, Leaving
    <3> QED
      BY <3>4, <3>5, <3>6 DEF Trapped
  <2>4. CASE ExecRet(t)
    <3>1. /\ top > 1 /\ trace' = trace
          /\ pc[t] = "exec" /\ instr[t].op = "ret" /\ pc'[t] \in {"run", "result"}
          /\ stack'[t] = SubSeq(stack[t], 1, top - 1)
      BY <2>1, <2>4 DEF ExecRet, After, loggerVars, Goto, TypeInv, TypeOK
    <3>2. Len(stack'[t]) = top - 1 /\ \A i \in 1 .. top - 1 : stack'[t][i] = stack[t][i]
      BY <2>1, <3>1, Popped
    <3>3. \A i : i # top /\ i \in TracedFrames(t) => i \in TracedFrames(t)'
      BY <2>1, <3>1, <3>2 DEF TracedFrames
    <3>4. TracedFrames(t)' # {}
      <4>1. CASE Nested(t)
        BY <3>3, <4>1 DEF Nested
      <4>2. CASE Forgotten(t)
        <5>1. Top(t) \notin Traced
          BY <2>1, <3>1, <4>2 DEF Forgotten, Leaving
        <5>2. top \notin TracedFrames(t)
          BY <2>1, <5>1 DEF TracedFrames
        <5> QED
          BY <3>3, <4>2, <5>2 DEF Forgotten
      <4> QED
        BY <4>1, <4>2 DEF Trapped
    <3>5. CASE Top(t) \in Traced
      <4>1. trace[t] = NoTrace
        BY <2>1, <3>1, <3>5 DEF LeavingOK, Leaving
      <4> QED
        BY <3>1, <3>4, <4>1 DEF Trapped, Forgotten, Idle, Leaving
    <3>6. CASE Top(t) \notin Traced
      <4>1. TracedFrames(t) \subseteq TracedFrames(t)'
        BY <2>1, <3>3, <3>6 DEF TracedFrames
      <4>2. CASE Nested(t)
        BY <4>1, <4>2 DEF Trapped, Nested
      <4>3. CASE Forgotten(t)
        BY <3>1, <3>4, <4>3 DEF Trapped, Forgotten, Idle, Leaving
      <4> QED
        BY <4>2, <4>3 DEF Trapped
    <3> QED
      BY <3>5, <3>6
  <2> QED
    BY <1>3, <2>1, <2>2, <2>3, <2>4, StackSteps
<1> QED
  BY <1>1, <1>2, <1>3 DEF Next, Stopped

\* In top-level mode, whatever the call graph and whoever else runs: once a top-level
\* function has been called from within another one, or itself, its caller never gets out.
\* The return of the inner one deletes the trace or fails an assertion, and then the outer
\* one's return fails another: even a call in between, which starts a trace anew, deletes it
\* again before the outer one returns.
THEOREM NestedCorrect ==
  ASSUME TopLevelMode
  PROVE  Spec => NestedCallsAbort
<1> SUFFICES ASSUME NEW t \in Threads
             PROVE  Spec => [](Nested(t) => [](TracedFrames(t) # {}))
  BY DEF NestedCallsAbort
<1>1. NestInv /\ [Next]_vars => NestInv'
  BY NextNest
<1>2. NestInv /\ Trapped(t) /\ [Next]_vars => Trapped(t)'
  BY NextTrapped
<1>3. Nested(t) => Trapped(t)
  BY DEF Trapped
<1>4. Trapped(t) => TracedFrames(t) # {}
  BY DEF Trapped, Nested, Forgotten
<1> QED
  BY <1>1, <1>2, <1>3, <1>4, InitNest, PTL DEF Spec
=============================================================================
