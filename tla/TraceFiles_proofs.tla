-------------------------- MODULE TraceFiles_proofs --------------------------
(***************************************************************************)
(* What is written to the trace files, for every application: files are    *)
(* never truncated, each starts with one label map, and when threads use   *)
(* files of their own, TracedProgram implements TraceFiles.                *)
(***************************************************************************)
EXTENDS TracedProgram_proofs

IsHeader(line) == line.kind \in {"labelmap", "no labelmap"}

\* A file with one header, on its first line.
Headed(n) ==
  /\ disk[n] # << >>
  /\ \A i \in 1 .. Len(disk[n]) : IsHeader(disk[n][i]) <=> i = 1

\* Thread t is about to write the label map to file n.
Opening(t, n) == pc[t] = "labelmap" /\ trace[t].file = n

\* A stream a thread remembers is in the registry.
Registered == \A t \in Threads : trace[t] # NoTrace => trace[t].file \in gz_files \cup {NoFile}

\* A file that still awaits its label map is empty, unless damaged, and nobody else
\* has it.
FreshInv ==
  \A t \in Threads : pc[t] = "labelmap" =>
    /\ trace[t].file \in gz_files
    /\ disk[trace[t].file] = << >> \/ Damaged(trace[t].file)
    /\ \A u \in Threads \ {t} : trace[u] # NoTrace => trace[u].file # trace[t].file

\* Streams are closed by the thread that called exit only.
ClosedInv ==
  (closed \cup closing = {} /\ process # "exiting") \/ pc[Main] = "closing"

HeaderInv ==
  /\ RegistryInv /\ Registered /\ FreshInv /\ ClosedInv
  /\ \A n \in gz_files : Damaged(n) \/ Headed(n) \/ \E t \in Threads : Opening(t, n)

----------------------------------------------------------------------------
(* Applications whose threads use files of their own.                      *)

\* The name under which a thread's top-level calls are traced.
FileFor(t) == IF NameOf[t] = NoFile THEN DefaultName ELSE NameOf[t]

SeparateFiles == NameEveryCall /\ \A t, u \in Threads : FileFor(t) = FileFor(u) => t = u

\* Functions that are only ever called, directly or not, by top-level ones; if
\* all other C functions are among them, none of these returns while the tracer
\* is idle.
Sheltered(H) ==
  /\ H \subseteq Funcs \ (Traced \cup {MainFn, WorkerFn})
  /\ Native \subseteq H \cup Traced \cup {MainFn}
  /\ \A c \in Calls : c[2] \in H => c[1] \in Traced \cup H

Confined(S, H) == NoNesting(S) /\ Sheltered(H)
Separate(S, H) == Confined(S, H) /\ SeparateFiles

\* Sheltered functions have a traced one below them on the stack.
ShelterOK(H, t) ==
  \A i \in 1 .. Len(stack[t]) :
    /\ stack[t][i] \in H => \E j \in 1 .. i - 1 : stack[t][j] \in Traced
    /\ stack[t][i] = MainFn => i = 1

\* A thread that asked for a name has it, until its top-level call is over; and
\* it has asked before it enters one.
NameOK(t) ==
  /\ wanted[t] \in {NoFile, NameOf[t]}
  /\ wanted[t] # NoFile /\ pc[t] \notin {"closing", "finished"} =>
       \/ trace[t] # NoTrace /\ trace[t].name = wanted[t]
       \/ pc[t] = "exec" /\ instr[t].op = "ret" /\ Top(t) \in Traced \cup {MainFn}
  /\ NameOf[t] = NoFile /\ trace[t] # NoTrace => trace[t].name = DefaultName
  /\ \/ pc[t] \in InOpen \cup {"status_in", "entry"}
     \/ instr[t].op = "call" /\ instr[t].callee \in Tracked
     => wanted[t] = NameOf[t]

Unopened == {"entry", "lock", "lookup"}

\* A thread has its own file from the moment it finds it until its top-level call
\* is over; instructions are counted from the entry line on.
FileOK(t) ==
  trace[t] # NoTrace =>
    /\ trace[t].file \in {NoFile, FileFor(t)}
    /\ trace[t].file \in gz_files \cup {NoFile}
    /\ pc[t] # "closing" =>
         /\ trace[t].file = NoFile <=> do_not_log(t) \/ pc[t] \in Unopened
         /\ do_not_log(t) \/ pc[t] \in InOpen \cup {"entry"} => trace[t].count = 0

ShelterInv(S, H) == InsideInv(S) /\ \A t \in Threads : ShelterOK(H, t)
SpanInv(S, H) == ShelterInv(S, H) /\ \A t \in Threads : NameOK(t) /\ FileOK(t)

\* The walk of fin_main: a stream is closed once, and not before exit.
WalkInv ==
  /\ closed \cap closing = {}
  /\ process = "running" => closed \cup closing = {}

\* A file is empty as long as its owner is about to write the label map to it, and
\* no longer, unless it has been closed or damaged in between.
EmptyInv ==
  \A n \in gz_files \ closed :
    Damaged(n) \/ (disk[n] = << >> <=> \E t \in Threads : Opening(t, n))

FilesInv(S, H) == SpanInv(S, H) /\ WalkInv /\ EmptyInv

----------------------------------------------------------------------------
(* How a step changes the files.                                           *)

\* Only a thread with a trace is about to write.
LEMMA WriterHasTrace ==
  ASSUME HasTrace, NEW t \in Threads, AtWrite(t)
  PROVE  trace[t] # NoTrace
  BY DEF HasTrace, AtWrite, InOpen, do_not_log

\* A step opens a file or leaves the registry alone and adds at most one line to
\* the file of its thread, which is a header only when the label map is written.  It
\* damages a file only if its thread's stream is closed or shared, or when one is closed.
\* What a step of thread t does to the files, if it neither opens nor closes one.
Written(t) ==
  \/ disk' = disk
  \/ \E line \in LineType \ {DamagedLine} :
       /\ AtWrite(t) /\ trace[t].file \in Names \ closed /\ ~Damaged(trace[t].file)
       /\ IsHeader(line) <=> pc[t] = "labelmap"
       /\ disk' = [disk EXCEPT ![trace[t].file] = Append(@, line)]
  \/ /\ AtWrite(t) /\ (trace[t].file \notin Names \ closed \/ Racing(t))
     /\ \E n \in gz_files : Damage(n)

LEMMA DiskSteps ==
  ASSUME TypeInv, NEW t \in Threads, Step(t)
  PROVE  \/ OpenFile(t)
         \/ gz_files' = gz_files /\ Written(t)
         \/ CloseNext(t) /\ gz_files' = gz_files /\ \E n \in gz_files : Damage(n)
<1> USE DEF Written
<1>1. instr[t].op \in Ops /\ Top(t) \in Funcs
  BY TraceTyped DEF TypeInv, TypeOK, InstrType, Ops
<1>0. TypeOK
  BY DEF TypeInv
<1>2. CASE Header(t)
  <2>1. CASE UNCHANGED loggerVars
    BY <2>1 DEF loggerVars
  <2>2. CASE ~UNCHANGED loggerVars
    <3>1. trace[t].count \in Nat
      BY <1>2, <2>2, TraceTyped DEF Header, trace_logger_log0, TypeInv, TraceInfo
    <3>2. Line("inst", t, Top(t), instr[t].op, trace[t].count) \in LineType
      BY <1>1, <3>1 DEF Line, LineType, Kinds, Ops
    <3>3. LET line == Line("inst", t, Top(t), instr[t].op, trace[t].count)
          IN  ~IsHeader(line) /\ line # DamagedLine
      BY DEF Line, IsHeader, DamagedLine
    <3> QED
      BY <1>0, <1>2, <2>2, <3>2, <3>3, LinesAdded DEF Header, trace_logger_log0, AtWrite
  <2> QED
    BY <2>1, <2>2
<1>3. ASSUME NEW kind \in {"param", "result"},
             trace_logger_log_value(t, kind, Top(t), Racing(t)),
             pc[t] \in {"operands", "args", "result"}
      PROVE  /\ gz_files' = gz_files
             /\ Written(t)
  <2>1. Line(kind, t, Top(t), "none", 0) \in LineType
    BY <1>1 DEF Line, LineType, Kinds
  <2>2. LET line == Line(kind, t, Top(t), "none", 0)
        IN  ~IsHeader(line) /\ line # DamagedLine
    BY DEF Line, IsHeader, DamagedLine
  <2> QED
    BY <1>0, <1>3, <2>1, <2>2, LinesAdded DEF trace_logger_log_value, loggerVars, AtWrite
<1>4. CASE Operands(t) \/ Args(t) \/ Result(t)
  BY <1>3, <1>4 DEF Operands, Args, Result
<1>5. CASE PrintEntry(t)
  <2>1. Line("entry", t, Top(t), "none", 0) \in LineType
    BY <1>1 DEF Line, LineType, Kinds
  <2>2. LET line == Line("entry", t, Top(t), "none", 0)
        IN  ~IsHeader(line) /\ line # DamagedLine
    BY DEF Line, IsHeader, DamagedLine
  <2> QED
    BY <1>0, <1>5, <2>1, <2>2, LinesAdded DEF PrintEntry, print_entry, AtWrite
<1>6. CASE WriteLabelmap(t)
  <2> DEFINE line == Line(IF labelmap THEN "labelmap" ELSE "no labelmap",
                          NoThread, NoFunc, "none", 0)
  <2>1. line \in LineType /\ IsHeader(line) /\ line # DamagedLine
    BY DEF Line, LineType, Kinds, IsHeader, DamagedLine
  <2>2. gzprintf(t, line, Racing(t)) /\ pc[t] = "labelmap"
    BY <1>6 DEF WriteLabelmap, write_labelmap
  <2> HIDE DEF line
  <2> QED
    BY <1>0, <2>1, <2>2, LinesAdded DEF AtWrite
<1>7. CASE \/ InitLogger(t) \/ RegisterLabelmap(t) \/ Choose(t) \/ ExecPlain(t)
           \/ ExecName(t) \/ ExecSpawn(t) \/ ExecCall(t) \/ ExecRet(t) \/ WorkerReturn(t)
  BY <1>7
     DEF InitLogger, RegisterLabelmap, Choose, ExecPlain, ExecName, ExecSpawn, ExecCall,
         ExecRet, WorkerReturn, trace_logger_init, trace_logger_register_labelmap,
         llvmtracer_set_trace_name, unchangedFiles, loggerVars
<1>8. CASE \/ MainReturn(t) \/ StatusRet(t) \/ StatusIn(t) \/ LogEntry(t) \/ LockRegistry(t)
           \/ FindFile(t) \/ OpenFails(t) \/ UnlockRegistry(t) \/ FinMainDone(t)
  BY <1>8
     DEF MainReturn, StatusRet, StatusIn, LogEntry, LockRegistry, FindFile, OpenFails,
         UnlockRegistry, FinMainDone, exit, open_fails, trace_logger_update_status,
         lock_registry, unlock_registry, find_file, fin_main_done, unchangedFiles
<1>9. CASE CloseNext(t)
  BY <1>9 DEF CloseNext, close_next, TypeInv, TypeOK, LoggerTypeOK
<1> QED
  BY <1>2, <1>4, <1>5, <1>6, <1>7, <1>8, <1>9 DEF Step

\* Damage is never repaired.
LEMMA DamageStays ==
  ASSUME TypeInv, [Next]_vars, NEW n \in gz_files, Damaged(n)
  PROVE  n \in gz_files' /\ Damaged(n)'
<1>1. n \in Names /\ disk \in [Names -> Seq(LineType)] /\ TypeOK
  BY DEF TypeInv, TypeOK, LoggerTypeOK
<1>2. CASE UNCHANGED vars
  BY <1>2 DEF vars, Damaged
<1>3. ASSUME NEW t \in Threads, Step(t) PROVE n \in gz_files' /\ Damaged(n)'
  <2>1. CASE OpenFile(t)
    BY <1>1, <2>1 DEF OpenFile, open_file, Damaged
  <2>2. CASE gz_files' = gz_files /\ disk' = disk
    BY <2>2 DEF Damaged
  <2>3. CASE gz_files' = gz_files /\ \E m \in gz_files : Damage(m)
    BY <1>1, <2>3 DEF Damage, Damaged
  <2>4. ASSUME NEW line, gz_files' = gz_files, ~Damaged(trace[t].file),
               disk' = [disk EXCEPT ![trace[t].file] = Append(@, line)]
        PROVE  n \in gz_files' /\ Damaged(n)'
    BY <1>1, <2>4 DEF Damaged
  <2> QED
    BY <1>3, <2>1, <2>2, <2>3, <2>4, DiskSteps DEF Written
<1> QED
  BY <1>2, <1>3 DEF Next, Stopped

\* What was in a sequence before an element was appended is still there.
LEMMA PrefixKept ==
  ASSUME NEW T, NEW s \in Seq(T), NEW e \in T
  PROVE  /\ Len(Append(s, e)) = Len(s) + 1
         /\ SubSeq(Append(s, e), 1, Len(s)) = s
<1>1. /\ Append(s, e) \in Seq(T) /\ Len(Append(s, e)) = Len(s) + 1 /\ Len(s) \in Nat
      /\ \A i \in 1 .. Len(s) : Append(s, e)[i] = s[i]
  BY AppendProperties, LenProperties
<1>2. \A i \in 1 .. Len(s) : Append(s, e)[i] \in T
  BY <1>1, ElementOfSeq
<1>3. /\ SubSeq(Append(s, e), 1, Len(s)) \in Seq(T)
      /\ Len(SubSeq(Append(s, e), 1, Len(s))) = Len(s)
      /\ \A i \in 1 .. Len(s) : SubSeq(Append(s, e), 1, Len(s))[i] = Append(s, e)[i]
  BY <1>1, <1>2, SubSeqProperties
<1> QED
  BY <1>1, <1>3, SeqEqual

\* A file in the registry is never truncated or rewritten, whatever the threads and
\* fin_main do, unless a race damages it: it is opened, which truncates it, only if it
\* is not in the map, and never taken out of the map.
THEOREM AppendOnlyCorrect == Spec => AppendOnly
<1> DEFINE Kept(n) == /\ n \in gz_files'
                      /\ \/ Damaged(n)'
                         \/ /\ Len(disk'[n]) >= Len(disk[n])
                            /\ SubSeq(disk'[n], 1, Len(disk[n])) = disk[n]
<1>1. TypeInv /\ [Next]_vars => [\A n \in gz_files : Kept(n)]_vars
  <2> SUFFICES ASSUME TypeInv, Next, NEW n \in gz_files PROVE Kept(n)
    OBVIOUS
  <2>1. disk[n] \in Seq(LineType) /\ n \in Names /\ disk \in [Names -> Seq(LineType)]
    BY DEF TypeInv, TypeOK, LoggerTypeOK
  <2>2. CASE n \in gz_files' /\ disk'[n] = disk[n]
    BY <2>1, <2>2, SubSeqFull, LenProperties
  <2>3. ASSUME NEW t \in Threads, Step(t) PROVE Kept(n)
    <3>1. CASE OpenFile(t)
      <4>1. gz_files \subseteq gz_files' /\ disk'[n] = disk[n]
        BY <2>1, <3>1 DEF OpenFile, open_file
      <4> QED
        BY <2>2, <4>1
    <3>2. ASSUME NEW line \in LineType, gz_files' = gz_files,
                 disk' = [disk EXCEPT ![trace[t].file] = Append(@, line)]
          PROVE  Kept(n)
      <4>1. disk'[n] \in {disk[n], Append(disk[n], line)}
        BY <2>1, <3>2
      <4>2. CASE disk'[n] = Append(disk[n], line)
        BY <2>1, <3>2, <4>2, PrefixKept, LenProperties
      <4> QED
        BY <2>2, <3>2, <4>1, <4>2
    <3>3. ASSUME NEW m \in gz_files, gz_files' = gz_files, Damage(m) PROVE Kept(n)
      <4>1. disk'[n] = disk[n] \/ Damaged(n)'
        BY <2>1, <3>3 DEF Damage, Damaged
      <4> QED
        BY <2>2, <3>3, <4>1
    <3> QED
      BY <2>2, <2>3, <3>1, <3>2, <3>3, DiskSteps DEF Written
  <2>4. CASE Stopped
    BY <2>2, <2>4 DEF Stopped, vars
  <2> QED
    BY <2>3, <2>4 DEF Next
<1> QED
  BY <1>1, InitType, NextType, PTL DEF Spec, AppendOnly

----------------------------------------------------------------------------
(* The first line of each file.                                            *)

\* An update of the status creates a trace, deletes it, or changes the status and the
\* top-level function in it.
LEMMA StatusTrace ==
  ASSUME TypeOK, NEW t \in Threads, NEW f \in Funcs, NEW op,
         trace_logger_update_status(t, f, op)
  PROVE  \/ trace' = trace
         \/ trace' = [trace EXCEPT ![t] = NoTrace]
         \/ /\ trace'[t] # NoTrace
            /\ trace'[t].name = current(t).name /\ trace'[t].file = current(t).file
            /\ trace'[t].count = current(t).count
            /\ trace'[t].status = "LOG_AND_CONTINUE"
<1> DEFINE tr == current(t)
           logging == [tr EXCEPT !.status = "LOG_AND_CONTINUE",
                                 !.toplevel = IF @ = NoFunc THEN f ELSE @]
<1>1. tr \in TraceInfo
  BY TraceTyped
<1>2. /\ logging \in TraceInfo /\ logging.name = tr.name /\ logging.file = tr.file
      /\ logging.count = tr.count /\ logging.status = "LOG_AND_CONTINUE"
  <2> HIDE DEF tr
  <2> QED
    BY <1>1 DEF TraceInfo, Statuses
<1>3. \/ trace' = trace
      \/ fin_toplevel(t)
      \/ trace' = [trace EXCEPT ![t] = logging]
  BY Zenon DEF trace_logger_update_status
<1> HIDE DEF logging
<1>4. CASE trace' = [trace EXCEPT ![t] = logging]
  BY <1>2, <1>4, SentinelAssumption DEF TypeOK, LoggerTypeOK
<1> QED
  BY <1>3, <1>4 DEF fin_toplevel

\* Other changes of one field leave the rest alone.
LEMMA OneField ==
  ASSUME NEW tr \in TraceInfo
  PROVE  /\ LET new == [tr EXCEPT !.count = @ + 1]
            IN  /\ new # NoTrace /\ new.name = tr.name /\ new.file = tr.file
                /\ new.count = tr.count + 1 /\ new.status = tr.status
         /\ \A n \in Names :
              LET new == [tr EXCEPT !.name = n]
              IN  /\ new # NoTrace /\ new.name = n /\ new.file = tr.file
                  /\ new.count = tr.count /\ new.status = tr.status
         /\ \A n \in Names :
              LET new == [tr EXCEPT !.file = n]
              IN  /\ new # NoTrace /\ new.name = tr.name /\ new.file = n
                  /\ new.count = tr.count /\ new.status = tr.status
<1>1. tr.count \in Nat
  BY DEF TraceInfo
<1>2. /\ [tr EXCEPT !.count = @ + 1] \in TraceInfo
      /\ \A n \in Names : [tr EXCEPT !.name = n] \in TraceInfo
      /\ \A n \in Names : [tr EXCEPT !.file = n] \in TraceInfo
  BY <1>1 DEF TraceInfo
<1> QED
  BY <1>2, SentinelAssumption DEF TraceInfo

\* A thread changes the file it writes to only when it finds or opens one; and only
\* the thread that opens a file goes on to write the label map.
LEMMA FileSteps ==
  ASSUME TypeInv, NEW t \in Threads, Step(t)
  PROVE  /\ \/ FindFile(t) \/ OpenFile(t)
            \/ trace'[t] = NoTrace
            \/ trace'[t].file = NoFile
            \/ trace[t] # NoTrace /\ trace'[t].file = trace[t].file
         /\ pc'[t] = "labelmap" => OpenFile(t)
         /\ WriteLabelmap(t) \/ pc[t] # "labelmap"
<1> USE DEF TypeInv, TypeOK, LoggerTypeOK, Goto
<1>1. ASSUME trace'[t] \in {trace[t], current(t)}
      PROVE  \/ trace'[t] = NoTrace
             \/ trace'[t].file = NoFile
             \/ trace[t] # NoTrace /\ trace'[t].file = trace[t].file
  BY <1>1 DEF current, create_trace
<1>3. CASE StatusIn(t) \/ StatusRet(t)
  <2>1. \/ trace' = trace
        \/ trace'[t] = NoTrace
        \/ trace'[t].file = current(t).file
    BY <1>3, StatusTrace, TraceTyped DEF StatusIn, StatusRet
  <2> QED
    BY <1>1, <1>3, <2>1 DEF current, create_trace, StatusIn, StatusRet
<1>4. CASE Header(t)
  <2>1. ~do_not_log(t) => trace[t] \in TraceInfo /\ trace[t] # NoTrace
    BY TraceTyped DEF do_not_log
  <2>2. trace' = trace \/ (~do_not_log(t) /\ trace' = [trace EXCEPT ![t].count = @ + 1])
    BY <1>4 DEF Header, trace_logger_log0, loggerVars
  <2> QED
    BY <1>1, <1>4, <2>1, <2>2, OneField DEF Header
<1>5. CASE ExecName(t)
  <2>1. NameOf[t] \in Names
    BY <1>5, ProgramAssumption DEF ExecName, HasName
  <2>2. \/ trace'[t] = create_trace(NameOf[t])
        \/ trace[t] \in TraceInfo /\ trace'[t] = [trace[t] EXCEPT !.name = NameOf[t]]
    <3>1. llvmtracer_set_trace_name(t, NameOf[t]) /\ trace[t] \in TraceInfo \cup {NoTrace}
      BY <1>5 DEF ExecName
    <3> QED
      BY <3>1 DEF llvmtracer_set_trace_name
  <2>3. \/ trace'[t].file = NoFile
        \/ trace[t] # NoTrace /\ trace'[t].file = trace[t].file
    <3>1. create_trace(NameOf[t]).file = NoFile
      BY DEF create_trace
    <3>2. trace[t] \in TraceInfo => [trace[t] EXCEPT !.name = NameOf[t]].file = trace[t].file
      BY <2>1, OneField
    <3> QED
      BY <2>2, <3>1, <3>2, SentinelAssumption, Zenon
  <2> QED
    BY <1>5, <2>3 DEF ExecName, After
<1>6. CASE \/ InitLogger(t) \/ LogEntry(t) \/ MainReturn(t) \/ OpenFails(t)
  BY <1>1, <1>6
     DEF InitLogger, LogEntry, MainReturn, OpenFails, trace_logger_init, create_trace,
         open_fails, exit, fin_toplevel
<1>7. CASE \/ RegisterLabelmap(t) \/ Choose(t) \/ ExecPlain(t) \/ ExecSpawn(t)
           \/ ExecCall(t) \/ ExecRet(t) \/ WorkerReturn(t)
  BY <1>1, <1>7
     DEF RegisterLabelmap, Choose, ExecPlain, ExecSpawn, ExecCall, ExecRet, WorkerReturn,
         trace_logger_register_labelmap, loggerVars, After, EntryHook
<1>8. CASE \/ LockRegistry(t) \/ UnlockRegistry(t) \/ CloseNext(t) \/ FinMainDone(t)
           \/ Operands(t) \/ Args(t) \/ Result(t) \/ PrintEntry(t) \/ WriteLabelmap(t)
  BY <1>1, <1>8
     DEF LockRegistry, UnlockRegistry, CloseNext, FinMainDone, Operands, Args, Result,
         PrintEntry, WriteLabelmap, lock_registry, unlock_registry, close_next, fin_main_done,
         trace_logger_log_value, print_entry, write_labelmap, loggerVars, progVars
<1>9. CASE FindFile(t) \/ OpenFile(t)
  BY <1>9 DEF FindFile, OpenFile
<1> QED
  BY <1>3, <1>4, <1>5, <1>6, <1>7, <1>8, <1>9 DEF Step

\* What fin_main has to close, and whether it runs, changes only on a thread that ends
\* the process, or when a file is opened while it does.
LEMMA EndSteps ==
  ASSUME TypeInv, NEW t \in Threads, Step(t)
  PROVE  \/ MainReturn(t) \/ OpenFails(t) \/ CloseNext(t) \/ OpenFile(t)
         \/ /\ closed' = closed /\ closing' = closing
            /\ process' = "exiting" => process = "exiting"
            /\ process' = "running" => process = "running"
<1> USE DEF TypeInv, TypeOK, LoggerTypeOK
<1>1. CASE Header(t) \/ Operands(t) \/ Args(t) \/ Result(t) \/ PrintEntry(t) \/ WriteLabelmap(t)
  BY <1>1
     DEF Header, Operands, Args, Result, PrintEntry, WriteLabelmap, trace_logger_log0,
         trace_logger_log_value, print_entry, write_labelmap, gzprintf, undefined, loggerVars
<1>2. CASE \/ InitLogger(t) \/ RegisterLabelmap(t) \/ Choose(t) \/ ExecPlain(t)
           \/ ExecName(t) \/ ExecSpawn(t) \/ ExecCall(t) \/ ExecRet(t) \/ WorkerReturn(t)
  BY <1>2
     DEF InitLogger, RegisterLabelmap, Choose, ExecPlain, ExecName, ExecSpawn, ExecCall,
         ExecRet, WorkerReturn, trace_logger_init, trace_logger_register_labelmap,
         llvmtracer_set_trace_name, unchangedFiles, loggerVars
<1>3. CASE \/ StatusRet(t) \/ StatusIn(t) \/ LogEntry(t) \/ LockRegistry(t)
           \/ FindFile(t) \/ UnlockRegistry(t) \/ FinMainDone(t)
  BY <1>3
     DEF StatusRet, StatusIn, LogEntry, LockRegistry, FindFile, UnlockRegistry, FinMainDone,
         trace_logger_update_status, lock_registry, unlock_registry, find_file, fin_main_done,
         unchangedFiles, FailedAsserts
<1> QED
  BY <1>1, <1>2, <1>3 DEF Step

LEMMA InitHeader == Init => HeaderInv
  BY InitRegistry
     DEF Init, LoggerInit, HeaderInv, Registered, FreshInv, ClosedInv

\* A line that is not a header leaves a headed file headed; a header heads an empty one.
LEMMA HeadedKept ==
  ASSUME NEW s \in Seq(LineType), NEW line \in LineType
  PROVE  LET new == Append(s, line)
             headed(q) == q # << >> /\ \A i \in 1 .. Len(q) : IsHeader(q[i]) <=> i = 1
         IN  /\ headed(s) /\ ~IsHeader(line) => headed(new)
             /\ s = << >> /\ IsHeader(line) => headed(new)
<1>1. /\ Len(s) \in Nat /\ Len(Append(s, line)) = Len(s) + 1
      /\ \A i \in 1 .. Len(s) : Append(s, line)[i] = s[i]
      /\ Append(s, line)[Len(s) + 1] = line
      /\ Append(s, line) # << >>
  BY AppendProperties, LenProperties
<1>2. s # << >> => Len(s) > 0
  BY <1>1, EmptySeq
<1>3. s = << >> => Len(s) = 0
  BY EmptySeq
<1> QED
  BY <1>1, <1>2, <1>3

LEMMA NextHeader ==
  ASSUME JoinsThreads, ~OpenMayFail, HeaderInv, [Next]_vars PROVE HeaderInv'
<1> USE DEF HeaderInv, RegistryInv
<1>1. RegistryInv'
  BY NextRegistry
<1>2. CASE UNCHANGED vars
  BY <1>1, <1>2 DEF vars, Registered, FreshInv, ClosedInv, Headed, Opening, Damaged
<1>3. ASSUME NEW t \in Threads, Step(t) PROVE HeaderInv'
  <2>0. /\ TypeInv /\ TypeOK /\ LoggerTypeOK /\ Main \in Threads /\ NoFile \notin Names
        /\ gz_files \subseteq Names /\ disk \in [Names -> Seq(LineType)]
    BY ProgramAssumption, NamesAssumption DEF TypeInv, TypeOK, LoggerTypeOK
  <2>1. \A u \in Threads \ {t} :
          /\ trace'[u] = trace[u]
          /\ pc'[u] = pc[u] \/ (pc[u] = "unborn" /\ pc'[u] = "run")
    BY <1>3, <2>0, StepFrame
  <2>2. gz_files \subseteq gz_files'
    BY <1>3, <2>0, DiskSteps DEF OpenFile, open_file
  <2>3. pc[Main] = "closing" => t = Main /\ (CloseNext(t) \/ FinMainDone(t))
    <3> SUFFICES ASSUME pc[Main] = "closing" PROVE t = Main /\ (CloseNext(t) \/ FinMainDone(t))
      OBVIOUS
    <3>1. t = Main
      BY <1>3, <2>0, FinalSteps DEF CloseInv, Joined, Workers
    <3> QED
      BY <1>3, <3>1
         DEF Step, InitLogger, RegisterLabelmap, Choose, Header, Operands, ExecPlain, ExecName,
             ExecSpawn, ExecCall, ExecRet, WorkerReturn, MainReturn, StatusRet, Result,
             StatusIn, LogEntry, LockRegistry, FindFile, OpenFile, OpenFails, WriteLabelmap,
             UnlockRegistry, PrintEntry, Args
  <2>4. pc[t] = "lookup" \/ pc[t] = "labelmap" => trace[t] \in TraceInfo /\ trace[t] # NoTrace
    BY <2>0 DEF TypeInv, HasTrace, InOpen, LoggerTypeOK
  <2>5. Registered'
    <3>1. CASE FindFile(t) \/ OpenFile(t)
      <4>1. trace'[t].file \in gz_files'
        BY <2>0, <2>4, <3>1
           DEF FindFile, OpenFile, find_file, open_file, unchangedFiles, LoggerTypeOK, TraceInfo
      <4> QED
        BY <2>1, <2>2, <4>1 DEF Registered
    <3>2. CASE ~FindFile(t) /\ ~OpenFile(t)
      BY <1>3, <2>0, <2>1, <2>2, <3>2, FileSteps DEF Registered
    <3> QED
      BY <3>1, <3>2
  <2>6. ClosedInv'
    <3>1. CASE pc[Main] = "closing"
      BY <2>3, <3>1 DEF CloseNext, FinMainDone, progVars, ClosedInv
    <3>2. CASE closed \cup closing = {} /\ process # "exiting" /\ pc[Main] # "closing"
      <4>1. CASE MainReturn(t)
        BY <2>0, <4>1 DEF MainReturn, Goto, ClosedInv, TypeOK
      <4>2. CASE OpenFile(t)
        BY <3>2, <4>2 DEF OpenFile, open_file, ClosedInv
      <4>3. ~OpenFails(t) /\ ~CloseNext(t)
        BY <3>2 DEF OpenFails, open_fails, CloseNext
      <4> QED
        BY <1>3, <2>0, <3>2, <4>1, <4>2, <4>3, EndSteps DEF ClosedInv
    <3> QED
      BY <3>1, <3>2 DEF ClosedInv
  \* Nobody writes to a file that awaits its label map but the thread that opened it;
  \* damage may reach it all the same.
  <2>7. ASSUME NEW u \in Threads \ {t}, pc[u] = "labelmap"
        PROVE  /\ pc'[u] = "labelmap" /\ trace'[u] = trace[u]
               /\ pc[t] \notin Critical /\ ~FindFile(t) /\ ~OpenFile(t) /\ ~WriteLabelmap(t)
               /\ trace[u].file \in gz_files
               /\ disk'[trace[u].file] = disk[trace[u].file] \/ Damaged(trace[u].file)'
    <3>1. pc[t] \notin Critical
      BY <2>7 DEF LockInv, Critical
    <3>2. ~FindFile(t) /\ ~OpenFile(t) /\ ~WriteLabelmap(t)
      BY <3>1 DEF Critical, FindFile, OpenFile, WriteLabelmap
    <3>3. AtWrite(t) => trace[t].file # trace[u].file
      BY <2>7, WriterHasTrace DEF FreshInv, TypeInv
    <3>5. trace[u].file \in gz_files
      BY <2>7 DEF FreshInv
    <3>6. disk'[trace[u].file] = disk[trace[u].file] \/ Damaged(trace[u].file)'
      <4>1. CASE \E m \in gz_files : Damage(m)
        BY <2>0, <2>1, <3>5, <4>1 DEF Damage, Damaged
      <4> QED
        BY <1>3, <2>0, <3>2, <3>3, <3>5, <4>1, DiskSteps DEF Written
    <3> QED
      BY <2>1, <2>7, <3>1, <3>2, <3>5, <3>6
  <2>8. FreshInv'
    <3>1. ASSUME NEW u \in Threads \ {t}, pc'[u] = "labelmap"
          PROVE  /\ trace'[u].file \in gz_files'
                 /\ disk'[trace'[u].file] = << >> \/ Damaged(trace[u].file)'
                 /\ \A v \in Threads \ {u} : trace'[v] # NoTrace => trace'[v].file # trace'[u].file
      <4>1. pc[u] = "labelmap"
        BY <2>1, <3>1
      <4>2. trace'[t] # NoTrace => trace'[t].file # trace[u].file
        BY <1>3, <2>0, <2>7, <4>1, FileSteps DEF FreshInv
      <4>3. \A v \in Threads \ {u, t} : trace'[v] # NoTrace => trace'[v].file # trace[u].file
        BY <2>1, <4>1 DEF FreshInv
      <4> QED
        BY <1>3, <2>0, <2>2, <2>7, <4>1, <4>2, <4>3, DamageStays DEF FreshInv, Next
    <3>2. ASSUME pc'[t] = "labelmap"
          PROVE  /\ trace'[t].file \in gz_files'
                 /\ disk'[trace'[t].file] = << >>
                 /\ \A v \in Threads \ {t} : trace'[v] # NoTrace => trace'[v].file # trace'[t].file
      <4> DEFINE n == trace[t].name
      <4>1. OpenFile(t)
        BY <1>3, <2>0, <3>2, FileSteps
      <4>2. n \in Names \ gz_files /\ n # NoFile
        BY <2>0, <2>4, <4>1 DEF OpenFile, open_file, TraceInfo
      <4>3. trace'[t].file = n /\ n \in gz_files' /\ disk'[n] = << >>
        BY <2>0, <2>4, <4>1, <4>2 DEF OpenFile, open_file, LoggerTypeOK
      <4> QED
        BY <2>1, <4>2, <4>3 DEF Registered
    <3> QED
      BY <2>1, <2>7, <3>1, <3>2 DEF FreshInv, Damaged
  <2>9. ASSUME NEW n \in gz_files'
        PROVE  Damaged(n)' \/ Headed(n)' \/ \E u \in Threads : Opening(u, n)'
    <3>1. CASE OpenFile(t)
      <4>1. CASE n = trace[t].name
        BY <2>0, <2>4, <3>1, <4>1 DEF OpenFile, open_file, Goto, Opening, LoggerTypeOK, TypeOK
      <4>2. CASE n # trace[t].name
        <5>1. n \in gz_files /\ disk'[n] = disk[n]
          BY <2>0, <2>9, <3>1, <4>2 DEF OpenFile, open_file
        <5>2. ~ \E u \in Threads : Opening(u, n)
          BY <2>7, <3>1 DEF Opening, OpenFile
        <5> QED
          BY <5>1, <5>2 DEF Headed, Damaged
      <4> QED
        BY <4>1, <4>2
    <3>2. CASE ~OpenFile(t) /\ n \in gz_files /\ \E u \in Threads \ {t} : Opening(u, n)
      BY <2>7, <3>2 DEF Opening
    <3>3. CASE ~OpenFile(t) /\ n \in gz_files /\ Opening(t, n)
      <4> DEFINE line == Line(IF labelmap THEN "labelmap" ELSE "no labelmap",
                              NoThread, NoFunc, "none", 0)
      <4>1. WriteLabelmap(t) /\ trace[t].file = n /\ (disk[n] = << >> \/ Damaged(n))
        BY <1>3, <2>0, <3>3, FileSteps DEF Opening, FreshInv
      <4>0. CASE Damaged(n)
        BY <1>3, <2>0, <3>3, <4>0, DamageStays DEF Next
      <4>2. ~Racing(t)
        <5>1. \A u \in Threads \ {t} : AtWrite(u) => trace[u].file # trace[t].file
          BY <3>3, WriterHasTrace DEF FreshInv, Opening, TypeInv
        <5> QED
          BY <5>1 DEF Racing, Uses
      <4>3. n \in Names \ closed
        BY <2>0, <2>3, <3>3, <4>1 DEF ClosedInv, CloseNext, FinMainDone, Opening, WriteLabelmap
      <4>4. ~Damaged(n) => disk'[n] = Append(disk[n], line)
        BY <2>0, <4>1, <4>2, <4>3 DEF WriteLabelmap, write_labelmap, gzprintf
      <4>5. line \in LineType /\ IsHeader(line)
        BY DEF Line, LineType, Kinds, IsHeader
      <4>6. disk[n] \in Seq(LineType)
        BY <2>0, <3>3
      <4> HIDE DEF line
      <4> QED
        BY <4>0, <4>1, <4>4, <4>5, <4>6, HeadedKept DEF Headed
    <3>4. CASE ~OpenFile(t) /\ n \in gz_files /\ Headed(n)
      <4>1. disk[n] \in Seq(LineType)
        BY <2>0, <3>4
      <4>2. CASE disk'[n] = disk[n]
        BY <3>4, <4>2 DEF Headed
      <4>3. CASE \E line \in LineType : ~IsHeader(line) /\ disk'[n] = Append(disk[n], line)
        BY <3>4, <4>1, <4>3, HeadedKept DEF Headed
      <4>4. pc[t] = "labelmap" => trace[t].file # n \/ Damaged(n)
        BY <3>4 DEF FreshInv, Headed
      <4>5. CASE \E m \in gz_files : Damage(m)
        BY <2>0, <3>4, <4>2, <4>5 DEF Damage, Damaged
      <4> QED
        BY <1>3, <2>0, <3>4, <4>2, <4>3, <4>4, <4>5, DiskSteps DEF Written
    <3>5. OpenFile(t) \/ n \in gz_files
      BY <1>3, <2>0, <2>9, DiskSteps
    <3>6. CASE n \in gz_files /\ Damaged(n)
      BY <1>3, <2>0, <3>6, DamageStays DEF Next
    <3> QED
      BY <3>1, <3>2, <3>3, <3>4, <3>5, <3>6
  <2> QED
    BY <1>1, <2>5, <2>6, <2>8, <2>9
<1> QED
  BY <1>2, <1>3 DEF Next, Stopped

\* If main joins its threads and every file can be opened, the first line of each file
\* is its label map and no other line is one, whichever threads race for the file, as
\* long as the race has not damaged it: the mutex is held until the label map has been
\* written, so nobody shares the stream before.
THEOREM HeaderCorrect ==
  ASSUME JoinsThreads, ~OpenMayFail
  PROVE  Spec => []HeaderFirst
<1>1. HeaderInv /\ [Next]_vars => HeaderInv'
  BY NextHeader
<1>2. HeaderInv => HeaderFirst
  <2> SUFFICES ASSUME HeaderInv PROVE HeaderFirst
    OBVIOUS
  <2>1. ASSUME NEW t \in Threads, NEW n, Opening(t, n) PROVE ~Racing(t)
    BY <2>1, WriterHasTrace DEF HeaderInv, RegistryInv, TypeInv, FreshInv, Opening, Racing, Uses
  <2> QED
    BY <2>1 DEF HeaderInv, HeaderFirst, Headed, Opening, IsHeader
<1> QED
  BY <1>1, <1>2, InitHeader, PTL DEF Spec

----------------------------------------------------------------------------
(* Names, files and counts of the threads.                                 *)

EntryPoints == InOpen \cup {"status_in", "entry"}

\* Only calls and returns change a stack; only naming a trace and returning change
\* the name a thread has asked for.
LEMMA ProgramSteps ==
  ASSUME TypeInv, NEW t \in Threads, Step(t)
  PROVE  /\ ExecCall(t) \/ ExecRet(t) \/ stack' = stack
         /\ ExecName(t) \/ ExecRet(t) \/ wanted' = wanted
         /\ Choose(t) \/ instr'[t] = instr[t] \/ instr'[t] = NoInstr
         /\ pc'[t] \in EntryPoints => ExecCall(t) \/ pc[t] \in EntryPoints
         /\ pc[t] # "finished" /\ (pc[t] = "closing" => pc'[t] = "closing")
         /\ pc[t] = "exec" /\ instr[t].op = "ret" =>
              ExecRet(t) \/ WorkerReturn(t) \/ MainReturn(t)
<1> USE DEF TypeInv, TypeOK, Goto, EntryPoints, InOpen
<1>1. CASE \/ InitLogger(t) \/ RegisterLabelmap(t) \/ Choose(t) \/ ExecPlain(t) \/ ExecName(t)
           \/ WorkerReturn(t) \/ ExecSpawn(t) \/ ExecCall(t) \/ ExecRet(t)
  BY <1>1
     DEF InitLogger, RegisterLabelmap, Choose, ExecPlain, ExecName, WorkerReturn, ExecSpawn,
         ExecCall, ExecRet, After
<1>2. CASE \/ StatusIn(t) \/ StatusRet(t) \/ LogEntry(t) \/ MainReturn(t) \/ OpenFails(t)
           \/ Header(t) \/ Operands(t) \/ Args(t) \/ Result(t) \/ PrintEntry(t)
  BY <1>2
     DEF StatusIn, StatusRet, LogEntry, MainReturn, OpenFails, Header, Operands, Args, Result,
         PrintEntry
<1>3. CASE \/ FindFile(t) \/ OpenFile(t) \/ WriteLabelmap(t) \/ LockRegistry(t)
           \/ UnlockRegistry(t) \/ CloseNext(t) \/ FinMainDone(t)
  BY <1>3
     DEF FindFile, OpenFile, WriteLabelmap, LockRegistry, UnlockRegistry, CloseNext,
         FinMainDone, progVars
<1> QED
  BY <1>1, <1>2, <1>3 DEF Step

\* Whatever is sheltered is called from within a traced function.
LEMMA StepShelter ==
  ASSUME NEW S, NEW H, Confined(S, H), ShelterInv(S, H), NEW t \in Threads, Step(t)
  PROVE  ShelterOK(H, t)'
<1> DEFINE top == Len(stack[t])
<1>1. /\ TypeInv /\ TypeOK /\ stack[t] \in Seq(Funcs) /\ top \in Nat /\ top > 0
      /\ ShelterOK(H, t) /\ StackOK(S, t) /\ Sheltered(H) /\ Top(t) = stack[t][top]
  BY LenProperties, EmptySeq DEF ShelterInv, InsideInv, ThreadInv, TypeInv, TypeOK, Confined, Top
<1>2. CASE stack' = stack
  BY <1>1, <1>2 DEF ShelterOK
<1>3. CASE ExecCall(t)
  <2> DEFINE f == instr[t].callee
  <2>1. <<Top(t), f>> \in Calls /\ stack'[t] = Append(stack[t], f)
    BY <1>1, <1>3 DEF ExecCall, StackOK, TypeOK
  <2>2. f \in Funcs \ {MainFn, WorkerFn}
    BY <2>1, ProgramAssumption
  <2>3. /\ Len(stack'[t]) = top + 1 /\ stack'[t][top + 1] = f
        /\ \A i \in 1 .. top : stack'[t][i] = stack[t][i]
    BY <1>1, <2>1, <2>2, AppendProperties
  <2>4. f \in H => Top(t) \in Traced \cup H
    BY <1>1, <2>1 DEF Sheltered
  <2>5. f \in H => \E j \in 1 .. top : stack[t][j] \in Traced
    BY <1>1, <2>4 DEF ShelterOK
  <2>6. ASSUME NEW i \in 1 .. top + 1
        PROVE  /\ stack'[t][i] \in H => \E j \in 1 .. i - 1 : stack'[t][j] \in Traced
               /\ stack'[t][i] = MainFn => i = 1
    <3>1. CASE i = top + 1
      <4>1. f \in H => \E j \in 1 .. top : stack'[t][j] \in Traced
        BY <2>3, <2>5
      <4>2. i - 1 = top
        BY <1>1, <3>1
      <4> QED
        BY <2>2, <2>3, <3>1, <4>1, <4>2
    <3>2. CASE i \in 1 .. top
      <4>1. \A j \in 1 .. i - 1 : stack'[t][j] = stack[t][j]
        BY <1>1, <2>3, <3>2
      <4> QED
        BY <1>1, <2>3, <3>2, <4>1 DEF ShelterOK
    <3> QED
      BY <1>1, <3>1, <3>2
  <2> QED
    BY <2>3, <2>6 DEF ShelterOK
<1>4. CASE ExecRet(t)
  <2>1. top > 1 /\ stack'[t] = SubSeq(stack[t], 1, top - 1)
    BY <1>1, <1>4 DEF ExecRet, TypeOK
  <2>2. /\ Len(stack'[t]) = top - 1
        /\ \A i \in 1 .. top - 1 : stack'[t][i] = stack[t][i]
    BY <1>1, <2>1, Popped
  <2>3. ASSUME NEW i \in 1 .. top - 1
        PROVE  /\ stack'[t][i] \in H => \E j \in 1 .. i - 1 : stack'[t][j] \in Traced
               /\ stack'[t][i] = MainFn => i = 1
    <3>1. i \in 1 .. top /\ \A j \in 1 .. i - 1 : stack'[t][j] = stack[t][j]
      BY <1>1, <2>2
    <3> QED
      BY <1>1, <2>2, <3>1 DEF ShelterOK
  <2> QED
    BY <2>2, <2>3 DEF ShelterOK
<1> QED
  BY <1>1, <1>2, <1>3, <1>4, ProgramSteps

\* What a return does to the trace: it is deleted by a traced function, kept by a
\* sheltered one, and of no consequence when main ends.
LEMMA ReturnTrace ==
  ASSUME NEW S, NEW H, Confined(S, H), ShelterInv(S, H), NEW t \in Threads, StatusRet(t), Step(t)
  PROVE  /\ Top(t) \in Traced \cup H \cup {MainFn} /\ Top(t) \in Funcs
         /\ Top(t) \in Traced => ~do_not_log(t) /\ trace' = [trace EXCEPT ![t] = NoTrace]
         /\ Top(t) \in H =>
              /\ ~do_not_log(t) /\ ~do_not_log(t)' /\ trace'[t] # NoTrace
              /\ trace'[t].name = trace[t].name /\ trace'[t].file = trace[t].file
              /\ trace'[t].count = trace[t].count
         /\ Top(t) = MainFn =>
              /\ do_not_log(t)
              /\ trace' = trace \/ trace' = [trace EXCEPT ![t] = NoTrace]
<1> DEFINE top == Len(stack[t])
<1>1. /\ TypeInv /\ TypeOK /\ stack[t] \in Seq(Funcs) /\ top \in Nat /\ top > 0
      /\ ShelterOK(H, t) /\ ThreadInv(S, t) /\ Sheltered(H) /\ Top(t) = stack[t][top]
      /\ NoNesting(S) /\ MainFn \notin Tracked
  BY LenProperties, EmptySeq
     DEF ShelterInv, InsideInv, ThreadInv, TypeInv, TypeOK, Confined, Top, NoNesting
<1>2. /\ Top(t) \in Native /\ Top(t) \in Funcs /\ pc[t] = "status_ret" /\ pc'[t] = "exec"
      /\ stack' = stack /\ instr' = instr /\ instr[t].op = "ret"
  BY <1>1, TraceTyped DEF StatusRet, ThreadInv, HookOK, Instrumented, Goto, TypeOK
<1>3. Top(t) \in Traced \cup H \cup {MainFn}
  BY <1>1, <1>2 DEF Sheltered
<1>4. LogsInside(t) /\ LogsInside(t)'
  BY <1>1, StepLogs DEF ShelterInv, ThreadInv
<1>5. /\ ~do_not_log(t) <=> \E i \in 1 .. top : stack[t][i] \in Traced
      /\ (~do_not_log(t))' <=> \E i \in 1 .. top : stack[t][i] \in Traced /\ i # top
  BY <1>2, <1>4 DEF LogsInside, InsideTraced
<1>6. \/ trace' = trace
      \/ trace' = [trace EXCEPT ![t] = NoTrace]
      \/ /\ trace'[t] # NoTrace
         /\ trace'[t].name = current(t).name /\ trace'[t].file = current(t).file
         /\ trace'[t].count = current(t).count
         /\ trace'[t].status = "LOG_AND_CONTINUE"
  BY <1>1, <1>2, StatusTrace DEF StatusRet
<1>7. ASSUME Top(t) \in Traced
      PROVE  ~do_not_log(t) /\ trace' = [trace EXCEPT ![t] = NoTrace]
  <2>1. top \in 1 .. top
    BY <1>1
  <2>2. ~do_not_log(t)
    BY <1>1, <1>5, <1>7, <2>1
  <2>3. ASSUME NEW i \in 1 .. top, stack[t][i] \in Traced PROVE i = top
    BY <1>1, <1>7, <2>1, <2>3, OneTraced DEF ThreadInv
  <2>4. do_not_log(t)'
    BY <1>5, <2>3
  <2> QED
    BY <1>6, <2>2, <2>4 DEF do_not_log
<1>8. ASSUME Top(t) \in H
      PROVE  /\ ~do_not_log(t) /\ ~do_not_log(t)' /\ trace'[t] # NoTrace
             /\ trace'[t].name = trace[t].name /\ trace'[t].file = trace[t].file
             /\ trace'[t].count = trace[t].count
  <2>1. \E j \in 1 .. top : stack[t][j] \in Traced /\ j # top
    BY <1>1, <1>8 DEF ShelterOK
  <2>2. ~do_not_log(t) /\ ~do_not_log(t)'
    BY <1>5, <2>1
  <2>3. trace[t] # NoTrace /\ trace'[t] # NoTrace /\ current(t) = trace[t]
    BY <2>2 DEF do_not_log, current
  <2> QED
    BY <1>1, <1>6, <2>2, <2>3 DEF TypeOK, LoggerTypeOK
<1>9. ASSUME Top(t) = MainFn
      PROVE  do_not_log(t) /\ (trace' = trace \/ trace' = [trace EXCEPT ![t] = NoTrace])
  <2>1. top \in 1 .. Len(stack[t])
    BY <1>1
  <2>2. top = 1
    BY <1>1, <1>9, <2>1 DEF ShelterOK
  <2>3. ASSUME NEW i \in 1 .. top PROVE stack[t][i] \notin Traced
    <3>1. i = top
      BY <2>2
    <3> QED
      BY <1>1, <1>9, <3>1 DEF Traced
  <2>4. do_not_log(t) /\ do_not_log(t)'
    BY <1>5, <2>3
  <2> QED
    BY <1>6, <2>4 DEF do_not_log
<1> QED
  BY <1>2, <1>3, <1>7, <1>8, <1>9

LEMMA InitShelter ==
  ASSUME NEW S, NEW H, Confined(S, H), Init PROVE ShelterInv(S, H)
<1>1. InsideInv(S)
  BY InitInside DEF Confined
<1>2. ASSUME NEW t \in Threads PROVE ShelterOK(H, t)
  BY <1>2 DEF Init, Root, Confined, Sheltered, ShelterOK
<1> QED
  BY <1>1, <1>2 DEF ShelterInv

LEMMA NextShelter ==
  ASSUME NEW S, NEW H, Confined(S, H), ShelterInv(S, H), [Next]_vars PROVE ShelterInv(S, H)'
<1>1. InsideInv(S)'
  BY NextInside DEF Confined, ShelterInv
<1>2. CASE UNCHANGED vars
  BY <1>1, <1>2 DEF vars, ShelterInv, ShelterOK
<1>3. ASSUME NEW t \in Threads, Step(t) PROVE ShelterInv(S, H)'
  <2>1. ShelterOK(H, t)'
    BY <1>3, StepShelter
  <2>2. \A u \in Threads \ {t} : stack'[u] = stack[u]
    BY <1>3, StepFrame DEF ShelterInv, InsideInv, TypeInv
  <2> QED
    BY <1>1, <2>1, <2>2 DEF ShelterInv, ShelterOK
<1> QED
  BY <1>2, <1>3 DEF Next, Stopped

\* The steps that change the trace of their thread.
LEMMA TraceSteps ==
  ASSUME TypeInv, NEW t \in Threads, Step(t)
  PROVE  \/ trace' = trace
         \/ InitLogger(t) \/ LogEntry(t) \/ ExecName(t) \/ StatusRet(t) \/ StatusIn(t)
         \/ Header(t) /\ ~do_not_log(t)
         \/ FindFile(t) \/ OpenFile(t) \/ MainReturn(t) \/ OpenFails(t)
<1>1. CASE \/ RegisterLabelmap(t) \/ Choose(t) \/ ExecPlain(t) \/ ExecSpawn(t)
           \/ ExecCall(t) \/ ExecRet(t) \/ WorkerReturn(t)
  BY <1>1
     DEF RegisterLabelmap, Choose, ExecPlain, ExecSpawn, ExecCall, ExecRet, WorkerReturn,
         trace_logger_register_labelmap, loggerVars
<1>2. CASE \/ LockRegistry(t) \/ UnlockRegistry(t) \/ CloseNext(t) \/ FinMainDone(t)
           \/ Operands(t) \/ Args(t) \/ Result(t) \/ PrintEntry(t) \/ WriteLabelmap(t)
  BY <1>2
     DEF LockRegistry, UnlockRegistry, CloseNext, FinMainDone, Operands, Args, Result,
         PrintEntry, WriteLabelmap, lock_registry, unlock_registry, close_next, fin_main_done,
         trace_logger_log_value, print_entry, write_labelmap, loggerVars
<1>3. Header(t) => trace' = trace \/ ~do_not_log(t)
  BY DEF Header, trace_logger_log0, loggerVars
<1> QED
  BY <1>1, <1>2, <1>3 DEF Step

\* The steps that enter or leave open_trace_file, or find the file there.
LEMMA OpenSteps ==
  ASSUME TypeInv, NEW t \in Threads, Step(t)
  PROVE  \/ StatusIn(t) \/ LogEntry(t) \/ FindFile(t) \/ OpenFile(t) \/ OpenFails(t)
         \/ /\ pc'[t] \in Unopened <=> pc[t] \in Unopened
            /\ pc'[t] \in InOpen => pc[t] \in InOpen
<1> USE DEF TypeInv, TypeOK, Goto, Unopened, InOpen
<1>1. CASE \/ InitLogger(t) \/ RegisterLabelmap(t) \/ Choose(t) \/ ExecPlain(t) \/ ExecName(t)
           \/ WorkerReturn(t) \/ ExecSpawn(t) \/ ExecCall(t) \/ ExecRet(t)
  BY <1>1
     DEF InitLogger, RegisterLabelmap, Choose, ExecPlain, ExecName, WorkerReturn, ExecSpawn,
         ExecCall, ExecRet, After, EntryHook
<1>2. CASE \/ StatusRet(t) \/ MainReturn(t) \/ Header(t) \/ Operands(t) \/ Args(t) \/ Result(t)
           \/ PrintEntry(t) \/ WriteLabelmap(t) \/ LockRegistry(t) \/ UnlockRegistry(t)
           \/ CloseNext(t) \/ FinMainDone(t)
  BY <1>2
     DEF StatusRet, MainReturn, Header, Operands, Args, Result, PrintEntry, WriteLabelmap,
         LockRegistry, UnlockRegistry, CloseNext, FinMainDone, progVars
<1> QED
  BY <1>1, <1>2 DEF Step

\* The hook at the entry of a traced function finds the tracer idle, and keeps the rest
\* of the trace or makes one; the next one finds it logging.
LEMMA EntryTrace ==
  ASSUME NEW S, NoNesting(S), InsideInv(S), NEW t \in Threads, Step(t)
  PROVE  /\ StatusIn(t) =>
              /\ do_not_log(t) /\ ~do_not_log(t)' /\ trace'[t] # NoTrace
              /\ trace'[t].name = current(t).name /\ trace'[t].file = current(t).file
              /\ trace'[t].count = current(t).count
         /\ pc[t] \in InOpen \cup {"entry"} => ~do_not_log(t)
         /\ LogEntry(t) => trace' = trace /\ pc'[t] = "lock"
<1> DEFINE top == Len(stack[t])
<1>1. /\ TypeInv /\ TypeOK /\ ThreadInv(S, t) /\ Top(t) = stack[t][top] /\ Top(t) \in Funcs
      /\ top \in 1 .. Len(stack[t]) /\ trace \in [Threads -> TraceInfo \cup {NoTrace}]
  BY TraceTyped DEF InsideInv, TypeInv, TypeOK, LoggerTypeOK, Top
<1>2. ASSUME pc[t] \in InOpen \cup {"entry"} PROVE ~do_not_log(t)
  <2>1. Top(t) \in Traced /\ pc[t] \notin {"status_in", "exec", "closing"}
    BY <1>1, <1>2 DEF ThreadInv, HookOK, InOpen
  <2> QED
    BY <1>1, <2>1 DEF ThreadInv, LogsInside, InsideTraced
<1>3. ASSUME StatusIn(t)
      PROVE  /\ do_not_log(t) /\ ~do_not_log(t)' /\ trace'[t] # NoTrace
             /\ trace'[t].name = current(t).name /\ trace'[t].file = current(t).file
             /\ trace'[t].count = current(t).count
  <2>1. Top(t) \in Traced /\ pc[t] = "status_in" /\ pc'[t] = "entry" /\ stack' = stack
    BY <1>1, <1>3 DEF StatusIn, ThreadInv, HookOK, Goto, TypeOK
  <2>2. ~InsideTraced(t)
    BY <1>1, <2>1, OneTraced DEF InsideTraced, ThreadInv
  <2>3. do_not_log(t)
    BY <1>1, <2>1, <2>2 DEF ThreadInv, LogsInside
  <2>4. InsideTraced(t)'
    BY <1>1, <2>1 DEF InsideTraced
  <2>5. ~do_not_log(t)'
    BY <1>3, <2>1, <2>4, StepLogs DEF LogsInside
  <2>6. trace[t] # trace'[t] /\ trace'[t] # NoTrace
    BY <2>3, <2>5 DEF do_not_log
  <2>7. trace' # trace /\ trace' # [trace EXCEPT ![t] = NoTrace]
    BY <1>1, <2>6
  <2> QED
    BY <1>1, <1>3, <2>3, <2>5, <2>7, StatusTrace DEF StatusIn
<1>4. ASSUME LogEntry(t) PROVE trace' = trace /\ pc'[t] = "lock"
  <2>1. ~do_not_log(t)
    BY <1>2, <1>4 DEF LogEntry
  <2>2. current(t) = trace[t]
    BY <2>1 DEF do_not_log, current
  <2> QED
    BY <1>1, <1>4, <2>1, <2>2 DEF LogEntry, Goto, TypeOK
<1> QED
  BY <1>2, <1>3, <1>4

\* Apart from the hooks that name or delete a trace, a step keeps the name of a trace, or
\* makes one under the default name.
LEMMA NameSteps ==
  ASSUME NEW S, NoNesting(S), InsideInv(S), NEW t \in Threads, Step(t)
  PROVE  \/ trace'[t] = trace[t]
         \/ trace'[t] # NoTrace /\ trace'[t].name = current(t).name
         \/ ExecName(t) \/ StatusRet(t) \/ MainReturn(t) \/ OpenFails(t)
<1>1. /\ TypeInv /\ TypeOK /\ trace \in [Threads -> TraceInfo \cup {NoTrace}]
      /\ ThreadInv(S, t)
  BY DEF InsideInv, TypeInv, TypeOK, LoggerTypeOK
<1>2. CASE InitLogger(t)
  <2>1. trace'[t] = create_trace(DefaultName) /\ trace[t] = NoTrace
    BY <1>1, <1>2 DEF InitLogger, trace_logger_init, ThreadInv, HookOK
  <2>2. create_trace(DefaultName) # NoTrace
    BY <1>1, TraceTyped, NamesAssumption, SentinelAssumption
  <2> QED
    BY <2>1, <2>2 DEF current
<1>3. CASE Header(t) /\ ~do_not_log(t)
  <2>1. trace[t] \in TraceInfo /\ trace[t] # NoTrace /\ current(t) = trace[t]
    BY <1>1, <1>3, TraceTyped DEF do_not_log, current
  <2>2. trace'[t] = [trace[t] EXCEPT !.count = @ + 1]
    BY <1>1, <1>3, <2>1 DEF Header, trace_logger_log0
  <2> QED
    BY <2>1, <2>2, OneField
<1>4. CASE FindFile(t) \/ OpenFile(t)
  <2>1. trace[t] \in TraceInfo /\ trace[t] # NoTrace /\ current(t) = trace[t]
    BY <1>1, <1>4 DEF FindFile, OpenFile, TypeInv, HasTrace, InOpen, current
  <2>2. trace[t].name \in Names /\ trace'[t] = [trace[t] EXCEPT !.file = trace[t].name]
    BY <1>1, <1>4, <2>1 DEF FindFile, OpenFile, find_file, open_file, TraceInfo
  <2> QED
    BY <2>1, <2>2, OneField
<1>5. CASE StatusIn(t) \/ LogEntry(t)
  BY <1>5, EntryTrace
<1> QED
  BY <1>1, <1>2, <1>3, <1>4, <1>5, TraceSteps

\* Unless a helper that is also called outside of top-level functions returns, the tracer
\* deletes a trace only when a top-level function returns, or main.
THEOREM FinCorrect ==
  ASSUME NEW S, NEW H, Confined(S, H)
  PROVE  Spec => FinOnlyAtToplevel
<1> DEFINE Fin(t) == trace[t] # NoTrace /\ trace'[t] = NoTrace =>
                       ~do_not_log(t) \/ Top(t) = MainFn \/ pc'[t] = "closing"
<1>1. Init => ShelterInv(S, H)
  BY InitShelter
<1>2. ShelterInv(S, H) /\ [Next]_vars => ShelterInv(S, H)'
  BY NextShelter
<1>3. ShelterInv(S, H) /\ [Next]_vars => [\A t \in Threads : Fin(t)]_vars
  <2> SUFFICES ASSUME ShelterInv(S, H), Next, NEW u \in Threads PROVE Fin(u)
    OBVIOUS
  <2>1. /\ TypeInv /\ TypeOK /\ InsideInv(S) /\ NoNesting(S)
        /\ trace \in [Threads -> TraceInfo \cup {NoTrace}] /\ pc \in [Threads -> Labels]
    BY DEF ShelterInv, InsideInv, TypeInv, TypeOK, LoggerTypeOK, Confined
  <2>2. CASE trace'[u] = trace[u]
    BY <2>2
  <2>3. ASSUME Step(u) PROVE Fin(u)
    <3>1. CASE StatusRet(u)
      BY <2>3, <3>1, ReturnTrace
    <3>2. CASE MainReturn(u) \/ OpenFails(u)
      BY <2>1, <3>2 DEF MainReturn, OpenFails, Goto
    <3>3. CASE ExecName(u)
      <4>1. NameOf[u] \in Names
        BY <2>1, <3>3, ProgramAssumption DEF ExecName, TypeInv, HasName
      <4>2. llvmtracer_set_trace_name(u, NameOf[u])
        BY <3>3 DEF ExecName
      <4>3. trace[u] # NoTrace =>
              trace'[u] = [trace[u] EXCEPT !.name = NameOf[u]] /\ trace[u] \in TraceInfo
        BY <2>1, <4>2 DEF llvmtracer_set_trace_name
      <4> QED
        BY <4>1, <4>3, OneField
    <3> QED
      BY <2>1, <2>2, <2>3, <3>1, <3>2, <3>3, NameSteps
  <2>4. ASSUME NEW t \in Threads, Step(t) PROVE Fin(u)
    <3>1. CASE t = u
      BY <2>3, <2>4, <3>1
    <3>2. CASE t # u
      BY <2>1, <2>2, <2>4, <3>2, StepFrame
    <3> QED
      BY <3>1, <3>2
  <2>5. CASE Stopped
    BY <2>2, <2>5 DEF Stopped, vars
  <2> QED
    BY <2>4, <2>5 DEF Next
<1> QED
  BY <1>1, <1>2, <1>3, PTL DEF Spec, FinOnlyAtToplevel

\* A thread that asked for a name keeps it, and asks before it enters a top-level
\* function.
LEMMA StepName ==
  ASSUME NEW S, NEW H, Separate(S, H), SpanInv(S, H), NEW t \in Threads, Step(t)
  PROVE  NameOK(t)'
<1>1. /\ NoNesting(S) /\ InsideInv(S) /\ TypeInv /\ TypeOK /\ NameOK(t) /\ ShelterOK(H, t)
      /\ NameEveryCall /\ NoFile \notin Names
      /\ trace \in [Threads -> TraceInfo \cup {NoTrace}] /\ pc \in [Threads -> Labels]
      /\ instr \in [Threads -> InstrType] /\ wanted \in [Threads -> Names \cup {NoFile}]
      /\ NoInstr.op \notin {"call", "ret"}
  BY NamesAssumption
     DEF Separate, SeparateFiles, Confined, SpanInv, ShelterInv, InsideInv, TypeInv, TypeOK, LoggerTypeOK, NoInstr,
         Instr
<1>2. CASE /\ wanted' = wanted /\ stack' = stack
           /\ pc'[t] \in EntryPoints => pc[t] \in EntryPoints
           /\ pc[t] = "closing" => pc'[t] = "closing"
           /\ pc[t] # "finished"
           /\ ~(pc[t] = "exec" /\ instr[t].op = "ret")
           /\ instr'[t].op = "call" /\ instr'[t].callee \in Tracked => wanted[t] = NameOf[t]
           /\ \/ trace'[t] = trace[t]
              \/ trace'[t] # NoTrace /\ trace'[t].name = current(t).name
  <2>1. wanted'[t] \in {NoFile, NameOf[t]}
    BY <1>1, <1>2 DEF NameOK
  <2>2. ASSUME wanted'[t] # NoFile, pc'[t] \notin {"closing", "finished"}
        PROVE  trace'[t] # NoTrace /\ trace'[t].name = wanted'[t]
    <3>1. trace[t] # NoTrace /\ trace[t].name = wanted[t]
      BY <1>1, <1>2, <2>2 DEF NameOK
    <3> QED
      BY <1>2, <3>1 DEF current
  <2>3. NameOf[t] = NoFile /\ trace'[t] # NoTrace => trace'[t].name = DefaultName
    BY <1>1, <1>2 DEF NameOK, current, create_trace
  <2>4. pc'[t] \in EntryPoints => wanted'[t] = NameOf[t]
    BY <1>1, <1>2 DEF NameOK, EntryPoints
  <2> QED
    BY <1>2, <2>1, <2>2, <2>3, <2>4 DEF NameOK, EntryPoints
<1>3. CASE Choose(t)
  <2>1. PICK i \in Choices(t) : instr'[t] = i
    BY <1>1, <1>3 DEF Choose
  <2>2. i.op = "call" /\ i.callee \in Tracked => wanted[t] = NameOf[t]
    BY <1>1, ChoiceTyped DEF MayCall, NameOK
  <2>3. /\ trace' = trace /\ wanted' = wanted /\ stack' = stack
        /\ pc[t] = "run" /\ pc'[t] \in {"header", "exec"}
    BY <1>1, <1>3 DEF Choose, Goto, loggerVars
  <2> QED
    BY <1>2, <2>1, <2>2, <2>3 DEF EntryPoints, InOpen
<1>4. CASE ExecName(t)
  <2>1. NameOf[t] \in Names
    BY <1>1, <1>4, ProgramAssumption DEF ExecName, TypeInv, HasName
  <2>2. /\ wanted'[t] = NameOf[t] /\ instr'[t] = NoInstr /\ pc'[t] \in {"run", "result"}
        /\ llvmtracer_set_trace_name(t, NameOf[t])
    BY <1>1, <1>4 DEF ExecName, After, Goto
  <2>3. trace'[t] # NoTrace /\ trace'[t].name = NameOf[t]
    <3>1. CASE trace[t] = NoTrace
      <4>1. trace'[t] = create_trace(NameOf[t]) /\ create_trace(NameOf[t]) \in TraceInfo
        BY <1>1, <2>1, <2>2, <3>1, TraceTyped DEF llvmtracer_set_trace_name
      <4>2. create_trace(NameOf[t]).name = NameOf[t]
        BY DEF create_trace
      <4> QED
        BY <4>1, <4>2, SentinelAssumption
    <3>2. CASE trace[t] # NoTrace
      <4>1. trace'[t] = [trace[t] EXCEPT !.name = NameOf[t]] /\ trace[t] \in TraceInfo
        BY <1>1, <2>2, <3>2 DEF llvmtracer_set_trace_name
      <4> QED
        BY <2>1, <4>1, OneField
    <3> QED
      BY <3>1, <3>2
  <2> QED
    BY <1>1, <2>1, <2>2, <2>3 DEF NameOK, InOpen
<1>5. CASE ExecCall(t)
  <2>1. /\ trace' = trace /\ wanted' = wanted /\ instr'[t] = NoInstr
        /\ pc[t] = "exec" /\ instr[t].op = "call" /\ pc'[t] = EntryHook(instr[t].callee)
    BY <1>1, <1>5 DEF ExecCall, Goto, loggerVars
  <2>2. /\ EntryHook(instr[t].callee) \in {"run", "args", "status_in"}
        /\ EntryHook(instr[t].callee) = "status_in" => instr[t].callee \in Tracked
    BY DEF EntryHook
  <2> QED
    BY <1>1, <2>1, <2>2 DEF NameOK, InOpen
<1>6. CASE ExecRet(t)
  <2>1. /\ trace' = trace /\ instr'[t] = NoInstr /\ pc'[t] \in {"run", "result"}
        /\ pc[t] = "exec" /\ instr[t].op = "ret" /\ Len(stack[t]) > 1
        /\ wanted'[t] = IF Top(t) \in Tracked THEN NoFile ELSE wanted[t]
    BY <1>1, <1>6 DEF ExecRet, Goto, loggerVars, After
  <2>2. Top(t) # MainFn
    <3>1. Len(stack[t]) \in 1 .. Len(stack[t]) /\ Top(t) = stack[t][Len(stack[t])]
      BY <1>1 DEF TypeOK, Top
    <3> QED
      BY <1>1, <2>1, <3>1 DEF ShelterOK
  <2>3. wanted'[t] # NoFile => trace[t] # NoTrace /\ trace[t].name = wanted'[t]
    BY <1>1, <2>1, <2>2 DEF NameOK, Traced
  <2> QED
    BY <1>1, <2>1, <2>3 DEF NameOK, InOpen
<1>7. CASE WorkerReturn(t)
  BY <1>1, <1>7 DEF WorkerReturn, NameOK, InOpen, loggerVars, Goto
<1>8. CASE MainReturn(t) \/ OpenFails(t)
  <2>1. /\ wanted' = wanted /\ instr' = instr /\ pc'[t] = "closing" /\ exit(t)
    BY <1>1, <1>8 DEF MainReturn, OpenFails, open_fails, Goto
  <2>2. trace'[t] \in {trace[t], NoTrace}
    BY <1>1, <2>1 DEF exit, fin_toplevel
  <2> QED
    BY <1>1, <2>1, <2>2 DEF NameOK, InOpen
<1>9. CASE StatusRet(t)
  <2>1. /\ wanted' = wanted /\ instr' = instr /\ stack' = stack /\ pc'[t] = "exec"
        /\ pc[t] = "status_ret" /\ instr[t].op = "ret"
    BY <1>1, <1>9 DEF StatusRet, Goto, InsideInv, ThreadInv, HookOK
  <2>2. Top(t)' = Top(t)
    BY <2>1 DEF Top
  <2>3. wanted[t] # NoFile => trace[t] # NoTrace /\ trace[t].name = wanted[t]
    BY <1>1, <2>1 DEF NameOK
  <2>4. \/ Top(t) \in Traced \cup {MainFn} /\ trace'[t] \in {trace[t], NoTrace}
        \/ trace'[t] # NoTrace /\ trace[t] # NoTrace /\ trace'[t].name = trace[t].name
    BY <1>1, <1>9, ReturnTrace DEF Separate, SpanInv, do_not_log
  <2> QED
    BY <1>1, <2>1, <2>2, <2>3, <2>4 DEF NameOK, InOpen
<1> QED
  <2>1. NoInstr.op # "call" /\ (instr[t].op = "call" /\ instr[t].callee \in Tracked =>
                                  wanted[t] = NameOf[t])
    BY <1>1 DEF NameOK
  <2>2. CASE ~ExecName(t) /\ ~ExecCall(t) /\ ~ExecRet(t) /\ ~WorkerReturn(t) /\ ~Choose(t)
             /\ ~MainReturn(t) /\ ~OpenFails(t) /\ ~StatusRet(t)
    BY <1>1, <1>2, <2>1, <2>2, NameSteps, ProgramSteps
  <2> QED
    BY <1>3, <1>4, <1>5, <1>6, <1>7, <1>8, <1>9, <2>2

\* A thread opens the file it asked for, and counts from the entry line on.
LEMMA StepFile ==
  ASSUME NEW S, NEW H, Separate(S, H), SpanInv(S, H), NEW t \in Threads, Step(t)
  PROVE  FileOK(t)'
<1>1. /\ NoNesting(S) /\ InsideInv(S) /\ TypeInv /\ TypeOK /\ NameOK(t) /\ FileOK(t)
      /\ ThreadInv(S, t) /\ NoFile \notin Names /\ gz_files \subseteq Names
      /\ trace \in [Threads -> TraceInfo \cup {NoTrace}] /\ pc \in [Threads -> Labels]
      /\ InsideInv(S)'
  BY NamesAssumption, NextInside
     DEF Separate, Confined, SpanInv, ShelterInv, InsideInv, TypeInv, TypeOK, LoggerTypeOK, Next
<1>2. gz_files \subseteq gz_files'
  BY <1>1, DiskSteps DEF OpenFile, open_file
\* Steps that keep the file and the status of the trace, if there is one.
<1>3. CASE /\ trace'[t] # NoTrace => /\ trace[t] # NoTrace
                                     /\ trace'[t].file = trace[t].file
                                     /\ do_not_log(t)' <=> do_not_log(t)
           /\ pc'[t] # "closing" => pc[t] # "closing"
           /\ pc'[t] \in Unopened <=> pc[t] \in Unopened
           /\ trace'[t].count = trace[t].count \/ (~do_not_log(t)' /\ pc'[t] = "operands")
           /\ pc'[t] \in InOpen \cup {"entry"} => pc[t] \in InOpen \cup {"entry"}
  <2> SUFFICES ASSUME trace'[t] # NoTrace PROVE FileOK(t)'
    BY DEF FileOK
  <2>1. /\ trace'[t].file \in {NoFile, FileFor(t)}
        /\ trace'[t].file \in gz_files' \cup {NoFile}
    BY <1>1, <1>2, <1>3 DEF FileOK
  <2>2. pc'[t] # "closing" =>
          (trace'[t].file = NoFile <=> do_not_log(t)' \/ pc'[t] \in Unopened)
    BY <1>1, <1>3 DEF FileOK
  <2>3. ASSUME pc'[t] # "closing", do_not_log(t)' \/ pc'[t] \in InOpen \cup {"entry"}
        PROVE  trace'[t].count = 0
    BY <1>1, <1>3, <2>3 DEF FileOK, InOpen
  <2> QED
    BY <2>1, <2>2, <2>3 DEF FileOK, FileFor, Unopened, InOpen
<1>4. CASE trace' = trace /\ ~StatusIn(t) /\ ~LogEntry(t) /\ ~FindFile(t) /\ ~OpenFile(t)
           /\ ~OpenFails(t)
  <2>1. /\ pc'[t] \in Unopened <=> pc[t] \in Unopened
        /\ pc'[t] \in InOpen => pc[t] \in InOpen
        /\ pc[t] = "closing" => pc'[t] = "closing"
    BY <1>1, <1>4, OpenSteps, ProgramSteps
  <2>2. pc'[t] = "entry" => pc[t] = "entry" \/ pc[t] \in Unopened
    BY <2>1 DEF Unopened
  <2> QED
    BY <1>3, <1>4, <2>1, <2>2 DEF do_not_log, Unopened, InOpen
<1>5. CASE InitLogger(t)
  <2>1. trace'[t] = create_trace(DefaultName) /\ pc'[t] \in {"register", "run"}
    BY <1>1, <1>5 DEF InitLogger, trace_logger_init, Goto
  <2> QED
    BY <2>1 DEF FileOK, create_trace, do_not_log, Unopened, InOpen
<1>6. CASE LogEntry(t)
  <2>1. trace' = trace /\ pc'[t] = "lock" /\ pc[t] = "entry"
    BY <1>1, <1>6, EntryTrace DEF LogEntry
  <2> QED
    BY <1>3, <2>1 DEF do_not_log, Unopened, InOpen
<1>7. CASE Header(t) /\ ~do_not_log(t)
  <2>1. trace[t] \in TraceInfo /\ trace[t] # NoTrace
    BY <1>1, <1>7, TraceTyped DEF do_not_log
  <2>2. trace'[t] = [trace[t] EXCEPT !.count = @ + 1]
    BY <1>1, <1>7, <2>1 DEF Header, trace_logger_log0
  <2>3. /\ trace'[t] # NoTrace /\ trace'[t].file = trace[t].file
        /\ trace'[t].status = trace[t].status
    BY <2>1, <2>2, OneField
  <2>4. pc[t] = "header" /\ pc'[t] = "operands"
    BY <1>1, <1>7 DEF Header, Goto
  <2>5. ~do_not_log(t)'
    BY <1>7, <2>1, <2>3 DEF do_not_log
  <2> QED
    BY <1>3, <1>7, <2>1, <2>3, <2>4, <2>5 DEF Unopened, InOpen
<1>8. CASE ExecName(t)
  <2>1. NameOf[t] \in Names
    BY <1>1, <1>8, ProgramAssumption DEF ExecName, TypeInv, HasName
  <2>2. /\ pc[t] = "exec" /\ pc'[t] \in {"run", "result"}
        /\ llvmtracer_set_trace_name(t, NameOf[t])
    BY <1>1, <1>8 DEF ExecName, After, Goto
  <2>3. CASE trace[t] = NoTrace
    <3>1. trace'[t] = create_trace(NameOf[t])
      BY <1>1, <2>2, <2>3 DEF llvmtracer_set_trace_name
    <3> QED
      BY <2>2, <3>1 DEF FileOK, create_trace, do_not_log, Unopened, InOpen
  <2>4. CASE trace[t] # NoTrace
    <3>1. trace'[t] = [trace[t] EXCEPT !.name = NameOf[t]] /\ trace[t] \in TraceInfo
      BY <1>1, <2>2, <2>4 DEF llvmtracer_set_trace_name
    <3>2. /\ trace'[t] # NoTrace /\ trace'[t].file = trace[t].file
          /\ trace'[t].count = trace[t].count /\ trace'[t].status = trace[t].status
      BY <2>1, <3>1, OneField
    <3>3. do_not_log(t)' <=> do_not_log(t)
      BY <2>4, <3>2 DEF do_not_log
    <3> QED
      BY <1>3, <2>2, <2>4, <3>2, <3>3 DEF Unopened, InOpen
  <2> QED
    BY <2>3, <2>4
<1>9. CASE StatusRet(t)
  <2>1. pc[t] = "status_ret" /\ pc'[t] = "exec"
    BY <1>1, <1>9 DEF StatusRet, Goto
  <2>2. CASE trace'[t] = NoTrace
    BY <2>2 DEF FileOK
  <2>3. CASE trace' = trace
    BY <1>3, <2>1, <2>3 DEF do_not_log, Unopened, InOpen
  <2>4. CASE /\ ~do_not_log(t) /\ ~do_not_log(t)' /\ trace'[t] # NoTrace
             /\ trace'[t].file = trace[t].file /\ trace'[t].count = trace[t].count
    <3>1. trace[t] # NoTrace
      BY <2>4 DEF do_not_log
    <3> QED
      BY <1>3, <2>1, <2>4, <3>1 DEF Unopened, InOpen
  <2> QED
    BY <1>1, <1>9, <2>2, <2>3, <2>4, ReturnTrace DEF Separate, SpanInv
<1>10. CASE StatusIn(t)
  <2>1. /\ do_not_log(t) /\ ~do_not_log(t)' /\ trace'[t] # NoTrace
        /\ trace'[t].file = current(t).file /\ trace'[t].count = current(t).count
        /\ pc[t] = "status_in" /\ pc'[t] = "entry"
    BY <1>1, <1>10, EntryTrace DEF StatusIn, Goto
  <2>2. current(t).file = NoFile /\ current(t).count = 0
    BY <1>1, <2>1 DEF FileOK, current, create_trace
  <2> QED
    BY <2>1, <2>2 DEF FileOK, Unopened, InOpen
<1>11. CASE FindFile(t) \/ OpenFile(t)
  <2>1. /\ trace[t] \in TraceInfo /\ trace[t] # NoTrace
        /\ pc[t] = "lookup" /\ pc'[t] \in {"unlock", "labelmap"}
        /\ trace[t].name \in Names
    BY <1>1, <1>11 DEF FindFile, OpenFile, TypeInv, HasTrace, InOpen, Goto, TraceInfo
  <2>2. /\ trace'[t] = [trace[t] EXCEPT !.file = trace[t].name]
        /\ trace[t].name \in gz_files'
    BY <1>1, <1>11, <2>1
       DEF FindFile, OpenFile, find_file, open_file, unchangedFiles
  <2>3. /\ trace'[t] # NoTrace /\ trace'[t].file = trace[t].name
        /\ trace'[t].count = trace[t].count /\ trace'[t].status = trace[t].status
    BY <2>1, <2>2, OneField
  <2>4. trace[t].name = FileFor(t)
    BY <1>1, <2>1 DEF NameOK, FileFor, InOpen
  <2>5. ~do_not_log(t) /\ ~do_not_log(t)'
    BY <1>1, <2>1, <2>3, EntryTrace DEF InOpen, do_not_log
  <2>6. trace[t].count = 0
    BY <1>1, <2>1 DEF FileOK, InOpen
  <2> QED
    BY <1>1, <2>1, <2>2, <2>3, <2>4, <2>5, <2>6 DEF FileOK, FileFor, Unopened, InOpen
<1>12. CASE MainReturn(t) \/ OpenFails(t)
  <2>1. pc'[t] = "closing" /\ exit(t)
    BY <1>1, <1>12 DEF MainReturn, OpenFails, open_fails, Goto
  <2>2. trace'[t] \in {trace[t], NoTrace}
    BY <1>1, <2>1 DEF exit, fin_toplevel
  <2> QED
    BY <1>1, <1>2, <2>1, <2>2 DEF FileOK
<1> QED
  BY <1>1, <1>4, <1>5, <1>6, <1>7, <1>8, <1>9, <1>10, <1>11, <1>12, TraceSteps

LEMMA InitSpan ==
  ASSUME NEW S, NEW H, Separate(S, H), Init PROVE SpanInv(S, H)
<1>1. ShelterInv(S, H)
  BY InitShelter DEF Separate
<1>2. ASSUME NEW t \in Threads PROVE NameOK(t) /\ FileOK(t)
  <2>1. /\ trace[t] = NoTrace /\ instr[t].op = "plain"
        /\ pc[t] \in {"init", "unborn"} /\ wanted[t] = NoFile
    BY <1>2 DEF Init, LoggerInit, NoInstr, Instr
  <2> QED
    BY <2>1 DEF NameOK, FileOK, InOpen
<1> QED
  BY <1>1, <1>2 DEF SpanInv

LEMMA NextSpan ==
  ASSUME NEW S, NEW H, Separate(S, H), SpanInv(S, H), [Next]_vars PROVE SpanInv(S, H)'
<1>1. ShelterInv(S, H)'
  BY NextShelter DEF Separate, SpanInv
<1>2. CASE UNCHANGED vars
  BY <1>1, <1>2 DEF vars, SpanInv, NameOK, FileOK, Top, do_not_log
<1>3. ASSUME NEW t \in Threads, Step(t) PROVE SpanInv(S, H)'
  <2>1. NameOK(t)' /\ FileOK(t)'
    BY <1>3, StepName, StepFile
  <2>2. ASSUME NEW u \in Threads \ {t} PROVE NameOK(u)' /\ FileOK(u)'
    <3>1. TypeInv /\ TypeOK /\ NameOK(u) /\ FileOK(u)
      BY DEF SpanInv, ShelterInv, InsideInv, TypeInv
    <3>2. /\ trace'[u] = trace[u] /\ stack'[u] = stack[u] /\ instr'[u] = instr[u]
          /\ pc'[u] = pc[u] \/ (pc[u] = "unborn" /\ pc'[u] = "run")
      BY <1>3, <3>1, StepFrame
    <3>3. wanted'[u] = wanted[u]
      BY <1>3, <3>1, ProgramSteps DEF ExecName, ExecRet, TypeOK
    <3>4. gz_files \subseteq gz_files'
      BY <1>3, <3>1, DiskSteps DEF OpenFile, open_file
    <3>5. NameOK(u)'
      BY <3>1, <3>2, <3>3 DEF NameOK, Top, InOpen
    <3>6. FileOK(u)'
      BY <3>1, <3>2, <3>4 DEF FileOK, do_not_log, Unopened, InOpen
    <3> QED
      BY <3>5, <3>6
  <2> QED
    BY <1>1, <2>1, <2>2 DEF SpanInv
<1> QED
  BY <1>2, <1>3 DEF Next, Stopped

\* A thread that logs writes to its own file, and to no other.
LEMMA OwnFile ==
  ASSUME NEW S, NEW H, Separate(S, H), SpanInv(S, H), NEW t \in Threads
  PROVE  /\ FileFor(t) \in Names
         /\ trace[t] # NoTrace => trace[t].file \in {NoFile, FileFor(t)}
         /\ ~do_not_log(t) /\ pc[t] \notin Unopened \cup {"closing"} =>
              trace[t].file = FileFor(t) /\ FileFor(t) \in gz_files
         /\ AtWrite(t) => ~do_not_log(t) /\ pc[t] \notin Unopened \cup {"closing"}
<1>1. /\ TypeInv /\ FileOK(t) /\ LogsInside(t) /\ HookOK(t) /\ TypeOK
  BY DEF SpanInv, ShelterInv, InsideInv, ThreadInv, TypeInv
<1>2. FileFor(t) \in Names
  BY NamesAssumption, ProgramAssumption DEF FileFor
<1>3. ~do_not_log(t) /\ pc[t] \notin Unopened \cup {"closing"} =>
        trace[t].file = FileFor(t) /\ FileFor(t) \in gz_files
  BY <1>1, <1>2, NamesAssumption DEF FileOK, do_not_log
<1>4. ASSUME pc[t] \in {"labelmap", "print"} PROVE ~do_not_log(t)
  <2>1. Top(t) \in Traced /\ Len(stack[t]) \in 1 .. Len(stack[t])
    BY <1>1, <1>4 DEF HookOK, InOpen, TypeOK
  <2>2. InsideTraced(t)
    BY <1>4, <2>1 DEF InsideTraced, Top
  <2> QED
    BY <1>1, <1>4, <2>2 DEF LogsInside
<1>5. AtWrite(t) => ~do_not_log(t) /\ pc[t] \notin Unopened \cup {"closing"}
  BY <1>4 DEF AtWrite, Unopened
<1> QED
  BY <1>1, <1>2, <1>3, <1>5 DEF FileOK

\* So no two threads that use a stream use the same one.
LEMMA NoRacing ==
  ASSUME NEW S, NEW H, Separate(S, H), SpanInv(S, H), NEW t \in Threads, AtWrite(t)
  PROVE  ~Racing(t)
<1>1. trace[t].file = FileFor(t)
  BY OwnFile
<1>2. ASSUME NEW u \in Threads \ {t}, AtWrite(u) PROVE trace[u].file # trace[t].file
  <2>1. trace[u].file = FileFor(u)
    BY <1>2, OwnFile
  <2> QED
    BY <1>1, <2>1 DEF Separate, SeparateFiles
<1> QED
  BY <1>2 DEF Racing, Uses

\* If threads use files of their own, each names its trace before every top-level call,
\* and no helper returns while the tracer is idle, then a span goes to the file its
\* thread asked for.
THEOREM NameCorrect ==
  ASSUME NEW S, NEW H, Separate(S, H)
  PROVE  Spec => []NameHonoured
<1>1. Init => SpanInv(S, H)
  BY InitSpan
<1>2. SpanInv(S, H) /\ [Next]_vars => SpanInv(S, H)'
  BY NextSpan
<1>3. SpanInv(S, H) => NameHonoured
  <2> SUFFICES ASSUME SpanInv(S, H), NEW t \in Threads, pc[t] = "print", wanted[t] # NoFile
               PROVE  trace[t].file = wanted[t]
    BY DEF NameHonoured
  <2>1. trace[t].file = FileFor(t)
    BY OwnFile DEF AtWrite
  <2>2. wanted[t] = NameOf[t]
    BY DEF SpanInv, NameOK
  <2> QED
    BY <2>1, <2>2 DEF FileFor
<1> QED
  BY <1>1, <1>2, <1>3, PTL DEF Spec

\* If moreover main joins its threads and every file can be opened, no stream is used
\* by two threads at a time, nor after fin_main has got hold of it: without these,
\* exit closes files that threads still write to.
THEOREM StreamsCorrect ==
  ASSUME NEW S, NEW H, Separate(S, H), JoinsThreads, ~OpenMayFail
  PROVE  Spec => []NoStreamRace
<1>1. Init => SpanInv(S, H) /\ HeaderInv
  BY InitSpan, InitHeader
<1>2. SpanInv(S, H) /\ HeaderInv /\ [Next]_vars => SpanInv(S, H)' /\ HeaderInv'
  BY NextSpan, NextHeader
<1>3. SpanInv(S, H) /\ HeaderInv => NoStreamRace
  <2> SUFFICES ASSUME SpanInv(S, H), HeaderInv, NEW t \in Threads, AtWrite(t)
               PROVE  trace[t].file \in gz_files \ (closed \cup closing) /\ ~Racing(t)
    BY DEF NoStreamRace
  <2>1. trace[t].file \in gz_files
    BY OwnFile
  <2>2. pc[Main] # "closing"
    <3>1. pc[t] \notin {"closing", "finished"}
      BY DEF AtWrite
    <3> QED
      BY <3>1, ProgramAssumption DEF HeaderInv, RegistryInv, CloseInv, Joined, Workers
  <2>3. closed \cup closing = {}
    BY <2>2 DEF HeaderInv, ClosedInv
  <2> QED
    BY <2>1, <2>3, NoRacing
<1> QED
  BY <1>1, <1>2, <1>3, PTL DEF Spec

----------------------------------------------------------------------------
(* TracedProgram implements TraceFiles.                                    *)

LEMMA InitFiles ==
  ASSUME NEW S, NEW H, Separate(S, H), Init PROVE FilesInv(S, H)
BY InitSpan DEF FilesInv, WalkInv, EmptyInv, Init, LoggerInit

\* The walk of fin_main closes each stream once.
LEMMA StepWalk ==
  ASSUME TypeInv, WalkInv, NEW t \in Threads, Step(t)
  PROVE  WalkInv'
<1> USE DEF TypeInv, TypeOK, LoggerTypeOK
<1>1. CASE MainReturn(t) \/ OpenFails(t)
  BY <1>1 DEF WalkInv, MainReturn, OpenFails, open_fails, exit
<1>2. CASE CloseNext(t)
  BY <1>2 DEF WalkInv, CloseNext, close_next
<1>3. CASE OpenFile(t)
  <2>1. /\ trace[t].name \notin gz_files /\ closed' = closed
        /\ \/ process' = process /\ closing' = closing
           \/ /\ process' # "running"
              /\ closing' \subseteq closing \cup {trace[t].name}
    BY <1>3 DEF OpenFile, open_file
  <2> QED
    BY <2>1 DEF WalkInv
<1> QED
  BY <1>1, <1>2, <1>3, EndSteps DEF WalkInv

\* The thread that opened a file is the only one about to write its label map, and
\* writes it unless fin_main has closed the file.
LEMMA StepEmpty ==
  ASSUME NEW S, NEW H, Separate(S, H), FilesInv(S, H), NEW t \in Threads, Step(t)
  PROVE  EmptyInv'
<1>1. /\ SpanInv(S, H) /\ TypeInv /\ TypeOK /\ EmptyInv
      /\ gz_files \subseteq Names /\ closed \subseteq gz_files
      /\ disk \in [Names -> Seq(LineType)] /\ NoFile \notin Names
      /\ pc \in [Threads -> Labels] /\ trace \in [Threads -> TraceInfo \cup {NoTrace}]
      /\ closed \subseteq closed'
  BY EndSteps, NamesAssumption
     DEF FilesInv, SpanInv, ShelterInv, InsideInv, TypeInv, TypeOK, LoggerTypeOK, MainReturn,
         OpenFails, CloseNext, OpenFile, open_fails, exit, close_next, open_file
<1>2. \A u \in Threads \ {t} :
        /\ trace'[u] = trace[u]
        /\ pc'[u] = "labelmap" <=> pc[u] = "labelmap"
  BY <1>1, StepFrame
<1>3. \A u \in Threads : \A n : Opening(u, n) => n = FileFor(u)
  BY <1>1, OwnFile DEF Opening, AtWrite
<1>4. SUFFICES ASSUME NEW n \in gz_files' \ closed'
               PROVE  Damaged(n)' \/ (disk'[n] = << >> <=> \E u \in Threads : Opening(u, n)')
  BY DEF EmptyInv
<1>5. CASE OpenFile(t)
  <2>0. /\ trace[t] \in TraceInfo /\ trace[t].name \in Names /\ trace[t] # NoTrace
        /\ pc[t] = "lookup" /\ pc'[t] = "labelmap"
    BY <1>1, <1>5 DEF OpenFile, TypeInv, HasTrace, InOpen, Goto, TraceInfo
  <2>1. /\ trace[t].name \notin gz_files
        /\ gz_files' = gz_files \cup {trace[t].name}
        /\ disk' = [disk EXCEPT ![trace[t].name] = << >>]
        /\ trace'[t].file = trace[t].name
    BY <1>1, <1>5, <2>0 DEF OpenFile, open_file
  <2>2. CASE n = trace[t].name
    BY <1>1, <2>0, <2>1, <2>2 DEF Opening
  <2>3. CASE n # trace[t].name
    <3>1. n \in gz_files \ closed /\ disk'[n] = disk[n]
      BY <1>1, <1>4, <2>1, <2>3
    <3>2. \A u \in Threads : Opening(u, n)' <=> Opening(u, n)
      BY <1>2, <2>0, <2>1, <2>3 DEF Opening
    <3> QED
      BY <1>1, <3>1, <3>2 DEF EmptyInv, Damaged
  <2> QED
    BY <2>2, <2>3
<1>6. CASE ~OpenFile(t)
  <2>1. n \in gz_files \ closed /\ pc'[t] # "labelmap"
    BY <1>1, <1>4, <1>6, DiskSteps, FileSteps
  <2>0. CASE Damaged(n)
    BY <1>1, <2>0, <2>1, DamageStays DEF Next
  <2>2. \A u \in Threads : Opening(u, n)' <=> u # t /\ Opening(u, n)
    BY <1>2, <2>1 DEF Opening
  <2>3. CASE \E line \in LineType : AtWrite(t) /\ trace[t].file = n /\ disk'[n] = Append(disk[n], line)
    <3>1. disk'[n] # << >>
      BY <1>1, <2>1, <2>3, AppendProperties
    <3>2. n = FileFor(t)
      BY <1>1, <2>3, OwnFile
    <3>3. \A u \in Threads : Opening(u, n) => u = t
      BY <1>3, <3>2 DEF Separate, SeparateFiles
    <3> QED
      BY <2>2, <3>1, <3>3
  <2>4. CASE disk'[n] = disk[n] /\ ~Opening(t, n)
    BY <1>1, <2>0, <2>1, <2>2, <2>4 DEF EmptyInv
  <2>5. CASE WriteLabelmap(t) /\ Opening(t, n) /\ ~Damaged(n)
    <3>1. n = trace[t].file /\ n \in Names \ closed
      BY <1>1, <2>1, <2>5 DEF Opening
    <3>2. ~Racing(t)
      BY <1>1, <2>5, NoRacing DEF Opening, AtWrite
    <3> DEFINE line == Line(IF labelmap THEN "labelmap" ELSE "no labelmap",
                            NoThread, NoFunc, "none", 0)
    <3>3. disk' = [disk EXCEPT ![n] = Append(@, line)]
      BY <2>5, <3>1, <3>2 DEF WriteLabelmap, write_labelmap, gzprintf
    <3>4. line \in LineType
      BY DEF Line, LineType, Kinds
    <3>5. AtWrite(t)
      BY <2>5 DEF Opening, AtWrite
    <3> HIDE DEF line
    <3> QED
      BY <1>1, <2>3, <3>1, <3>3, <3>4, <3>5
  <2>6. Opening(t, n) => WriteLabelmap(t)
    BY <1>1, FileSteps DEF Opening
  <2>7. \/ disk'[n] = disk[n]
        \/ \E line \in LineType : AtWrite(t) /\ trace[t].file = n /\ disk'[n] = Append(disk[n], line)
        \/ Damaged(n)'
    <3>1. CASE disk' = disk
      BY <3>1
    <3>2. ASSUME NEW line \in LineType, AtWrite(t),
                 disk' = [disk EXCEPT ![trace[t].file] = Append(@, line)]
          PROVE  \/ disk'[n] = disk[n]
                 \/ AtWrite(t) /\ trace[t].file = n /\ disk'[n] = Append(disk[n], line)
      BY <1>1, <2>1, <3>2
    <3>3. CASE \E m \in gz_files : Damage(m)
      BY <1>1, <2>1, <3>3 DEF Damage, Damaged
    <3> QED
      BY <1>1, <1>6, <3>1, <3>2, <3>3, DiskSteps DEF Written
  <2> QED
    BY <2>0, <2>3, <2>4, <2>5, <2>6, <2>7
<1> QED
  BY <1>5, <1>6

LEMMA NextFiles ==
  ASSUME NEW S, NEW H, Separate(S, H), FilesInv(S, H), [Next]_vars PROVE FilesInv(S, H)'
<1>1. SpanInv(S, H)'
  BY NextSpan DEF FilesInv
<1>2. CASE UNCHANGED vars
  BY <1>1, <1>2 DEF vars, FilesInv, WalkInv, EmptyInv, Opening, Damaged
<1>3. ASSUME NEW t \in Threads, Step(t) PROVE FilesInv(S, H)'
  BY <1>1, <1>3, StepWalk, StepEmpty DEF FilesInv, SpanInv, ShelterInv, InsideInv
<1> QED
  BY <1>2, <1>3 DEF Next, Stopped

\* What a reader tells apart of a line, and of a file.
Seen(line) == <<line.kind, line.count>>
SeenLog(s) == [i \in 1 .. Len(s) |-> Seen(s[i])]

LEMMA SeenAppend ==
  ASSUME NEW s \in Seq(LineType), NEW line \in LineType
  PROVE  /\ SeenLog(Append(s, line)) = Append(SeenLog(s), Seen(line))
         /\ SeenLog(s) = << >> <=> s = << >>
<1> DEFINE Pairs == {Seen(l) : l \in LineType}
<1>1. /\ Len(s) \in Nat /\ Append(s, line) \in Seq(LineType)
      /\ Len(Append(s, line)) = Len(s) + 1
      /\ \A i \in 1 .. Len(s) : Append(s, line)[i] = s[i]
      /\ Append(s, line)[Len(s) + 1] = line
      /\ \A i \in 1 .. Len(s) : s[i] \in LineType
  BY AppendProperties, LenProperties, ElementOfSeq
<1>2. /\ SeenLog(s) \in Seq(Pairs) /\ Len(SeenLog(s)) = Len(s)
      /\ \A i \in 1 .. Len(s) : SeenLog(s)[i] = Seen(s[i])
  <2>1. SeenLog(s) \in [1 .. Len(s) -> Pairs]
    BY <1>1 DEF SeenLog
  <2> HIDE DEF Pairs
  <2>2. SeenLog(s) \in Seq(Pairs)
    BY <1>1, <2>1, IsASeq
  <2>3. Len(SeenLog(s)) = Len(s)
    BY <1>1, <2>2, LenProperties DEF SeenLog
  <2> QED
    BY <2>2, <2>3 DEF SeenLog
<1>3. /\ SeenLog(Append(s, line)) \in Seq(Pairs)
      /\ Len(SeenLog(Append(s, line))) = Len(s) + 1
      /\ \A i \in 1 .. Len(s) + 1 : SeenLog(Append(s, line))[i] = Seen(Append(s, line)[i])
  <2>1. \A i \in 1 .. Len(s) + 1 : Append(s, line)[i] \in LineType
    BY <1>1, ElementOfSeq
  <2>2. SeenLog(Append(s, line)) \in [1 .. Len(s) + 1 -> Pairs]
    BY <1>1, <2>1 DEF SeenLog
  <2>3. Len(s) + 1 \in Nat
    BY <1>1
  <2> HIDE DEF Pairs
  <2>4. SeenLog(Append(s, line)) \in Seq(Pairs)
    BY <2>2, <2>3, IsASeq
  <2>5. Len(SeenLog(Append(s, line))) = Len(s) + 1
    BY <1>1, <2>3, <2>4, LenProperties DEF SeenLog
  <2> QED
    BY <1>1, <2>4, <2>5 DEF SeenLog
<1>4. Seen(line) \in Pairs
  OBVIOUS
<1> HIDE DEF Pairs
<1>5. /\ Append(SeenLog(s), Seen(line)) \in Seq(Pairs)
      /\ Len(Append(SeenLog(s), Seen(line))) = Len(s) + 1
      /\ \A i \in 1 .. Len(s) : Append(SeenLog(s), Seen(line))[i] = Seen(s[i])
      /\ Append(SeenLog(s), Seen(line))[Len(s) + 1] = Seen(line)
  BY <1>2, <1>4, AppendProperties
<1>6. \A i \in 1 .. Len(s) + 1 :
        SeenLog(Append(s, line))[i] = Append(SeenLog(s), Seen(line))[i]
  BY <1>1, <1>3, <1>5
<1>7. SeenLog(Append(s, line)) = Append(SeenLog(s), Seen(line))
  BY <1>3, <1>5, <1>6, SeqEqual
<1>8. SeenLog(s) = << >> <=> s = << >>
  BY <1>1, <1>2, EmptySeq
<1> QED
  BY <1>7, <1>8

\* How the log of the files changes with the disk.
LEMMA LogSteps ==
  ASSUME TypeOK
  PROVE  /\ UNCHANGED <<disk, gz_files>> => FileLog' = FileLog
         /\ \A n \in gz_files : FileLog[n] = << >> <=> disk[n] = << >>
         /\ \A n \in gz_files, line \in LineType :
              gz_files' = gz_files /\ disk' = [disk EXCEPT ![n] = Append(@, line)] =>
                FileLog' = [FileLog EXCEPT ![n] = Append(@, Seen(line))]
         /\ \A n \in Names \ gz_files :
              gz_files' = gz_files \cup {n} /\ disk' = [disk EXCEPT ![n] = << >>] =>
                FileLog' = FileLog
<1>0. StaleLine \in LineType
  BY DEF StaleLine, Line, LineType, Kinds
<1>1. gz_files \subseteq Names /\ disk \in [Names -> Seq(LineType)]
  BY DEF TypeOK, LoggerTypeOK
<1>2. FileLog = [n \in Names |-> IF n \in gz_files THEN SeenLog(disk[n]) ELSE << >>]
  BY DEF FileLog, SeenLog, Seen
<1>3. FileLog' = [n \in Names |-> IF n \in gz_files' THEN SeenLog(disk'[n]) ELSE << >>]
  BY DEF FileLog, SeenLog, Seen
<1>4. \A n \in gz_files : FileLog[n] = << >> <=> disk[n] = << >>
  <2> SUFFICES ASSUME NEW n \in gz_files PROVE FileLog[n] = << >> <=> disk[n] = << >>
    OBVIOUS
  <2>1. FileLog[n] = SeenLog(disk[n]) /\ disk[n] \in Seq(LineType)
    BY <1>1, <1>2
  <2> QED
    BY <1>0, <2>1, SeenAppend
<1>5. ASSUME NEW n \in gz_files, NEW line \in LineType,
             gz_files' = gz_files, disk' = [disk EXCEPT ![n] = Append(@, line)]
      PROVE  FileLog' = [FileLog EXCEPT ![n] = Append(@, Seen(line))]
  <2>1. n \in Names /\ disk[n] \in Seq(LineType)
    BY <1>1
  <2>2. disk'[n] = Append(disk[n], line) /\ \A m \in Names \ {n} : disk'[m] = disk[m]
    BY <1>1, <1>5, <2>1
  <2>3. SeenLog(disk'[n]) = Append(SeenLog(disk[n]), Seen(line))
    BY <2>1, <2>2, SeenAppend
  <2>4. FileLog[n] = SeenLog(disk[n]) /\ FileLog'[n] = SeenLog(disk'[n])
    BY <1>2, <1>3, <1>5, <2>1
  <2>5. ASSUME NEW m \in Names \ {n} PROVE FileLog'[m] = FileLog[m]
    BY <1>2, <1>3, <1>5, <2>2
  <2>6. FileLog = [m \in Names |-> FileLog[m]] /\ FileLog' = [m \in Names |-> FileLog'[m]]
    BY <1>2, <1>3
  <2> HIDE DEF FileLog
  <2> QED
    BY <2>1, <2>3, <2>4, <2>5, <2>6
<1>6. ASSUME NEW n \in Names \ gz_files, gz_files' = gz_files \cup {n},
             disk' = [disk EXCEPT ![n] = << >>]
      PROVE  FileLog' = FileLog
  <2>1. SeenLog(<< >>) = << >>
    <3>1. << >> \in Seq(LineType)
      BY EmptySeq
    <3> QED
      BY <1>0, <3>1, SeenAppend
  <2>2. disk'[n] = << >> /\ \A m \in Names \ {n} : disk'[m] = disk[m]
    BY <1>1, <1>6
  <2>3. ASSUME NEW m \in Names
        PROVE  (IF m \in gz_files' THEN SeenLog(disk'[m]) ELSE << >>)
                 = (IF m \in gz_files THEN SeenLog(disk[m]) ELSE << >>)
    BY <1>6, <2>1, <2>2
  <2> QED
    BY <1>2, <1>3, <2>3
<1>7. UNCHANGED <<disk, gz_files>> => FileLog' = FileLog
  BY <1>2, <1>3
<1> QED
  BY <1>4, <1>5, <1>6, <1>7

\* Thread t is in a span, which goes on as long as its file is open.
InSpan(t) == ~do_not_log(t) /\ pc[t] \in AfterEntry

SpanMap ==
  /\ Spanned \subseteq Names /\ Spanned \cap closed = {} /\ SpanCount \in [Names -> Nat]
  /\ \A t \in Threads : InSpan(t) /\ FileFor(t) \notin closed =>
       FileFor(t) \in Spanned /\ SpanCount[FileFor(t)] = trace[t].count
  /\ \A n \in Names :
       n \in closed \/ (\A t \in Threads : InSpan(t) => FileFor(t) # n) =>
         n \notin Spanned /\ SpanCount[n] = 0

\* A file is in a span if and only if the thread it belongs to is.
LEMMA SpanState ==
  ASSUME NEW S, NEW H, Separate(S, H)
  PROVE  SpanInv(S, H) => SpanMap
<1> SUFFICES ASSUME SpanInv(S, H) PROVE SpanMap
  OBVIOUS
<1>1. /\ TypeOK /\ gz_files \subseteq Names
      /\ trace \in [Threads -> TraceInfo \cup {NoTrace}]
  BY DEF SpanInv, ShelterInv, InsideInv, TypeInv, TypeOK, LoggerTypeOK
<1>2. ASSUME NEW t \in Threads, InSpan(t)
      PROVE  /\ trace[t].file = FileFor(t) /\ FileFor(t) \in gz_files
             /\ trace[t].count \in Nat
  <2>1. pc[t] \notin Unopened \cup {"closing"}
    BY <1>2 DEF InSpan, AfterEntry, Unopened
  <2>2. trace[t] \in TraceInfo
    BY <1>1, <1>2, TraceTyped DEF InSpan
  <2> QED
    BY <1>2, <2>1, <2>2, OwnFile DEF InSpan, TraceInfo
<1>3. \A n : SpanWriters(n) = {t \in Threads : InSpan(t) /\ FileFor(t) = n}
  BY <1>2 DEF SpanWriters, InSpan
<1>4. ASSUME NEW t \in Threads, InSpan(t) PROVE SpanWriters(FileFor(t)) = {t}
  BY <1>3, <1>4 DEF Separate, SeparateFiles
<1>5. ASSUME NEW n \in Names
      PROVE  /\ n \in Spanned <=> n \in gz_files \ closed /\ SpanWriters(n) # {}
             /\ SpanCount[n] = IF n \in Spanned
                               THEN trace[CHOOSE t \in SpanWriters(n) : TRUE].count ELSE 0
  BY DEF Spanned, SpanCount
<1>6. ASSUME NEW t \in Threads, InSpan(t), FileFor(t) \notin closed
      PROVE  FileFor(t) \in Spanned /\ SpanCount[FileFor(t)] = trace[t].count
  <2>1. (CHOOSE u \in SpanWriters(FileFor(t)) : TRUE) = t
    BY <1>4, <1>6
  <2>2. FileFor(t) \in gz_files /\ FileFor(t) \in Names
    BY <1>1, <1>2, <1>6
  <2> QED
    BY <1>4, <1>5, <1>6, <2>1, <2>2
<1>7. ASSUME NEW n \in Names,
             n \in closed \/ (\A t \in Threads : InSpan(t) => FileFor(t) # n)
      PROVE  n \notin Spanned /\ SpanCount[n] = 0
  BY <1>3, <1>5, <1>7
<1>8. ASSUME NEW n \in Names PROVE SpanCount[n] \in Nat
  <2>1. CASE \E t \in Threads : InSpan(t) /\ FileFor(t) = n /\ n \notin closed
    BY <1>2, <1>6, <2>1
  <2> QED
    BY <1>7, <2>1
<1>9. SpanCount \in [Names -> Nat]
  BY <1>8 DEF SpanCount
<1>10. Spanned \subseteq Names /\ Spanned \cap closed = {}
  BY <1>1 DEF Spanned
<1> QED
  BY <1>6, <1>7, <1>9, <1>10 DEF SpanMap

\* A step changes the span of the file of its thread only.
LEMMA SpanUpdate ==
  ASSUME NEW S, NEW H, Separate(S, H), SpanInv(S, H), SpanInv(S, H)', NEW t \in Threads,
         Step(t), closed' = closed
  PROVE  LET n  == FileFor(t)
             on == InSpan(t)' /\ n \notin closed
         IN  /\ Spanned' = IF on THEN Spanned \cup {n} ELSE Spanned \ {n}
             /\ SpanCount' = [SpanCount EXCEPT ![n] = IF on THEN trace'[t].count ELSE 0]
<1> DEFINE n  == FileFor(t)
           on == InSpan(t)' /\ n \notin closed
<1>1. SpanMap
  BY SpanState
<1>2. SpanInv(S, H)' => SpanMap'
  BY SpanState, PTL
<1>3. n \in Names /\ \A u \in Threads \ {t} : FileFor(u) # n
  BY OwnFile DEF Separate, SeparateFiles
<1>4. ASSUME NEW u \in Threads \ {t}
      PROVE  trace'[u] = trace[u] /\ (InSpan(u)' <=> InSpan(u))
  BY StepFrame DEF SpanInv, ShelterInv, InsideInv, TypeInv, InSpan, do_not_log, AfterEntry, Labels
<1>5. /\ on => n \in Spanned' /\ SpanCount'[n] = trace'[t].count
      /\ ~on => n \notin Spanned' /\ SpanCount'[n] = 0
  BY <1>2, <1>3 DEF SpanMap
<1>6. ASSUME NEW m \in Names \ {n}
      PROVE  (m \in Spanned' <=> m \in Spanned) /\ SpanCount'[m] = SpanCount[m]
  <2>1. CASE m \in closed \/ \A u \in Threads : InSpan(u) => FileFor(u) # m
    <3>1. m \notin Spanned /\ SpanCount[m] = 0
      BY <1>1, <2>1 DEF SpanMap
    <3>2. m \in closed' \/ \A u \in Threads : InSpan(u)' => FileFor(u) # m
      BY <1>4, <2>1
    <3>3. m \notin Spanned' /\ SpanCount'[m] = 0
      BY <1>2, <3>2 DEF SpanMap
    <3> QED
      BY <3>1, <3>3
  <2>2. ASSUME NEW u \in Threads, InSpan(u), FileFor(u) = m, m \notin closed
        PROVE  (m \in Spanned' <=> m \in Spanned) /\ SpanCount'[m] = SpanCount[m]
    <3>1. u # t
      BY <2>2
    <3>2. m \in Spanned /\ SpanCount[m] = trace[u].count
      BY <1>1, <2>2 DEF SpanMap
    <3>3. m \in Spanned' /\ SpanCount'[m] = trace'[u].count
      BY <1>2, <1>4, <2>2, <3>1 DEF SpanMap
    <3> QED
      BY <1>4, <3>1, <3>2, <3>3
  <2> QED
    BY <2>1, <2>2
<1>7. /\ Spanned \subseteq Names /\ Spanned' \subseteq Names
      /\ SpanCount \in [Names -> Nat] /\ SpanCount' \in [Names -> Nat]
  BY <1>1, <1>2 DEF SpanMap
<1>8. Spanned' = IF on THEN Spanned \cup {n} ELSE Spanned \ {n}
  BY <1>3, <1>5, <1>6, <1>7
<1>9. SpanCount' = [SpanCount EXCEPT ![n] = IF on THEN trace'[t].count ELSE 0]
  <2> HIDE DEF n, on
  <2>1. SpanCount'[n] = IF on THEN trace'[t].count ELSE 0
    BY <1>5
  <2> QED
    BY <1>3, <1>6, <1>7, <2>1
<1> QED
  BY <1>8, <1>9

\* A step that writes nothing, closes nothing, and neither starts nor ends a span nor
\* counts an instruction in one.
LEMMA Stutters ==
  ASSUME NEW S, NEW H, Separate(S, H), SpanInv(S, H), SpanInv(S, H)', NEW t \in Threads,
         Step(t), closed' = closed, FileLog' = FileLog,
         \/ FileFor(t) \in closed
         \/ ~InSpan(t) /\ ~InSpan(t)'
         \/ InSpan(t) /\ InSpan(t)' /\ trace'[t].count = trace[t].count
  PROVE  UNCHANGED Files!vars
<1> DEFINE n == FileFor(t)
<1>1. SpanMap /\ n \in Names
  BY SpanState, OwnFile
<1>2. CASE n \in closed \/ (~InSpan(t) /\ ~InSpan(t)')
  <2>1. n \notin Spanned /\ SpanCount[n] = 0
    <3>1. ~InSpan(t) => \A u \in Threads : InSpan(u) => FileFor(u) # n
      BY DEF Separate, SeparateFiles
    <3> QED
      BY <1>1, <1>2, <3>1 DEF SpanMap
  <2>2. Spanned' = Spanned \ {n} /\ SpanCount' = [SpanCount EXCEPT ![n] = 0]
    BY <1>2, SpanUpdate
  <2>3. Spanned' = Spanned /\ SpanCount' = SpanCount
    BY <1>1, <2>1, <2>2 DEF SpanMap
  <2> QED
    BY <2>3 DEF Files!vars
<1>3. CASE /\ n \notin closed /\ InSpan(t) /\ InSpan(t)'
           /\ trace'[t].count = trace[t].count
  <2>1. n \in Spanned /\ SpanCount[n] = trace[t].count
    BY <1>1, <1>3 DEF SpanMap
  <2>2. Spanned' = Spanned \cup {n} /\ SpanCount' = [SpanCount EXCEPT ![n] = trace'[t].count]
    BY <1>3, SpanUpdate
  <2>3. Spanned' = Spanned /\ SpanCount' = SpanCount
    BY <1>1, <1>3, <2>1, <2>2 DEF SpanMap
  <2> QED
    BY <2>3 DEF Files!vars
<1> QED
  BY <1>2, <1>3

\* A step that damages no file, on a thread whose file is not damaged.
Harmless(t) == FileFor(t) \notin DamagedFiles /\ DamagedFiles' = DamagedFiles

\* Appending a line to a file that is not damaged does not make it look damaged.
LEMMA DamageIsNoLine ==
  ASSUME TypeOK, NEW n, NEW line \in LineType \ {DamagedLine}, gz_files' = gz_files,
         disk' = [disk EXCEPT ![n] = Append(@, line)], ~Damaged(n)
  PROVE  DamagedFiles' = DamagedFiles
<1>1. disk \in [Names -> Seq(LineType)] /\ gz_files \subseteq Names
  BY DEF TypeOK, LoggerTypeOK
<1>2. n \in Names => Append(disk[n], line) # <<DamagedLine>>
  <2>1. ASSUME NEW lines \in Seq(LineType)
        PROVE  /\ Len(Append(lines, line)) = Len(lines) + 1 /\ Len(lines) \in Nat
               /\ Append(lines, line)[Len(lines) + 1] = line
    BY <2>1, AppendProperties, LenProperties
  <2>2. Len(<<DamagedLine>>) = 1 /\ <<DamagedLine>>[1] = DamagedLine
    OBVIOUS
  <2>3. ASSUME NEW lines \in Seq(LineType), Append(lines, line) = <<DamagedLine>> PROVE FALSE
    BY <2>1, <2>2, <2>3
  <2> QED
    BY <1>1, <2>3
<1>3. \A m \in Names \ {n} : disk'[m] = disk[m]
  BY <1>1
<1>4. n \in Names => disk'[n] = Append(disk[n], line)
  BY <1>1
<1> QED
  BY <1>1, <1>2, <1>3, <1>4 DEF DamagedFiles, Damaged

LEMMA NoNewDamage ==
  ASSUME TypeOK, NEW n \in gz_files, Damage(n), gz_files' = gz_files
  PROVE  \/ n \in DamagedFiles /\ disk' = disk /\ DamagedFiles' = DamagedFiles
         \/ n \notin DamagedFiles /\ DamagedFiles' = DamagedFiles \cup {n}
<1>1. n \in Names /\ disk \in [Names -> Seq(LineType)] /\ gz_files \subseteq Names
  BY DEF TypeOK, LoggerTypeOK
<1>2. /\ disk'[n] = <<DamagedLine>> /\ \A m \in Names \ {n} : disk'[m] = disk[m]
      /\ disk = [m \in Names |-> disk[m]] /\ disk' = [m \in Names |-> disk'[m]]
  BY <1>1 DEF Damage
<1>3. CASE n \in DamagedFiles
  <2>1. disk'[n] = disk[n]
    BY <1>2, <1>3 DEF DamagedFiles, Damaged
  <2>2. disk' = disk
    BY <1>1, <1>2, <2>1
  <2> QED
    BY <1>3, <2>2 DEF DamagedFiles, Damaged
<1>4. CASE n \notin DamagedFiles
  BY <1>1, <1>2, <1>4 DEF DamagedFiles, Damaged
<1> QED
  BY <1>3, <1>4

\* A line a thread writes is added to its file, unless fin_main has closed it.
LEMMA WriteLine ==
  ASSUME NEW S, NEW H, Separate(S, H), SpanInv(S, H), NEW t \in Threads, AtWrite(t),
         NEW line \in LineType, gzprintf(t, line, Racing(t)), Harmless(t)
  PROVE  LET n == FileFor(t)
         IN  /\ closed' = closed
             /\ \/ n \in closed /\ FileLog' = FileLog
                \/ /\ n \in gz_files \ closed
                   /\ FileLog' = [FileLog EXCEPT ![n] = Append(@, Seen(line))]
<1> DEFINE n == FileFor(t)
<1>1. /\ trace[t].file = n /\ n \in gz_files /\ n \in Names /\ ~Racing(t)
      /\ TypeOK /\ gz_files \subseteq Names /\ ~Damaged(n)
  BY OwnFile, NoRacing
     DEF SpanInv, ShelterInv, InsideInv, TypeInv, TypeOK, LoggerTypeOK, Harmless, DamagedFiles
<1>2. UNCHANGED <<gz_files, closed>>
  BY DEF gzprintf
<1>3. CASE n \in closed
  <2>1. disk' = disk
    <3>1. ASSUME NEW m \in gz_files, Damage(m) PROVE disk' = disk
      BY <1>1, <1>2, <3>1, NoNewDamage DEF Harmless
    <3> QED
      BY <1>1, <1>3, <3>1 DEF gzprintf, undefined
  <2> QED
    BY <1>1, <1>2, <1>3, <2>1, LogSteps
<1>4. CASE n \notin closed
  <2>1. disk' = [disk EXCEPT ![n] = Append(@, line)]
    BY <1>1, <1>4 DEF gzprintf
  <2>2. FileLog' = [FileLog EXCEPT ![n] = Append(@, Seen(line))]
    BY <1>1, <1>2, <2>1, LogSteps
  <2> QED
    BY <1>1, <1>2, <1>4, <2>2
<1> QED
  BY <1>3, <1>4

\* The label map opens a file.
LEMMA RefineLabelmap ==
  ASSUME NEW S, NEW H, Separate(S, H), FilesInv(S, H), SpanInv(S, H)', NEW t \in Threads,
         Step(t), WriteLabelmap(t), Harmless(t)
  PROVE  Files!Open(FileFor(t)) \/ UNCHANGED Files!vars
<1> DEFINE n == FileFor(t)
           kind == IF labelmap THEN "labelmap" ELSE "no labelmap"
           line == Line(kind, NoThread, NoFunc, "none", 0)
<1>1. /\ SpanInv(S, H) /\ TypeOK /\ pc[t] = "labelmap" /\ pc'[t] = "unlock" /\ AtWrite(t)
      /\ gzprintf(t, line, Racing(t)) /\ closed' = closed
  BY DEF FilesInv, SpanInv, ShelterInv, InsideInv, TypeInv, TypeOK, WriteLabelmap,
         write_labelmap, gzprintf, Goto, AtWrite
<1>2. ~InSpan(t) /\ ~InSpan(t)'
  BY <1>1 DEF InSpan, AfterEntry
<1>3. line \in LineType /\ Seen(line) = <<kind, 0>>
  BY DEF Line, LineType, Kinds, Seen
<1>4. \/ n \in closed /\ FileLog' = FileLog
      \/ /\ n \in gz_files \ closed
         /\ FileLog' = [FileLog EXCEPT ![n] = Append(@, <<kind, 0>>)]
  <2> HIDE DEF line, kind
  <2> QED
    BY <1>1, <1>3, WriteLine
<1>5. CASE FileLog' = FileLog
  BY <1>1, <1>2, <1>5, Stutters
<1>6. CASE /\ n \in gz_files \ closed
           /\ FileLog' = [FileLog EXCEPT ![n] = Append(@, <<kind, 0>>)]
  <2>1. FileLog[n] = << >>
    <3>1. Opening(t, n)
      BY <1>1, OwnFile DEF Opening
    <3> QED
      BY <1>1, <1>6, <3>1, LogSteps DEF FilesInv, EmptyInv, Harmless, DamagedFiles
  <2>2. UNCHANGED <<Spanned, SpanCount>>
    <3>1. Spanned' = Spanned \ {n} /\ SpanCount' = [SpanCount EXCEPT ![n] = 0]
      BY <1>1, <1>2, SpanUpdate
    <3>2. SpanMap /\ n \in Names
      BY <1>1, SpanState, OwnFile
    <3>3. n \notin Spanned /\ SpanCount[n] = 0
      BY <1>2, <3>2 DEF SpanMap, Separate, SeparateFiles
    <3> QED
      BY <3>1, <3>2, <3>3 DEF SpanMap
  <2>3. kind \in {"labelmap", "no labelmap"}
    OBVIOUS
  <2> HIDE DEF kind
  <2> QED
    BY <1>1, <1>6, <2>1, <2>2, <2>3 DEF Files!Open, Files!Write
<1> QED
  BY <1>4, <1>5, <1>6

\* The entry line starts a span.
LEMMA RefineEntry ==
  ASSUME NEW S, NEW H, Separate(S, H), FilesInv(S, H), SpanInv(S, H)', NEW t \in Threads,
         Step(t), PrintEntry(t), Harmless(t)
  PROVE  Files!Entry(FileFor(t)) \/ UNCHANGED Files!vars
<1> DEFINE n == FileFor(t)
           line == Line("entry", t, Top(t), "none", 0)
<1>1. /\ SpanInv(S, H) /\ TypeOK /\ pc[t] = "print" /\ pc'[t] = "args" /\ AtWrite(t)
      /\ gzprintf(t, line, Racing(t)) /\ closed' = closed /\ trace' = trace
  BY DEF FilesInv, SpanInv, ShelterInv, InsideInv, TypeInv, TypeOK, PrintEntry,
         print_entry, gzprintf, Goto, AtWrite
<1>2. ~do_not_log(t) /\ trace[t].count = 0 /\ trace[t] # NoTrace
  <2>1. ~do_not_log(t) /\ trace[t] # NoTrace
    BY <1>1, OwnFile DEF do_not_log
  <2> QED
    BY <1>1, <2>1 DEF SpanInv, FileOK, InOpen
<1>3. ~InSpan(t) /\ InSpan(t)'
  BY <1>1, <1>2 DEF InSpan, AfterEntry, Labels, do_not_log
<1>4. line \in LineType /\ Seen(line) = <<"entry", 0>>
  BY <1>1, TraceTyped DEF Line, LineType, Kinds, Seen
<1>5. \/ n \in closed /\ FileLog' = FileLog
      \/ /\ n \in gz_files \ closed
         /\ FileLog' = [FileLog EXCEPT ![n] = Append(@, <<"entry", 0>>)]
  <2> HIDE DEF line
  <2> QED
    BY <1>1, <1>4, WriteLine
<1>6. CASE n \in closed /\ FileLog' = FileLog
  BY <1>1, <1>6, Stutters
<1>7. CASE /\ n \in gz_files \ closed
           /\ FileLog' = [FileLog EXCEPT ![n] = Append(@, <<"entry", 0>>)]
  <2>1. FileLog[n] # << >>
    <3>1. ASSUME NEW u \in Threads PROVE ~Opening(u, n)
      <4>1. Opening(u, n) => FileFor(u) = n
        BY <1>1, OwnFile DEF Opening, AtWrite
      <4>2. FileFor(u) = n => u = t
        BY DEF Separate, SeparateFiles
      <4> QED
        BY <1>1, <4>1, <4>2 DEF Opening
    <3> QED
      BY <1>1, <1>7, <3>1, LogSteps DEF FilesInv, EmptyInv, Harmless, DamagedFiles
  <2>2. SpanMap /\ n \in Names
    BY <1>1, SpanState, OwnFile
  <2>3. n \notin Spanned /\ SpanCount[n] = 0
    BY <1>3, <2>2 DEF SpanMap, Separate, SeparateFiles
  <2>4. Spanned' = Spanned \cup {n} /\ SpanCount' = [SpanCount EXCEPT ![n] = trace'[t].count]
    BY <1>1, <1>3, <1>7, SpanUpdate
  <2>5. SpanCount' = SpanCount
    BY <1>1, <1>2, <2>2, <2>3, <2>4 DEF SpanMap
  <2> QED
    BY <1>1, <1>7, <2>1, <2>3, <2>4, <2>5 DEF Files!Entry, Files!Write
<1> QED
  BY <1>5, <1>6, <1>7

\* The lines of an instruction: the first one counts it.
LEMMA RefineInstruction ==
  ASSUME NEW S, NEW H, Separate(S, H), SpanInv(S, H), SpanInv(S, H)', NEW t \in Threads,
         Step(t), Harmless(t)
  PROVE  /\ Header(t) => Files!Instruction(FileFor(t)) \/ UNCHANGED Files!vars
         /\ Operands(t) \/ Args(t) \/ Result(t) =>
              Files!Value(FileFor(t)) \/ UNCHANGED Files!vars
<1> DEFINE n == FileFor(t)
<1>1. /\ TypeOK /\ pc \in [Threads -> Labels] /\ SpanMap /\ n \in Names
      /\ trace \in [Threads -> TraceInfo \cup {NoTrace}]
  BY SpanState, OwnFile
     DEF SpanInv, ShelterInv, InsideInv, TypeInv, TypeOK, LoggerTypeOK
<1>2. ASSUME do_not_log(t), UNCHANGED loggerVars PROVE UNCHANGED Files!vars
  <2>1. FileLog' = FileLog
    BY <1>1, <1>2, LogSteps DEF loggerVars
  <2>2. closed' = closed /\ ~InSpan(t) /\ ~InSpan(t)'
    BY <1>2 DEF InSpan, do_not_log, loggerVars
  <2> QED
    BY <2>1, <2>2, Stutters
<1>3. ASSUME Header(t), ~do_not_log(t)
      PROVE  Files!Instruction(n) \/ UNCHANGED Files!vars
  <2> DEFINE line == Line("inst", t, Top(t), instr[t].op, trace[t].count)
  <2>1. /\ trace[t] \in TraceInfo /\ trace[t] # NoTrace
        /\ pc[t] = "header" /\ pc'[t] = "operands" /\ gzprintf(t, line, Racing(t))
        /\ trace' = [trace EXCEPT ![t].count = @ + 1]
    BY <1>1, <1>3, TraceTyped DEF Header, trace_logger_log0, do_not_log, loggerVars, Goto
  <2>2. /\ trace'[t] # NoTrace /\ trace'[t].status = trace[t].status
        /\ trace'[t].count = trace[t].count + 1
    <3>1. trace'[t] = [trace[t] EXCEPT !.count = @ + 1]
      BY <1>1, <2>1
    <3> QED
      BY <2>1, <3>1, OneField
  <2>3. InSpan(t) /\ InSpan(t)' /\ AtWrite(t)
    BY <1>3, <2>1, <2>2 DEF InSpan, AfterEntry, Labels, do_not_log, AtWrite
  <2>4. line \in LineType /\ Seen(line) = <<"inst", trace[t].count>>
    <3>1. instr[t].op \in Ops /\ Top(t) \in Funcs /\ trace[t].count \in Nat
      BY <1>1, <2>1, TraceTyped DEF TypeOK, InstrType, Ops, TraceInfo
    <3> QED
      BY <3>1 DEF Line, LineType, Kinds, Seen, Ops
  <2>5. /\ closed' = closed
        /\ \/ n \in closed /\ FileLog' = FileLog
           \/ /\ n \in gz_files \ closed
              /\ FileLog' = [FileLog EXCEPT ![n] = Append(@, <<"inst", trace[t].count>>)]
    <3> HIDE DEF line
    <3> QED
      BY <2>1, <2>3, <2>4, WriteLine
  <2>6. CASE n \in closed /\ FileLog' = FileLog
    BY <2>5, <2>6, Stutters
  <2>7. CASE /\ n \in gz_files \ closed
             /\ FileLog' = [FileLog EXCEPT ![n] = Append(@, <<"inst", trace[t].count>>)]
    <3>1. n \in Spanned /\ SpanCount[n] = trace[t].count
      BY <1>1, <2>3, <2>7 DEF SpanMap
    <3>2. /\ Spanned' = Spanned \cup {n}
          /\ SpanCount' = [SpanCount EXCEPT ![n] = trace'[t].count]
      BY <2>3, <2>5, <2>7, SpanUpdate
    <3>3. Spanned' = Spanned /\ SpanCount' = [SpanCount EXCEPT ![n] = @ + 1]
      BY <1>1, <2>2, <3>1, <3>2 DEF SpanMap
    <3> QED
      BY <2>5, <2>7, <3>1, <3>3 DEF Files!Instruction, Files!Write
  <2> QED
    BY <2>5, <2>6, <2>7
<1>4. ASSUME NEW kind \in {"param", "result"}, ~do_not_log(t),
             trace_logger_log_value(t, kind, Top(t), Racing(t)),
             pc[t] \in {"operands", "args", "result"}, pc'[t] \in {"status_ret", "exec", "run"}
      PROVE  Files!Value(n) \/ UNCHANGED Files!vars
  <2> DEFINE line == Line(kind, t, Top(t), "none", 0)
  <2>1. gzprintf(t, line, Racing(t)) /\ trace' = trace
    BY <1>4 DEF trace_logger_log_value
  <2>2. InSpan(t) /\ InSpan(t)' /\ AtWrite(t)
    BY <1>4, <2>1 DEF InSpan, AfterEntry, Labels, do_not_log, AtWrite
  <2>3. line \in LineType /\ Seen(line) = <<kind, 0>>
    BY <1>1, TraceTyped DEF Line, LineType, Kinds, Seen
  <2>4. /\ closed' = closed
        /\ \/ n \in closed /\ FileLog' = FileLog
           \/ /\ n \in gz_files \ closed
              /\ FileLog' = [FileLog EXCEPT ![n] = Append(@, <<kind, 0>>)]
    <3> HIDE DEF line
    <3> QED
      BY <2>1, <2>2, <2>3, WriteLine
  <2>5. CASE n \in closed /\ FileLog' = FileLog
    BY <2>4, <2>5, Stutters
  <2>6. CASE /\ n \in gz_files \ closed
             /\ FileLog' = [FileLog EXCEPT ![n] = Append(@, <<kind, 0>>)]
    <3>1. n \in Spanned /\ SpanCount[n] = trace[t].count
      BY <1>1, <2>2, <2>6 DEF SpanMap
    <3>2. /\ Spanned' = Spanned \cup {n}
          /\ SpanCount' = [SpanCount EXCEPT ![n] = trace'[t].count]
      BY <2>2, <2>4, <2>6, SpanUpdate
    <3>3. Spanned' = Spanned /\ SpanCount' = SpanCount
      BY <1>1, <2>1, <3>1, <3>2 DEF SpanMap
    <3> QED
      BY <2>4, <2>6, <3>1, <3>3 DEF Files!Value, Files!Write
  <2> QED
    BY <2>4, <2>5, <2>6
<1>5. ASSUME Header(t) PROVE Files!Instruction(n) \/ UNCHANGED Files!vars
  BY <1>2, <1>3, <1>5 DEF Header, trace_logger_log0
<1>6. ASSUME Operands(t) \/ Args(t) \/ Result(t)
      PROVE  Files!Value(n) \/ UNCHANGED Files!vars
  <2>1. PICK kind \in {"param", "result"} :
          trace_logger_log_value(t, kind, Top(t), Racing(t))
    BY <1>6 DEF Operands, Args, Result
  <2>2. pc[t] \in {"operands", "args", "result"} /\ pc'[t] \in {"status_ret", "exec", "run"}
    BY <1>1, <1>6 DEF Operands, Args, Result, Goto
  <2> QED
    BY <1>2, <1>4, <2>1, <2>2 DEF trace_logger_log_value
<1> QED
  BY <1>5, <1>6

\* The return of the top-level function ends the span, that of a helper does not.
LEMMA RefineReturn ==
  ASSUME NEW S, NEW H, Separate(S, H), SpanInv(S, H), SpanInv(S, H)', NEW t \in Threads,
         Step(t), StatusRet(t)
  PROVE  Files!Finish(FileFor(t)) \/ UNCHANGED Files!vars
<1> DEFINE n == FileFor(t)
<1>1. /\ TypeOK /\ SpanMap /\ n \in Names /\ pc[t] = "status_ret" /\ pc'[t] = "exec"
      /\ trace \in [Threads -> TraceInfo \cup {NoTrace}]
  BY SpanState, OwnFile
     DEF SpanInv, ShelterInv, InsideInv, TypeInv, TypeOK, LoggerTypeOK, StatusRet, Goto
<1>2. FileLog' = FileLog /\ closed' = closed
  BY <1>1, LogSteps DEF StatusRet, trace_logger_update_status, unchangedFiles
<1>3. InSpan(t) <=> ~do_not_log(t)
  BY <1>1 DEF InSpan, AfterEntry, Labels
<1>4. InSpan(t)' <=> ~do_not_log(t)'
  BY <1>1 DEF InSpan, AfterEntry, Labels
<1>5. CASE Top(t) \in Traced
  <2>1. ~do_not_log(t) /\ trace'[t] = NoTrace
    BY <1>1, <1>5, ReturnTrace DEF Separate, SpanInv
  <2>2. InSpan(t) /\ ~InSpan(t)'
    BY <1>3, <1>4, <2>1 DEF do_not_log
  <2>3. CASE n \in closed
    BY <1>2, <2>3, Stutters
  <2>4. CASE n \notin closed
    <3>1. n \in Spanned
      BY <1>1, <2>2, <2>4 DEF SpanMap
    <3>2. Spanned' = Spanned \ {n} /\ SpanCount' = [SpanCount EXCEPT ![n] = 0]
      BY <1>2, <2>2, SpanUpdate
    <3> QED
      BY <1>2, <3>1, <3>2 DEF Files!Finish
  <2> QED
    BY <2>3, <2>4
<1>6. CASE Top(t) \notin Traced
  <2>1. \/ ~do_not_log(t) /\ ~do_not_log(t)' /\ trace'[t].count = trace[t].count
        \/ do_not_log(t) /\ do_not_log(t)'
    <3>1. CASE trace' = trace
      BY <3>1 DEF do_not_log
    <3>2. CASE trace' = [trace EXCEPT ![t] = NoTrace] /\ do_not_log(t)
      BY <1>1, <3>2 DEF do_not_log
    <3> QED
      BY <1>6, <3>1, <3>2, ReturnTrace DEF Separate, SpanInv
  <2> QED
    BY <1>2, <1>3, <1>4, <2>1, Stutters
<1> QED
  BY <1>5, <1>6

\* fin_main closes a file, which may be in the middle of a span.
LEMMA RefineClose ==
  ASSUME NEW S, NEW H, Separate(S, H), FilesInv(S, H), SpanInv(S, H)',
         NEW t \in Threads, NEW n \in closing, CloseNext(t), closed' = closed \cup {n}
  PROVE  /\ Spanned' = Spanned \ {n} /\ SpanCount' = [SpanCount EXCEPT ![n] = 0]
         /\ disk' = disk => Files!Close(n)
<1>1. UNCHANGED <<trace, gz_files, pc>>
  BY DEF CloseNext, close_next, progVars
<1>2. n \in Names /\ n \notin closed /\ TypeOK
  BY DEF FilesInv, WalkInv, SpanInv, ShelterInv, InsideInv, TypeInv, TypeOK, LoggerTypeOK
<1>3. \A m : SpanWriters(m)' = SpanWriters(m)
  BY <1>1 DEF SpanWriters, do_not_log
<1>4. Spanned' = Spanned \ {n}
  BY <1>1, <1>3 DEF Spanned
<1>5. SpanCount' = [SpanCount EXCEPT ![n] = 0]
  <2>1. SpanMap
    BY SpanState DEF FilesInv
  <2>2. SpanInv(S, H)' => SpanMap'
    BY SpanState, PTL
  <2>3. ASSUME NEW u \in Threads
        PROVE  (InSpan(u)' <=> InSpan(u)) /\ trace'[u] = trace[u]
    BY <1>1 DEF InSpan, do_not_log
  <2>4. n \in closed' /\ SpanCount'[n] = 0
    BY <1>1, <1>2, <2>2 DEF SpanMap
  <2>5. ASSUME NEW m \in Names, m # n PROVE SpanCount'[m] = SpanCount[m]
    <3>1. CASE m \in closed \/ \A u \in Threads : InSpan(u) => FileFor(u) # m
      <4>1. m \in closed' \/ \A u \in Threads : InSpan(u)' => FileFor(u) # m
        BY <1>1, <2>3, <3>1
      <4> QED
        BY <2>1, <2>2, <2>5, <3>1, <4>1 DEF SpanMap
    <3>2. ASSUME NEW u \in Threads, InSpan(u), FileFor(u) = m, m \notin closed
          PROVE  SpanCount'[m] = SpanCount[m]
      <4>1. InSpan(u)' /\ m \notin closed' /\ trace'[u] = trace[u]
        BY <1>1, <2>3, <2>5, <3>2
      <4> QED
        BY <2>1, <2>2, <3>2, <4>1 DEF SpanMap
    <3> QED
      BY <3>1, <3>2
  <2>6. SpanCount \in [Names -> Nat] /\ SpanCount' \in [Names -> Nat]
    BY <2>1, <2>2 DEF SpanMap
  <2> HIDE DEF SpanCount
  <2> QED
    BY <1>2, <2>4, <2>5, <2>6
<1>6. disk' = disk => FileLog' = FileLog
  BY <1>1, <1>2, LogSteps
<1> QED
  BY <1>1, <1>2, <1>4, <1>5, <1>6 DEF Files!Close

\* A top-level function is entered while the tracer is idle.
IdleEntries == \A t \in Threads : pc[t] = "status_in" => do_not_log(t)

LEMMA IdleAtEntry ==
  ASSUME NEW S, NEW H, Separate(S, H)
  PROVE  SpanInv(S, H) => IdleEntries
<1> SUFFICES ASSUME SpanInv(S, H), NEW t \in Threads, pc[t] = "status_in" PROVE do_not_log(t)
  BY DEF IdleEntries
<1>1. /\ NoNesting(S) /\ ThreadInv(S, t) /\ TypeOK /\ Top(t) \in Traced
      /\ Len(stack[t]) \in 1 .. Len(stack[t]) /\ Top(t) = stack[t][Len(stack[t])]
  BY DEF Separate, Confined, SpanInv, ShelterInv, InsideInv, TypeInv, TypeOK, ThreadInv, HookOK, Top
<1>2. ~InsideTraced(t)
  BY <1>1, OneTraced DEF InsideTraced, ThreadInv
<1> QED
  BY <1>1, <1>2 DEF ThreadInv, LogsInside

\* Nothing else shows in the files.
LEMMA RefineQuiet ==
  ASSUME NEW S, NEW H, Separate(S, H), SpanInv(S, H), SpanInv(S, H)', NEW t \in Threads,
         Step(t), ~Header(t), ~Operands(t), ~Args(t), ~Result(t), ~WriteLabelmap(t),
         ~PrintEntry(t), ~StatusRet(t), ~CloseNext(t)
  PROVE  UNCHANGED Files!vars
<1>1. /\ NoNesting(S) /\ InsideInv(S) /\ InsideInv(S)' /\ TypeInv /\ TypeOK
      /\ gz_files \subseteq Names /\ pc \in [Threads -> Labels]
      /\ trace \in [Threads -> TraceInfo \cup {NoTrace}]
      /\ ThreadInv(S, t)
  BY DEF Separate, Confined, SpanInv, ShelterInv, InsideInv, TypeInv, TypeOK, LoggerTypeOK
<1>2. closed' = closed
  BY <1>1, EndSteps DEF MainReturn, OpenFails, open_fails, exit, OpenFile, open_file
<1>3. FileLog' = FileLog
  <2>1. CASE OpenFile(t)
    <3>1. trace[t].name \in Names \ gz_files
      BY <1>1, <2>1 DEF OpenFile, open_file, TypeInv, HasTrace, InOpen, TraceInfo
    <3> QED
      BY <1>1, <2>1, <3>1, LogSteps DEF OpenFile, open_file
  <2>2. CASE ~OpenFile(t)
    <3>1. ~AtWrite(t) \/ disk' = disk
      <4>1. pc[t] \in {"labelmap", "print", "header", "operands", "args", "result"} => FALSE
        BY DEF Step, InitLogger, RegisterLabelmap, Choose, ExecPlain, ExecName, ExecSpawn,
               ExecCall, ExecRet, WorkerReturn, MainReturn, StatusIn, LogEntry, LockRegistry,
               FindFile, OpenFile, OpenFails, UnlockRegistry, FinMainDone
      <4> QED
        BY <4>1 DEF AtWrite
    <3>2. gz_files' = gz_files /\ disk' = disk
      BY <1>1, <2>2, <3>1, DiskSteps DEF Written
    <3> QED
      BY <1>1, <3>2, LogSteps
  <2> QED
    BY <2>1, <2>2
<1>4. CASE ~InSpan(t) /\ ~InSpan(t)'
  BY <1>2, <1>3, <1>4, Stutters
<1>5. CASE InSpan(t) /\ InSpan(t)' /\ trace'[t].count = trace[t].count
  BY <1>2, <1>3, <1>5, Stutters
<1>6. CASE trace' = trace /\ (pc'[t] \in AfterEntry <=> pc[t] \in AfterEntry)
  BY <1>4, <1>5, <1>6 DEF InSpan, do_not_log
<1>7. CASE \/ StatusIn(t) \/ LogEntry(t) \/ LockRegistry(t) \/ FindFile(t) \/ OpenFile(t)
           \/ OpenFails(t) \/ UnlockRegistry(t)
  <2>1. pc[t] \notin AfterEntry /\ pc'[t] \notin AfterEntry
    BY <1>1, <1>7, EntryTrace
       DEF StatusIn, LogEntry, LockRegistry, FindFile, OpenFile, OpenFails, UnlockRegistry,
           Goto, AfterEntry
  <2> QED
    BY <1>4, <2>1 DEF InSpan
<1>8. CASE \/ RegisterLabelmap(t) \/ Choose(t) \/ ExecPlain(t) \/ ExecRet(t)
           \/ WorkerReturn(t) \/ FinMainDone(t)
  <2>1. trace' = trace
    BY <1>1, <1>8
       DEF RegisterLabelmap, Choose, ExecPlain, ExecRet, WorkerReturn, FinMainDone,
           trace_logger_register_labelmap, fin_main_done, loggerVars
  <2>2. pc'[t] \in AfterEntry <=> pc[t] \in AfterEntry
    BY <1>1, <1>8
       DEF RegisterLabelmap, Choose, ExecPlain, ExecRet, WorkerReturn, FinMainDone,
           progVars, After, Goto, AfterEntry, Labels
  <2> QED
    BY <1>6, <2>1, <2>2
<1>9. CASE ExecSpawn(t)
  <2>1. trace' = trace /\ pc[t] = "exec" /\ pc'[t] \in {"run", "result"}
    BY <1>1, <1>9 DEF ExecSpawn, After, loggerVars
  <2> QED
    BY <1>6, <2>1 DEF AfterEntry, Labels
<1>10. CASE ExecCall(t)
  <2>1. trace' = trace /\ pc[t] = "exec" /\ pc'[t] \in {"run", "args", "status_in"}
    BY <1>1, <1>10 DEF ExecCall, EntryHook, Goto, loggerVars
  <2>2. CASE pc'[t] \in {"run", "args"}
    BY <1>6, <2>1, <2>2 DEF AfterEntry, Labels
  <2>3. CASE pc'[t] = "status_in"
    <3>1. SpanInv(S, H)' => IdleEntries'
      BY IdleAtEntry, PTL
    <3>2. do_not_log(t)' /\ do_not_log(t)
      BY <1>1, <2>1, <2>3, <3>1 DEF do_not_log, IdleEntries
    <3> QED
      BY <1>4, <3>2 DEF InSpan
  <2> QED
    BY <2>1, <2>2, <2>3
<1>11. CASE ExecName(t)
  <2>1. pc[t] = "exec" /\ pc'[t] \in {"run", "result"}
    BY <1>1, <1>11 DEF ExecName, After, Goto
  <2>2. NameOf[t] \in Names /\ llvmtracer_set_trace_name(t, NameOf[t])
    BY <1>1, <1>11, ProgramAssumption DEF ExecName, TypeInv, HasName
  <2>3. CASE trace[t] = NoTrace
    <3>1. trace'[t] = create_trace(NameOf[t])
      BY <1>1, <2>2, <2>3 DEF llvmtracer_set_trace_name
    <3> QED
      BY <1>4, <2>3, <3>1 DEF InSpan, do_not_log, create_trace
  <2>4. CASE trace[t] # NoTrace
    <3>1. trace'[t] = [trace[t] EXCEPT !.name = NameOf[t]] /\ trace[t] \in TraceInfo
      BY <1>1, <2>2, <2>4 DEF llvmtracer_set_trace_name
    <3>2. /\ trace'[t] # NoTrace /\ trace'[t].count = trace[t].count
          /\ trace'[t].status = trace[t].status
      BY <2>2, <3>1, OneField
    <3> QED
      BY <1>4, <1>5, <2>1, <2>4, <3>2 DEF InSpan, do_not_log, AfterEntry, Labels
  <2> QED
    BY <2>3, <2>4
<1>12. CASE InitLogger(t)
  <2>1. trace[t] = NoTrace /\ trace'[t] = create_trace(DefaultName)
    BY <1>1, <1>12 DEF InitLogger, trace_logger_init, ThreadInv, HookOK
  <2> QED
    BY <1>4, <2>1 DEF InSpan, do_not_log, create_trace
<1>13. CASE MainReturn(t)
  <2>1. Len(stack[t]) = 1 /\ pc[t] = "exec" /\ pc'[t] = "closing"
    BY <1>1, <1>13 DEF MainReturn, Goto
  <2>2. ~InsideTraced(t)
    BY <1>1, <2>1 DEF InsideTraced, ThreadInv, StackOK
  <2> QED
    BY <1>1, <1>4, <2>1, <2>2 DEF InSpan, ThreadInv, LogsInside, AfterEntry
<1> QED
  BY <1>7, <1>8, <1>9, <1>10, <1>11, <1>12, <1>13 DEF Step

\* Every step that damages nothing opens, extends or closes at most one file, as
\* TraceFiles allows.
LEMMA StepRefines ==
  ASSUME NEW S, NEW H, Separate(S, H), FilesInv(S, H), NEW t \in Threads, Step(t),
         Harmless(t), ~CloseNext(t)
  PROVE  Files!FileStep(FileFor(t)) \/ UNCHANGED Files!vars
<1>1. SpanInv(S, H) /\ SpanInv(S, H)'
  BY NextSpan DEF FilesInv, Next
<1>2. \/ UNCHANGED Files!vars
      \/ Files!Open(FileFor(t)) \/ Files!Entry(FileFor(t)) \/ Files!Instruction(FileFor(t))
      \/ Files!Value(FileFor(t)) \/ Files!Finish(FileFor(t))
  BY <1>1, RefineLabelmap, RefineEntry, RefineInstruction, RefineReturn, RefineQuiet
<1> QED
  BY <1>2 DEF Files!FileStep

----------------------------------------------------------------------------
(* Threads that main waits for.                                            *)

\* No stream is used by two threads, or after it was closed, and no file is damaged.
Undamaged(S, H) == FilesInv(S, H) /\ HeaderInv /\ DamagedFiles = {}

\* As long as a thread writes, fin_main has not started.
LEMMA NoUndefined ==
  ASSUME NEW S, NEW H, Separate(S, H), JoinsThreads, FilesInv(S, H), HeaderInv,
         NEW t \in Threads, AtWrite(t)
  PROVE  /\ trace[t].file \in gz_files \ (closed \cup closing) /\ ~Racing(t)
         /\ pc[Main] # "closing"
<1>1. trace[t].file \in gz_files
  BY OwnFile DEF FilesInv
<1>2. pc[Main] # "closing"
  <2>1. pc[t] \notin {"closing", "finished"}
    BY DEF AtWrite
  <2> QED
    BY <2>1, ProgramAssumption DEF HeaderInv, RegistryInv, CloseInv, Joined, Workers
<1>3. closed \cup closing = {}
  BY <1>2 DEF HeaderInv, ClosedInv
<1> QED
  BY <1>1, <1>2, <1>3, NoRacing DEF FilesInv

LEMMA NextUndamaged ==
  ASSUME NEW S, NEW H, Separate(S, H), JoinsThreads, ~OpenMayFail, Undamaged(S, H),
         [Next]_vars
  PROVE  Undamaged(S, H)'
<1>1. FilesInv(S, H)' /\ HeaderInv'
  BY NextFiles, NextHeader DEF Undamaged
<1>2. /\ TypeInv /\ TypeOK /\ gz_files \subseteq Names /\ disk \in [Names -> Seq(LineType)]
      /\ FilesInv(S, H) /\ HeaderInv
  BY DEF Undamaged, HeaderInv, RegistryInv, TypeInv, TypeOK, LoggerTypeOK
<1>3. ASSUME UNCHANGED vars PROVE DamagedFiles' = {}
  BY <1>3 DEF vars, Undamaged, DamagedFiles, Damaged
<1>4. ASSUME NEW t \in Threads, Step(t) PROVE DamagedFiles' = {}
  <2>1. ~ \E n \in gz_files : AtWrite(t) /\ Racing(t) /\ Damage(n)
    BY <1>2, NoUndefined
  <2>2. CASE CloseNext(t)
    <3>1. ASSUME NEW u \in Threads, NEW n \in closing PROVE ~Uses(u, n)
      BY <1>2, <3>1, NoUndefined DEF Uses
    <3>2. UNCHANGED <<gz_files, disk>>
      BY <2>2, <3>1 DEF CloseNext, close_next
    <3> QED
      BY <3>2 DEF Undamaged, DamagedFiles, Damaged
  <2>3. CASE OpenFile(t)
    <3> DEFINE n == trace[t].name
    <3>1. /\ gz_files' = gz_files \cup {n} /\ n \notin gz_files
          /\ disk' = [disk EXCEPT ![n] = << >>]
      BY <2>3 DEF OpenFile, open_file
    <3>2. gz_files' \subseteq Names
      BY <1>1 DEF HeaderInv, RegistryInv, TypeInv, TypeOK, LoggerTypeOK
    <3> HIDE DEF n
    <3>3. n \in Names /\ disk'[n] = << >> /\ \A m \in gz_files : disk'[m] = disk[m]
      BY <1>2, <3>1, <3>2
    <3>4. << >> # <<DamagedLine>>
      OBVIOUS
    <3> QED
      BY <3>1, <3>3, <3>4 DEF Undamaged, DamagedFiles, Damaged
  <2>4. CASE gz_files' = gz_files /\ disk' = disk
    BY <2>4 DEF Undamaged, DamagedFiles, Damaged
  <2>5. ASSUME NEW line \in LineType \ {DamagedLine}, AtWrite(t), gz_files' = gz_files,
               ~Damaged(trace[t].file),
               disk' = [disk EXCEPT ![trace[t].file] = Append(@, line)]
        PROVE  DamagedFiles' = {}
    BY <1>2, <2>5, DamageIsNoLine DEF Undamaged
  <2> QED
    BY <1>2, <1>4, <2>2, <2>3, <2>4, <2>5, DiskSteps, NoUndefined DEF Written, TypeInv, TypeOK, LoggerTypeOK
<1> QED
  BY <1>1, <1>3, <1>4 DEF Undamaged, Next, Stopped

\* If threads use files of their own and main waits for them, and every file can be
\* opened, the trace files are well formed, in every interleaving and until the end: each
\* starts with one label map, and consists of spans whose instructions are numbered 0, 1,
\* 2, ...; nothing is written between spans, and nothing after a file has been closed.
THEOREM FilesCorrect ==
  ASSUME NEW S, NEW H, Separate(S, H), JoinsThreads, ~OpenMayFail
  PROVE  Spec => WellFormedFiles
<1>1. Init => Undamaged(S, H)
  BY InitFiles, InitHeader DEF Undamaged, Init, LoggerInit, DamagedFiles
<1>2. Init => Files!Init
  <2> SUFFICES ASSUME Init PROVE Files!Init
    OBVIOUS
  <2>1. gz_files = {} /\ closed = {}
    BY DEF Init, LoggerInit
  <2> QED
    BY <2>1 DEF Files!Init, FileLog, Spanned, SpanCount
<1>3. Undamaged(S, H) /\ [Next]_vars => Undamaged(S, H)'
  BY NextUndamaged
<1>4. Undamaged(S, H) /\ Undamaged(S, H)' /\ [Next]_vars => [Files!Next]_Files!vars
  <2> SUFFICES ASSUME Undamaged(S, H), Undamaged(S, H)', [Next]_vars
               PROVE  [Files!Next]_Files!vars
    OBVIOUS
  <2>1. CASE UNCHANGED vars
    <3>1. /\ FileLog' = FileLog /\ Spanned' = Spanned /\ SpanCount' = SpanCount
          /\ closed' = closed
      BY <2>1 DEF vars, FileLog, Spanned, SpanCount, SpanWriters, do_not_log
    <3> QED
      BY <3>1 DEF Files!vars
  <2>2. ASSUME NEW t \in Threads, Step(t), ~CloseNext(t) PROVE [Files!Next]_Files!vars
    <3>1. Harmless(t) /\ FileFor(t) \in Names
      BY OwnFile DEF Undamaged, Harmless, FilesInv
    <3> QED
      BY <2>2, <3>1, StepRefines DEF Undamaged, Files!Next
  <2>3. ASSUME NEW t \in Threads, CloseNext(t) PROVE [Files!Next]_Files!vars
    <3>1. PICK n \in closing : close_next(n, \E u \in Threads : Uses(u, n))
      BY <2>3 DEF CloseNext
    <3>2. /\ n \in Names /\ SpanInv(S, H)' /\ n \in gz_files /\ TypeOK
          /\ closed' = closed \cup {n} /\ gz_files' = gz_files
      BY <3>1
         DEF Undamaged, FilesInv, SpanInv, ShelterInv, InsideInv, TypeInv, TypeOK, LoggerTypeOK,
             close_next
    <3>3. disk' = disk
      BY <3>1, <3>2, NoNewDamage DEF close_next, Undamaged
    <3> QED
      BY <2>3, <3>2, <3>3, RefineClose DEF Undamaged, Files!Next, Files!FileStep
  <2> QED
    BY <2>1, <2>2, <2>3 DEF Next, Stopped
<1> QED
  BY <1>1, <1>2, <1>3, <1>4, PTL DEF Spec, WellFormedFiles, Files!Spec
=============================================================================
