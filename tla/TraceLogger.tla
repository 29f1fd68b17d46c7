---------------------------- MODULE TraceLogger ----------------------------
(***************************************************************************)
(* The runtime library that an instrumented program links against          *)
(* (profile-func/trace_logger.cpp): a thread_local trace_info per thread,  *)
(* and, shared by all threads, the registry gz_files of open streams, the  *)
(* mutex that guards it, the label map text and the streams themselves.    *)
(*                                                                         *)
(* The operators below keep the names of the functions.  Each one is the   *)
(* effect of a call (or of one of its steps, where another thread can run  *)
(* in between) on the library's state; module TracedProgram calls them in  *)
(* the order in which the instrumentation pass inserts the calls.          *)
(*                                                                         *)
(* A stream is opened at most once per name, so a gzFile is represented by *)
(* the name it was opened under.  What the program prints on stdout is     *)
(* left out, and so is the text of a line beyond what Line records.        *)
(***************************************************************************)
EXTENDS Naturals, Sequences

CONSTANTS
  Threads,        \* threads of the process
  NoThread,       \* "nobody": the mutex is free, or the line is the library's
  Names,          \* names of trace files
  DefaultName,    \* default_trace_name
  NoFile,         \* the indeterminate value of a trace_file never assigned
  Funcs,          \* functions of the program
  NoFunc,         \* the empty string in current_toplevel_function
  NoTrace,        \* the null trace pointer
  Tracked,        \* tracked_functions: the functions WORKLOAD names
  TopLevelMode,   \* is_toplevel_mode, fixed when the program is instrumented
  HasLabelMap,    \* the instrumented module carries a label map
  OpenMayFail     \* gzopen may return NULL

VARIABLES
  trace,      \* thread_local trace, per thread
  gz_files,   \* keys of the map gz_files
  lock,       \* owner of the mutex
  labelmap,   \* labelmap_str holds the label map
  disk,       \* lines written to each stream
  closed,     \* streams fin_main has gzclosed
  closing,    \* streams the iteration of fin_main has not visited yet
  process     \* whether the process runs, and how it ended

loggerVars == <<trace, gz_files, lock, labelmap, disk, closed, closing, process>>

Statuses == {"LOG_AND_CONTINUE", "DO_NOT_LOG"}
FailedAsserts == {"assert_uncalled", "assert_nested"}
Ended == FailedAsserts \cup {"exited", "crashed"}

TraceInfo == [name : Names, file : Names \cup {NoFile}, count : Nat,
              toplevel : Funcs \cup {NoFunc}, status : Statuses]

Kinds == {"old", "damaged", "labelmap", "no labelmap", "entry", "inst", "param", "result"}

Line(kind, t, f, op, n) == [kind |-> kind, by |-> t, fn |-> f, op |-> op, count |-> n]

\* What an earlier run of the program left in a file of that name.
StaleLine == Line("old", NoThread, NoFunc, "none", 0)

\* All that can be said of a file after undefined behaviour has reached it.
DamagedLine == Line("damaged", NoThread, NoFunc, "none", 0)

ASSUME NamesAssumption == DefaultName \in Names /\ NoFile \notin Names
ASSUME SentinelAssumption ==
  NoThread \notin Threads /\ NoFunc \notin Funcs /\ NoTrace \notin TraceInfo
ASSUME TrackedAssumption == Tracked \subseteq Funcs
ASSUME ModeAssumption == {TopLevelMode, HasLabelMap, OpenMayFail} \subseteq BOOLEAN

----------------------------------------------------------------------------
(* Thread-local state.                                                     *)

\* Mutant of create_trace: the constructor leaves inst_count indeterminate.
create_trace_uncounted(name) ==
  [name |-> name, file |-> NoFile, count |-> NoFile, toplevel |-> NoFunc,
   status |-> "DO_NOT_LOG"]

\* create_trace(name): the value the thread's trace points to afterwards.
create_trace(name) ==
  [name |-> name, file |-> NoFile, count |-> 0, toplevel |-> NoFunc,
   status |-> "DO_NOT_LOG"]

\* A hook that finds no trace makes one under the default name.
current(t) == IF trace[t] = NoTrace THEN create_trace(DefaultName) ELSE trace[t]

do_not_log(t) == trace[t] # NoTrace => trace[t].status = "DO_NOT_LOG"

\* Mutant of log_or_not: the rows that tell a return from the rest are missing.
log_or_not_ignoring_ret(tr, f, op) ==
  CASE ~TopLevelMode ->
         IF f \in Tracked THEN "LOG_AND_CONTINUE" ELSE "DO_NOT_LOG"
    [] TopLevelMode /\ f \notin Tracked -> tr.status
    [] TopLevelMode /\ f \in Tracked -> "LOG_AND_CONTINUE"

\* The truth table of log_or_not; a failed assertion is a result of its own.
log_or_not(tr, f, op) ==
  CASE ~TopLevelMode ->
         IF f \in Tracked THEN "LOG_AND_CONTINUE" ELSE "DO_NOT_LOG"
    [] TopLevelMode /\ f \notin Tracked -> tr.status
    [] TopLevelMode /\ f \in Tracked /\ op # "ret" -> "LOG_AND_CONTINUE"
    [] TopLevelMode /\ f \in Tracked /\ op = "ret" ->
         IF tr.toplevel = NoFunc THEN "assert_uncalled"
         ELSE IF tr.toplevel = f THEN "DO_NOT_LOG" ELSE "assert_nested"

unchangedFiles == UNCHANGED <<gz_files, lock, labelmap, disk, closed, closing>>

fin_toplevel(t) == trace' = [trace EXCEPT ![t] = NoTrace]

trace_logger_update_status(t, f, op) ==
  LET tr     == current(t)
      status == log_or_not(tr, f, op)
      ignored == trace[t] = NoTrace /\ f \notin Tracked
  IN /\ unchangedFiles
     /\ \/ /\ ignored
           /\ UNCHANGED <<trace, process>>
        \/ /\ ~ignored /\ status \in FailedAsserts
           /\ process' = status
           /\ UNCHANGED trace
        \/ /\ ~ignored /\ status = "DO_NOT_LOG"
           /\ fin_toplevel(t)
           /\ UNCHANGED process
        \/ /\ ~ignored /\ status = "LOG_AND_CONTINUE"
           /\ trace' = [trace EXCEPT ![t] =
                [tr EXCEPT !.status = status,
                           !.toplevel = IF @ = NoFunc THEN f ELSE @]]
           /\ UNCHANGED process

\* Mutant of llvmtracer_set_trace_name: a new trace keeps the default name.
set_trace_name_only_renames(t, name) ==
  /\ trace' = [trace EXCEPT ![t] =
       IF @ = NoTrace THEN create_trace(DefaultName) ELSE [@ EXCEPT !.name = name]]
  /\ UNCHANGED process
  /\ unchangedFiles

llvmtracer_set_trace_name(t, name) ==
  /\ trace' = [trace EXCEPT ![t] =
       IF @ = NoTrace THEN create_trace(name) ELSE [@ EXCEPT !.name = name]]
  /\ UNCHANGED process
  /\ unchangedFiles

----------------------------------------------------------------------------
(* Writing.  A hook writes its line with up to three gzprintf, the label   *)
(* map is three gzwrite; these calls are one step here, and a thread that  *)
(* is at the step counts as being in the midst of them.  So whoever uses   *)
(* or closes the stream meanwhile is racing, and the outcome is undefined: *)
(* lines torn, lost or overwritten (the file is damaged), or a crash.  A   *)
(* write to a closed or never assigned stream goes through freed or        *)
(* indeterminate memory, which a stream opened later may have taken over.  *)

Damaged(n) == disk[n] = <<DamagedLine>>

Damage(n) == disk' = [disk EXCEPT ![n] = <<DamagedLine>>]

\* What undefined behaviour comes to, if anything.
undefined ==
  \/ process' = "crashed" /\ UNCHANGED disk
  \/ UNCHANGED process /\ \E n \in gz_files : Damage(n)

\* What follows in a damaged file repairs nothing.
gzprintf(t, line, racing) ==
  LET n == trace[t].file
  IN /\ \/ /\ n \in Names \ closed
           /\ disk' = [disk EXCEPT ![n] = IF Damaged(n) THEN @ ELSE Append(@, line)]
           /\ UNCHANGED process
        \/ /\ n \notin Names \ closed \/ racing
           /\ UNCHANGED <<disk, process>> \/ undefined
     /\ UNCHANGED <<gz_files, lock, labelmap, closed, closing>>

\* Mutant of trace_logger_log0: inst_count is not incremented.
log0_without_increment(t, f, op, racing) ==
  \/ do_not_log(t) /\ UNCHANGED loggerVars
  \/ /\ ~do_not_log(t)
     /\ gzprintf(t, Line("inst", t, f, op, trace[t].count), racing)
     /\ UNCHANGED trace

trace_logger_log0(t, f, op, racing) ==
  \/ do_not_log(t) /\ UNCHANGED loggerVars
  \/ /\ ~do_not_log(t)
     /\ gzprintf(t, Line("inst", t, f, op, trace[t].count), racing)
     /\ trace' = [trace EXCEPT ![t].count = @ + 1]

\* trace_logger_log_int, _ptr, _string, _double and _vector.
trace_logger_log_value(t, kind, f, racing) ==
  \/ do_not_log(t) /\ UNCHANGED loggerVars
  \/ /\ ~do_not_log(t)
     /\ gzprintf(t, Line(kind, t, f, "none", 0), racing)
     /\ UNCHANGED trace

print_entry(t, f, racing) ==
  /\ gzprintf(t, Line("entry", t, f, "none", 0), racing)
  /\ UNCHANGED trace

----------------------------------------------------------------------------
(* The registry.  exit runs fin_main, which deletes the caller's trace and *)
(* starts to walk gz_files; a second exit finds no handler left and ends   *)
(* the process at once.                                                    *)

exit(t) ==
  /\ \/ /\ process = "running"
        /\ process' = "exiting"
        /\ fin_toplevel(t)
        /\ closing' = gz_files
     \/ /\ process = "exiting"
        /\ process' = "exited"
        /\ UNCHANGED <<trace, closing>>
  /\ UNCHANGED <<gz_files, lock, labelmap, disk, closed>>

\* Mutant of close_next: fin_main waits for the mutex.
close_next_locked(n, racing) ==
  /\ n \in closing /\ lock = NoThread
  /\ closing' = closing \ {n}
  /\ closed' = closed \cup {n}
  /\ UNCHANGED <<trace, gz_files, lock, labelmap, disk, process>>

\* gzclose of the next stream: fin_main does not take the lock, and a thread in
\* the midst of writing to the stream leaves a torn line, or crashes.
close_next(n, racing) ==
  /\ n \in closing
  /\ closing' = closing \ {n}
  /\ closed' = closed \cup {n}
  /\ \/ UNCHANGED <<disk, process>>
     \/ racing /\ process' = "crashed" /\ UNCHANGED disk
     \/ racing /\ Damage(n) /\ UNCHANGED process
  /\ UNCHANGED <<trace, gz_files, lock, labelmap>>

fin_main_done ==
  /\ closing = {}
  /\ process' = "exited"
  /\ UNCHANGED <<trace, gz_files, lock, labelmap, disk, closed, closing>>

\* Mutant of lock_registry: the result of a try-lock is ignored.
trylock_registry(t) ==
  /\ lock' = t
  /\ UNCHANGED <<trace, gz_files, labelmap, disk, closed, closing, process>>

lock_registry(t) ==
  /\ lock = NoThread
  /\ lock' = t
  /\ UNCHANGED <<trace, gz_files, labelmap, disk, closed, closing, process>>

\* Mutant of unlock_registry: a path that leaves the mutex locked.
keep_registry_locked(t) ==
  UNCHANGED <<trace, gz_files, lock, labelmap, disk, closed, closing, process>>

unlock_registry(t) ==
  /\ lock' = NoThread
  /\ UNCHANGED <<trace, gz_files, labelmap, disk, closed, closing, process>>

find_file(t) ==
  /\ trace[t].name \in gz_files
  /\ trace' = [trace EXCEPT ![t].file = trace[t].name]
  /\ UNCHANGED process /\ unchangedFiles

\* Mutant of open_file: the map is not searched first.
open_file_again(t) ==
  LET n == trace[t].name
  IN /\ gz_files' = gz_files \cup {n}
     /\ disk' = [disk EXCEPT ![n] = << >>]
     /\ trace' = [trace EXCEPT ![t].file = n]
     /\ UNCHANGED <<lock, labelmap, closed, closing, process>>

\* Mutant of open_file: the file is opened under the default name.
open_default_file(t) ==
  /\ trace[t].name \notin gz_files
  /\ gz_files' = gz_files \cup {trace[t].name}
  /\ disk' = [disk EXCEPT ![DefaultName] = << >>]
  /\ trace' = [trace EXCEPT ![t].file = DefaultName]
  /\ UNCHANGED <<lock, labelmap, closed, closing, process>>

\* gzopen with mode "w" truncates.  The walk of fin_main may or may not come
\* across an entry inserted while it runs, and may be broken by it.
open_file(t) ==
  LET n == trace[t].name
  IN /\ n \notin gz_files
     /\ gz_files' = gz_files \cup {n}
     /\ disk' = [disk EXCEPT ![n] = << >>]
     /\ trace' = [trace EXCEPT ![t].file = n]
     /\ \/ process = "running" /\ UNCHANGED <<process, closing>>
        \/ /\ process = "exiting"
           /\ process' \in {process, "crashed"}
           /\ closing' \in {closing, closing \cup {n}}
     /\ UNCHANGED <<lock, labelmap, closed>>

open_fails(t) ==
  /\ OpenMayFail
  /\ trace[t].name \notin gz_files
  /\ exit(t)

write_labelmap(t, racing) ==
  /\ gzprintf(t, Line(IF labelmap THEN "labelmap" ELSE "no labelmap",
                      NoThread, NoFunc, "none", 0), racing)
  /\ UNCHANGED trace

\* First two calls of main, inserted by the label map pass.
trace_logger_init(t) ==
  /\ trace' = [trace EXCEPT ![t] = create_trace(DefaultName)]
  /\ UNCHANGED process /\ unchangedFiles

trace_logger_register_labelmap ==
  /\ labelmap' = HasLabelMap
  /\ UNCHANGED <<trace, gz_files, lock, disk, closed, closing, process>>

----------------------------------------------------------------------------
LoggerInit ==
  /\ trace = [t \in Threads |-> NoTrace]
  /\ gz_files = {}
  /\ lock = NoThread
  /\ labelmap = FALSE
  /\ disk = [n \in Names |-> <<StaleLine>>]
  /\ closed = {}
  /\ closing = {}
  /\ process = "running"

LineType == [kind : Kinds, by : Threads \cup {NoThread}, fn : Funcs \cup {NoFunc},
             op : {"none", "plain", "call", "name", "spawn", "ret"}, count : Nat]

LoggerTypeOK ==
  /\ trace \in [Threads -> TraceInfo \cup {NoTrace}]
  /\ gz_files \subseteq Names
  /\ lock \in Threads \cup {NoThread}
  /\ labelmap \in BOOLEAN
  /\ disk \in [Names -> Seq(LineType)]
  /\ closed \subseteq gz_files
  /\ closing \subseteq gz_files
  /\ process \in {"running", "exiting"} \cup Ended
=============================================================================
