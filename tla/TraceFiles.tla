----------------------------- MODULE TraceFiles -----------------------------
(***************************************************************************)
(* What a reader of the trace files is promised, whatever the threads of   *)
(* the traced program do.  A file starts with the label map, written once; *)
(* after it come spans, one per top-level call: an entry line, then lines  *)
(* of which the instruction lines are numbered 0, 1, 2, ... from the entry *)
(* on; nothing lies between two spans, nothing is ever taken back, and     *)
(* nothing follows the closing of the file.                                *)
(***************************************************************************)
EXTENDS Naturals, Sequences

CONSTANTS
  Names,        \* names of the files
  Headers,      \* kinds of line that may head a file
  Values        \* kinds of line that describe a value

VARIABLES
  log,      \* lines of each file, pairs <<kind, number>>; empty until opened
  inSpan,   \* files whose last entry line still awaits its end of span
  next,     \* number of the next instruction line of the span
  shut      \* files that are closed

vars == <<log, inSpan, next, shut>>

Init ==
  /\ log = [n \in Names |-> << >>]
  /\ inSpan = {}
  /\ next = [n \in Names |-> 0]
  /\ shut = {}

Write(n, line) == log' = [log EXCEPT ![n] = Append(@, line)]

Open(n) ==
  /\ log[n] = << >> /\ n \notin shut
  /\ \E h \in Headers : Write(n, <<h, 0>>)
  /\ UNCHANGED <<inSpan, next, shut>>

Entry(n) ==
  /\ log[n] # << >> /\ n \notin inSpan \cup shut
  /\ Write(n, <<"entry", 0>>)
  /\ inSpan' = inSpan \cup {n}
  /\ UNCHANGED <<next, shut>>

Instruction(n) ==
  /\ n \in inSpan
  /\ Write(n, <<"inst", next[n]>>)
  /\ next' = [next EXCEPT ![n] = @ + 1]
  /\ UNCHANGED <<inSpan, shut>>

Value(n) ==
  /\ n \in inSpan
  /\ \E v \in Values : Write(n, <<v, 0>>)
  /\ UNCHANGED <<inSpan, next, shut>>

\* The top-level function returns: the next span is numbered from 0 again.
Finish(n) ==
  /\ n \in inSpan
  /\ inSpan' = inSpan \ {n}
  /\ next' = [next EXCEPT ![n] = 0]
  /\ UNCHANGED <<log, shut>>

\* The file is closed, possibly in the middle of a span.
Close(n) ==
  /\ n \notin shut
  /\ shut' = shut \cup {n}
  /\ inSpan' = inSpan \ {n}
  /\ next' = [next EXCEPT ![n] = 0]
  /\ UNCHANGED log

FileStep(n) == Open(n) \/ Entry(n) \/ Instruction(n) \/ Value(n) \/ Finish(n) \/ Close(n)

Next == \E n \in Names : FileStep(n)

Spec == Init /\ [][Next]_vars
=============================================================================
