---------------------------- MODULE ExitingFiles ----------------------------
(***************************************************************************)
(* What is left of the promise of TraceFiles when the process may end      *)
(* while threads still trace.  Until exit is called every file is well     *)
(* formed.  From then on a file is either well formed still, or damaged,   *)
(* and of a damaged file nothing is said any more.                         *)
(***************************************************************************)
EXTENDS TraceFiles

VARIABLES
  exiting,  \* exit has been called
  damaged   \* files that undefined behaviour has reached

exitVars == <<log, inSpan, next, shut, exiting, damaged>>

ExitInit == Init /\ exiting = FALSE /\ damaged = {}

Exit ==
  /\ ~exiting
  /\ exiting' = TRUE
  /\ UNCHANGED <<log, inSpan, next, shut, damaged>>

Damage(n) ==
  /\ exiting /\ n \notin damaged
  /\ damaged' = damaged \cup {n}
  /\ log' = [log EXCEPT ![n] = << >>]
  /\ inSpan' = inSpan \ {n}
  /\ next' = [next EXCEPT ![n] = 0]
  /\ shut' = shut \ {n}
  /\ UNCHANGED exiting

WellFormedStep(n) == n \notin damaged /\ FileStep(n) /\ UNCHANGED <<exiting, damaged>>

ExitNext == Exit \/ \E n \in Names : Damage(n) \/ WellFormedStep(n)

ExitSpec == ExitInit /\ [][ExitNext]_exitVars
=============================================================================
