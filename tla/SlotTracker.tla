----------------------------- MODULE SlotTracker -----------------------------
(***************************************************************************)
(* Numbers for the values of a function that have no name, as LLVM shows   *)
(* them (full-trace/SlotTracker.h, a copy of the class behind LLVM's       *)
(* ModuleSlotTracker).  A function is incorporated first and numbered when *)
(* the first number is asked for: whatever stands in it by then counts.    *)
(* Numbers of globals, metadata and attributes, which the pass never asks  *)
(* for, are left out.                                                      *)
(*                                                                         *)
(* A value is [at, named, void]: its place, and whether it has a name and  *)
(* whether it is of type void.                                             *)
(***************************************************************************)
EXTENDS Integers, Sequences, SequencesExt, FiniteSets

NoFunction == 0

newTracker == [TheFunction |-> NoFunction, FunctionProcessed |-> FALSE,
               fMap |-> [v \in {} |-> 0]]

incorporateFunction(st, F) ==
  [st EXCEPT !.TheFunction = F, !.FunctionProcessed = FALSE]

\* processFunction, for the arguments, blocks and instructions of the function in
\* their order; fNext counts those that CreateFunctionSlot has been called for.
processFunction(values) ==
  LET counted == {i \in DOMAIN values : ~values[i].named /\ ~values[i].void}
      index(p) == CHOOSE i \in counted : values[i].at = p
  IN  [p \in {values[i].at : i \in counted} |-> Cardinality({i \in counted : i < index(p)})]

\* Mutant of initialize: the function is numbered anew for every use.
initialize_anew(st, values) ==
  [st EXCEPT !.FunctionProcessed = TRUE, !.fMap = processFunction(values)]

\* Numbers of an earlier function stay in the map unless purgeFunction clears it.
initialize(st, values) ==
  IF st.TheFunction = NoFunction \/ st.FunctionProcessed THEN st
  ELSE LET new == processFunction(values)
       IN  [st EXCEPT !.FunctionProcessed = TRUE,
              !.fMap = [p \in DOMAIN @ \cup DOMAIN new |->
                          IF p \in DOMAIN new THEN new[p] ELSE @[p]]]

\* getLocalSlot, in a tracker that is initialized.
getLocalSlot(st, p) == IF p \in DOMAIN st.fMap THEN st.fMap[p] ELSE -1
=============================================================================
