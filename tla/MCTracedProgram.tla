--------------------------- MODULE MCTracedProgram ---------------------------
(* Small applications for TLC.  main and work are the start routines, kernel *)
(* and aux are compiled as C, helper is C code outside the workload.         *)
EXTENDS TracedProgram, TLC

CONSTANTS m, w1, w2, main, work, kernel, aux, helper, default, n1, n2

\* playground/multithreading.cc: every worker names its trace, calls the
\* top-level function, and main joins.
DistinctNames == [t \in Threads |-> IF t = m THEN NoFile ELSE IF t = w1 THEN n1 ELSE n2]
OneName == [t \in Threads |-> IF t = m THEN NoFile ELSE n1]
Unnamed == [t \in Threads |-> NoFile]

\* How many instructions each thread executes.
Two == [t \in Threads |-> 2]
Five == [t \in Threads |-> 5]
OneFourThree == [t \in Threads |-> IF t = m THEN 1 ELSE IF t = w1 THEN 4 ELSE 3]
OneTwoThree == [t \in Threads |-> IF t = m THEN 1 ELSE IF t = w1 THEN 2 ELSE 3]
OneFour == [t \in Threads |-> IF t = m THEN 1 ELSE 4]
OneFive == [t \in Threads |-> IF t = m THEN 1 ELSE 5]

WorkersCallKernel == {<<work, kernel>>, <<kernel, aux>>}
KernelInsideKernel ==
  {<<work, kernel>>, <<work, helper>>, <<kernel, helper>>, <<kernel, kernel>>,
   <<kernel, aux>>, <<aux, kernel>>}
Recursion == {<<main, kernel>>, <<kernel, kernel>>}
MainCallsBoth == {<<main, kernel>>, <<main, aux>>}
HelperBetween == {<<work, kernel>>, <<work, helper>>}

\* Workers that ask for the same name are interchangeable.
WorkerSymmetry == Permutations({w1, w2})
=============================================================================
