------------------------------ MODULE LabelMap ------------------------------
(***************************************************************************)
(* The label map tool, ast-pass/GetLabeledStmts.cpp.  For each source file *)
(* it visits every function, records the labels and the callers of each    *)
(* function in labelMap, and at the end of the file appends one line per   *)
(* label to the output.  The line of a label in an always_inline function  *)
(* also lists the functions its code ends up in, which                     *)
(* findAllNoninlinedCallers collects by walking the callers recursively.   *)
(*                                                                         *)
(* A translation unit is abstracted to the functions it defines, in source *)
(* order, which of them are always_inline, its direct calls and its labels *)
(* (the line number a label is given is left out).                         *)
(***************************************************************************)
EXTENDS Naturals, Sequences, FiniteSets, SequencesExt

CONSTANTS
  Order,        \* all function names, in the order of the keys of std::map
  MainFn,       \* main
  Methods,      \* C++ member functions
  CxxFunctions, \* other functions outside extern "C", main excepted: of C++ linkage,
                \* in a namespace, or templates; the tool does not tell them from C
  Labels,       \* label names
  Inputs,       \* command lines: sequences of translation units
  StackLimit    \* nested calls the tool's stack has room for

VARIABLES
  input,      \* the command line: a sequence of translation units
  src,        \* index of the current unit
  unvisited,  \* functions of the current unit still to be visited
  labelMap,   \* function name -> FunctionInfo
  names,      \* keys of labelMap EndSourceFileAction has still to write
  walk,       \* active calls of findAllNoninlinedCallers, the innermost last
  found,      \* its result so far
  output,     \* lines of the label map file
  phase       \* what the tool is doing

vars == <<input, src, unvisited, labelMap, names, walk, found, output, phase>>

Functions == {Order[i] : i \in 1 .. Len(Order)}

\* The functions of a set in the order of the keys: SelectSeq, as a recursive function.
InOrder(S) ==
  LET kept[i \in 0 .. Len(Order)] ==
        IF i = 0 THEN << >>
        ELSE IF Order[i] \in S THEN Append(kept[i - 1], Order[i]) ELSE kept[i - 1]
  IN kept[Len(Order)]

FunctionInfo == [labels : SUBSET Labels, callers : SUBSET Functions, inlined : BOOLEAN]
NoInfo == [labels |-> {}, callers |-> {}, inlined |-> FALSE]

\* A translation unit: what the parser hands over.
UnitOK(u) ==
  /\ u.defined \in Seq(Functions)
  /\ u.inlined \subseteq ToSet(u.defined) \ {MainFn}
  /\ u.calls \subseteq ToSet(u.defined) \X Functions
  /\ u.labels \subseteq ToSet(u.defined) \X Labels

ASSUME OrderAssumption == Order \in Seq(Functions) /\ IsInjective(Order)
ASSUME LabelsAssumption == IsFiniteSet(Labels)
ASSUME InputsAssumption ==
  \A sources \in Inputs :
    sources \in Seq(ToSet(sources)) /\ \A u \in ToSet(sources) : UnitOK(u)
ASSUME StackAssumption == StackLimit \in Nat \ {0}

Unit == input[src]
Frame(f) == [leaf |-> f, callers |-> InOrder(labelMap[f].callers)]
Entry(f, l, callers) == [function |-> f, label |-> l, callers |-> callers]

\* What an earlier run of the tool left in the output file.
Stale == Entry(MainFn, "stale", << >>)

Init ==
  /\ input \in Inputs
  /\ src = 1
  /\ unvisited = << >>
  /\ labelMap = << >>
  /\ names = << >>
  /\ walk = << >>
  /\ found = << >>
  /\ output = <<Stale>>
  /\ phase = "cleanup"

----------------------------------------------------------------------------
\* Mutant of Cleanup: the file is not removed, and the tool appends to it.
Cleanup_keeps ==
  /\ phase = "cleanup"
  /\ phase' = "next"
  /\ UNCHANGED <<input, src, unvisited, labelMap, names, walk, found, output>>

Cleanup ==
  /\ phase = "cleanup"
  /\ output' = << >>
  /\ phase' = "next"
  /\ UNCHANGED <<input, src, unvisited, labelMap, names, walk, found>>

BeginSource ==
  /\ phase = "next" /\ src <= Len(input)
  /\ unvisited' = Unit.defined
  /\ phase' = "visit"
  /\ UNCHANGED <<input, src, labelMap, names, walk, found, output>>

\* Callees whose set of callers grows when the body of f is visited.
Callees(f) == {g \in Functions : <<f, g>> \in Unit.calls /\ f # MainFn}

Info(f) == IF f \in DOMAIN labelMap THEN labelMap[f] ELSE NoInfo

\* Mutant of Record: the entry of a function is reset when it is visited.
RecordAfresh(f) ==
  [g \in DOMAIN labelMap \cup {f} \cup Callees(f) |->
     [labels  |-> IF g = f THEN {l \in Labels : <<f, l>> \in Unit.labels} ELSE Info(g).labels,
      callers |-> (IF g = f THEN {} ELSE Info(g).callers)
                    \cup (IF g \in Callees(f) THEN {f} ELSE {}),
      inlined |-> IF g = f THEN f \in Unit.inlined ELSE Info(g).inlined]]

\* labelMap once function f has been visited: its labels, whether it is
\* always_inline, and f as a caller of every function it calls.  Calls made by
\* main are not recorded.
Record(f) ==
  [g \in DOMAIN labelMap \cup {f} \cup Callees(f) |->
     [labels  |-> Info(g).labels \cup
                    (IF g = f THEN {l \in Labels : <<f, l>> \in Unit.labels} ELSE {}),
      callers |-> Info(g).callers \cup (IF g \in Callees(f) THEN {f} ELSE {}),
      inlined |-> Info(g).inlined \/ (g = f /\ f \in Unit.inlined)]]

VisitFunctionDecl ==
  /\ phase = "visit" /\ unvisited # << >>
  /\ unvisited' = Tail(unvisited)
  /\ labelMap' = IF Head(unvisited) \in Methods THEN labelMap ELSE Record(Head(unvisited))
  /\ UNCHANGED <<input, src, names, walk, found, output, phase>>

----------------------------------------------------------------------------
(* EndSourceFileAction walks labelMap in the order of its keys.            *)

EndSourceFile ==
  /\ phase = "visit" /\ unvisited = << >>
  /\ names' = InOrder(DOMAIN labelMap)
  /\ phase' = "write"
  /\ UNCHANGED <<input, src, unvisited, labelMap, walk, found, output>>

Lines(f, callers) ==
  SetToSeq({Entry(f, l, callers) : l \in labelMap[f].labels})

WritePlain ==
  /\ phase = "write" /\ names # << >> /\ ~labelMap[Head(names)].inlined
  /\ output' = output \o Lines(Head(names), << >>)
  /\ names' = Tail(names)
  /\ UNCHANGED <<input, src, unvisited, labelMap, walk, found, phase>>

\* findAllNoninlinedCallers is called for an always_inline function.
StartWalk ==
  /\ phase = "write" /\ names # << >> /\ labelMap[Head(names)].inlined
  /\ walk' = <<Frame(Head(names))>>
  /\ found' = << >>
  /\ phase' = "walk"
  /\ UNCHANGED <<input, src, unvisited, labelMap, names, output>>

\* The walk with the next caller taken from the innermost call.
Advanced ==
  LET top == walk[Len(walk)]
  IN [walk EXCEPT ![Len(walk)] = [top EXCEPT !.callers = Tail(top.callers)]]

\* Mutant of Walk: callers that are not inlined are searched, too.
WalkAllCallers ==
  /\ phase = "walk" /\ walk # << >> /\ walk[Len(walk)].callers # << >>
  /\ \/ /\ Len(walk) < StackLimit
        /\ walk' = Append(Advanced, Frame(Head(walk[Len(walk)].callers)))
        /\ UNCHANGED phase
     \/ /\ Len(walk) = StackLimit
        /\ phase' = "overflow"
        /\ UNCHANGED walk
  /\ UNCHANGED <<input, src, unvisited, labelMap, names, found, output>>

\* A caller that is not inlined ends the search along this path; an inlined
\* one is searched in turn, until the stack overflows.
Walk ==
  /\ phase = "walk" /\ walk # << >> /\ walk[Len(walk)].callers # << >>
  /\ LET caller == Head(walk[Len(walk)].callers)
     IN \/ /\ ~labelMap[caller].inlined
           /\ found' = Append(found, caller)
           /\ walk' = Advanced
           /\ UNCHANGED phase
        \/ /\ labelMap[caller].inlined /\ Len(walk) < StackLimit
           /\ walk' = Append(Advanced, Frame(caller))
           /\ UNCHANGED <<found, phase>>
        \/ /\ labelMap[caller].inlined /\ Len(walk) = StackLimit
           /\ phase' = "overflow"
           /\ UNCHANGED <<walk, found>>
  /\ UNCHANGED <<input, src, unvisited, labelMap, names, output>>

\* Mutant of Return: a call that is through is not left.
Return_stays ==
  /\ phase = "walk" /\ walk # << >> /\ walk[Len(walk)].callers = << >>
  /\ UNCHANGED vars

Return ==
  /\ phase = "walk" /\ walk # << >> /\ walk[Len(walk)].callers = << >>
  /\ walk' = Front(walk)
  /\ UNCHANGED <<input, src, unvisited, labelMap, names, found, output, phase>>

WriteInlined ==
  /\ phase = "walk" /\ walk = << >>
  /\ output' = output \o Lines(Head(names), found)
  /\ names' = Tail(names)
  /\ phase' = "write"
  /\ UNCHANGED <<input, src, unvisited, labelMap, walk, found>>

\* Mutant of Finish: labelMap is not cleared.
FinishUncleared ==
  /\ phase = "write" /\ names = << >>
  /\ src' = src + 1
  /\ phase' = "next"
  /\ UNCHANGED <<input, unvisited, labelMap, names, walk, found, output>>

\* The map is cleared for the next source.
Finish ==
  /\ phase = "write" /\ names = << >>
  /\ labelMap' = << >>
  /\ src' = src + 1
  /\ phase' = "next"
  /\ UNCHANGED <<input, unvisited, names, walk, found, output>>

Stopped ==
  /\ phase = "overflow" \/ (phase = "next" /\ src > Len(input))
  /\ UNCHANGED vars

Run ==
  \/ Cleanup \/ BeginSource \/ VisitFunctionDecl \/ EndSourceFile
  \/ WritePlain \/ StartWalk \/ Walk \/ Return \/ WriteInlined \/ Finish

Next == Run \/ Stopped

Spec == Init /\ [][Next]_vars /\ WF_vars(Run)

----------------------------------------------------------------------------
(* Properties.  The reference definitions read the translation unit, never *)
(* labelMap.                                                               *)

FreeCalls(u) == {c \in u.calls : c[1] \notin Methods}

\* Functions whose compiled body contains the body of f, by way of inlining: the
\* least set that holds f and the callers of each inlined function in it.  Callers
\* that are member functions are left out: the tool does not visit them.
ClonedInto(u, f) ==
  {g \in Functions :
     \A S \in SUBSET Functions :
       f \in S /\ (\A c \in FreeCalls(u) : c[2] \in S \cap u.inlined => c[1] \in S)
         => g \in S}

\* Some function is inlined into itself: it calls an inlined function that its
\* own body is cloned into.
InlineCycle(u) ==
  \E c \in FreeCalls(u) :
    c[1] \in u.inlined /\ c[2] \in u.inlined /\ c[2] \in ClonedInto(u, c[1])

\* Whatever order the callers are walked in, the line of a label in an inlined
\* function names exactly the free functions other than main that are not inlined
\* themselves and that its body is cloned into, along any chain of inlining of free
\* functions.
CallersExact ==
  phase = "walk" /\ walk = << >> =>
    LET f == Head(names)
    IN ToSet(found) = ClonedInto(Unit, f) \ (Unit.inlined \cup {MainFn})

\* The recursion exhausts the stack only if a function is inlined into itself.
OverflowOnlyOnCycle == phase = "overflow" => InlineCycle(Unit)

\* Between two sources the output holds, for every source finished so far, one line
\* for each label of a C function, none for a label of a member function, and no line
\* that is not for a label of one of them.  How often a label of a function outside
\* extern "C" appears is left to OnlyExternC.
OneLinePerLabel ==
  phase = "next" =>
    /\ \A f \in Functions \ CxxFunctions, l \in Labels :
         Cardinality({i \in 1 .. Len(output) : output[i].function = f /\ output[i].label = l})
           = Cardinality({i \in 1 .. src - 1 : f \notin Methods /\ <<f, l>> \in input[i].labels})
    /\ \A k \in 1 .. Len(output) : \E i \in 1 .. src - 1 :
         <<output[k].function, output[k].label>> \in input[i].labels

\* What ast-pass/test.cpp expects of the tool: labels of functions outside extern "C"
\* do not appear.
OnlyExternC == \A k \in 1 .. Len(output) : output[k].function \notin CxxFunctions
=============================================================================
