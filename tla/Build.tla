------------------------------- MODULE Build -------------------------------
(***************************************************************************)
(* How a traced program is built, playground/Makefile.tracer, and the life *)
(* of the label map file: the tool of module LabelMap writes it, the pass  *)
(* labelmapwriter (full-trace/full_trace.cpp) reads it back and embeds it  *)
(* in the object that defines main, and make decides by the age of files   *)
(* what has to be made again.  Sources, the headers they include and       *)
(* WORKLOAD may change at any time, the tool may die half way, a           *)
(* compilation may fail.  No rule names a header: an edit of one changes   *)
(* what the parser finds in the sources, and outdates nothing.             *)
(*                                                                         *)
(* The sequence output of LabelMap is the content of the file labelmap,    *)
(* and its input what the tool finds in each source when it gets there.    *)
(***************************************************************************)
EXTENDS LabelMap

CONSTANTS
  Projects,       \* [sources, versions: what they may all be edited to, budget]; a unit
                  \* has a field text, what the source file itself says
  WorkloadValues  \* values of the environment variable WORKLOAD

VARIABLES
  tree,       \* the sources
  versions,   \* what they may be edited to, with the headers
  exists,     \* the file labelmap exists
  outdated,   \* targets that are missing or older than something they are made from
  env,        \* WORKLOAD
  obj,        \* objects: source, WORKLOAD and embedded label map of each
  exe,        \* the objects in the instrumented binary
  stage,      \* what make is doing
  disturbed,  \* "no"; "yes" once something failed, or changed during a make; "healing"
              \* when after that make makes the label map, and with it everything, anew
  budget      \* edits, failures and changes of WORKLOAD still to come

files == <<tree, versions, exists, outdated, env, obj, exe, disturbed, budget>>
tool == <<input, src, unvisited, labelMap, names, walk, found, output, phase>>
buildVars == <<tool, files, stage>>

\* Targets: the label map is 0, objects go by their source, the binary is the last;
\* full.llvm and full.s come and go with it.
labelmap == 0
objects == 1 .. Len(tree)
binary == Len(tree) + 1

NoObject == [unit |-> << >>, workload |-> << >>, labels |-> << >>]

Units == UNION {UNION {ToSet(v) : v \in {p.sources} \cup p.versions} : p \in Projects}

ASSUME UnitsAssumption == \A u \in Units : UnitOK(u)
DefinesMain(u) == MainFn \in ToSet(u.defined)

\* A project is a program: one of its sources defines main, in all its versions.
ASSUME ProjectsAssumption ==
  \A p \in Projects :
    /\ p.budget \in Nat /\ p.sources \in Seq(Units)
    /\ Cardinality({i \in DOMAIN p.sources : DefinesMain(p.sources[i])}) = 1
    /\ \A v \in p.versions :
         /\ v \in Seq(Units) /\ Len(v) = Len(p.sources)
         /\ \A i \in DOMAIN p.sources : DefinesMain(v[i]) <=> DefinesMain(p.sources[i])

\* The tool before it is started, and when its process is gone.
NotStarted ==
  /\ input' = tree /\ src' = 1 /\ unvisited' = << >> /\ labelMap' = << >>
  /\ names' = << >> /\ walk' = << >> /\ found' = << >> /\ phase' = "cleanup"
  /\ UNCHANGED output

\* A directory in which nothing has been made.
BuildInit ==
  /\ \E p \in Projects :
       /\ tree = p.sources /\ versions = p.versions /\ budget = p.budget
       /\ obj = [i \in DOMAIN p.sources |-> NoObject]
       /\ exe = [i \in DOMAIN p.sources |-> NoObject]
  /\ input = tree /\ src = 1 /\ unvisited = << >> /\ labelMap = << >> /\ names = << >>
  /\ walk = << >> /\ found = << >> /\ output = << >> /\ phase = "cleanup"
  /\ exists = FALSE /\ outdated = 0 .. Len(tree) + 1
  /\ env = CHOOSE w \in WorkloadValues : TRUE
  /\ stage = "idle" /\ disturbed = "no"

\* Mutant of Dependents: objects do not depend on the label map.
Dependents_plain(t) == IF t \in objects THEN {binary} ELSE {}

\* The rules of the Makefile, from a target to those made from it.
Dependents(t) ==
  IF t = labelmap THEN objects ELSE IF t \in objects THEN {binary} ELSE {}

\* Writing a target makes it newer than what it is made from.
Written(t) == (outdated \ {t}) \cup Dependents(t)

----------------------------------------------------------------------------
(* What happens around make.                                               *)

Spend == budget > 0 /\ budget' = budget - 1

\* Sources, or only headers of theirs, change; the tool sees it unless it has read the
\* source already, and make if the text of a source changes.
Edit ==
  \E v \in versions :
    /\ Spend
    /\ tree # v /\ tree' = v
    /\ input' = [i \in objects |->
                   IF i > src \/ (i = src /\ phase \in {"cleanup", "next"}) THEN v[i] ELSE input[i]]
    /\ LET texts == {i \in objects : v[i].text # tree[i].text}
       IN outdated' = outdated \cup texts \cup (IF texts = {} THEN {} ELSE {labelmap})
    /\ disturbed' = IF stage = "idle" THEN disturbed ELSE "yes"
    /\ UNCHANGED <<src, unvisited, labelMap, names, walk, found, output, phase,
                   versions, exists, env, obj, exe, stage>>

\* WORKLOAD is no file: nothing becomes outdated.
SetWorkload ==
  /\ stage = "idle" /\ Spend
  /\ \E w \in WorkloadValues \ {env} : env' = w
  /\ UNCHANGED <<tool, tree, versions, exists, outdated, obj, exe, stage, disturbed>>

Clean ==
  /\ stage = "idle"
  /\ exists' = FALSE /\ output' = << >> /\ outdated' = 0 .. binary
  /\ obj' = [i \in objects |-> NoObject] /\ exe' = [i \in objects |-> NoObject]
  /\ disturbed' = "no"
  /\ UNCHANGED <<input, src, unvisited, labelMap, names, walk, found, phase, tree, versions,
                 env, stage, budget>>

----------------------------------------------------------------------------
(* make trace-binary.                                                      *)

Make ==
  /\ stage = "idle"
  /\ stage' = IF labelmap \in outdated THEN "tool" ELSE "compile"
  /\ disturbed' = IF disturbed = "yes" /\ labelmap \in outdated THEN "healing" ELSE disturbed
  /\ UNCHANGED <<tool, tree, versions, exists, outdated, env, obj, exe, budget>>

\* A step of the tool.  It removes the file first, creates it when the first source
\* is through, and makes it newer whenever it writes to it.
ToolStep ==
  /\ stage = "tool" /\ Run
  /\ exists' = IF phase = "cleanup" THEN FALSE ELSE exists \/ phase' = "write"
  /\ outdated' = IF phase = "cleanup" THEN outdated \cup {labelmap}
                 ELSE IF output' # output \/ exists' # exists THEN Written(labelmap)
                 ELSE outdated
  /\ UNCHANGED <<tree, versions, env, obj, exe, stage, disturbed, budget>>

ToolSucceeds ==
  /\ stage = "tool" /\ phase = "next" /\ src > Len(input)
  /\ stage' = "compile" /\ NotStarted
  /\ UNCHANGED files

\* What the tool has written stays, and make gives up.
Abandon ==
  /\ stage = "tool"
  /\ stage' = "idle" /\ disturbed' = "yes" /\ NotStarted
  /\ UNCHANGED <<tree, versions, exists, outdated, env, obj, exe>>

\* The stack has overflown.
ToolCrashes == phase = "overflow" /\ Abandon /\ UNCHANGED budget

ToolKilled == Spend /\ Abandon

\* readLabelMap: an empty file counts as none; runOnModule: the label map is only
\* embedded in the module that defines main.
Embedded(unit) == IF DefinesMain(unit) THEN output ELSE << >>

\* clang and opt, with -fulltrace and -labelmapwriter.
Compile ==
  /\ stage = "compile"
  /\ \E i \in outdated \cap objects :
       /\ obj' = [obj EXCEPT ![i] = [unit |-> tree[i], workload |-> env,
                                     labels |-> Embedded(tree[i])]]
       /\ outdated' = Written(i)
  /\ UNCHANGED <<tool, tree, versions, exists, env, exe, stage, disturbed, budget>>

CompileFails ==
  /\ stage = "compile" /\ outdated \cap objects # {} /\ Spend
  /\ stage' = "idle" /\ disturbed' = "yes"
  /\ UNCHANGED <<tool, tree, versions, exists, outdated, env, obj, exe>>

Link ==
  /\ stage = "compile" /\ outdated \cap objects = {}
  /\ IF binary \in outdated
     THEN exe' = obj /\ outdated' = Written(binary)
     ELSE UNCHANGED <<exe, outdated>>
  /\ stage' = "idle"
  /\ disturbed' = IF disturbed = "healing" THEN "no" ELSE disturbed
  /\ UNCHANGED <<tool, tree, versions, exists, env, obj, budget>>

BuildNext ==
  \/ Edit \/ SetWorkload \/ Clean
  \/ Make \/ ToolStep \/ ToolSucceeds \/ ToolCrashes \/ ToolKilled
  \/ Compile \/ CompileFails \/ Link

\* The system runs what make has started, and make notices when it ends.
BuildSpec ==
  BuildInit /\ [][BuildNext]_buildVars
    /\ WF_buildVars(ToolStep) /\ WF_buildVars(ToolSucceeds) /\ WF_buildVars(ToolCrashes)

----------------------------------------------------------------------------
(* Properties.                                                             *)

Built == exe # [i \in objects |-> NoObject]

\* The labels of the binary, all its embedded lines in one.
EmbeddedLines == FlattenSeq([i \in objects |-> exe[i].labels])

\* Unless something failed or changed during a make, and the label map has not been
\* made anew in a make without such events since, and there was no make clean either,
\* the label map in a binary is that of the very sources it was compiled from: one line
\* for each label of a C function in each of them, and none for a label of a member
\* function or one that is in none of them; and if nothing is outdated, the texts of
\* these sources, if not their headers, are those in the tree.
BinaryExact ==
  disturbed = "no" /\ Built =>
    /\ \A f \in Functions \ CxxFunctions, l \in Labels :
         Cardinality({i \in DOMAIN EmbeddedLines :
                        EmbeddedLines[i].function = f /\ EmbeddedLines[i].label = l})
           = Cardinality({i \in objects : f \notin Methods /\ <<f, l>> \in exe[i].unit.labels})
    /\ \A k \in DOMAIN EmbeddedLines : \E i \in objects :
         <<EmbeddedLines[k].function, EmbeddedLines[k].label>> \in exe[i].unit.labels
    /\ outdated = {} => \A i \in objects : exe[i].unit.text = tree[i].text

\* Under the same condition all objects of a binary were instrumented for the same
\* WORKLOAD, although make does not know of it: every edit of a source makes the label
\* map anew, and with it every object.
OneWorkload ==
  disturbed = "no" => \A i, j \in objects : exe[i].workload = exe[j].workload

\* A run of the tool ends, whatever functions are inlined into one another.
ToolEnds == stage = "tool" ~> stage # "tool"
=============================================================================
