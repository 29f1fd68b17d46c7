---------------------------- MODULE Build_proofs ----------------------------
(***************************************************************************)
(* Theorems about Build, for every project and every sequence of edits:    *)
(* what LabelMap_proofs proves of the tool; unless a make was disturbed    *)
(* and nothing has healed that, all objects of a binary were instrumented  *)
(* for the same WORKLOAD, and its label map is that of the very sources it *)
(* was compiled from.                                                      *)
(***************************************************************************)
EXTENDS Build, LabelMap_proofs

Uniform(os) == \A i, j \in objects : os[i].workload = os[j].workload

\* The tool is at or past the point where it creates its file.
Writing == {"write", "walk", "overflow"}

\* The tool goes through the sources one by one.
SourcesInv ==
  /\ src <= Len(input) + 1
  /\ phase \notin {"cleanup", "next"} => src <= Len(input)

BuildTypes ==
  /\ tree \in Seq(Units) /\ input \in Seq(Units)
  /\ Len(tree) >= 1 /\ Len(input) = Len(tree)
  /\ \A v \in versions : v \in Seq(Units) /\ Len(v) = Len(tree)
  /\ DOMAIN obj = objects /\ DOMAIN exe = objects
  /\ src \in Nat /\ src >= 1 /\ SourcesInv
  /\ stage \in {"idle", "tool", "compile"} /\ exists \in BOOLEAN /\ disturbed \in {"no", "yes", "healing"}
  /\ stage # "tool" \/ phase = "cleanup" => phase = "cleanup" /\ src = 1

\* While the tool runs, either the label map is outdated or every object is, and
\* it is the latter from the moment the file exists again.
ToolInv ==
  stage = "tool" =>
    /\ labelmap \in outdated \/ objects \subseteq outdated
    /\ phase # "cleanup" /\ exists => labelmap \notin outdated
    /\ phase \in Writing \/ src > 1 => exists

\* While objects are made, those that are up to date were made for WORKLOAD as it
\* is, or none has to be made and all were made for one value.
CompileInv ==
  stage = "compile" =>
    /\ labelmap \notin outdated
    /\ \/ \A i \in objects \ outdated : obj[i].workload = env
       \/ objects \cap outdated = {} /\ Uniform(obj)

\* Between two makes the label map is outdated or nothing but the binary is.
IdleInv ==
  stage = "idle" => labelmap \in outdated \/ (objects \cap outdated = {} /\ Uniform(obj))

\* A make that heals makes the binary, too.
HealInv ==
  /\ stage # "idle"
  /\ stage = "compile" => objects \subseteq outdated \/ binary \in outdated

BuildInv ==
  /\ BuildTypes
  /\ disturbed # "yes" => ToolInv /\ CompileInv
  /\ disturbed = "healing" => HealInv
  /\ disturbed = "no" => IdleInv /\ Uniform(exe)

----------------------------------------------------------------------------
\* Targets are different.
LEMMA Targets ==
  ASSUME BuildTypes
  PROVE  /\ labelmap \notin objects /\ binary \notin objects /\ binary # labelmap
         /\ Dependents(labelmap) = objects
         /\ \A i \in objects : Dependents(i) = {binary}
<1>1. Len(tree) \in Nat
  BY DEF BuildTypes
<1>2. labelmap \notin objects /\ binary \notin objects /\ binary # labelmap
  BY <1>1 DEF labelmap, objects, binary
<1> QED
  BY <1>2 DEF Dependents

\* A step of the tool, as far as make can see it.
LEMMA RunSteps ==
  ASSUME Run, src \in Nat, Len(input) \in Nat, SourcesInv
  PROVE  /\ input' = input /\ phase' # "cleanup"
         /\ phase = "cleanup" => phase' = "next" /\ src' = src
         /\ src' = src \/ (src' = src + 1 /\ phase = "write")
         /\ phase' \in Writing => phase' = "write" \/ phase \in Writing
         /\ SourcesInv'
<1> USE DEF SourcesInv
<1>1. CASE Cleanup
  BY <1>1 DEF Cleanup, Writing
<1>2. CASE BeginSource
  BY <1>2 DEF BeginSource, Writing
<1>3. CASE VisitFunctionDecl
  BY <1>3 DEF VisitFunctionDecl, Writing
<1>4. CASE EndSourceFile
  BY <1>4 DEF EndSourceFile, Writing
<1>5. CASE WritePlain
  BY <1>5 DEF WritePlain, Writing
<1>6. CASE StartWalk
  BY <1>6 DEF StartWalk, Writing
<1>7. CASE Walk
  BY <1>7 DEF Walk, Writing
<1>8. CASE Return
  BY <1>8 DEF Return, Writing
<1>9. CASE WriteInlined
  BY <1>9 DEF WriteInlined, Writing
<1>10. CASE Finish
  BY <1>10 DEF Finish, Writing
<1> QED
  BY <1>1, <1>2, <1>3, <1>4, <1>5, <1>6, <1>7, <1>8, <1>9, <1>10 DEF Run

\* What an edit changes.
LEMMA EditSteps ==
  ASSUME BuildTypes, Edit
  PROVE  /\ tree' \in versions /\ tree' \in Seq(Units) /\ Len(tree') = Len(tree)
         /\ input' \in Seq(Units) /\ Len(input') = Len(input)
         /\ phase \in {"cleanup", "next"} /\ src = 1 => input' = tree'
         /\ \A i \in 1 .. src - 1 : input'[i] = input[i]
         /\ phase \notin {"cleanup", "next"} => input'[src] = input[src]
         /\ \/ labelmap \in outdated'
            \/ outdated' = outdated /\ \A i \in objects : tree'[i].text = tree[i].text
         /\ outdated \subseteq outdated'
         /\ disturbed' = IF stage = "idle" THEN disturbed ELSE "yes"
         /\ UNCHANGED <<src, unvisited, labelMap, names, walk, found, output, phase,
                        versions, exists, env, obj, exe, stage>>
         /\ objects' = objects /\ labelmap' = labelmap /\ binary' = binary
<1>1. PICK v \in versions :
        /\ tree' = v
        /\ input' = [i \in objects |->
             IF i > src \/ (i = src /\ phase \in {"cleanup", "next"}) THEN v[i] ELSE input[i]]
        /\ LET texts == {i \in objects : v[i].text # tree[i].text}
           IN outdated' = outdated \cup texts \cup (IF texts = {} THEN {} ELSE {labelmap})
        /\ disturbed' = IF stage = "idle" THEN disturbed ELSE "yes"
        /\ UNCHANGED <<src, unvisited, labelMap, names, walk, found, output, phase,
                       versions, exists, env, obj, exe, stage>>
  BY DEF Edit
<1>2. /\ v \in Seq(Units) /\ Len(v) = Len(tree) /\ Len(tree) \in Nat
      /\ objects = 1 .. Len(tree) /\ input \in Seq(Units) /\ Len(input) = Len(tree)
      /\ src \in Nat /\ src >= 1 /\ SourcesInv
  BY DEF BuildTypes, objects
<1>3. input' \in Seq(Units) /\ Len(input') = Len(input)
  <2>1. \A i \in 1 .. Len(tree) : v[i] \in Units /\ input[i] \in Units
    BY <1>2
  <2> QED
    BY <1>1, <1>2, <2>1
<1>4. phase \in {"cleanup", "next"} /\ src = 1 => input' = tree'
  <2> SUFFICES ASSUME phase \in {"cleanup", "next"}, src = 1 PROVE input' = tree'
    OBVIOUS
  <2>1. \A i \in 1 .. Len(tree) : input'[i] = v[i]
    BY <1>1, <1>2
  <2> QED
    BY <1>1, <1>2, <1>3, <2>1
<1>5. \A i \in 1 .. src - 1 : input'[i] = input[i]
  BY <1>1, <1>2 DEF SourcesInv
<1>6. phase \notin {"cleanup", "next"} => input'[src] = input[src]
  BY <1>1, <1>2 DEF SourcesInv
<1>7. /\ \/ labelmap \in outdated'
         \/ outdated' = outdated /\ \A i \in objects : tree'[i].text = tree[i].text
      /\ outdated \subseteq outdated'
  BY <1>1
<1>8. objects' = objects /\ labelmap' = labelmap /\ binary' = binary
  BY <1>1, <1>2 DEF objects, labelmap, binary
<1> QED
  BY <1>1, <1>2, <1>3, <1>4, <1>5, <1>6, <1>7, <1>8

LEMMA InitBuild == BuildInit => BuildInv
<1> SUFFICES ASSUME BuildInit PROVE BuildInv
  OBVIOUS
<1>1. PICK p \in Projects :
        /\ tree = p.sources /\ versions = p.versions
        /\ obj = [i \in DOMAIN p.sources |-> NoObject]
        /\ exe = [i \in DOMAIN p.sources |-> NoObject]
  BY DEF BuildInit
<1>2. tree \in Seq(Units) /\ DOMAIN tree = objects /\ Len(tree) \in Nat
  <2>1. p.sources \in Seq(Units)
    BY ProjectsAssumption, Zenon
  <2> QED
    BY <1>1, <2>1 DEF objects
<1>3. Len(tree) >= 1
  <2> SUFFICES ASSUME DOMAIN p.sources = {} PROVE FALSE
    BY <1>1, <1>2 DEF objects
  <2>1. {i \in DOMAIN p.sources : DefinesMain(p.sources[i])} = {}
    OBVIOUS
  <2> QED
    BY <2>1, ProjectsAssumption, FS_EmptySet
<1>4. \A v \in versions : v \in Seq(Units) /\ Len(v) = Len(tree)
  BY <1>1, ProjectsAssumption
<1>5. BuildTypes
  <2>1. DOMAIN obj = objects /\ DOMAIN exe = objects
    BY <1>1, <1>2
  <2>2. input = tree /\ src = 1 /\ phase = "cleanup" /\ stage = "idle"
    BY DEF BuildInit
  <2>3. exists \in BOOLEAN /\ disturbed = "no"
    BY DEF BuildInit
  <2> QED
    BY <1>2, <1>3, <1>4, <2>1, <2>2, <2>3 DEF BuildTypes, SourcesInv
<1>6. IdleInv /\ ToolInv /\ CompileInv
  BY <1>5 DEF BuildInit, IdleInv, ToolInv, CompileInv, labelmap, BuildTypes
<1>7. Uniform(exe)
  BY <1>1, <1>2 DEF Uniform
<1> QED
  BY <1>5, <1>6, <1>7 DEF BuildInv, BuildInit

----------------------------------------------------------------------------
\* What happens around make keeps the invariant.
LEMMA AroundMake ==
  ASSUME BuildInv, Edit \/ SetWorkload \/ Clean
  PROVE  BuildInv'
<1>0. BuildTypes
  BY DEF BuildInv
<1>1. CASE Edit
  <2>1. /\ tree' \in Seq(Units) /\ Len(tree') = Len(tree) /\ objects' = objects
        /\ input' \in Seq(Units) /\ Len(input') = Len(input)
        /\ UNCHANGED <<src, phase, versions, exists, env, obj, exe, stage>>
        /\ disturbed' = IF stage = "idle" THEN disturbed ELSE "yes"
        /\ labelmap' = labelmap
        /\ labelmap \in outdated' \/ outdated' = outdated
    BY <1>0, <1>1, EditSteps
  <2>2. BuildTypes'
    BY <1>0, <2>1 DEF BuildTypes, SourcesInv
  <2>3. ASSUME disturbed' # "yes"
        PROVE  disturbed' = "no" /\ (ToolInv /\ CompileInv /\ IdleInv /\ Uniform(exe))'
    <3>1. disturbed = "no" /\ stage = "idle"
      BY <1>0, <2>1, <2>3 DEF BuildTypes, BuildInv, HealInv
    <3>2. (ToolInv /\ CompileInv /\ IdleInv)'
      BY <2>1, <3>1 DEF ToolInv, CompileInv, IdleInv, BuildInv, Uniform
    <3> QED
      BY <2>1, <3>1, <3>2 DEF BuildInv, Uniform
  <2> QED
    BY <2>2, <2>3 DEF BuildInv
<1>2. CASE SetWorkload
  <2>1. BuildTypes' /\ objects' = objects
    BY <1>0, <1>2 DEF SetWorkload, BuildTypes, SourcesInv, tool, objects
  <2> QED
    BY <1>2, <2>1 DEF SetWorkload, BuildInv, ToolInv, CompileInv, IdleInv, HealInv, Uniform,
      labelmap
<1>3. CASE Clean
  <2>1. objects' = objects /\ BuildTypes'
    BY <1>0, <1>3 DEF Clean, BuildTypes, SourcesInv, objects
  <2>2. labelmap' \in outdated'
    BY <1>0, <1>3 DEF Clean, labelmap, binary, BuildTypes
  <2> QED
    BY <1>3, <2>1, <2>2 DEF Clean, BuildInv, ToolInv, CompileInv, IdleInv, Uniform
<1> QED
  BY <1>1, <1>2, <1>3

----------------------------------------------------------------------------
\* Running the tool keeps the invariant: when it is through, every object is outdated.
LEMMA RunTool ==
  ASSUME BuildInv, Make \/ ToolStep \/ ToolSucceeds \/ Abandon
  PROVE  BuildInv'
<1>0. BuildTypes
  BY DEF BuildInv
<1>1. CASE Make
  <2>1. BuildTypes' /\ objects' = objects
    BY <1>0, <1>1 DEF Make, BuildTypes, SourcesInv, tool, objects
  <2>2. stage = "idle" /\ UNCHANGED <<tree, src, phase, exists, outdated, env, obj, exe>>
    BY <1>1 DEF Make, tool
  <2>3. phase = "cleanup" /\ src = 1 /\ labelmap' = labelmap
    BY <1>0, <2>2 DEF BuildTypes, labelmap
  <2>4. CASE labelmap \in outdated
    <3>1. stage' = "tool"
      BY <1>1, <2>4 DEF Make
    <3> QED
      BY <2>1, <2>2, <2>3, <2>4, <3>1, <1>1
         DEF Make, BuildInv, ToolInv, CompileInv, IdleInv, HealInv, Uniform, Writing
  <2>5. CASE labelmap \notin outdated
    <3>1. stage' = "compile" /\ disturbed' = disturbed /\ disturbed # "healing"
      BY <1>1, <2>2, <2>5 DEF Make, BuildInv, HealInv
    <3> QED
      BY <1>0, <2>1, <2>2, <2>3, <2>5, <3>1
         DEF BuildInv, BuildTypes, ToolInv, CompileInv, IdleInv, Uniform
  <2> QED
    BY <2>4, <2>5
<1>2. CASE ToolStep
  <2>1. /\ input' = input /\ phase' # "cleanup"
        /\ phase = "cleanup" => phase' = "next" /\ src' = src
        /\ src' = src \/ (src' = src + 1 /\ phase = "write")
        /\ phase' \in Writing => phase' = "write" \/ phase \in Writing
        /\ SourcesInv'
    BY <1>0, <1>2, RunSteps DEF ToolStep, BuildTypes
  <2>2. objects' = objects
    BY <1>2 DEF ToolStep, objects
  <2>3. exists' \in BOOLEAN
    BY <1>0, <1>2 DEF ToolStep, BuildTypes
  <2>4. BuildTypes'
    <3>1. UNCHANGED <<tree, versions, env, obj, exe, stage, disturbed>> /\ stage = "tool"
      BY <1>2 DEF ToolStep
    <3>2. src' \in Nat /\ src' >= 1
      BY <1>0, <2>1 DEF BuildTypes
    <3> QED
      BY <1>0, <2>1, <2>2, <2>3, <3>1, <3>2 DEF BuildTypes
  <2>5. ASSUME disturbed # "yes" PROVE ToolInv'
    <3>0. ToolInv /\ stage = "tool"
      BY <1>2, <2>5 DEF BuildInv, ToolStep
    <3>1. CASE phase = "cleanup"
      BY <1>0, <1>2, <2>1, <3>1 DEF ToolStep, ToolInv, BuildTypes, labelmap, Writing
    <3>2. CASE phase # "cleanup"
      <4>1. exists' = (exists \/ phase' = "write")
        BY <1>2, <3>2 DEF ToolStep
      <4>2. \/ outdated' = (outdated \ {labelmap}) \cup objects
            \/ outdated' = outdated /\ exists' = exists
        BY <1>0, <1>2, <3>2, Targets DEF ToolStep, Written
      <4>3. labelmap' \in outdated' \/ (objects \subseteq outdated)'
        BY <2>2, <3>0, <4>2 DEF ToolInv, labelmap
      <4>4. exists' => labelmap' \notin outdated'
        BY <1>0, <3>0, <3>2, <4>2, Targets DEF ToolInv, labelmap
      <4>5. phase' \in Writing \/ src' > 1 => exists'
        BY <1>0, <2>1, <3>0, <4>1 DEF ToolInv, BuildTypes, Writing
      <4> QED
        BY <4>3, <4>4, <4>5 DEF ToolInv
    <3> QED
      BY <3>1, <3>2
  <2>6. (CompileInv /\ IdleInv)'
    BY <1>2 DEF ToolStep, CompileInv, IdleInv
  <2> QED
    BY <1>2, <2>2, <2>4, <2>5, <2>6 DEF ToolStep, BuildInv, HealInv, Uniform
<1>3. CASE ToolSucceeds
  <2>1. BuildTypes' /\ objects' = objects
    BY <1>0, <1>3 DEF ToolSucceeds, NotStarted, files, BuildTypes, SourcesInv, objects
  <2>2. ASSUME disturbed # "yes" PROVE labelmap \notin outdated /\ objects \subseteq outdated
    <3>1. src > 1 /\ phase = "next" /\ stage = "tool"
      BY <1>0, <1>3 DEF ToolSucceeds, BuildTypes
    <3> QED
      BY <2>2, <3>1 DEF BuildInv, ToolInv
  <2> QED
    BY <1>3, <2>1, <2>2 DEF ToolSucceeds, files, BuildInv, ToolInv, CompileInv, IdleInv,
      HealInv, Uniform, labelmap
<1>4. CASE Abandon
  <2>1. BuildTypes' /\ disturbed' = "yes"
    BY <1>0, <1>4 DEF Abandon, NotStarted, BuildTypes, SourcesInv, objects
  <2> QED
    BY <2>1 DEF BuildInv
<1> QED
  BY <1>1, <1>2, <1>3, <1>4

----------------------------------------------------------------------------
\* Making objects and the binary keeps the invariant: WORKLOAD does not change.
LEMMA MakeBinary ==
  ASSUME BuildInv, Compile \/ CompileFails \/ Link
  PROVE  BuildInv'
<1>0. BuildTypes
  BY DEF BuildInv
<1>1. CASE Compile
  <2>1. PICK i \in outdated \cap objects :
          /\ obj' = [obj EXCEPT ![i] = [unit |-> tree[i], workload |-> env,
                                        labels |-> Embedded(tree[i])]]
          /\ outdated' = Written(i)
    BY <1>1 DEF Compile
  <2>2. outdated' = (outdated \ {i}) \cup {binary}
    BY <1>0, <2>1, Targets DEF Written
  <2>3. BuildTypes' /\ objects' = objects
    BY <1>0, <1>1, <2>1 DEF Compile, tool, BuildTypes, SourcesInv, objects
  <2>4. ASSUME disturbed # "yes" PROVE CompileInv'
    <3>1. /\ labelmap \notin outdated
          /\ \A k \in objects \ outdated : obj[k].workload = env
      BY <1>1, <2>1, <2>4 DEF Compile, BuildInv, CompileInv
    <3>2. obj'[i].workload = env
      BY <1>0, <2>1 DEF BuildTypes
    <3>3. \A k \in objects \ outdated' : obj'[k].workload = env
      BY <1>0, <2>1, <2>2, <3>1, <3>2 DEF BuildTypes
    <3>4. labelmap \notin outdated'
      BY <1>0, <2>2, <3>1, Targets
    <3> QED
      BY <1>1, <2>3, <3>3, <3>4 DEF Compile, CompileInv, labelmap
  <2> QED
    BY <1>1, <2>2, <2>3, <2>4 DEF Compile, BuildInv, ToolInv, IdleInv, HealInv, Uniform, binary
<1>2. CASE CompileFails
  <2>1. BuildTypes' /\ disturbed' = "yes"
    BY <1>0, <1>2 DEF CompileFails, tool, BuildTypes, SourcesInv, objects
  <2> QED
    BY <2>1 DEF BuildInv
<1>3. CASE Link
  <2>1. /\ stage = "compile" /\ stage' = "idle" /\ outdated \cap objects = {}
        /\ exe' = obj \/ (exe' = exe /\ binary \notin outdated)
        /\ disturbed' = IF disturbed = "healing" THEN "no" ELSE disturbed
        /\ UNCHANGED <<tool, tree, versions, exists, env, obj, budget>>
    BY <1>3 DEF Link
  <2>2. outdated' \cap objects = {}
    BY <1>0, <1>3, Targets DEF Link, Written, Dependents
  <2>3. BuildTypes' /\ objects' = objects
    BY <1>0, <2>1 DEF tool, BuildTypes, SourcesInv, objects
  <2>4. ASSUME disturbed # "yes" PROVE Uniform(obj)
    BY <2>1, <2>4 DEF BuildInv, CompileInv, Uniform
  <2>5. ASSUME disturbed # "yes" PROVE Uniform(exe)'
    <3>1. CASE exe' = obj
      BY <2>3, <2>4, <2>5, <3>1 DEF Uniform
    <3>2. CASE exe' = exe /\ binary \notin outdated
      <4>1. objects # {}
        BY <1>0 DEF BuildTypes, objects
      <4>2. disturbed = "no"
        BY <1>0, <2>1, <2>5, <3>2, <4>1 DEF BuildTypes, BuildInv, HealInv
      <4> QED
        BY <2>3, <3>2, <4>2 DEF BuildInv, Uniform
    <3> QED
      BY <2>1, <3>1, <3>2
  <2>6. ASSUME disturbed # "yes" PROVE (ToolInv /\ CompileInv /\ IdleInv)'
    BY <2>1, <2>2, <2>3, <2>4, <2>6 DEF ToolInv, CompileInv, IdleInv, Uniform
  <2>7. disturbed' # "healing" /\ (disturbed' = "yes" <=> disturbed = "yes")
    BY <2>1
  <2> QED
    BY <2>3, <2>5, <2>6, <2>7 DEF BuildInv
<1> QED
  BY <1>1, <1>2, <1>3

----------------------------------------------------------------------------
LEMMA NextBuild ==
  ASSUME BuildInv, [BuildNext]_buildVars
  PROVE  BuildInv'
<1>1. CASE UNCHANGED buildVars
  BY <1>1 DEF buildVars, tool, files, BuildInv, BuildTypes, SourcesInv, ToolInv, CompileInv,
    IdleInv, HealInv, Uniform, objects, labelmap, binary
<1> QED
  BY <1>1, AroundMake, RunTool, MakeBinary DEF BuildNext, ToolCrashes, ToolKilled

\* make does not know of WORKLOAD, and yet, for every project, every sequence of
\* edits and every moment at which WORKLOAD changes between two makes: all objects of
\* a binary were instrumented for the same value, unless something failed or changed
\* during a make and neither make clean nor an undisturbed make of the label map has
\* followed.  It is the label map that sees to it: whatever outdates one object
\* outdates the label map, and with it all.
THEOREM WorkloadCorrect == BuildSpec => []OneWorkload
<1>1. BuildInv /\ [BuildNext]_buildVars => BuildInv'
  BY NextBuild
<1>2. BuildInv => OneWorkload
  BY DEF BuildInv, Uniform, OneWorkload
<1> QED
  BY <1>1, <1>2, InitBuild, PTL DEF BuildSpec

----------------------------------------------------------------------------
(* The tool while sources are edited and make is interrupted.              *)

\* What the tool is given are translation units.
LEMMA InputsParsed ==
  ASSUME BuildInv
  PROVE  InputOK
<1>1. input \in Seq(Units)
  BY DEF BuildInv, BuildTypes
<1> QED
  BY <1>1, ToSetSeq, UnitsAssumption DEF InputOK, ToSet

\* The source the tool is reading is not edited under it, and a tool that is started
\* starts from nothing.
LEMMA ToolStates ==
  ASSUME BuildInv, [BuildNext]_buildVars
  PROVE  \/ Run
         \/ phase' = "cleanup" /\ labelMap' = << >> /\ src' = 1
         \/ /\ UNCHANGED <<src, unvisited, labelMap, names, walk, found, phase>>
            /\ phase \in Reading => Unit' = Unit /\ Len(input') = Len(input)
            /\ phase # "cleanup" => output' = output
            /\ \A i \in 1 .. src - 1 : input'[i] = input[i]
<1>1. CASE Edit
  <2>1. /\ UNCHANGED <<src, unvisited, labelMap, names, walk, found, output, phase>>
        /\ phase \in Reading => input'[src] = input[src] /\ Len(input') = Len(input)
        /\ \A i \in 1 .. src - 1 : input'[i] = input[i]
    BY <1>1, EditSteps DEF BuildInv, Reading
  <2> QED
    BY <2>1 DEF Unit
<1>2. CASE SetWorkload \/ Clean \/ Make \/ Compile \/ CompileFails \/ Link
  <2>1. UNCHANGED <<input, src, unvisited, labelMap, names, walk, found, phase>>
    BY <1>2 DEF SetWorkload, Clean, Make, Compile, CompileFails, Link, tool
  <2>2. phase # "cleanup" => output' = output
    BY <1>2 DEF SetWorkload, Clean, Make, Compile, CompileFails, Link, tool, BuildInv, BuildTypes
  <2> QED
    BY <2>1, <2>2 DEF Unit
<1>3. CASE ToolStep
  BY <1>3 DEF ToolStep
<1>4. CASE ToolSucceeds \/ ToolCrashes \/ ToolKilled
  BY <1>4 DEF ToolSucceeds, ToolCrashes, ToolKilled, Abandon, NotStarted
<1>5. CASE UNCHANGED buildVars
  BY <1>5 DEF buildVars, tool, Unit
<1> QED
  BY <1>1, <1>2, <1>3, <1>4, <1>5 DEF BuildNext

LEMMA InitBuiltTool ==
  ASSUME BuildInit
  PROVE  BuildInv /\ ToolOK /\ OverflowOnlyOnCycle
<1>1. BuildInv /\ phase = "cleanup" /\ labelMap = << >> /\ src = 1
  BY InitBuild DEF BuildInit
<1> QED
  BY <1>1, InputsParsed DEF ToolOK, MapInv, SearchInv, OverflowOnlyOnCycle, Reading

LEMMA NextBuiltTool ==
  ASSUME BuildInv, ToolOK, [BuildNext]_buildVars
  PROVE  BuildInv' /\ ToolOK'
<1>1. BuildInv'
  BY NextBuild
<1>2. InputOK'
  BY <1>1, InputsParsed, PTL
<1>3. CASE Run
  BY <1>1, <1>3, ToolSteps
<1>4. CASE phase' = "cleanup" /\ labelMap' = << >> /\ src' = 1
  BY <1>1, <1>2, <1>4 DEF ToolOK, MapInv, SearchInv, Reading
<1>5. CASE /\ UNCHANGED <<src, unvisited, labelMap, names, walk, found, phase>>
           /\ phase \in Reading => Unit' = Unit /\ Len(input') = Len(input)
  <2>1. phase \in Reading => Named' = Named
    BY <1>5 DEF Named
  <2>2. ASSUME phase \in Reading, NEW V, Visited(V) PROVE Visited(V)'
    BY <1>5, <2>2 DEF Visited
  <2>3. ASSUME phase \in Reading, NEW D, Searched(D) PROVE Searched(D)'
    BY <1>5, <2>3 DEF Searched
  <2>4. MapInv'
    BY <1>5, <2>2 DEF ToolOK, MapInv, Reading
  <2>5. SearchInv'
    BY <1>5, <2>1, <2>3 DEF ToolOK, SearchInv, Reading
  <2> QED
    BY <1>1, <1>2, <2>4, <2>5 DEF ToolOK
<1> QED
  BY <1>3, <1>4, <1>5, ToolStates

\* The same theorems as for the tool on its own, in a build: sources are edited while
\* the tool runs, and it may be killed and started again.
THEOREM BuildCallersCorrect == BuildSpec => []CallersExact
<1>1. BuildInit => BuildInv /\ ToolOK
  BY InitBuiltTool
<1>2. BuildInv /\ ToolOK /\ [BuildNext]_buildVars => BuildInv' /\ ToolOK'
  BY NextBuiltTool
<1>3. ToolOK => CallersExact
  BY SearchComplete DEF ToolOK
<1> QED
  BY <1>1, <1>2, <1>3, PTL DEF BuildSpec

THEOREM BuildOverflowCorrect ==
  ASSUME \A u \in Units : Cardinality(u.inlined) <= StackLimit
  PROVE  BuildSpec => []OverflowOnlyOnCycle
<1> DEFINE Inv == BuildInv /\ ToolOK /\ OverflowOnlyOnCycle
<1>1. BuildInit => Inv
  BY InitBuiltTool
<1>2. Inv /\ [BuildNext]_buildVars => Inv'
  <2> SUFFICES ASSUME Inv, [BuildNext]_buildVars PROVE OverflowOnlyOnCycle'
    BY NextBuiltTool
  <2>1. CASE Run
    <3>1. phase = "walk" => Unit \in Units
      BY DEF BuildInv, BuildTypes, ToolOK, MapInv, Reading, Unit
    <3> QED
      BY <2>1, <3>1, RunOverflow
  <2>2. CASE ~Run
    BY <2>2, ToolStates DEF OverflowOnlyOnCycle, Reading
  <2> QED
    BY <2>1, <2>2
<1>3. Inv => OverflowOnlyOnCycle
  OBVIOUS
<1> QED
  BY <1>1, <1>2, <1>3, PTL DEF BuildSpec

\* The lines of the label map, too, are those of the sources that have been read, as they
\* were when they were read.
LEMMA NextBuiltLines ==
  ASSUME BuildInv, ToolOK, LinesInv, [BuildNext]_buildVars
  PROVE  LinesInv'
<1>1. CASE Run
  BY <1>1, RunLines
<1>2. CASE phase' = "cleanup" /\ src' = 1
  BY <1>2 DEF LinesInv
<1>3. CASE /\ UNCHANGED <<src, names, phase>>
           /\ phase \in Reading => Unit' = Unit
           /\ phase # "cleanup" => output' = output
           /\ \A i \in 1 .. src - 1 : input'[i] = input[i]
  <2>1. \A f, l : Before(f, l)' = Before(f, l)
    BY <1>3 DEF Before
  <2>2. \A f, l : phase # "cleanup" => Times(f, l)' = Times(f, l)
    BY <1>3 DEF Times, Occurs
  <2>3. \A f, l : phase \in Reading => (Passed(f, l)' <=> Passed(f, l))
    BY <1>3 DEF Passed
  <2> QED
    BY <1>3, <2>1, <2>2, <2>3 DEF LinesInv, Reading
<1> QED
  BY <1>1, <1>2, <1>3, ToolStates

THEOREM BuildLinesCorrect == BuildSpec => []OneLinePerLabel
<1>1. BuildInit => BuildInv /\ ToolOK /\ LinesInv
  BY InitBuiltTool DEF BuildInit, LinesInv
<1>2. BuildInv /\ ToolOK /\ LinesInv /\ [BuildNext]_buildVars => BuildInv' /\ ToolOK' /\ LinesInv'
  BY NextBuiltTool, NextBuiltLines
<1>3. ToolOK /\ LinesInv => OneLinePerLabel
  BY LinesOnePerLabel
<1> QED
  BY <1>1, <1>2, <1>3, PTL DEF BuildSpec

----------------------------------------------------------------------------
(* The label map in a binary.                                              *)

\* A label map that is that of some sources.
Exact(lines, units) ==
  /\ lines \in Seq(Entries)
  /\ \A f \in Functions, l \in Labels :
       Cardinality(Occurs(lines, f, l))
         = Cardinality({i \in DOMAIN units : f \notin Methods /\ <<f, l>> \in units[i].labels})
  /\ \A k \in 1 .. Len(lines) : \E i \in DOMAIN units :
       <<lines[k].function, lines[k].label>> \in units[i].labels

MainOnly(units, k) == \A i \in DOMAIN units : DefinesMain(units[i]) <=> i = k

\* An object made from source u while the label map was as it is.
Made(o, u) == o.unit = u /\ o.labels = Embedded(u)

UnitsOf(os) == [i \in objects |-> os[i].unit]

\* Some objects hold one label map, that of their sources.
SetExact(os) ==
  \E k \in objects :
    /\ MainOnly(UnitsOf(os), k) /\ Exact(os[k].labels, UnitsOf(os))
    /\ \A i \in objects : os[i].labels = IF i = k THEN os[k].labels ELSE << >>

\* While objects are made, the label map and those that have been made come from the
\* sources in the tree.  Objects and binary, as far as they are up to date, come from
\* sources with the texts of those in the tree and with one label map, that of the same
\* sources.
BinaryInv ==
  /\ \E k \in objects : MainOnly(tree, k)
  /\ \A v \in versions, i \in objects : DefinesMain(v[i]) <=> DefinesMain(tree[i])
  /\ stage # "tool" => input = tree
  /\ disturbed # "yes" =>
       /\ input = tree
       /\ stage = "compile" /\ objects \cap outdated # {} =>
            Exact(output, tree) /\ \A i \in objects \ outdated : Made(obj[i], tree[i])
       /\ labelmap \notin outdated =>
            /\ objects \cap outdated = {} => SetExact(obj)
            /\ \A i \in objects \ outdated : obj[i].unit.text = tree[i].text
  /\ disturbed = "no" =>
       /\ binary \notin outdated => exe = obj
       /\ Built => SetExact(exe)

----------------------------------------------------------------------------
(* The binary.                                                             *)

\* One label map among nothing is that label map.
LEMMA FlattenOne ==
  ASSUME NEW S, NEW ls \in Seq(Seq(S)), NEW k \in 1 .. Len(ls),
         \A i \in 1 .. Len(ls) : i # k => ls[i] = << >>
  PROVE  FlattenSeq(ls) = ls[k]
<1> DEFINE n == Len(ls)
           Flat(f) == f = [i \in 1 .. n |-> IF i = 1 THEN ls[i] ELSE f[i - 1] \o ls[i]]
           g == [i \in 1 .. n |-> IF i < k THEN << >> ELSE ls[k]]
           h == CHOOSE f : Flat(f)
<1>1. n \in Nat /\ n # 0 /\ k \in 1 .. n /\ k \in Nat
  OBVIOUS
<1>2. \A i \in 1 .. n : ls[i] \in Seq(S) /\ (i # k => ls[i] = << >>)
  OBVIOUS
<1>3. \A s \in Seq(S) : << >> \o s = s /\ s \o << >> = s
  OBVIOUS
<1>4. << >> \in Seq(S)
  OBVIOUS
<1>5. FlattenSeq(ls) = h[n]
  BY <1>1 DEF FlattenSeq
<1> HIDE DEF n
<1>6. ASSUME NEW i \in 1 .. n
      PROVE  g[i] = IF i = 1 THEN ls[i] ELSE g[i - 1] \o ls[i]
  <2>1. CASE i = 1
    BY <1>1, <1>2, <2>1
  <2>2. CASE i # 1
    <3>1. i - 1 \in 1 .. n
      BY <1>1, <2>2
    <3>2. CASE i < k
      <4>1. g[i] = << >> /\ g[i - 1] = << >> /\ ls[i] = << >>
        BY <1>1, <1>2, <3>1, <3>2
      <4> QED
        BY <1>3, <1>4, <2>2, <4>1
    <3>3. CASE i = k
      <4>1. g[i] = ls[k] /\ g[i - 1] = << >> /\ ls[i] = ls[k]
        BY <1>1, <3>1, <3>3
      <4> QED
        BY <1>2, <1>3, <2>2, <4>1
    <3>4. CASE i > k
      <4>1. g[i] = ls[k] /\ g[i - 1] = ls[k] /\ ls[i] = << >>
        BY <1>1, <1>2, <3>1, <3>4
      <4> QED
        BY <1>1, <1>2, <1>3, <2>2, <4>1
    <3> QED
      BY <1>1, <3>2, <3>3, <3>4
  <2> QED
    BY <2>1, <2>2
<1>7. Flat(g)
  <2>1. g = [i \in 1 .. n |-> g[i]]
    OBVIOUS
  <2> HIDE DEF g
  <2> QED
    BY <1>6, <2>1
<1>8. Flat(h)
  BY <1>7
<1>9. g[n] = ls[k]
  BY <1>1
<1> HIDE DEF g, h
<1>10. \A i \in 1 .. n : h[i] = g[i]
  <2> SUFFICES ASSUME ~(\A i \in 1 .. n : h[i] = g[i]) PROVE FALSE
    OBVIOUS
  <2> DEFINE T == {i \in 1 .. n : h[i] # g[i]}
  <2>1. T # {} /\ T \subseteq Nat
    BY <1>1
  <2>2. PICK i \in T : \A j \in T : ~(j < i)
    <3> HIDE DEF T
    <3> QED
      BY <2>1, LeastNumber
  <2>3. i \in 1 .. n /\ h[i] # g[i]
    BY <2>2
  <2>4. h[i] = IF i = 1 THEN ls[i] ELSE h[i - 1] \o ls[i]
    BY <1>8, <2>3
  <2>5. CASE i = 1
    BY <1>6, <2>3, <2>4, <2>5
  <2>6. CASE i # 1
    <3>1. i - 1 \in 1 .. n /\ i - 1 < i
      BY <1>1, <2>3, <2>6
    <3>2. h[i - 1] = g[i - 1]
      BY <2>2, <3>1
    <3> QED
      BY <1>6, <2>3, <2>4, <2>6, <3>2
  <2> QED
    BY <2>5, <2>6
<1> QED
  <2>1. n \in 1 .. n
    BY <1>1
  <2>2. h[n] = g[n]
    BY <1>10, <2>1
  <2> QED
    BY <1>5, <1>9, <2>2, Zenon

LEMMA BinaryIsExact ==
  ASSUME BuildInv, BinaryInv
  PROVE  BinaryExact
<1> SUFFICES ASSUME disturbed = "no", Built PROVE BinaryExact
  BY DEF BinaryExact
<1>1. PICK k \in objects :
        /\ MainOnly(UnitsOf(exe), k) /\ Exact(exe[k].labels, UnitsOf(exe))
        /\ \A i \in objects : exe[i].labels = IF i = k THEN exe[k].labels ELSE << >>
  BY DEF BinaryInv, SetExact
<1> DEFINE ls == [i \in objects |-> exe[i].labels]
           lines == exe[k].labels
<1>2. objects = 1 .. Len(ls) /\ Len(ls) \in Nat /\ ls \in Seq(Seq(Entries))
  <2>1. lines \in Seq(Entries) /\ << >> \in Seq(Entries)
    BY <1>1 DEF Exact
  <2>2. \A i \in objects : ls[i] \in Seq(Entries)
    BY <1>1, <2>1
  <2>3. Len(tree) \in Nat
    BY DEF BuildInv, BuildTypes
  <2> QED
    BY <2>2, <2>3 DEF objects
<1>3. FlattenSeq(ls) = ls[k]
  <2>1. \A i \in 1 .. Len(ls) : i # k => ls[i] = << >>
    BY <1>1, <1>2
  <2> HIDE DEF ls
  <2> QED
    BY <1>1, <1>2, <2>1, FlattenOne
<1>4. EmbeddedLines = lines /\ lines \in Seq(Entries)
  BY <1>1, <1>3 DEF EmbeddedLines, Exact
<1>5. DOMAIN UnitsOf(exe) = objects /\ \A i \in objects : UnitsOf(exe)[i] = exe[i].unit
  BY DEF UnitsOf
<1>6. \A j \in DOMAIN EmbeddedLines : \E i \in objects :
        <<EmbeddedLines[j].function, EmbeddedLines[j].label>> \in exe[i].unit.labels
  BY <1>1, <1>4, <1>5 DEF Exact
<1>7. ASSUME NEW f \in Functions \ CxxFunctions, NEW l \in Labels
      PROVE  Cardinality({i \in DOMAIN EmbeddedLines :
                            EmbeddedLines[i].function = f /\ EmbeddedLines[i].label = l})
               = Cardinality({i \in objects : f \notin Methods /\ <<f, l>> \in exe[i].unit.labels})
  <2>1. {i \in DOMAIN EmbeddedLines : EmbeddedLines[i].function = f /\ EmbeddedLines[i].label = l}
          = Occurs(lines, f, l)
    BY <1>4 DEF Occurs
  <2>2. {i \in objects : f \notin Methods /\ <<f, l>> \in exe[i].unit.labels}
          = {i \in DOMAIN UnitsOf(exe) : f \notin Methods /\ <<f, l>> \in UnitsOf(exe)[i].labels}
    BY <1>5
  <2> QED
    BY <1>1, <2>1, <2>2 DEF Exact
<1>8. outdated = {} => \A i \in objects : exe[i].unit.text = tree[i].text
  BY DEF BinaryInv
<1> QED
  BY <1>6, <1>7, <1>8 DEF BinaryExact

\* A directory in which nothing has been made.
LEMMA InitBinary == BuildInit => BinaryInv
<1> SUFFICES ASSUME BuildInit PROVE BinaryInv
  OBVIOUS
<1>1. PICK p \in Projects :
        /\ tree = p.sources /\ versions = p.versions
        /\ exe = [i \in DOMAIN p.sources |-> NoObject]
  BY DEF BuildInit
<1>2. BuildTypes
  BY InitBuild DEF BuildInv
<1>3. Len(tree) \in Nat /\ DOMAIN tree = objects
  BY <1>2 DEF BuildTypes, objects
<1>4. \E k \in objects : MainOnly(tree, k)
  <2> DEFINE M == {i \in DOMAIN tree : DefinesMain(tree[i])}
  <2>1. Cardinality(M) = 1
    BY <1>1, ProjectsAssumption
  <2>2. IsFiniteSet(M)
    <3>1. IsFiniteSet(1 .. Len(tree))
      BY <1>3, FS_Interval
    <3>2. M \subseteq 1 .. Len(tree)
      BY <1>3 DEF objects
    <3> QED
      BY <3>1, <3>2, FS_Subset
  <2> HIDE DEF M
  <2>3. PICK k : M = {k}
    BY <2>1, <2>2, FS_Singleton
  <2> QED
    BY <1>3, <2>3 DEF M, MainOnly
<1>5. \A v \in versions, i \in objects : DefinesMain(v[i]) <=> DefinesMain(tree[i])
  BY <1>1, <1>3, ProjectsAssumption
<1>6. ~Built
  BY <1>1, <1>3 DEF Built
<1>7. input = tree /\ outdated = 0 .. Len(tree) + 1 /\ stage = "idle"
  BY DEF BuildInit
<1>8. labelmap \in outdated /\ binary \in outdated
  BY <1>3, <1>7 DEF labelmap, binary
<1> QED
  BY <1>4, <1>5, <1>6, <1>7, <1>8 DEF BinaryInv

\* What is said of objects and of the binary depends on them only.
LEMMA SameObjects ==
  ASSUME objects' = objects
  PROVE  /\ obj' = obj => (SetExact(obj)' <=> SetExact(obj))
         /\ exe' = exe => (SetExact(exe)' <=> SetExact(exe)) /\ (Built' <=> Built)
         /\ exe' = obj => (SetExact(exe)' <=> SetExact(obj))
<1>1. obj' = obj => UnitsOf(obj)' = UnitsOf(obj)
  BY DEF UnitsOf
<1>2. exe' = exe => UnitsOf(exe)' = UnitsOf(exe)
  BY DEF UnitsOf
<1>3. exe' = obj => UnitsOf(exe)' = UnitsOf(obj)
  BY DEF UnitsOf
<1>4. obj' = obj => (SetExact(obj)' <=> SetExact(obj))
  BY <1>1 DEF SetExact
<1>5. exe' = exe => (SetExact(exe)' <=> SetExact(exe))
  BY <1>2 DEF SetExact
<1>6. exe' = obj => (SetExact(exe)' <=> SetExact(obj))
  BY <1>3 DEF SetExact
<1> QED
  BY <1>4, <1>5, <1>6 DEF Built

LEMMA AroundBinary ==
  ASSUME BuildInv, BinaryInv, Edit \/ SetWorkload \/ Clean
  PROVE  BinaryInv'
<1>0. BuildTypes
  BY DEF BuildInv
<1>1. CASE Edit
  <2>1. /\ tree' \in versions
        /\ phase \in {"cleanup", "next"} /\ src = 1 => input' = tree'
        /\ \/ labelmap \in outdated'
           \/ outdated' = outdated /\ \A i \in objects : tree'[i].text = tree[i].text
        /\ outdated \subseteq outdated'
        /\ disturbed' = IF stage = "idle" THEN disturbed ELSE "yes"
        /\ UNCHANGED <<output, versions, obj, exe, stage>>
        /\ objects' = objects /\ labelmap' = labelmap /\ binary' = binary
    BY <1>0, <1>1, EditSteps
  <2>2. DOMAIN tree = objects /\ DOMAIN tree' = objects
    BY <1>0, <1>1, EditSteps DEF BuildTypes, objects
  <2>3. \A i \in objects : DefinesMain(tree'[i]) <=> DefinesMain(tree[i])
    BY <2>1 DEF BinaryInv
  <2>4. \E k \in objects : MainOnly(tree, k)'
    BY <2>2, <2>3 DEF BinaryInv, MainOnly
  <2>5. \A w \in versions, i \in objects : DefinesMain(w[i]) <=> DefinesMain(tree'[i])
    BY <2>3 DEF BinaryInv
  <2>6. stage # "tool" => input' = tree'
    BY <1>0, <2>1 DEF BuildTypes
  <2>7. /\ SetExact(obj)' <=> SetExact(obj)
        /\ (SetExact(exe)' <=> SetExact(exe)) /\ (Built' <=> Built)
    BY <2>1, SameObjects
  <2>8. ASSUME disturbed' # "yes" PROVE disturbed = "no" /\ stage = "idle"
    BY <1>0, <2>1, <2>8 DEF BuildTypes, BuildInv, HealInv
  <2> QED
    BY <2>1, <2>4, <2>5, <2>6, <2>7, <2>8 DEF BinaryInv
<1>2. CASE SetWorkload
  <2>1. UNCHANGED <<input, output, tree, versions, outdated, obj, exe, stage, disturbed>>
    BY <1>2 DEF SetWorkload, tool
  <2>2. objects' = objects /\ labelmap' = labelmap /\ binary' = binary
    BY <2>1 DEF objects, labelmap, binary
  <2> QED
    BY <2>1, <2>2, SameObjects DEF BinaryInv, MainOnly, Made, Embedded
<1>3. CASE Clean
  <2>1. /\ UNCHANGED <<input, tree, versions, stage>> /\ stage = "idle"
        /\ outdated' = 0 .. binary /\ exe' = [i \in objects |-> NoObject]
    BY <1>3 DEF Clean
  <2>2. objects' = objects /\ labelmap' = labelmap /\ binary' = binary
    BY <2>1 DEF objects, labelmap, binary
  <2>3. labelmap' \in outdated' /\ binary' \in outdated'
    BY <1>0, <2>1, <2>2 DEF labelmap, binary, BuildTypes
  <2>4. ~Built'
    BY <2>1, <2>2 DEF Built
  <2> QED
    BY <2>1, <2>2, <2>3, <2>4 DEF BinaryInv, MainOnly
<1> QED
  BY <1>1, <1>2, <1>3

\* The tool is through: it has made the label map of the sources it was given.
LEMMA ToolExact ==
  ASSUME BuildInv, ToolOK, LinesInv, phase = "next", src > Len(input)
  PROVE  Exact(output, input)
<1>1. DOMAIN input = 1 .. src - 1
  BY DEF BuildInv, BuildTypes, SourcesInv
<1>2. output \in Seq(Entries)
  BY DEF LinesInv
<1>3. ASSUME NEW f \in Functions, NEW l \in Labels
      PROVE  Cardinality(Occurs(output, f, l))
               = Cardinality({i \in DOMAIN input : f \notin Methods /\ <<f, l>> \in input[i].labels})
  BY <1>1, <1>3 DEF LinesInv, Times, Before
<1> QED
  BY <1>1, <1>2, <1>3, LinesOwned DEF Exact

LEMMA ToolBinary ==
  ASSUME BuildInv, BuildInv', ToolOK, LinesInv, BinaryInv,
         Make \/ ToolStep \/ ToolSucceeds \/ Abandon
  PROVE  BinaryInv'
<1>0. BuildTypes
  BY DEF BuildInv
<1>1. UNCHANGED <<tree, versions, obj, exe>>
  BY DEF Make, ToolStep, ToolSucceeds, Abandon, files
<1>2. objects' = objects /\ labelmap' = labelmap /\ binary' = binary
  BY <1>1 DEF objects, labelmap, binary
<1>3. /\ SetExact(obj)' <=> SetExact(obj)
      /\ (SetExact(exe)' <=> SetExact(exe)) /\ (Built' <=> Built)
  BY <1>1, <1>2, SameObjects
<1>4. /\ (\E k \in objects : MainOnly(tree, k))'
      /\ (\A v \in versions, i \in objects : DefinesMain(v[i]) <=> DefinesMain(tree[i]))'
  BY <1>1, <1>2 DEF BinaryInv, MainOnly
<1>5. CASE Make
  <2>1. /\ UNCHANGED <<input, output, outdated>> /\ stage = "idle"
        /\ stage' = IF labelmap \in outdated THEN "tool" ELSE "compile"
        /\ disturbed' = IF disturbed = "yes" /\ labelmap \in outdated THEN "healing" ELSE disturbed
    BY <1>5 DEF Make, tool
  <2>2. CASE disturbed = "yes"
    BY <1>1, <1>2, <1>3, <1>4, <2>1, <2>2 DEF BinaryInv
  <2>3. CASE disturbed # "yes"
    <3>1. disturbed = "no" /\ disturbed' = "no"
      BY <1>0, <2>1, <2>3 DEF BuildInv, HealInv, BuildTypes
    <3>2. labelmap \notin outdated => objects \cap outdated = {}
      BY <2>1, <3>1 DEF BuildInv, IdleInv
    <3> QED
      BY <1>1, <1>2, <1>3, <1>4, <2>1, <3>1, <3>2 DEF BinaryInv
  <2> QED
    BY <2>2, <2>3
<1>6. CASE ToolStep
  <2>1. input' = input /\ stage = "tool" /\ stage' = "tool" /\ disturbed' = disturbed
    BY <1>0, <1>6, RunSteps DEF ToolStep, BuildTypes
  <2>2. objects # {}
    BY <1>0 DEF BuildTypes, objects
  <2>3. disturbed # "yes" => labelmap' \in outdated' \/ objects' \subseteq outdated'
    BY <2>1 DEF BuildInv, ToolInv
  <2>4. binary' \notin outdated' => binary \notin outdated
    BY <1>0, <1>2, <1>6, Targets DEF ToolStep, Written
  <2> QED
    BY <1>1, <1>2, <1>3, <1>4, <2>1, <2>2, <2>3, <2>4 DEF BinaryInv
<1>7. CASE ToolSucceeds
  <2>1. /\ stage = "tool" /\ phase = "next" /\ src > Len(input) /\ stage' = "compile"
        /\ input' = tree /\ UNCHANGED <<output, outdated, disturbed>>
    BY <1>7 DEF ToolSucceeds, NotStarted, files
  <2>2. Exact(output, input)
    BY <2>1, ToolExact
  <2>3. disturbed # "yes" => labelmap \notin outdated /\ objects \subseteq outdated
    <3>1. src > 1
      BY <1>0, <2>1 DEF BuildTypes
    <3> QED
      BY <2>1, <3>1 DEF BuildInv, ToolInv
  <2>4. Exact(output, tree)' <=> Exact(output, tree)
    BY <1>1, <2>1 DEF Exact
  <2>5. objects # {}
    BY <1>0 DEF BuildTypes, objects
  <2> QED
    BY <1>1, <1>2, <1>3, <1>4, <2>1, <2>2, <2>3, <2>4, <2>5 DEF BinaryInv
<1>8. CASE Abandon
  <2>1. disturbed' = "yes" /\ input' = tree
    BY <1>8 DEF Abandon, NotStarted
  <2> QED
    BY <1>1, <1>4, <2>1 DEF BinaryInv
<1> QED
  BY <1>5, <1>6, <1>7, <1>8

\* Once all objects are made, they hold one label map, that of their sources.
LEMMA AllMade ==
  ASSUME NEW os, NEW us, DOMAIN us = objects, us = [i \in objects |-> us[i]],
         Exact(output, us), \A i \in objects : Made(os[i], us[i]),
         NEW k \in objects, MainOnly(us, k)
  PROVE  SetExact(os)
<1>1. UnitsOf(os) = us
  BY DEF UnitsOf, Made
<1>2. \A i \in objects : os[i].labels = IF i = k THEN output ELSE << >>
  BY DEF Made, Embedded, MainOnly
<1>3. MainOnly(UnitsOf(os), k) /\ Exact(os[k].labels, UnitsOf(os))
  BY <1>1, <1>2
<1>4. \A i \in objects : os[i].labels = IF i = k THEN os[k].labels ELSE << >>
  BY <1>2
<1> QED
  BY <1>3, <1>4 DEF SetExact

\* An object is made from its source in the tree and the label map as it is.
LEMMA CompileExact ==
  ASSUME BuildInv, BuildInv', BinaryInv, Compile
  PROVE  BinaryInv'
<1>0. BuildTypes /\ BuildTypes'
  BY DEF BuildInv
<1>1. UNCHANGED <<tree, versions, input, output, exe, stage, disturbed>> /\ stage = "compile"
  BY DEF Compile, tool
<1>2. objects' = objects /\ labelmap' = labelmap /\ binary' = binary
  BY <1>1 DEF objects, labelmap, binary
<1>3. /\ (\E k \in objects : MainOnly(tree, k))'
      /\ (\A v \in versions, i \in objects : DefinesMain(v[i]) <=> DefinesMain(tree[i]))'
  BY <1>1, <1>2 DEF BinaryInv, MainOnly
<1>4. Exact(output, tree)' <=> Exact(output, tree)
  BY <1>1 DEF Exact
<1>5. PICK i \in outdated \cap objects :
        /\ obj' = [obj EXCEPT ![i] = [unit |-> tree[i], workload |-> env,
                                      labels |-> Embedded(tree[i])]]
        /\ outdated' = Written(i)
  BY DEF Compile
<1>6. outdated' = (outdated \ {i}) \cup {binary}
  BY <1>0, <1>5, Targets DEF Written
<1>7. (Built' <=> Built) /\ (SetExact(exe)' <=> SetExact(exe))
  BY <1>1, <1>2, SameObjects
<1>8. CASE disturbed = "yes"
  BY <1>1, <1>2, <1>3, <1>8 DEF BinaryInv
<1>9. CASE disturbed # "yes"
  <2>1. labelmap \notin outdated /\ binary' \in outdated'
    BY <1>1, <1>2, <1>6, <1>9 DEF BuildInv, CompileInv
  <2>2. Exact(output, tree) /\ \A j \in objects \ outdated : Made(obj[j], tree[j])
    BY <1>1, <1>5, <1>9 DEF BinaryInv
  <2>3. ASSUME NEW j \in objects \ outdated'
        PROVE  Made(obj'[j], tree[j]) /\ obj'[j].unit.text = tree[j].text
    <3>1. CASE j = i
      <4>1. obj'[i] = [unit |-> tree[i], workload |-> env, labels |-> Embedded(tree[i])]
        BY <1>0, <1>5 DEF BuildTypes
      <4> QED
        BY <3>1, <4>1 DEF Made
    <3>2. CASE j # i
      <4>1. obj'[j] = obj[j] /\ j \notin outdated
        BY <1>0, <1>5, <1>6, <2>3, <3>2 DEF BuildTypes
      <4> QED
        BY <2>2, <2>3, <4>1 DEF Made
    <3> QED
      BY <3>1, <3>2
  <2>4. (\A j \in objects \ outdated : Made(obj[j], tree[j]))'
    BY <1>1, <1>2, <2>3 DEF Made, Embedded
  <2>5. (\A j \in objects \ outdated : obj[j].unit.text = tree[j].text)'
    BY <1>1, <1>2, <2>3
  <2>6. ASSUME objects' \cap outdated' = {} PROVE SetExact(obj)'
    <3>1. PICK k \in objects : MainOnly(tree, k)
      BY DEF BinaryInv
    <3>2. DOMAIN tree = objects /\ tree = [j \in objects |-> tree[j]]
      BY <1>0 DEF BuildTypes, objects
    <3>3. \A j \in objects : Made(obj'[j], tree[j])
      BY <1>2, <2>3, <2>6
    <3>4. SetExact(obj')
      BY <2>2, <3>1, <3>2, <3>3, AllMade
    <3>5. UnitsOf(obj)' = UnitsOf(obj')
      BY <1>2 DEF UnitsOf
    <3> QED
      BY <1>2, <3>4, <3>5 DEF SetExact
  <2> QED
    BY <1>1, <1>2, <1>3, <1>4, <1>7, <1>9, <2>1, <2>2, <2>4, <2>5, <2>6 DEF BinaryInv
<1> QED
  BY <1>8, <1>9

LEMMA FailExact ==
  ASSUME BinaryInv, CompileFails
  PROVE  BinaryInv'
<1>1. UNCHANGED <<tree, versions, input>> /\ disturbed' = "yes"
  BY DEF CompileFails, tool
<1>2. objects' = objects
  BY <1>1 DEF objects
<1> QED
  BY <1>1, <1>2 DEF BinaryInv, MainOnly, CompileFails

\* The binary is made from objects that are all up to date.
LEMMA LinkExact ==
  ASSUME BuildInv, BuildInv', BinaryInv, Link
  PROVE  BinaryInv'
<1>0. BuildTypes
  BY DEF BuildInv
<1>1. /\ UNCHANGED <<tree, versions, input, output, obj>>
      /\ stage = "compile" /\ stage' = "idle" /\ outdated \cap objects = {}
      /\ disturbed' = IF disturbed = "healing" THEN "no" ELSE disturbed
      /\ \/ exe' = obj /\ outdated' = Written(binary) /\ binary \in outdated
         \/ exe' = exe /\ outdated' = outdated /\ binary \notin outdated
  BY DEF Link, tool
<1>2. objects' = objects /\ labelmap' = labelmap /\ binary' = binary
  BY <1>1 DEF objects, labelmap, binary
<1>3. /\ (\E k \in objects : MainOnly(tree, k))'
      /\ (\A v \in versions, i \in objects : DefinesMain(v[i]) <=> DefinesMain(tree[i]))'
  BY <1>1, <1>2 DEF BinaryInv, MainOnly
<1>4. CASE disturbed = "yes"
  BY <1>1, <1>2, <1>3, <1>4 DEF BinaryInv
<1>5. CASE disturbed # "yes"
  <2>1. labelmap \notin outdated /\ input = tree
    BY <1>1, <1>5 DEF BuildInv, CompileInv, BinaryInv
  <2>2. SetExact(obj) /\ \A i \in objects : obj[i].unit.text = tree[i].text
    BY <1>1, <1>5, <2>1 DEF BinaryInv
  <2>3. SetExact(obj)'
    BY <1>1, <1>2, <2>2, SameObjects
  <2>4. disturbed' = "no"
    BY <1>0, <1>1, <1>5 DEF BuildTypes
  <2>5. (binary \notin outdated => exe = obj)' /\ (Built' => SetExact(exe)')
    <3>1. CASE exe' = obj
      BY <1>1, <1>2, <2>2, <3>1, SameObjects
    <3>2. CASE exe' = exe /\ outdated' = outdated /\ binary \notin outdated
      <4>1. objects # {}
        BY <1>0 DEF BuildTypes, objects
      <4>2. disturbed = "no"
        BY <1>0, <1>1, <1>5, <3>2, <4>1 DEF BuildTypes, BuildInv, HealInv
      <4>3. exe = obj
        BY <3>2, <4>2 DEF BinaryInv
      <4> QED
        BY <1>1, <1>2, <2>2, <3>2, <4>3, SameObjects
    <3> QED
      BY <1>1, <3>1, <3>2
  <2> QED
    BY <1>1, <1>2, <1>3, <2>1, <2>2, <2>3, <2>4, <2>5 DEF BinaryInv
<1> QED
  BY <1>4, <1>5

LEMMA NextBinary ==
  ASSUME BuildInv, BuildInv', ToolOK, LinesInv, BinaryInv, [BuildNext]_buildVars
  PROVE  BinaryInv'
<1>1. CASE UNCHANGED buildVars
  <2>1. UNCHANGED <<input, output, tree, versions, outdated, obj, exe, stage, disturbed>>
    BY <1>1 DEF buildVars, tool, files
  <2>2. objects' = objects /\ labelmap' = labelmap /\ binary' = binary
    BY <2>1 DEF objects, labelmap, binary
  <2>3. /\ SetExact(obj)' <=> SetExact(obj)
        /\ (SetExact(exe)' <=> SetExact(exe)) /\ (Built' <=> Built)
    BY <2>1, <2>2, SameObjects
  <2>4. Exact(output, tree)' <=> Exact(output, tree)
    BY <2>1 DEF Exact
  <2> QED
    BY <2>1, <2>2, <2>3, <2>4 DEF BinaryInv, MainOnly, Made, Embedded
<1> QED
  BY <1>1, AroundBinary, ToolBinary, CompileExact, FailExact, LinkExact
  DEF BuildNext, ToolCrashes, ToolKilled

\* For every project, every sequence of edits and every moment at which the tool is
\* killed: unless a make was disturbed and the label map has not been made anew in one
\* that was not, the label map in a binary is that of the sources it was compiled from,
\* with one line for each label of a C function and none for a label that is in none of
\* them; and when nothing is outdated, these sources have the texts of those in the
\* tree.  The tool reads the sources make compiles later, and the rules of the Makefile
\* make up for that.
THEOREM BinaryCorrect == BuildSpec => []BinaryExact
<1> DEFINE Inv == BuildInv /\ ToolOK /\ LinesInv /\ BinaryInv
<1>1. BuildInit => Inv
  BY InitBuiltTool, InitBinary DEF BuildInit, LinesInv
<1>2. Inv /\ [BuildNext]_buildVars => Inv'
  <2> SUFFICES ASSUME Inv, [BuildNext]_buildVars PROVE Inv'
    OBVIOUS
  <2>1. BuildInv' /\ ToolOK'
    BY NextBuiltTool
  <2> QED
    BY <2>1, NextBuiltLines, NextBinary
<1>3. Inv => BinaryExact
  BY BinaryIsExact
<1> QED
  BY <1>1, <1>2, <1>3, PTL DEF BuildSpec
=============================================================================
