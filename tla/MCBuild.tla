------------------------------ MODULE MCBuild ------------------------------
(* Builds of the programs of MCLabelMap, undisturbed, and of a program of    *)
(* two sources that is edited, and whose build may fail.                     *)
EXTENDS MCLabelMap, Build, TLC

CONSTANTS work1, work2

\* Either source of a program may be given a label more, and lose it again; so may the
\* function both include from a header, and then neither file changes.
First(ls, header) ==
  [text |-> ls] @@ WithMain({<<main, fb>>, <<fb, fa>>}, {<<fa, l1>>} \cup ls \cup header)
Second(ls, header) ==
  [text |-> ls] @@ Without({<<fc, fa>>}, {<<fa, l1>>, <<method, l1>>} \cup ls \cup header)
Edited ==
  [sources |-> <<First({}, {}), Second({}, {})>>, budget |-> 3,
   versions |-> {<<First({}, {}), Second({}, {})>>,
                 <<First({<<fb, l2>>}, {}), Second({}, {})>>,
                 <<First({}, {}), Second({<<fc, l2>>}, {})>>,
                 <<First({}, {<<fa, l2>>}), Second({}, {<<fa, l2>>})>>}]

Unedited(sources) ==
  [sources |-> [i \in DOMAIN sources |-> [text |-> {}] @@ sources[i]], versions |-> {}, budget |-> 0]

AllProjects == {Unedited(sources) : sources \in OneOrTwoSources} \cup {Edited}

Workloads == {work1, work2}
=============================================================================
