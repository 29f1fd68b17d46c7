----------------------------- MODULE MCLabelMap -----------------------------
(* Every call graph among three C functions and main, and pairs of sources   *)
(* that share an inlined function the way two files share a header.          *)
EXTENDS LabelMap

CONSTANTS main, fa, fb, fc, cxx, method, l1, l2

KeyOrder == <<cxx, fa, fb, fc, main, method>>

\* main calls fa, and a member function calls fb; the calls between fa, fb and fc
\* and the choice of the inlined ones are arbitrary.
AnyGraph ==
  {[defined |-> <<fa, main, fb, fc, method>>, inlined |-> inl,
    calls |-> {<<main, fa>>, <<method, fb>>} \cup cs, labels |-> {<<fa, l1>>, <<fb, l1>>}] :
      inl \in SUBSET {fa, fb, fc}, cs \in SUBSET ({fa, fb, fc} \X {fa, fb, fc})}

\* A source with main and one without it; both include the inlined function fa, and the
\* second has functions outside extern "C".
WithMain(cs, ls) ==
  [defined |-> <<fa, main, fb>>, inlined |-> {fa}, calls |-> cs, labels |-> ls]
Without(cs, ls) ==
  [defined |-> <<fa, fc, cxx, method>>, inlined |-> {fa}, calls |-> {<<cxx, fa>>} \cup cs,
   labels |-> {<<cxx, l1>>} \cup ls]
TwoSources ==
  {<<WithMain(cs1, ls1), Without(cs2, ls2)>> :
     cs1 \in SUBSET {<<fb, fa>>, <<main, fa>>}, cs2 \in SUBSET {<<fc, fa>>, <<method, fa>>},
     ls1 \in SUBSET {<<fa, l1>>, <<fa, l2>>, <<fb, l1>>},
     ls2 \in SUBSET {<<fa, l1>>, <<fa, l2>>, <<method, l1>>}}

OneOrTwoSources == {<<u>> : u \in AnyGraph} \cup TwoSources
=============================================================================
