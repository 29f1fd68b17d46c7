--------------------------- MODULE LabelMap_proofs ---------------------------
(***************************************************************************)
(* Theorems about LabelMap, for every command line and every order of the  *)
(* keys: the walk over the callers of an inlined function finds exactly    *)
(* the functions its body is cloned into, and it ends unless a function is *)
(* inlined into itself.                                                    *)
(***************************************************************************)
EXTENDS LabelMap, FiniteSetTheorems, SequenceTheorems, WellFoundedInduction, TLAPS

----------------------------------------------------------------------------
(* The elements of a sequence.                                             *)

LEMMA ToSetEmpty == ToSet(<< >>) = {}
  BY DEF ToSet

LEMMA ToSetSeq ==
  ASSUME NEW S, NEW s \in Seq(S)
  PROVE  ToSet(s) \subseteq S
  BY DEF ToSet

LEMMA ToSetAppend ==
  ASSUME NEW S, NEW s \in Seq(S), NEW e
  PROVE  ToSet(Append(s, e)) = ToSet(s) \cup {e}
<1> DEFINE l == Append(s, e)
<1>1. /\ DOMAIN l = 1 .. Len(s) + 1 /\ l[Len(s) + 1] = e
      /\ \A i \in 1 .. Len(s) : l[i] = s[i]
      /\ DOMAIN s = 1 .. Len(s) /\ Len(s) \in Nat
  OBVIOUS
<1> HIDE DEF l
<1>2. ASSUME NEW x PROVE x \in ToSet(l) <=> x \in ToSet(s) \cup {e}
  <2>1. ASSUME x \in ToSet(s) PROVE x \in ToSet(l)
    <3>1. PICK i \in 1 .. Len(s) : x = s[i]
      BY <1>1, <2>1 DEF ToSet
    <3> QED
      BY <1>1, <3>1 DEF ToSet
  <2>2. e \in ToSet(l)
    BY <1>1 DEF ToSet
  <2>3. ASSUME x \in ToSet(l) PROVE x \in ToSet(s) \cup {e}
    <3>1. PICK i \in 1 .. Len(s) + 1 : x = l[i]
      BY <1>1, <2>3 DEF ToSet
    <3>2. i = Len(s) + 1 \/ i \in 1 .. Len(s)
      BY <1>1
    <3> QED
      BY <1>1, <3>1, <3>2 DEF ToSet
  <2> QED
    BY <2>1, <2>2, <2>3
<1> QED
  BY <1>2 DEF l

LEMMA ToSetTail ==
  ASSUME NEW S, NEW s \in Seq(S), s # << >>
  PROVE  /\ Head(s) \in S /\ Tail(s) \in Seq(S)
         /\ ToSet(s) = {Head(s)} \cup ToSet(Tail(s))
<1> DEFINE l == Tail(s)
<1>1. /\ DOMAIN l = 1 .. Len(s) - 1 /\ Head(s) = s[1] /\ l \in Seq(S)
      /\ \A i \in 1 .. Len(s) - 1 : l[i] = s[i + 1]
      /\ DOMAIN s = 1 .. Len(s) /\ Len(s) \in Nat \ {0}
  OBVIOUS
<1> HIDE DEF l
<1>2. ASSUME NEW x PROVE x \in ToSet(s) <=> x \in {Head(s)} \cup ToSet(l)
  <2>1. ASSUME x \in ToSet(l) PROVE x \in ToSet(s)
    <3>1. PICK i \in 1 .. Len(s) - 1 : x = l[i]
      BY <1>1, <2>1 DEF ToSet
    <3>2. x = s[i + 1] /\ i + 1 \in 1 .. Len(s)
      BY <1>1, <3>1
    <3> QED
      BY <1>1, <3>2 DEF ToSet
  <2>2. Head(s) \in ToSet(s)
    BY <1>1 DEF ToSet
  <2>3. ASSUME x \in ToSet(s) PROVE x \in {Head(s)} \cup ToSet(l)
    <3>1. PICK i \in 1 .. Len(s) : x = s[i]
      BY <1>1, <2>3 DEF ToSet
    <3>2. i = 1 \/ (i - 1 \in 1 .. Len(s) - 1 /\ l[i - 1] = s[i])
      BY <1>1
    <3> QED
      BY <1>1, <3>1, <3>2 DEF ToSet
  <2> QED
    BY <2>1, <2>2, <2>3
<1>3. Head(s) \in S
  BY <1>1
<1> QED
  BY <1>1, <1>2, <1>3 DEF l

LEMMA InjectiveAppend ==
  ASSUME NEW S, NEW s \in Seq(S), IsInjective(s), NEW e, e \notin ToSet(s)
  PROVE  IsInjective(Append(s, e))
<1> DEFINE l == Append(s, e)
<1>1. /\ DOMAIN l = 1 .. Len(s) + 1 /\ l[Len(s) + 1] = e
      /\ \A i \in 1 .. Len(s) : l[i] = s[i]
      /\ DOMAIN s = 1 .. Len(s) /\ Len(s) \in Nat
  OBVIOUS
<1> HIDE DEF l
<1>2. \A i \in 1 .. Len(s) : l[i] # e
  BY <1>1 DEF ToSet
<1>3. \A i \in DOMAIN l : i = Len(s) + 1 \/ i \in 1 .. Len(s)
  BY <1>1
<1>4. \A i, j \in 1 .. Len(s) : l[i] = l[j] => i = j
  BY <1>1 DEF IsInjective
<1>5. IsInjective(l)
  BY <1>1, <1>2, <1>3, <1>4 DEF IsInjective
<1> QED
  BY <1>5 DEF l

\* The head of a sequence without repetitions is not in its tail.
LEMMA InjectiveTail ==
  ASSUME NEW S, NEW s \in Seq(S), IsInjective(s), s # << >>
  PROVE  IsInjective(Tail(s)) /\ Head(s) \notin ToSet(Tail(s))
<1> DEFINE l == Tail(s)
<1>1. /\ DOMAIN l = 1 .. Len(s) - 1 /\ Head(s) = s[1]
      /\ \A i \in 1 .. Len(s) - 1 : l[i] = s[i + 1]
      /\ DOMAIN s = 1 .. Len(s) /\ Len(s) \in Nat \ {0}
  OBVIOUS
<1> HIDE DEF l
<1>2. \A i \in 1 .. Len(s) - 1 : i + 1 \in 1 .. Len(s) /\ i + 1 # 1
  BY <1>1
<1>3. 1 \in 1 .. Len(s)
  BY <1>1
<1>4. \A i \in 1 .. Len(s) - 1 : l[i] # Head(s)
  BY <1>1, <1>2, <1>3 DEF IsInjective
<1>5. \A i, j \in 1 .. Len(s) - 1 : l[i] = l[j] => i = j
  BY <1>1, <1>2 DEF IsInjective
<1> QED
  BY <1>1, <1>4, <1>5 DEF ToSet, IsInjective, l

----------------------------------------------------------------------------
(* InOrder lists a set of functions.                                       *)

LEMMA LeastNumber ==
  ASSUME NEW T, T \subseteq Nat, T # {}
  PROVE  \E n \in T : \A m \in T : ~(m < n)
<1> DEFINE less == OpToRel(<, Nat)
<1>1. \E n \in T : \A m \in T : ~(<<m, n>> \in less)
  <2> HIDE DEF less
  <2>1. IsWellFoundedOn(less, Nat)
    BY NatLessThanWellFounded DEF less
  <2> QED
    BY <2>1, WFMin, Zenon
<1>2. \A m, n \in Nat : m < n => <<m, n>> \in less
  BY Zenon DEF OpToRel
<1> QED
  BY <1>1, <1>2

\* What InOrder has kept of the first n keys, key by key.
KeptUpTo(S, n, k) ==
  k = [i \in 0 .. n |->
         IF i = 0 THEN << >>
         ELSE IF Order[i] \in S THEN Append(k[i - 1], Order[i]) ELSE k[i - 1]]

LEMMA KeptExists ==
  ASSUME NEW S, NEW n \in Nat
  PROVE  \E k : KeptUpTo(S, n, k)
<1> SUFFICES ASSUME ~\E k : KeptUpTo(S, n, k) PROVE FALSE
  OBVIOUS
<1> DEFINE T == {m \in Nat : ~\E k : KeptUpTo(S, m, k)}
<1>1. PICK m \in T : \A l \in T : ~(l < m)
  BY LeastNumber
<1>2. m # 0
  <2>1. KeptUpTo(S, 0, [i \in 0 .. 0 |-> << >>])
    BY DEF KeptUpTo
  <2> QED
    BY <2>1, <1>1
<1>3. PICK k : KeptUpTo(S, m - 1, k)
  BY <1>1, <1>2
<1> DEFINE last == IF Order[m] \in S THEN Append(k[m - 1], Order[m]) ELSE k[m - 1]
           l == [i \in 0 .. m |-> IF i = m THEN last ELSE k[i]]
<1>4. KeptUpTo(S, m, l)
  <2>1. ASSUME NEW i \in 0 .. m
        PROVE  l[i] = IF i = 0 THEN << >>
                      ELSE IF Order[i] \in S THEN Append(l[i - 1], Order[i]) ELSE l[i - 1]
    <3>1. CASE i = m
      <4>1. l[m] = last /\ l[m - 1] = k[m - 1]
        BY <1>1, <1>2
      <4> QED
        BY <1>2, <3>1, <4>1
    <3>2. CASE i # m
      <4>1. l[i] = k[i] /\ i \in 0 .. m - 1
        BY <1>1, <3>2
      <4>2. i # 0 => l[i - 1] = k[i - 1]
        BY <1>1, <3>2
      <4> QED
        BY <1>3, <4>1, <4>2 DEF KeptUpTo
    <3> QED
      BY <3>1, <3>2
  <2>2. l = [i \in 0 .. m |-> l[i]]
    OBVIOUS
  <2> HIDE DEF l
  <2> QED
    BY <2>1, <2>2 DEF KeptUpTo
<1> QED
  BY <1>1, <1>4

LEMMA InOrderLists ==
  ASSUME NEW S, S \subseteq Functions
  PROVE  InOrder(S) \in Seq(S) /\ ToSet(InOrder(S)) = S /\ IsInjective(InOrder(S))
<1> DEFINE k == CHOOSE f : KeptUpTo(S, Len(Order), f)
           Kept(i) == {Order[j] : j \in 1 .. i} \cap S
           Good(i) == k[i] \in Seq(S) /\ ToSet(k[i]) = Kept(i) /\ IsInjective(k[i])
<1>1. /\ Len(Order) \in Nat /\ S \subseteq Kept(Len(Order))
      /\ \A i, j \in 1 .. Len(Order) : Order[i] = Order[j] => i = j
  BY OrderAssumption DEF Functions, IsInjective
<1>2. InOrder(S) = k[Len(Order)]
  BY DEF InOrder, KeptUpTo
<1>3. KeptUpTo(S, Len(Order), k)
  BY <1>1, KeptExists
<1> HIDE DEF k
<1>4. \A i \in 0 .. Len(Order) : Good(i)
  <2> SUFFICES ASSUME NEW b \in 0 .. Len(Order), ~Good(b) PROVE FALSE
    OBVIOUS
  <2> DEFINE T == {i \in 0 .. Len(Order) : ~Good(i)}
  <2>1. PICK i \in T : \A j \in T : ~(j < i)
    <3>1. T \subseteq Nat /\ T # {}
      OBVIOUS
    <3> HIDE DEF T
    <3> QED
      BY <3>1, LeastNumber
  <2>2. i \in 0 .. Len(Order) /\ i \in Nat /\ ~Good(i)
    BY <1>1, <2>1
  <2>3. k[0] = << >> /\ Good(0)
    <3>1. k[0] = << >>
      BY <1>1, <1>3 DEF KeptUpTo
    <3>2. Kept(0) = {}
      OBVIOUS
    <3>3. IsInjective(<< >>)
      BY DEF IsInjective
    <3> QED
      BY <3>1, <3>2, <3>3, ToSetEmpty
  <2>4. i - 1 \in 0 .. Len(Order) /\ Good(i - 1)
    <3>1. i # 0
      <4> HIDE DEF Good
      <4> QED
        BY <2>2, <2>3
    <3>2. i - 1 \in 0 .. Len(Order) /\ i - 1 < i
      BY <1>1, <2>2, <3>1
    <3>3. i - 1 \notin T
      BY <2>1, <3>2
    <3> HIDE DEF Good
    <3> QED
      BY <3>2, <3>3
  <2>5. k[i] = IF Order[i] \in S THEN Append(k[i - 1], Order[i]) ELSE k[i - 1]
    BY <1>1, <1>3, <2>2, <2>3 DEF KeptUpTo
  <2>6. Kept(i) = Kept(i - 1) \cup ({Order[i]} \cap S)
    <3>1. 1 .. i = (1 .. i - 1) \cup {i}
      BY <2>2, <2>4
    <3> QED
      BY <3>1
  <2>7. Order[i] \notin Kept(i - 1)
    <3> HIDE DEF Good
    <3>1. /\ i \in 1 .. Len(Order)
          /\ \A j \in 1 .. i - 1 : j \in 1 .. Len(Order) /\ j # i
      BY <1>1, <2>2, <2>4
    <3>2. \A j \in 1 .. i - 1 : Order[j] # Order[i]
      BY <1>1, <3>1
    <3> QED
      BY <3>2
  <2> HIDE DEF Kept
  <2>8. CASE Order[i] \in S
    <3>1. IsInjective(k[i])
      BY <2>4, <2>5, <2>7, <2>8, InjectiveAppend
    <3> QED
      BY <2>2, <2>4, <2>5, <2>6, <2>8, <3>1, ToSetAppend
  <2>9. CASE Order[i] \notin S
    BY <2>2, <2>4, <2>5, <2>6, <2>9
  <2> QED
    BY <2>8, <2>9
<1>5. Good(Len(Order)) /\ Kept(Len(Order)) = S
  <2>1. Good(Len(Order))
    BY <1>1, <1>4
  <2> HIDE DEF Good
  <2> QED
    BY <1>1, <2>1
<1> QED
  BY <1>2, <1>5

----------------------------------------------------------------------------
(* Where the body of an inlined function ends up.                          *)

LEMMA ClonedSelf ==
  ASSUME NEW u, NEW f \in Functions
  PROVE  f \in ClonedInto(u, f)
  BY DEF ClonedInto

LEMMA ClonedCaller ==
  ASSUME NEW u, UnitOK(u), NEW f, NEW g \in ClonedInto(u, f), g \in u.inlined,
         NEW h, <<h, g>> \in FreeCalls(u)
  PROVE  h \in ClonedInto(u, f)
<1>1. h \in Functions
  BY ToSetSeq DEF UnitOK, FreeCalls
<1>2. ASSUME NEW S \in SUBSET Functions, f \in S,
             \A c \in FreeCalls(u) : c[2] \in S \cap u.inlined => c[1] \in S
      PROVE  h \in S
  <2>1. g \in S
    BY <1>2 DEF ClonedInto
  <2> QED
    BY <1>2, <2>1
<1> QED
  BY <1>1, <1>2 DEF ClonedInto

LEMMA ClonedLeast ==
  ASSUME NEW u, UnitOK(u), NEW f, NEW S, S \subseteq Functions, f \in S,
         \A c \in FreeCalls(u) : c[2] \in S \cap u.inlined => c[1] \in S
  PROVE  ClonedInto(u, f) \subseteq S
  BY DEF ClonedInto

----------------------------------------------------------------------------
(* The calls of findAllNoninlinedCallers that are active at a time.        *)

Leaves(u) == u.inlined \ Methods

\* Callers recorded for g once the functions of V have been visited.
CallersOf(u, V, g) == {f \in V : f # MainFn /\ <<f, g>> \in u.calls}

Free(u) == ToSet(u.defined) \ Methods

Frames(u) == [leaf : Leaves(u), callers : Seq(Functions)]

\* Each call is made for a caller of the one below, and looks at recorded callers only;
\* so the body of each leaf is cloned into all the later ones.
Chained(u, w) ==
  /\ w \in Seq(Frames(u))
  /\ \A i \in 1 .. Len(w) :
       ToSet(w[i].callers) \subseteq CallersOf(u, Free(u), w[i].leaf)
  /\ \A i \in 1 .. Len(w) - 1 : <<w[i + 1].leaf, w[i].leaf>> \in FreeCalls(u)
  /\ \A k \in 1 .. Len(w) : \A i \in 1 .. k : w[k].leaf \in ClonedInto(u, w[i].leaf)

\* A walk with the next caller taken from the innermost call.
Taken(w) ==
  LET top == w[Len(w)]
  IN [w EXCEPT ![Len(w)] = [top EXCEPT !.callers = Tail(top.callers)]]

LEMMA TakenFrames ==
  ASSUME NEW u, NEW w, Chained(u, w), w # << >>, w[Len(w)].callers # << >>
  PROVE  /\ Chained(u, Taken(w)) /\ Len(Taken(w)) = Len(w)
         /\ \A i \in 1 .. Len(w) :
              /\ Taken(w)[i].leaf = w[i].leaf
              /\ i # Len(w) => Taken(w)[i] = w[i]
         /\ Taken(w)[Len(w)].callers = Tail(w[Len(w)].callers)
         /\ Head(w[Len(w)].callers) \in CallersOf(u, Free(u), w[Len(w)].leaf)
         /\ ToSet(w[Len(w)].callers) =
              {Head(w[Len(w)].callers)} \cup ToSet(Taken(w)[Len(w)].callers)
<1> DEFINE n == Len(w)
           v == Taken(w)
           F == Frames(u)
<1>0. w \in Seq(F)
  BY DEF Chained
<1>1. n \in Nat /\ n \in 1 .. n /\ w[n] \in F /\ w[n].callers \in Seq(Functions)
  <2>1. n \in Nat /\ n \in 1 .. n /\ w[n] \in F
    BY <1>0
  <2> QED
    BY <2>1 DEF Frames
<1>2. /\ Tail(w[n].callers) \in Seq(Functions)
      /\ ToSet(w[n].callers) = {Head(w[n].callers)} \cup ToSet(Tail(w[n].callers))
  BY <1>1, ToSetTail
<1>3. v = [w EXCEPT ![n] = [w[n] EXCEPT !.callers = Tail(w[n].callers)]]
  BY DEF Taken
<1> DEFINE top == [w[n] EXCEPT !.callers = Tail(w[n].callers)]
<1>4. top \in F /\ top.leaf = w[n].leaf /\ top.callers = Tail(w[n].callers)
  BY <1>1, <1>2 DEF Frames
<1> HIDE DEF top
<1>5. /\ v \in Seq(F) /\ Len(v) = n /\ v[n] = top
      /\ \A i \in 1 .. n : i # n => v[i] = w[i]
  <2>1. v = [w EXCEPT ![n] = top]
    BY <1>3 DEF top
  <2> HIDE DEF v, F
  <2> QED
    BY <1>0, <1>1, <1>4, <2>1
<1> HIDE DEF v
<1>6. v[n].leaf = w[n].leaf /\ v[n].callers = Tail(w[n].callers)
  BY <1>4, <1>5
<1>7. \A i \in 1 .. n : v[i].leaf = w[i].leaf
  BY <1>5, <1>6
<1>8. \A i \in 1 .. n : ToSet(v[i].callers) \subseteq ToSet(w[i].callers)
  BY <1>2, <1>5, <1>6
<1>9. Chained(u, v)
  <2>1. \A i \in 1 .. n : ToSet(v[i].callers) \subseteq CallersOf(u, Free(u), v[i].leaf)
    BY <1>7, <1>8 DEF Chained
  <2>2. \A i \in 1 .. n - 1 : <<v[i + 1].leaf, v[i].leaf>> \in FreeCalls(u)
    <3>1. \A i \in 1 .. n - 1 : i \in 1 .. n /\ i + 1 \in 1 .. n
      BY <1>1
    <3> QED
      BY <1>7, <3>1 DEF Chained
  <2>3. \A k \in 1 .. n : \A i \in 1 .. k : v[k].leaf \in ClonedInto(u, v[i].leaf)
    <3>1. \A k \in 1 .. n : \A i \in 1 .. k : i \in 1 .. n
      BY <1>1
    <3> QED
      BY <1>7, <3>1 DEF Chained
  <2> QED
    BY <1>5, <2>1, <2>2, <2>3 DEF Chained
<1>10. Head(w[n].callers) \in CallersOf(u, Free(u), w[n].leaf)
  BY <1>1, <1>2 DEF Chained
<1> QED
  BY <1>2, <1>5, <1>6, <1>7, <1>9, <1>10 DEF v

\* A caller that is taken is a free function that calls the leaf, and if it is inlined,
\* it can be searched in turn.
LEMMA ChainGrows ==
  ASSUME NEW u, UnitOK(u), NEW w, Chained(u, w), w # << >>,
         NEW h \in CallersOf(u, Free(u), w[Len(w)].leaf), h \in u.inlined,
         NEW s \in Seq(Functions), ToSet(s) \subseteq CallersOf(u, Free(u), h)
  PROVE  Chained(u, Append(w, [leaf |-> h, callers |-> s]))
<1> DEFINE n == Len(w)
           top == [leaf |-> h, callers |-> s]
           v == Append(w, top)
           F == Frames(u)
<1>0. w \in Seq(F)
  BY DEF Chained
<1>1. n \in Nat /\ n \in 1 .. n /\ w[n].leaf \in Leaves(u)
  <2>1. n \in Nat /\ n \in 1 .. n /\ w[n] \in F
    BY <1>0
  <2> QED
    BY <2>1 DEF Frames
<1>2. h \in Leaves(u) /\ h \in Functions /\ <<h, w[n].leaf>> \in FreeCalls(u)
  BY ToSetSeq DEF CallersOf, Free, Leaves, FreeCalls, UnitOK
<1>3. top \in F /\ top.leaf = h /\ top.callers = s
  BY <1>2 DEF Frames
<1> HIDE DEF top
<1>4. /\ v \in Seq(F) /\ Len(v) = n + 1 /\ v[n + 1] = top
      /\ \A i \in 1 .. n : v[i] = w[i]
  BY <1>0, <1>1, <1>3
<1> HIDE DEF v, n
<1>5. \A i \in 1 .. n + 1 : ToSet(v[i].callers) \subseteq CallersOf(u, Free(u), v[i].leaf)
  <2>1. ASSUME NEW i \in 1 .. n
        PROVE  ToSet(v[i].callers) \subseteq CallersOf(u, Free(u), v[i].leaf)
    BY <1>4, <2>1 DEF Chained, n
  <2> QED
    BY <1>1, <1>3, <1>4, <2>1
<1>6. \A i \in 1 .. n : <<v[i + 1].leaf, v[i].leaf>> \in FreeCalls(u)
  <2>1. ASSUME NEW i \in 1 .. n - 1
        PROVE  <<v[i + 1].leaf, v[i].leaf>> \in FreeCalls(u)
    <3>1. v[i] = w[i] /\ v[i + 1] = w[i + 1]
      BY <1>1, <1>4
    <3>2. <<w[i + 1].leaf, w[i].leaf>> \in FreeCalls(u)
      BY DEF Chained, n
    <3> QED
      BY <3>1, <3>2
  <2>2. <<v[n + 1].leaf, v[n].leaf>> \in FreeCalls(u)
    BY <1>1, <1>2, <1>3, <1>4 DEF n
  <2> QED
    BY <1>1, <2>1, <2>2
<1>7. ASSUME NEW i \in 1 .. n + 1 PROVE h \in ClonedInto(u, v[i].leaf)
  <2>1. CASE i \in 1 .. n
    <3>1. w[n].leaf \in ClonedInto(u, w[i].leaf)
      BY <1>1, <2>1 DEF Chained, n
    <3> QED
      BY <1>1, <1>2, <1>4, <2>1, <3>1, ClonedCaller DEF Leaves
  <2>2. CASE i = n + 1
    BY <1>2, <1>3, <1>4, <2>2, ClonedSelf
  <2> QED
    BY <1>1, <2>1, <2>2
<1>8. ASSUME NEW k \in 1 .. n + 1, NEW i \in 1 .. k
      PROVE  v[k].leaf \in ClonedInto(u, v[i].leaf)
  <2>1. CASE k \in 1 .. n
    <3>1. v[k] = w[k] /\ v[i] = w[i]
      BY <1>1, <1>4, <2>1
    <3>2. w[k].leaf \in ClonedInto(u, w[i].leaf)
      BY <2>1 DEF Chained, n
    <3> QED
      BY <3>1, <3>2
  <2>2. CASE k = n + 1
    BY <1>3, <1>4, <1>7, <2>2
  <2> QED
    BY <1>1, <2>1, <2>2
<1> QED
  <2>1. Len(v) - 1 = n
    BY <1>1, <1>4
  <2>2. Chained(u, v)
    <3>1. \A i \in 1 .. Len(v) : ToSet(v[i].callers) \subseteq CallersOf(u, Free(u), v[i].leaf)
      BY <1>4, <1>5
    <3>2. \A i \in 1 .. Len(v) - 1 : <<v[i + 1].leaf, v[i].leaf>> \in FreeCalls(u)
      BY <1>6, <2>1
    <3>3. \A k \in 1 .. Len(v) : \A i \in 1 .. k : v[k].leaf \in ClonedInto(u, v[i].leaf)
      BY <1>4, <1>8
    <3> QED
      BY <1>4, <3>1, <3>2, <3>3, Zenon DEF Chained
  <2> QED
    BY <2>2 DEF v, top

LEMMA InlinedFinite ==
  ASSUME NEW u, UnitOK(u)
  PROVE  IsFiniteSet(u.inlined)
<1> DEFINE d == u.defined
<1>1. d \in [1 .. Len(d) -> ToSet(d)] /\ Len(d) \in Nat
  BY DEF UnitOK, ToSet
<1>2. d \in Surjection(1 .. Len(d), ToSet(d))
  BY <1>1 DEF Surjection, ToSet
<1>3. IsFiniteSet(ToSet(d))
  BY <1>1, <1>2, FS_Interval, FS_Surjection
<1> QED
  BY <1>3, FS_Subset DEF UnitOK

\* More active calls than there are inlined functions: one is searched within itself.
LEMMA ChainCycle ==
  ASSUME NEW u, UnitOK(u), NEW w, Chained(u, w), Cardinality(u.inlined) < Len(w)
  PROVE  InlineCycle(u)
<1> DEFINE n == Len(w)
           leaf == [i \in 1 .. n |-> w[i].leaf]
<1>1. /\ n \in Nat /\ IsFiniteSet(1 .. n) /\ Cardinality(1 .. n) = n
      /\ \A i \in 1 .. n : w[i].leaf \in Leaves(u)
  <2>1. w \in Seq(Frames(u)) /\ n \in Nat
    BY DEF Chained
  <2>2. \A i \in 1 .. n : w[i] \in Frames(u)
    BY <2>1
  <2>3. IsFiniteSet(1 .. n) /\ Cardinality(1 .. n) = n
    <3> HIDE DEF n
    <3> QED
      BY <2>1, FS_Interval
  <2>4. \A i \in 1 .. n : w[i].leaf \in Leaves(u)
    BY <2>2 DEF Frames
  <2> QED
    BY <2>1, <2>3, <2>4
<1>2. IsFiniteSet(u.inlined)
  BY InlinedFinite
<1>3. leaf \in [1 .. n -> u.inlined]
  BY <1>1 DEF Leaves
<1>4. PICK i, j \in 1 .. n : i < j /\ leaf[i] = leaf[j]
  <2> HIDE DEF leaf, n
  <2>1. PICK i, j \in 1 .. n : i # j /\ leaf[i] = leaf[j]
    <3>1. Cardinality(u.inlined) < Cardinality(1 .. n)
      BY <1>1 DEF n
    <3> QED
      BY <1>1, <1>2, <1>3, <3>1, FS_PigeonHole
  <2> QED
    BY <1>1, <2>1
<1> DEFINE c == <<w[i + 1].leaf, w[i].leaf>>
<1>5. c \in FreeCalls(u) /\ i + 1 \in 1 .. n
  BY <1>1, <1>4 DEF Chained
<1>6. w[j].leaf \in ClonedInto(u, w[i + 1].leaf)
  BY <1>1, <1>4, <1>5 DEF Chained
<1> QED
  BY <1>1, <1>4, <1>5, <1>6 DEF InlineCycle, Leaves

----------------------------------------------------------------------------
(* What is recorded while a source is visited.                             *)

\* labelMap once the functions of V have been visited.
MapOf(u, V) ==
  [g \in V \cup {h \in Functions : CallersOf(u, V, h) # {}} |->
     [labels  |-> {l \in Labels : g \in V /\ <<g, l>> \in u.labels},
      callers |-> CallersOf(u, V, g),
      inlined |-> g \in V /\ g \in u.inlined]]

LEMMA NothingVisited ==
  ASSUME NEW u
  PROVE  << >> = MapOf(u, {})
  BY DEF MapOf, CallersOf

\* Functions are visited one by one, in any order.
LEMMA RecordMore ==
  ASSUME NEW V, V \subseteq Functions, labelMap = MapOf(Unit, V), NEW f \in Functions
  PROVE  Record(f) = MapOf(Unit, V \cup {f})
<1> DEFINE W == V \cup {f}
           D == DOMAIN labelMap \cup {f} \cup Callees(f)
<1>1. ASSUME NEW g \in Functions
      PROVE  /\ Info(g).labels = {l \in Labels : g \in V /\ <<g, l>> \in Unit.labels}
             /\ Info(g).callers = CallersOf(Unit, V, g)
             /\ Info(g).inlined <=> g \in V /\ g \in Unit.inlined
             /\ Info(g).inlined \in BOOLEAN
  <2>1. CASE g \in DOMAIN labelMap
    BY <2>1 DEF Info, MapOf
  <2>2. CASE g \notin DOMAIN labelMap
    <3>1. g \notin V /\ CallersOf(Unit, V, g) = {} /\ Info(g) = NoInfo
      BY <2>2 DEF Info, MapOf
    <3> QED
      BY <3>1 DEF NoInfo
  <2> QED
    BY <2>1, <2>2
<1>2. ASSUME NEW g
      PROVE  CallersOf(Unit, W, g) = CallersOf(Unit, V, g)
                                       \cup (IF f # MainFn /\ <<f, g>> \in Unit.calls
                                             THEN {f} ELSE {})
  BY DEF CallersOf
<1>3. D \subseteq Functions /\ D = W \cup {h \in Functions : CallersOf(Unit, W, h) # {}}
  <2>1. DOMAIN labelMap = V \cup {h \in Functions : CallersOf(Unit, V, h) # {}}
    BY DEF MapOf
  <2> QED
    BY <1>2, <2>1 DEF Callees
<1>4. ASSUME NEW g \in D
      PROVE  [labels  |-> Info(g).labels \cup
                    (IF g = f THEN {l \in Labels : <<f, l>> \in Unit.labels} ELSE {}),
              callers |-> Info(g).callers \cup (IF g \in Callees(f) THEN {f} ELSE {}),
              inlined |-> Info(g).inlined \/ (g = f /\ f \in Unit.inlined)]
             = [labels  |-> {l \in Labels : g \in W /\ <<g, l>> \in Unit.labels},
                callers |-> CallersOf(Unit, W, g),
                inlined |-> g \in W /\ g \in Unit.inlined]
  <2>0. g \in Functions
    BY <1>3
  <2>1. Info(g).labels \cup (IF g = f THEN {l \in Labels : <<f, l>> \in Unit.labels} ELSE {})
          = {l \in Labels : g \in W /\ <<g, l>> \in Unit.labels}
    BY <1>1, <2>0
  <2>2. Info(g).callers \cup (IF g \in Callees(f) THEN {f} ELSE {}) = CallersOf(Unit, W, g)
    BY <1>1, <1>2, <2>0 DEF Callees
  <2>3. (Info(g).inlined \/ (g = f /\ f \in Unit.inlined)) = (g \in W /\ g \in Unit.inlined)
    BY <1>1, <2>0
  <2> QED
    BY <2>1, <2>2, <2>3, Zenon
<1> HIDE DEF D, W
<1>5. Record(f) =
        [g \in D |->
           [labels  |-> Info(g).labels \cup
                    (IF g = f THEN {l \in Labels : <<f, l>> \in Unit.labels} ELSE {}),
            callers |-> Info(g).callers \cup (IF g \in Callees(f) THEN {f} ELSE {}),
            inlined |-> Info(g).inlined \/ (g = f /\ f \in Unit.inlined)]]
  BY DEF Record, D
<1>6. MapOf(Unit, W) =
        [g \in D |->
           [labels  |-> {l \in Labels : g \in W /\ <<g, l>> \in Unit.labels},
            callers |-> CallersOf(Unit, W, g),
            inlined |-> g \in W /\ g \in Unit.inlined]]
  BY <1>3 DEF MapOf
<1>7. Record(f) = MapOf(Unit, W)
  BY <1>4, <1>5, <1>6, Zenon
<1> QED
  BY <1>7 DEF W

----------------------------------------------------------------------------
(* The state of the tool.                                                  *)

Reading == {"visit", "write", "walk", "overflow"}

InputOK == input \in Seq(ToSet(input)) /\ \A u \in ToSet(input) : UnitOK(u)

\* The functions of V have been visited, the others are still to be.
Visited(V) ==
  /\ labelMap = MapOf(Unit, V) /\ unvisited \in Seq(Functions)
  /\ V \cup (ToSet(unvisited) \ Methods) = Free(Unit)

\* labelMap holds what the part of the current source that has been visited says, and
\* nothing of any other source.
MapInv ==
  /\ src \in Nat \ {0} /\ phase \in {"cleanup", "next"} \cup Reading
  /\ phase \in {"cleanup", "next"} => labelMap = << >>
  /\ phase \in Reading => src <= Len(input) /\ UnitOK(Unit)
  /\ phase = "visit" => \E V \in SUBSET Functions : Visited(V)
  /\ phase \in {"write", "walk", "overflow"} =>
       labelMap = MapOf(Unit, Free(Unit)) /\ names \in Seq(DOMAIN labelMap)

\* A search that has got as far as the functions of D: what is left of their callers
\* is on the stack.
Searched(D) ==
  /\ Head(names) \in D /\ D \subseteq Leaves(Unit)
  /\ \A d \in D : \A h \in CallersOf(Unit, Free(Unit), d) :
       \/ h \in D \cup ToSet(found)
       \/ \E i \in 1 .. Len(walk) : walk[i].leaf = d /\ h \in ToSet(walk[i].callers)

\* The functions that the line of Head(names) should name.
Named == ClonedInto(Unit, Head(names)) \ (Unit.inlined \cup {MainFn})

SearchInv ==
  phase = "walk" =>
    /\ names # << >> /\ Head(names) \in Leaves(Unit)
    /\ Chained(Unit, walk) /\ Len(walk) <= StackLimit
    /\ \A i \in 1 .. Len(walk) : walk[i].leaf \in ClonedInto(Unit, Head(names))
    /\ found \in Seq(Named)
    /\ \E D : Searched(D)

\* What labelMap says of a function it knows, once the source has been visited.
LEMMA MapSays ==
  ASSUME MapInv, phase \in {"write", "walk", "overflow"}, NEW g \in DOMAIN labelMap
  PROVE  /\ g \in Functions
         /\ labelMap[g].callers = CallersOf(Unit, Free(Unit), g)
         /\ labelMap[g].inlined <=> g \in Leaves(Unit)
         /\ CallersOf(Unit, Free(Unit), g) \subseteq DOMAIN labelMap \cap Functions
<1>1. UnitOK(Unit) /\ labelMap = MapOf(Unit, Free(Unit))
  BY DEF MapInv, Reading
<1>2. Free(Unit) \subseteq Functions
  BY <1>1, ToSetSeq DEF Free, UnitOK
<1>3. Leaves(Unit) \subseteq Free(Unit)
  BY <1>1 DEF Leaves, Free, UnitOK
<1>4. CallersOf(Unit, Free(Unit), g) \subseteq Free(Unit)
  BY DEF CallersOf
<1> QED
  BY <1>1, <1>2, <1>3, <1>4 DEF MapOf, Leaves, Free

\* The frame of a new call holds every recorded caller.
LEMMA FrameSays ==
  ASSUME MapInv, phase \in {"write", "walk"}, NEW g \in DOMAIN labelMap
  PROVE  /\ Frame(g) = [leaf |-> g, callers |-> Frame(g).callers]
         /\ Frame(g).callers \in Seq(Functions)
         /\ ToSet(Frame(g).callers) = CallersOf(Unit, Free(Unit), g)
<1> DEFINE C == CallersOf(Unit, Free(Unit), g)
<1>1. labelMap[g].callers = C /\ C \subseteq Functions
  BY MapSays
<1>2. InOrder(C) \in Seq(C) /\ ToSet(InOrder(C)) = C
  BY <1>1, InOrderLists
<1>3. InOrder(C) \in Seq(Functions)
  BY <1>1, <1>2
<1>4. Frame(g) = [leaf |-> g, callers |-> InOrder(C)]
  BY <1>1 DEF Frame
<1> QED
  BY <1>2, <1>3, <1>4

LEMMA RunMap ==
  ASSUME InputOK, MapInv, SearchInv, Run
  PROVE  MapInv'
<1>1. src \in Nat \ {0} /\ phase \in {"cleanup", "next"} \cup Reading
  BY DEF MapInv
<1>2. CASE Cleanup
  BY <1>2 DEF Cleanup, MapInv, Reading
<1>3. CASE BeginSource
  <2>1. src <= Len(input) /\ input[src] \in ToSet(input) /\ UnitOK(Unit)
    BY <1>1, <1>3 DEF BeginSource, InputOK, ToSet, Unit
  <2>2. /\ UNCHANGED <<input, src, labelMap>> /\ phase' = "visit" /\ labelMap = << >>
        /\ unvisited' = Unit.defined /\ Unit' = Unit
    BY <1>3 DEF BeginSource, MapInv, Unit
  <2>3. Visited({})'
    BY <2>1, <2>2, NothingVisited DEF Visited, Free, UnitOK
  <2> QED
    BY <1>1, <2>1, <2>2, <2>3 DEF MapInv, Reading
<1>4. CASE VisitFunctionDecl
  <2>0. /\ UNCHANGED <<input, src, phase>> /\ phase = "visit" /\ unvisited # << >>
        /\ unvisited' = Tail(unvisited) /\ Unit' = Unit /\ UnitOK(Unit)
    BY <1>4 DEF VisitFunctionDecl, MapInv, Reading, Unit
  <2>1. PICK V \in SUBSET Functions : Visited(V)
    BY <2>0 DEF MapInv
  <2> DEFINE f == Head(unvisited)
  <2>2. /\ f \in Functions /\ Tail(unvisited) \in Seq(Functions)
        /\ ToSet(unvisited) = {f} \cup ToSet(Tail(unvisited))
    BY <2>0, <2>1, ToSetTail DEF Visited
  <2>3. \E W \in SUBSET Functions : Visited(W)'
    <3>1. CASE f \in Methods
      <4>1. Visited(V)'
        BY <1>4, <2>0, <2>1, <2>2, <3>1 DEF VisitFunctionDecl, Visited
      <4> QED
        BY <4>1
    <3>2. CASE f \notin Methods
      <4>1. PICK W \in SUBSET Functions : W = V \cup {f}
        BY <2>2
      <4>2. labelMap' = MapOf(Unit, W)
        BY <1>4, <2>1, <2>2, <3>2, <4>1, RecordMore DEF VisitFunctionDecl, Visited
      <4>3. W \cup (ToSet(Tail(unvisited)) \ Methods) = Free(Unit)
        BY <2>1, <2>2, <3>2, <4>1 DEF Visited
      <4>4. Visited(W)'
        BY <2>0, <2>2, <4>2, <4>3 DEF Visited
      <4> QED
        BY <4>4
    <3> QED
      BY <3>1, <3>2
  <2> QED
    BY <1>1, <2>0, <2>3 DEF MapInv
<1>5. CASE EndSourceFile
  <2>0. /\ UNCHANGED <<input, src, labelMap>> /\ phase = "visit" /\ phase' = "write"
        /\ unvisited = << >> /\ names' = InOrder(DOMAIN labelMap) /\ Unit' = Unit
        /\ UnitOK(Unit)
    BY <1>5 DEF EndSourceFile, MapInv, Reading, Unit
  <2>1. PICK V \in SUBSET Functions : Visited(V)
    BY <2>0 DEF MapInv
  <2>2. V = Free(Unit)
    BY <2>0, <2>1, ToSetEmpty DEF Visited
  <2>3. labelMap = MapOf(Unit, Free(Unit)) /\ DOMAIN labelMap \subseteq Functions
    BY <2>1, <2>2 DEF Visited, MapOf
  <2>4. names' \in Seq(DOMAIN labelMap)
    BY <2>0, <2>3, InOrderLists
  <2> QED
    BY <1>1, <2>0, <2>3, <2>4 DEF MapInv, Reading
<1>6. CASE WritePlain \/ WriteInlined
  <2>1. /\ UNCHANGED <<input, src, labelMap>> /\ phase \in {"write", "walk"} /\ phase' = "write"
        /\ names # << >> /\ names' = Tail(names) /\ Unit' = Unit
    BY <1>6 DEF WritePlain, WriteInlined, SearchInv, Unit
  <2>2. UnitOK(Unit) /\ labelMap = MapOf(Unit, Free(Unit)) /\ names \in Seq(DOMAIN labelMap)
    BY <2>1 DEF MapInv, Reading
  <2>3. names' \in Seq(DOMAIN labelMap)
    BY <2>1, <2>2, ToSetTail
  <2> QED
    BY <1>1, <2>1, <2>2, <2>3 DEF MapInv, Reading
<1>7. CASE StartWalk \/ Walk \/ Return
  BY <1>1, <1>7 DEF StartWalk, Walk, Return, MapInv, Reading, Unit
<1>8. CASE Finish
  BY <1>1, <1>8 DEF Finish, MapInv, Reading
<1> QED
  BY <1>2, <1>3, <1>4, <1>5, <1>6, <1>7, <1>8 DEF Run

----------------------------------------------------------------------------
(* findAllNoninlinedCallers.                                               *)

\* What the search has got at the next caller that it takes.
LEMMA NextCaller ==
  ASSUME MapInv, SearchInv, Walk
  PROVE  LET h == Head(walk[Len(walk)].callers)
             g == walk[Len(walk)].leaf
         IN /\ Advanced = Taken(walk) /\ Chained(Unit, walk)
            /\ g \in Leaves(Unit) /\ h \in CallersOf(Unit, Free(Unit), g)
            /\ h \in DOMAIN labelMap /\ h \in ClonedInto(Unit, Head(names))
            /\ labelMap[h].inlined <=> h \in Leaves(Unit)
            /\ h # MainFn /\ (h \notin Leaves(Unit) => h \notin Unit.inlined)
<1> DEFINE n == Len(walk)
           h == Head(walk[n].callers)
           g == walk[n].leaf
<1>1. /\ phase = "walk" /\ walk # << >> /\ walk[n].callers # << >>
      /\ UnitOK(Unit) /\ Chained(Unit, walk)
      /\ \A i \in 1 .. n : walk[i].leaf \in ClonedInto(Unit, Head(names))
      /\ names # << >> /\ names \in Seq(DOMAIN labelMap)
  BY DEF Walk, MapInv, SearchInv, Reading
<1>2. walk[n] \in Frames(Unit) /\ n \in 1 .. n
  BY <1>1 DEF Chained
<1>3. h \in CallersOf(Unit, Free(Unit), g)
  BY <1>1, TakenFrames
<1>4. g \in Leaves(Unit) /\ g \in ClonedInto(Unit, Head(names))
  BY <1>1, <1>2 DEF Frames
<1>5. g \in DOMAIN labelMap
  <2>1. labelMap = MapOf(Unit, Free(Unit)) /\ g \in Free(Unit)
    BY <1>1, <1>4 DEF MapInv, Leaves, Free, UnitOK
  <2> QED
    BY <2>1 DEF MapOf
<1>6. h \in DOMAIN labelMap
  BY <1>1, <1>3, <1>5, MapSays
<1>7. labelMap[h].inlined <=> h \in Leaves(Unit)
  BY <1>1, <1>6, MapSays
<1>8. h \notin Methods /\ h # MainFn /\ <<h, g>> \in FreeCalls(Unit)
  BY <1>3 DEF CallersOf, Free, FreeCalls
<1>9. h \in ClonedInto(Unit, Head(names))
  BY <1>1, <1>4, <1>8, ClonedCaller DEF Leaves
<1>10. Advanced = Taken(walk)
  BY DEF Advanced, Taken
<1> QED
  BY <1>1, <1>3, <1>4, <1>6, <1>7, <1>8, <1>9, <1>10 DEF Leaves

\* The stack overflows only if there are more active calls than inlined functions.
LEMMA OverflowCycle ==
  ASSUME MapInv, SearchInv, Walk, phase' = "overflow", Cardinality(Unit.inlined) <= StackLimit
  PROVE  InlineCycle(Unit)
<1> DEFINE n == Len(walk)
           h == Head(walk[n].callers)
<1>1. /\ phase = "walk" /\ walk # << >> /\ walk[n].callers # << >> /\ n = StackLimit
      /\ labelMap[h].inlined /\ UnitOK(Unit)
  BY DEF Walk, MapInv, Reading
<1>2. /\ Chained(Unit, walk) /\ h \in CallersOf(Unit, Free(Unit), walk[n].leaf)
      /\ h \in DOMAIN labelMap /\ h \in Leaves(Unit)
  BY <1>1, NextCaller
<1>3. /\ Frame(h).callers \in Seq(Functions)
      /\ ToSet(Frame(h).callers) = CallersOf(Unit, Free(Unit), h)
  BY <1>1, <1>2, FrameSays
<1> DEFINE w == Append(walk, [leaf |-> h, callers |-> Frame(h).callers])
<1>4. Chained(Unit, w)
  BY <1>1, <1>2, <1>3, ChainGrows DEF Leaves
<1>5. Len(w) = StackLimit + 1
  BY <1>1, <1>2 DEF Chained
<1>6. Cardinality(Unit.inlined) < Len(w)
  <2>1. IsFiniteSet(Unit.inlined)
    BY <1>1, InlinedFinite
  <2>2. Cardinality(Unit.inlined) \in Nat
    BY <2>1, FS_CardinalityType
  <2> HIDE DEF w
  <2> QED
    BY <1>5, <2>2, StackAssumption
<1> QED
  BY <1>1, <1>4, <1>6, ChainCycle

LEMMA StartSearch ==
  ASSUME MapInv, StartWalk
  PROVE  SearchInv'
<1> DEFINE f == Head(names)
<1>1. /\ phase = "write" /\ names # << >> /\ labelMap[f].inlined /\ walk' = <<Frame(f)>>
      /\ found' = << >> /\ UNCHANGED <<input, src, labelMap, names>> /\ Unit' = Unit
      /\ UnitOK(Unit) /\ names \in Seq(DOMAIN labelMap)
  BY DEF StartWalk, MapInv, Reading, Unit
<1>2. f \in DOMAIN labelMap
  BY <1>1
<1>3. f \in Leaves(Unit) /\ f \in Functions
  BY <1>1, <1>2, MapSays
<1>4. /\ Frame(f) = [leaf |-> f, callers |-> Frame(f).callers]
      /\ Frame(f).callers \in Seq(Functions)
      /\ ToSet(Frame(f).callers) = CallersOf(Unit, Free(Unit), f)
  BY <1>1, <1>2, FrameSays
<1>5. Frame(f) \in Frames(Unit) /\ Frame(f).leaf = f
  BY <1>3, <1>4 DEF Frames
<1>6. Len(walk') = 1 /\ walk'[1] = Frame(f) /\ walk' \in Seq(Frames(Unit))
  BY <1>1, <1>5
<1>7. f \in ClonedInto(Unit, f)
  BY <1>3, ClonedSelf
<1>8. Chained(Unit, walk')
  BY <1>4, <1>5, <1>6, <1>7 DEF Chained
<1>9. PICK D : D = {f}
  OBVIOUS
<1>10. Searched(D)'
  BY <1>1, <1>3, <1>4, <1>5, <1>6, <1>9 DEF Searched
<1> QED
  BY <1>1, <1>3, <1>5, <1>6, <1>7, <1>8, <1>10, StackAssumption DEF SearchInv

LEMMA SearchStep ==
  ASSUME MapInv, SearchInv, Walk
  PROVE  SearchInv'
<1> DEFINE n == Len(walk)
           h == Head(walk[n].callers)
           g == walk[n].leaf
           v == Taken(walk)
<1>1. /\ phase = "walk" /\ walk # << >> /\ walk[n].callers # << >> /\ UnitOK(Unit)
      /\ UNCHANGED <<input, src, labelMap, names>> /\ Unit' = Unit
      /\ names # << >> /\ Head(names) \in Leaves(Unit) /\ n <= StackLimit
      /\ found \in Seq(Named)
      /\ \A i \in 1 .. n : walk[i].leaf \in ClonedInto(Unit, Head(names))
  BY DEF Walk, MapInv, SearchInv, Reading, Unit
<1>2. /\ Advanced = v /\ Chained(Unit, walk)
      /\ g \in Leaves(Unit) /\ h \in CallersOf(Unit, Free(Unit), g)
      /\ h \in DOMAIN labelMap /\ h \in ClonedInto(Unit, Head(names))
      /\ labelMap[h].inlined <=> h \in Leaves(Unit)
      /\ h # MainFn /\ (h \notin Leaves(Unit) => h \notin Unit.inlined)
  BY NextCaller
<1>3. /\ Chained(Unit, v) /\ Len(v) = n /\ n \in Nat /\ n \in 1 .. n
      /\ \A i \in 1 .. n : v[i].leaf = walk[i].leaf /\ (i # n => v[i] = walk[i])
      /\ ToSet(walk[n].callers) = {h} \cup ToSet(v[n].callers)
  <2>1. n \in Nat /\ n # 0
    BY <1>1, <1>2 DEF Chained
  <2>2. n \in 1 .. n
    BY <2>1
  <2>3. /\ Chained(Unit, v) /\ Len(v) = n
        /\ \A i \in 1 .. n : v[i].leaf = walk[i].leaf /\ (i # n => v[i] = walk[i])
    BY <1>1, <1>2, TakenFrames, Zenon
  <2>4. ToSet(walk[n].callers) = {h} \cup ToSet(v[n].callers)
    BY <1>1, <1>2, TakenFrames, Zenon
  <2> QED
    BY <2>1, <2>2, <2>3, <2>4
<1> HIDE DEF v
<1>4. PICK D : Searched(D)
  BY <1>1 DEF SearchInv
<1>5. ASSUME NEW d \in D, NEW c \in CallersOf(Unit, Free(Unit), d)
      PROVE  \/ c \in D \cup ToSet(found) \cup {h}
             \/ \E i \in 1 .. n : v[i].leaf = d /\ c \in ToSet(v[i].callers)
  <2>1. CASE c \in D \cup ToSet(found)
    BY <2>1
  <2>2. ASSUME NEW i \in 1 .. n, walk[i].leaf = d, c \in ToSet(walk[i].callers)
        PROVE  c = h \/ (v[i].leaf = d /\ c \in ToSet(v[i].callers))
    <3>1. CASE i = n
      BY <1>3, <2>2, <3>1
    <3>2. CASE i # n
      BY <1>3, <2>2, <3>2
    <3> QED
      BY <3>1, <3>2
  <2> QED
    BY <1>4, <2>1, <2>2 DEF Searched
<1>6. CASE ~labelMap[h].inlined
  <2>1. found' = Append(found, h) /\ walk' = v /\ phase' = "walk"
    BY <1>1, <1>2, <1>6 DEF Walk
  <2>2. h \in Named
    BY <1>2, <1>6 DEF Named
  <2>3. found' \in Seq(Named) /\ ToSet(found') = ToSet(found) \cup {h} /\ Named' = Named
    BY <1>1, <2>1, <2>2, ToSetAppend DEF Named
  <2>4. Searched(D)'
    <3>1. Head(names) \in D /\ D \subseteq Leaves(Unit)
      BY <1>4 DEF Searched
    <3> QED
      BY <1>1, <1>3, <1>5, <2>1, <2>3, <3>1 DEF Searched
  <2> QED
    BY <1>1, <1>3, <2>1, <2>3, <2>4 DEF SearchInv
<1>7. CASE labelMap[h].inlined /\ n < StackLimit
  <2>1. found' = found /\ walk' = Append(v, Frame(h)) /\ phase' = "walk"
    BY <1>1, <1>2, <1>7 DEF Walk
  <2>2. /\ Frame(h) = [leaf |-> h, callers |-> Frame(h).callers]
        /\ Frame(h).callers \in Seq(Functions)
        /\ ToSet(Frame(h).callers) = CallersOf(Unit, Free(Unit), h)
    BY <1>1, <1>2, FrameSays
  <2>3. h \in Leaves(Unit) /\ h \in Unit.inlined
    BY <1>2, <1>7 DEF Leaves
  <2>4. Chained(Unit, walk')
    <3>1. v # << >> /\ v[Len(v)].leaf = g
      BY <1>3
    <3>2. Chained(Unit, Append(v, [leaf |-> h, callers |-> Frame(h).callers]))
      BY <1>1, <1>2, <1>3, <2>2, <2>3, <3>1, ChainGrows
    <3> QED
      BY <2>1, <2>2, <3>2
  <2>5. /\ Len(walk') = n + 1 /\ walk'[n + 1] = Frame(h)
        /\ \A i \in 1 .. n : walk'[i] = v[i]
    <3>1. v \in Seq(Frames(Unit)) /\ Frame(h) \in Frames(Unit)
      BY <1>3, <2>2, <2>3 DEF Chained, Frames
    <3> QED
      BY <1>3, <2>1, <3>1
  <2>6. \A i \in 1 .. n + 1 : walk'[i].leaf \in ClonedInto(Unit, Head(names))
    <3>1. Frame(h).leaf = h
      BY <2>2
    <3>2. \A i \in 1 .. n + 1 : i \in 1 .. n \/ i = n + 1
      BY <1>3
    <3> QED
      BY <1>1, <1>2, <1>3, <2>5, <3>1, <3>2
  <2>7. PICK E : E = D \cup {h}
    OBVIOUS
  <2>8. Searched(E)'
    <3>1. Head(names) \in E /\ E \subseteq Leaves(Unit)
      BY <1>4, <2>3, <2>7 DEF Searched
    <3>2. ASSUME NEW d \in E, NEW c \in CallersOf(Unit, Free(Unit), d)
          PROVE  \/ c \in E \cup ToSet(found)
                 \/ \E i \in 1 .. n + 1 : walk'[i].leaf = d /\ c \in ToSet(walk'[i].callers)
      <4>1. CASE d \in D
        <5>1. \A i \in 1 .. n : i \in 1 .. n + 1
          BY <1>3
        <5> QED
          BY <1>5, <2>5, <2>7, <4>1, <5>1
      <4>2. CASE d = h
        <5>1. n + 1 \in 1 .. n + 1 /\ walk'[n + 1].leaf = h
          BY <1>3, <2>2, <2>5
        <5> QED
          BY <2>2, <2>5, <3>2, <4>2, <5>1
      <4> QED
        BY <2>7, <4>1, <4>2
    <3> QED
      BY <1>1, <2>1, <2>5, <3>1, <3>2 DEF Searched
  <2>9. Named' = Named /\ n + 1 <= StackLimit
    BY <1>1, <1>3, <1>7, StackAssumption DEF Named
  <2> QED
    BY <1>1, <2>1, <2>4, <2>5, <2>6, <2>8, <2>9 DEF SearchInv
<1>8. CASE labelMap[h].inlined /\ n = StackLimit
  BY <1>8, <1>1 DEF Walk, SearchInv
<1>9. n < StackLimit \/ n = StackLimit
  BY <1>1, <1>3, StackAssumption
<1> QED
  BY <1>6, <1>7, <1>8, <1>9

LEMMA SearchReturns ==
  ASSUME MapInv, SearchInv, Return
  PROVE  SearchInv'
<1> DEFINE n == Len(walk)
           v == Front(walk)
<1>1. /\ phase = "walk" /\ walk # << >> /\ walk[n].callers = << >>
      /\ UNCHANGED <<input, src, labelMap, names, found, phase>> /\ walk' = v
      /\ Unit' = Unit /\ Named' = Named
      /\ Chained(Unit, walk) /\ walk \in Seq(Frames(Unit))
  BY DEF Return, SearchInv, Chained, Unit, Named
<1>2. /\ v \in Seq(Frames(Unit)) /\ Len(v) = n - 1 /\ n \in Nat \ {0}
      /\ \A i \in 1 .. n - 1 : i \in 1 .. n /\ v[i] = walk[i]
  <2>1. n \in Nat \ {0} /\ \A i \in 1 .. n : walk[i] \in Frames(Unit)
    BY <1>1
  <2>2. v = SubSeq(walk, 1, n - 1)
    BY DEF Front
  <2>3. v \in Seq(Frames(Unit)) /\ Len(v) = n - 1 /\ \A i \in 1 .. n - 1 : v[i] = walk[i]
    <3>1. n - 1 \in Int /\ \A i \in 1 .. n - 1 : walk[i] \in Frames(Unit)
      BY <2>1
    <3> HIDE DEF v, n
    <3>2. /\ v \in Seq(Frames(Unit)) /\ Len(v) = IF 1 <= n - 1 THEN n - 1 - 1 + 1 ELSE 0
          /\ \A i \in 1 .. n - 1 - 1 + 1 : v[i] = walk[1 + i - 1]
      BY <2>2, <3>1, SubSeqProperties
    <3> QED
      BY <2>1, <3>2
  <2> QED
    BY <2>1, <2>3
<1> HIDE DEF v
<1>3. Chained(Unit, v)
  <2>1. \A i \in 1 .. n - 1 : ToSet(v[i].callers) \subseteq CallersOf(Unit, Free(Unit), v[i].leaf)
    BY <1>1, <1>2 DEF Chained
  <2>2. \A i \in 1 .. n - 1 - 1 : <<v[i + 1].leaf, v[i].leaf>> \in FreeCalls(Unit)
    <3>1. \A i \in 1 .. n - 1 - 1 : i \in 1 .. n - 1 /\ i + 1 \in 1 .. n - 1
      BY <1>2
    <3> QED
      BY <1>1, <1>2, <3>1 DEF Chained
  <2>3. \A k \in 1 .. n - 1 : \A i \in 1 .. k : v[k].leaf \in ClonedInto(Unit, v[i].leaf)
    <3>1. \A k \in 1 .. n - 1 : \A i \in 1 .. k : i \in 1 .. n - 1
      BY <1>2
    <3> QED
      BY <1>1, <1>2, <3>1 DEF Chained
  <2> QED
    BY <1>2, <2>1, <2>2, <2>3, Zenon DEF Chained
<1>4. PICK D : Searched(D)
  BY <1>1 DEF SearchInv
<1>5. Searched(D)'
  <2>1. ASSUME NEW d \in D, NEW c \in CallersOf(Unit, Free(Unit), d)
        PROVE  \/ c \in D \cup ToSet(found)
               \/ \E i \in 1 .. n - 1 : v[i].leaf = d /\ c \in ToSet(v[i].callers)
    <3>1. CASE c \in D \cup ToSet(found)
      BY <3>1
    <3>2. ASSUME NEW i \in 1 .. n, walk[i].leaf = d, c \in ToSet(walk[i].callers)
          PROVE  i \in 1 .. n - 1
      BY <1>1, <1>2, <3>2, ToSetEmpty
    <3> QED
      BY <1>2, <1>4, <3>1, <3>2 DEF Searched
  <2> QED
    BY <1>1, <1>2, <1>4, <2>1 DEF Searched
<1>6. n - 1 <= StackLimit /\ \A i \in 1 .. n - 1 : v[i].leaf \in ClonedInto(Unit, Head(names))
  BY <1>1, <1>2, StackAssumption DEF SearchInv
<1> QED
  BY <1>1, <1>2, <1>3, <1>5, <1>6 DEF SearchInv

LEMMA RunSearch ==
  ASSUME MapInv, SearchInv, Run
  PROVE  SearchInv'
<1>1. CASE \/ Cleanup \/ BeginSource \/ VisitFunctionDecl \/ EndSourceFile \/ WritePlain
           \/ WriteInlined \/ Finish
  <2>1. phase' # "walk"
    BY <1>1 DEF Cleanup, BeginSource, VisitFunctionDecl, EndSourceFile, WritePlain,
                WriteInlined, Finish
  <2> QED
    BY <2>1 DEF SearchInv
<1> QED
  BY <1>1, StartSearch, SearchStep, SearchReturns DEF Run

\* Whatever the search has started with, no function is left to be searched at its end.
LEMMA SearchComplete ==
  ASSUME MapInv, SearchInv
  PROVE  CallersExact
<1> DEFINE f == Head(names)
<1> SUFFICES ASSUME phase = "walk", walk = << >>
             PROVE  ToSet(found) = Named
  BY DEF CallersExact, Named
<1>1. /\ UnitOK(Unit) /\ found \in Seq(Named) /\ f \in Leaves(Unit)
      /\ names # << >> /\ names \in Seq(DOMAIN labelMap)
  BY DEF MapInv, SearchInv, Reading
<1>2. ToSet(found) \subseteq Named
  BY <1>1, ToSetSeq
<1>3. PICK D : Searched(D)
  BY DEF SearchInv
<1>4. D \subseteq Leaves(Unit) /\ f \in D
  BY <1>3 DEF Searched
<1>5. \A d \in D : CallersOf(Unit, Free(Unit), d) \subseteq D \cup ToSet(found)
  <2>1. 1 .. Len(walk) = {}
    OBVIOUS
  <2> QED
    BY <1>3, <2>1 DEF Searched
<1> DEFINE S == (D \cup ToSet(found) \cup {MainFn}) \cap Functions
<1>6. f \in S
  <2>1. f \in Functions
    BY <1>1, ToSetSeq DEF Leaves, UnitOK
  <2> QED
    BY <1>4, <2>1
<1>7. ASSUME NEW c \in FreeCalls(Unit), c[2] \in S \cap Unit.inlined PROVE c[1] \in S
  <2>1. /\ c = <<c[1], c[2]>> /\ c \in Unit.calls /\ c[1] \in Functions
        /\ c[1] \in ToSet(Unit.defined) /\ c[1] \notin Methods
    BY <1>1, <1>7, ToSetSeq DEF FreeCalls, UnitOK
  <2>2. c[2] \in D
    BY <1>1, <1>2, <1>7 DEF Named, UnitOK
  <2>3. c[1] # MainFn => c[1] \in CallersOf(Unit, Free(Unit), c[2])
    BY <2>1 DEF CallersOf, Free
  <2> QED
    BY <1>5, <2>1, <2>2, <2>3
<1>8. ClonedInto(Unit, f) \subseteq S
  <2> HIDE DEF S, f
  <2>1. S \subseteq Functions
    BY DEF S
  <2> QED
    BY <1>1, <1>6, <1>7, <2>1, ClonedLeast
<1> QED
  BY <1>2, <1>4, <1>8 DEF Named, Leaves

----------------------------------------------------------------------------
(* The lines that are written.                                             *)

Entries == [function : Functions, label : Labels, callers : Seq(Functions)]

\* Where label l of function f occurs among some lines.
Occurs(lines, f, l) ==
  {i \in 1 .. Len(lines) : lines[i].function = f /\ lines[i].label = l}

Once(lines, f, l) == \E j : Occurs(lines, f, l) = {j}

\* Lines that do not mention a label leave its count alone, lines that do once add one.
LEMMA OccursAdded ==
  ASSUME NEW o \in Seq(Entries), NEW L \in Seq(Entries), NEW f, NEW l
  PROVE  /\ IsFiniteSet(Occurs(o, f, l)) /\ Cardinality(Occurs(o, f, l)) \in Nat
         /\ Occurs(L, f, l) = {} =>
              Cardinality(Occurs(o \o L, f, l)) = Cardinality(Occurs(o, f, l))
         /\ Once(L, f, l) =>
              Cardinality(Occurs(o \o L, f, l)) = Cardinality(Occurs(o, f, l)) + 1
<1> DEFINE O == Occurs(o, f, l)
           m == Len(o)
           n == Len(L)
           c == o \o L
<1>1. m \in Nat /\ n \in Nat
  OBVIOUS
<1>2. O \subseteq 1 .. m
  BY DEF Occurs
<1>3. IsFiniteSet(O) /\ Cardinality(O) \in Nat
  <2>1. IsFiniteSet(1 .. m)
    BY <1>1, FS_Interval
  <2> QED
    BY <1>2, <2>1, FS_Subset, FS_CardinalityType
<1>4. /\ Len(c) = m + n /\ \A i \in 1 .. m : c[i] = o[i]
      /\ \A i \in 1 .. n : c[m + i] = L[i]
  OBVIOUS
<1> HIDE DEF c, m, n
<1>5. Occurs(c, f, l) = O \cup {m + i : i \in Occurs(L, f, l)}
  <2>1. ASSUME NEW i \in O PROVE i \in Occurs(c, f, l)
    BY <1>1, <1>4 DEF Occurs, m
  <2>2. ASSUME NEW i \in Occurs(L, f, l) PROVE m + i \in Occurs(c, f, l)
    BY <1>1, <1>4 DEF Occurs, n
  <2>3. ASSUME NEW i \in Occurs(c, f, l)
        PROVE  i \in O \/ \E j \in Occurs(L, f, l) : i = m + j
    <3>1. i \in 1 .. m + n /\ c[i].function = f /\ c[i].label = l
      BY <1>4 DEF Occurs
    <3>2. CASE i \in 1 .. m
      BY <1>4, <3>1, <3>2 DEF Occurs, m
    <3>3. CASE i \notin 1 .. m
      <4>1. i - m \in 1 .. n /\ i = m + (i - m)
        BY <1>1, <3>1, <3>3
      <4>2. L[i - m] = c[i]
        BY <1>4, <4>1
      <4>3. i - m \in Occurs(L, f, l)
        BY <3>1, <4>1, <4>2 DEF Occurs, n
      <4> QED
        BY <4>1, <4>3
    <3> QED
      BY <3>2, <3>3
  <2> QED
    BY <2>1, <2>2, <2>3
<1>6. ASSUME NEW j, Occurs(L, f, l) = {j}
      PROVE  Cardinality(Occurs(c, f, l)) = Cardinality(O) + 1
  <2>1. j \in 1 .. n
    BY <1>6 DEF Occurs, n
  <2>2. m + j \notin O
    BY <1>1, <1>2, <2>1
  <2>3. Occurs(c, f, l) = O \cup {m + j}
    BY <1>5, <1>6
  <2> HIDE DEF O
  <2> QED
    BY <1>3, <2>2, <2>3, FS_AddElement
<1>7. Occurs(L, f, l) = {} => Occurs(c, f, l) = O
  BY <1>5
<1>8. Once(L, f, l) => Cardinality(Occurs(c, f, l)) = Cardinality(O) + 1
  BY <1>6 DEF Once
<1> QED
  BY <1>3, <1>7, <1>8 DEF c

LEMMA SetToSeqLists ==
  ASSUME NEW T, IsFiniteSet(T)
  PROVE  /\ SetToSeq(T) \in Seq(T) /\ Len(SetToSeq(T)) = Cardinality(T)
         /\ \A x \in T : \E i \in 1 .. Len(SetToSeq(T)) : SetToSeq(T)[i] = x
         /\ \A i, j \in 1 .. Len(SetToSeq(T)) : SetToSeq(T)[i] = SetToSeq(T)[j] => i = j
<1> DEFINE n == Cardinality(T)
           s == SetToSeq(T)
<1>1. n \in Nat /\ ExistsBijection(1 .. n, T)
  BY FS_CardinalityType
<1>2. \E f \in [1 .. n -> T] : IsInjective(f)
  BY <1>1 DEF ExistsBijection, Bijection, Injection, IsInjective
<1>3. s \in [1 .. n -> T] /\ IsInjective(s)
  BY <1>2 DEF SetToSeq
<1> HIDE DEF s, n
<1>4. s \in Seq(T) /\ Len(s) = n
  BY <1>1, <1>3
<1>5. s \in Injection(1 .. n, T)
  BY <1>3 DEF Injection, IsInjective
<1>6. s \in Surjection(1 .. n, T)
  <2>1. Cardinality(1 .. n) = n
    BY <1>1, FS_Interval
  <2> QED
    BY <1>5, <2>1, FS_Injection DEF n
<1> QED
  BY <1>1, <1>3, <1>4, <1>6 DEF Surjection, IsInjective, s, n

\* The lines of a function are those of its labels.
LEMMA LinesOnce ==
  ASSUME MapInv, phase \in {"write", "walk"}, NEW f \in DOMAIN labelMap,
         NEW callers \in Seq(Functions)
  PROVE  /\ Lines(f, callers) \in Seq(Entries)
         /\ labelMap[f].labels = {l \in Labels : f \in Free(Unit) /\ <<f, l>> \in Unit.labels}
         /\ IsFiniteSet(labelMap[f].labels)
         /\ Len(Lines(f, callers)) = Cardinality(labelMap[f].labels)
         /\ \A g, l : IF g = f /\ l \in Labels /\ f \in Free(Unit) /\ <<f, l>> \in Unit.labels
                      THEN Once(Lines(f, callers), g, l)
                      ELSE Occurs(Lines(f, callers), g, l) = {}
<1> DEFINE M == labelMap[f].labels
           T == {Entry(f, l, callers) : l \in M}
           s == Lines(f, callers)
<1>1. /\ M = {l \in Labels : f \in Free(Unit) /\ <<f, l>> \in Unit.labels}
      /\ f \in Functions
  BY MapSays DEF MapInv, MapOf
<1>2. T \subseteq Entries
  <2>1. ASSUME NEW l \in M PROVE Entry(f, l, callers) \in Entries
    <3>1. l \in Labels
      BY <1>1
    <3> QED
      BY <1>1, <3>1 DEF Entry, Entries
  <2> HIDE DEF M
  <2> QED
    BY <2>1
<1>3. IsFiniteSet(M) /\ IsFiniteSet(T) /\ Cardinality(T) = Cardinality(M)
  <2>1. IsFiniteSet(M)
    BY <1>1, LabelsAssumption, FS_Subset
  <2> DEFINE e == [l \in M |-> Entry(f, l, callers)]
  <2>2. e \in Surjection(M, T)
    BY DEF Surjection
  <2>3. e \in Injection(M, T)
    BY DEF Injection, IsInjective, Entry
  <2> HIDE DEF e, M, T
  <2> QED
    BY <2>1, <2>2, <2>3, FS_Surjection
<1>4. /\ s \in Seq(T) /\ Len(s) = Cardinality(M)
      /\ \A x \in T : \E i \in 1 .. Len(s) : s[i] = x
      /\ \A i, j \in 1 .. Len(s) : s[i] = s[j] => i = j
  BY <1>3, SetToSeqLists DEF Lines
<1>5. s \in Seq(Entries)
  BY <1>2, <1>4
<1>6. \A i \in 1 .. Len(s) : s[i] \in T
  BY <1>4
<1>7. \A i \in 1 .. Len(s) :
        s[i].function = f /\ s[i].label \in M /\ s[i] = Entry(f, s[i].label, callers)
  <2> HIDE DEF s, M
  <2> QED
    BY <1>6 DEF Entry
<1> HIDE DEF s
<1>8. ASSUME NEW l \in M PROVE Once(s, f, l)
  <2>1. PICK j \in 1 .. Len(s) : s[j] = Entry(f, l, callers)
    BY <1>4
  <2>2. j \in Occurs(s, f, l)
    BY <2>1 DEF Occurs, Entry
  <2>3. ASSUME NEW i \in Occurs(s, f, l) PROVE i = j
    <3>1. i \in 1 .. Len(s) /\ s[i] = Entry(f, l, callers)
      BY <1>7, <2>3 DEF Occurs
    <3> QED
      BY <1>4, <2>1, <3>1
  <2>4. Occurs(s, f, l) = {j}
    BY <2>2, <2>3
  <2> QED
    BY <2>4 DEF Once
<1>9. ASSUME NEW g, NEW l, g # f \/ l \notin M PROVE Occurs(s, g, l) = {}
  BY <1>7, <1>9 DEF Occurs
<1> QED
  BY <1>1, <1>3, <1>4, <1>5, <1>8, <1>9 DEF s

\* Every step of the tool.
ToolOK == InputOK /\ MapInv /\ SearchInv

LEMMA ToolSteps ==
  ASSUME ToolOK, Run
  PROVE  ToolOK'
<1>1. input' = input
  BY DEF Run, Cleanup, BeginSource, VisitFunctionDecl, EndSourceFile, WritePlain, StartWalk,
         Walk, Return, WriteInlined, Finish
<1> QED
  BY <1>1, RunMap, RunSearch DEF ToolOK, InputOK

\* Only the walk can overflow the stack.
LEMMA RunOverflow ==
  ASSUME ToolOK, OverflowOnlyOnCycle, Run,
         phase = "walk" => Cardinality(Unit.inlined) <= StackLimit
  PROVE  OverflowOnlyOnCycle'
<1>1. CASE Walk
  <2>1. phase = "walk" /\ Unit' = Unit
    BY <1>1 DEF Walk, Unit
  <2>2. InlineCycle(Unit') <=> InlineCycle(Unit)
    BY <2>1
  <2> QED
    BY <1>1, <2>1, OverflowCycle DEF ToolOK, OverflowOnlyOnCycle
<1>2. CASE ~Walk
  <2>1. phase' # "overflow"
    BY <1>2 DEF Run, Cleanup, BeginSource, VisitFunctionDecl, EndSourceFile, WritePlain,
                StartWalk, Return, WriteInlined, Finish
  <2> QED
    BY <2>1 DEF OverflowOnlyOnCycle
<1> QED
  BY <1>1, <1>2

LEMMA InitTool ==
  ASSUME Init
  PROVE  ToolOK /\ OverflowOnlyOnCycle
<1>1. input \in Inputs /\ src = 1 /\ phase = "cleanup" /\ labelMap = << >>
  BY DEF Init
<1> QED
  BY <1>1, InputsAssumption DEF ToolOK, InputOK, MapInv, SearchInv, OverflowOnlyOnCycle, Reading

LEMMA NextTool ==
  ASSUME ToolOK, [Next]_vars
  PROVE  ToolOK'
<1>1. CASE UNCHANGED vars
  <2>1. Unit' = Unit /\ Named' = Named
    BY <1>1 DEF vars, Unit, Named
  <2>2. \A D : Visited(D) => Visited(D)'
    BY <1>1, <2>1 DEF vars, Visited
  <2>3. \A D : Searched(D) => Searched(D)'
    BY <1>1, <2>1 DEF vars, Searched
  <2>4. MapInv'
    BY <1>1, <2>1, <2>2 DEF vars, ToolOK, MapInv
  <2>5. SearchInv'
    BY <1>1, <2>1, <2>3 DEF vars, ToolOK, SearchInv
  <2> QED
    BY <1>1, <2>4, <2>5 DEF vars, ToolOK, InputOK
<1>2. CASE Run
  BY <1>2, ToolSteps
<1> QED
  BY <1>1, <1>2 DEF Next, Stopped

\* For every translation unit and every order of its functions, the line of a label in
\* an inlined function names exactly the functions other than main that its body is
\* cloned into: the recursion over the callers misses none, and forgets none that
\* occurs on several paths.
THEOREM CallersCorrect == Spec => []CallersExact
<1>1. Init => ToolOK
  BY InitTool
<1>2. ToolOK /\ [Next]_vars => ToolOK'
  BY NextTool
<1>3. ToolOK => CallersExact
  BY SearchComplete DEF ToolOK
<1> QED
  BY <1>1, <1>2, <1>3, PTL DEF Spec

\* If the stack has room for one call per inlined function of a unit, it overflows only
\* on a unit in which an inlined function is inlined into itself: a chain of more calls
\* meets one of them twice.
THEOREM OverflowCorrect ==
  ASSUME \A sources \in Inputs : \A u \in ToSet(sources) : Cardinality(u.inlined) <= StackLimit
  PROVE  Spec => []OverflowOnlyOnCycle
<1> DEFINE Inv == ToolOK /\ OverflowOnlyOnCycle /\ input \in Inputs
<1>1. Init => Inv
  BY InitTool DEF Init
<1>2. Inv /\ [Next]_vars => Inv'
  <2> SUFFICES ASSUME Inv, [Next]_vars PROVE Inv'
    OBVIOUS
  <2>1. CASE UNCHANGED vars
    BY <2>1, NextTool DEF vars, OverflowOnlyOnCycle, Unit
  <2>2. CASE Run
    <3>1. phase = "walk" => Unit \in ToSet(input)
      BY DEF ToolOK, MapInv, InputOK, Reading, ToSet, Unit
    <3>2. input' = input
      BY <2>2 DEF Run, Cleanup, BeginSource, VisitFunctionDecl, EndSourceFile, WritePlain,
                  StartWalk, Walk, Return, WriteInlined, Finish
    <3> QED
      BY <2>2, <3>1, <3>2, RunOverflow, ToolSteps
  <2> QED
    BY <2>1, <2>2 DEF Next, Stopped
<1>3. Inv => OverflowOnlyOnCycle
  OBVIOUS
<1> QED
  BY <1>1, <1>2, <1>3, PTL DEF Spec

----------------------------------------------------------------------------
(* One line per label.                                                     *)

\* The sources read before the current one that label function f with l.
Before(f, l) == {i \in 1 .. src - 1 : f \notin Methods /\ <<f, l>> \in input[i].labels}

\* The current source does, and the line has been written.
Passed(f, l) == f \notin Methods /\ <<f, l>> \in Unit.labels /\ f \notin ToSet(names)

Times(f, l) == Cardinality(Occurs(output, f, l))

LinesInv ==
  /\ phase = "cleanup" => src = 1
  /\ phase # "cleanup" => output \in Seq(Entries)
  /\ phase \in {"write", "walk"} => IsInjective(names)
  /\ \A f \in Functions, l \in Labels :
       /\ phase \in {"next", "visit"} => Times(f, l) = Cardinality(Before(f, l))
       /\ phase \in {"write", "walk"} =>
            Times(f, l) = Cardinality(Before(f, l)) + (IF Passed(f, l) THEN 1 ELSE 0)

LEMMA BeforeFinite ==
  ASSUME src \in Nat \ {0}, NEW f, NEW l
  PROVE  /\ IsFiniteSet(Before(f, l)) /\ Cardinality(Before(f, l)) \in Nat
         /\ Before(f, l) \subseteq 1 .. src - 1
<1>1. Before(f, l) \subseteq 1 .. src - 1
  BY DEF Before
<1>2. IsFiniteSet(1 .. src - 1)
  BY FS_Interval
<1> QED
  BY <1>1, <1>2, FS_Subset, FS_CardinalityType

\* Writing the lines of the next function.
LEMMA WriteNext ==
  ASSUME ToolOK, WritePlain \/ WriteInlined
  PROVE  /\ phase \in {"write", "walk"} /\ phase' = "write"
         /\ names # << >> /\ names' = Tail(names)
         /\ UNCHANGED <<input, src>> /\ Unit' = Unit /\ MapInv
         /\ \E callers \in Seq(Functions) : output' = output \o Lines(Head(names), callers)
<1> DEFINE h == Head(names)
<1>1. PICK callers \in Seq(Functions) : output' = output \o Lines(h, callers)
  <2>1. CASE WritePlain
    <3>1. << >> \in Seq(Functions)
      OBVIOUS
    <3> QED
      BY <2>1, <3>1 DEF WritePlain
  <2>2. CASE WriteInlined
    <3>1. phase = "walk" /\ output' = output \o Lines(h, found)
      BY <2>2 DEF WriteInlined
    <3>2. found \in Seq(Named)
      BY <3>1 DEF ToolOK, SearchInv
    <3>3. Named \subseteq Functions
      BY DEF Named, ClonedInto
    <3>4. found \in Seq(Functions)
      BY <3>2, <3>3
    <3> QED
      BY <3>1, <3>4
  <2> QED
    BY <2>1, <2>2
<1>2. /\ phase \in {"write", "walk"} /\ phase' = "write" /\ names # << >> /\ names' = Tail(names)
      /\ UNCHANGED <<input, src>> /\ Unit' = Unit /\ MapInv
  BY DEF WritePlain, WriteInlined, ToolOK, SearchInv, Unit
<1> QED
  BY <1>1, <1>2

LEMMA WriteLines ==
  ASSUME ToolOK, LinesInv, WritePlain \/ WriteInlined
  PROVE  LinesInv'
<1> DEFINE h == Head(names)
<1>1. PICK callers \in Seq(Functions) : output' = output \o Lines(h, callers)
  BY WriteNext
<1>2. /\ phase \in {"write", "walk"} /\ phase' = "write" /\ names # << >> /\ names' = Tail(names)
      /\ UNCHANGED <<input, src>> /\ Unit' = Unit /\ MapInv
  BY WriteNext
<1>3. /\ names \in Seq(DOMAIN labelMap) /\ IsInjective(names) /\ output \in Seq(Entries)
      /\ UnitOK(Unit)
  BY <1>2 DEF MapInv, LinesInv, Reading
<1>4. /\ h \in DOMAIN labelMap /\ ToSet(names) = {h} \cup ToSet(names')
      /\ IsInjective(names') /\ h \notin ToSet(names')
  BY <1>2, <1>3, ToSetTail, InjectiveTail
<1> DEFINE L == Lines(h, callers)
<1>5. /\ L \in Seq(Entries)
      /\ \A g, l : IF g = h /\ l \in Labels /\ h \in Free(Unit) /\ <<h, l>> \in Unit.labels
                   THEN Once(L, g, l)
                   ELSE Occurs(L, g, l) = {}
  BY <1>2, <1>4, LinesOnce
<1> HIDE DEF L
<1>6. output' = output \o L
  BY <1>1 DEF L
<1>7. output' \in Seq(Entries)
  BY <1>3, <1>5, <1>6
<1>8. ASSUME NEW f \in Functions, NEW l \in Labels
      PROVE  Times(f, l)' = Cardinality(Before(f, l))' + (IF Passed(f, l)' THEN 1 ELSE 0)
  <2>1. Times(f, l) = Cardinality(Before(f, l)) + (IF Passed(f, l) THEN 1 ELSE 0)
    BY <1>2 DEF LinesInv
  <2>2. Before(f, l)' = Before(f, l) /\ Cardinality(Before(f, l)) \in Nat
    BY <1>2, BeforeFinite DEF Before, MapInv
  <2>3. h \in Free(Unit) /\ <<h, l>> \in Unit.labels
          <=> h \notin Methods /\ <<h, l>> \in Unit.labels
    BY <1>3 DEF Free, UnitOK
  <2>4. CASE f = h /\ h \in Free(Unit) /\ <<h, l>> \in Unit.labels
    <3>1. h \in ToSet(names) /\ h \notin ToSet(names') /\ Unit' = Unit
      BY <1>2, <1>4
    <3>2. ~Passed(f, l)
      BY <3>1, <2>4 DEF Passed
    <3>3. Passed(f, l)'
      <4>1. f \notin Methods /\ <<f, l>> \in Unit.labels
        BY <2>3, <2>4
      <4>2. f \notin ToSet(names)'
        BY <3>1, <2>4
      <4> QED
        BY <3>1, <4>1, <4>2 DEF Passed
    <3>4. Times(f, l)' = Times(f, l) + 1
      <4>1. Once(L, f, l)
        BY <1>5, <2>4
      <4>2. Cardinality(Occurs(output \o L, f, l)) = Cardinality(Occurs(output, f, l)) + 1
        <5>1. output \in Seq(Entries) /\ L \in Seq(Entries)
          BY <1>3, <1>5
        <5> QED
          BY <4>1, <5>1, OccursAdded
      <4>3. Occurs(output, f, l)' = Occurs(output \o L, f, l)
        BY <1>6 DEF Occurs
      <4> QED
        BY <4>2, <4>3 DEF Times
    <3> QED
      BY <2>1, <2>2, <3>2, <3>3, <3>4
  <2>5. CASE ~(f = h /\ h \in Free(Unit) /\ <<h, l>> \in Unit.labels)
    <3>1. Passed(f, l)' <=> Passed(f, l)
      BY <1>2, <1>4, <2>3, <2>5 DEF Passed
    <3>2. Times(f, l)' = Times(f, l)
      <4>1. Occurs(L, f, l) = {}
        BY <1>5, <2>5
      <4>2. Cardinality(Occurs(output \o L, f, l)) = Cardinality(Occurs(output, f, l))
        BY <1>3, <1>5, <4>1, OccursAdded
      <4>3. Occurs(output, f, l)' = Occurs(output \o L, f, l)
        BY <1>6 DEF Occurs
      <4> QED
        BY <4>2, <4>3 DEF Times
    <3> QED
      BY <2>1, <2>2, <3>1, <3>2
  <2> QED
    BY <2>4, <2>5
<1> QED
  BY <1>2, <1>4, <1>7, <1>8 DEF LinesInv

LEMMA RunLines ==
  ASSUME ToolOK, LinesInv, Run
  PROVE  LinesInv'
<1>1. src \in Nat \ {0}
  BY DEF ToolOK, MapInv
<1>2. CASE Cleanup
  <2>1. src' = 1 /\ output' = << >> /\ phase' = "next"
    BY <1>2 DEF Cleanup, LinesInv
  <2>2. 1 .. src' - 1 = {} /\ 1 .. Len(output') = {}
    BY <2>1
  <2>3. \A f, l : Occurs(output, f, l)' = {}
    BY <2>2 DEF Occurs
  <2>4. \A f, l : Before(f, l)' = {}
    BY <2>2 DEF Before
  <2>5. \A f, l : Times(f, l)' = Cardinality(Before(f, l))'
    BY <2>3, <2>4 DEF Times
  <2>6. output' \in Seq(Entries)
    BY <2>1
  <2> QED
    BY <2>1, <2>5, <2>6 DEF LinesInv
<1>3. CASE BeginSource \/ VisitFunctionDecl
  <2>1. /\ UNCHANGED <<input, src, output>> /\ phase \in {"next", "visit"} /\ phase' = "visit"
    BY <1>3 DEF BeginSource, VisitFunctionDecl
  <2> QED
    BY <2>1 DEF LinesInv, Times, Before
<1>4. CASE EndSourceFile
  <2>1. /\ UNCHANGED <<input, src, output, labelMap>> /\ phase = "visit" /\ phase' = "write"
        /\ names' = InOrder(DOMAIN labelMap) /\ Unit' = Unit /\ MapInv'
    BY <1>4, ToolSteps DEF EndSourceFile, Unit, ToolOK
  <2>2. /\ labelMap = MapOf(Unit, Free(Unit)) /\ UnitOK(Unit)
        /\ DOMAIN labelMap \subseteq Functions /\ Free(Unit) \subseteq DOMAIN labelMap
    <3>1. labelMap = MapOf(Unit, Free(Unit)) /\ UnitOK(Unit)
      BY <2>1 DEF MapInv, Reading
    <3>2. Free(Unit) \subseteq Functions
      BY <3>1, ToSetSeq DEF Free, UnitOK
    <3> QED
      BY <3>1, <3>2 DEF MapOf
  <2>3. IsInjective(names') /\ ToSet(names') = DOMAIN labelMap
    BY <2>1, <2>2, InOrderLists
  <2>4. \A f, l : ~Passed(f, l)'
    BY <2>1, <2>2, <2>3 DEF Passed, Free, UnitOK
  <2>5. \A f, l : Before(f, l)' = Before(f, l) /\ Times(f, l)' = Times(f, l)
                    /\ Cardinality(Before(f, l)) \in Nat
    BY <1>1, <2>1, BeforeFinite DEF Before, Times
  <2> QED
    BY <2>1, <2>3, <2>4, <2>5 DEF LinesInv
<1>5. CASE StartWalk \/ Walk \/ Return
  <2>1. /\ UNCHANGED <<input, src, output, names>> /\ phase \in {"write", "walk"}
        /\ phase' \in {"walk", "overflow"} /\ Unit' = Unit
    BY <1>5 DEF StartWalk, Walk, Return, Unit
  <2> QED
    BY <2>1 DEF LinesInv, Times, Before, Passed
<1>6. CASE Finish
  <2>1. /\ UNCHANGED <<input, output>> /\ phase = "write" /\ phase' = "next" /\ names = << >>
        /\ src' = src + 1
    BY <1>6 DEF Finish
  <2>2. ASSUME NEW f \in Functions, NEW l \in Labels
        PROVE  Times(f, l)' = Cardinality(Before(f, l)')
    <3>1. Times(f, l)' = Cardinality(Before(f, l)) + (IF Passed(f, l) THEN 1 ELSE 0)
      BY <2>1 DEF LinesInv, Times
    <3>2. /\ IsFiniteSet(Before(f, l)) /\ Cardinality(Before(f, l)) \in Nat
          /\ src \notin Before(f, l)
      BY <1>1, BeforeFinite
    <3>3. Before(f, l)' = Before(f, l) \cup (IF Passed(f, l) THEN {src} ELSE {})
      <4>1. 1 .. src' - 1 = (1 .. src - 1) \cup {src} /\ input' = input
        BY <1>1, <2>1
      <4>2. Passed(f, l) <=> f \notin Methods /\ <<f, l>> \in input[src].labels
        BY <2>1, ToSetEmpty DEF Passed, Unit
      <4>3. \A i : i \in Before(f, l)' <=> i \in Before(f, l) \/ (i = src /\ Passed(f, l))
        BY <4>1, <4>2 DEF Before
      <4> QED
        BY <4>3
    <3>4. Passed(f, l) => Cardinality(Before(f, l)') = Cardinality(Before(f, l)) + 1
      BY <3>2, <3>3, FS_AddElement
    <3>5. ~Passed(f, l) => Before(f, l)' = Before(f, l)
      BY <3>3
    <3> QED
      BY <3>1, <3>2, <3>4, <3>5
  <2> QED
    BY <2>1, <2>2 DEF LinesInv
<1> QED
  BY <1>2, <1>3, <1>4, <1>5, <1>6, WriteLines DEF Run

\* Between two sources, every line is for a label of a source that has been read.
LEMMA LinesOwned ==
  ASSUME ToolOK, LinesInv, phase = "next", NEW k \in 1 .. Len(output)
  PROVE  \E i \in 1 .. src - 1 : <<output[k].function, output[k].label>> \in input[i].labels
<1> DEFINE f == output[k].function
           l == output[k].label
<1>1. output \in Seq(Entries) /\ src \in Nat \ {0}
  BY DEF LinesInv, ToolOK, MapInv
<1>2. f \in Functions /\ l \in Labels
  <2>1. output[k] \in Entries
    BY <1>1
  <2> QED
    BY <2>1 DEF Entries
<1>3. k \in Occurs(output, f, l)
  BY <1>1 DEF Occurs
<1>4. IsFiniteSet(Occurs(output, f, l))
  <2>1. Occurs(output, f, l) \subseteq 1 .. Len(output) /\ Len(output) \in Nat
    BY <1>1 DEF Occurs
  <2>2. IsFiniteSet(1 .. Len(output))
    BY <2>1, FS_Interval
  <2> QED
    BY <2>1, <2>2, FS_Subset
<1>5. Cardinality(Occurs(output, f, l)) # 0
  BY <1>3, <1>4, FS_EmptySet
<1>6. Cardinality(Occurs(output, f, l)) = Cardinality(Before(f, l))
  BY <1>2 DEF LinesInv, Times
<1>7. Before(f, l) # {}
  BY <1>5, <1>6, FS_EmptySet
<1> QED
  BY <1>7 DEF Before

LEMMA LinesOnePerLabel ==
  ASSUME ToolOK, LinesInv
  PROVE  OneLinePerLabel
<1> SUFFICES ASSUME phase = "next" PROVE OneLinePerLabel
  BY DEF OneLinePerLabel
<1>1. \A k \in 1 .. Len(output) : \E i \in 1 .. src - 1 :
        <<output[k].function, output[k].label>> \in input[i].labels
  BY LinesOwned
<1>2. \A f \in Functions \ CxxFunctions, l \in Labels :
        Cardinality({i \in 1 .. Len(output) : output[i].function = f /\ output[i].label = l})
          = Cardinality({i \in 1 .. src - 1 : f \notin Methods /\ <<f, l>> \in input[i].labels})
  BY DEF LinesInv, Times, Occurs, Before
<1> QED
  BY <1>1, <1>2 DEF OneLinePerLabel

\* Between two sources, the output has one line for each label of a C function in
\* each source that has been read, whatever the tool has found of its callers, none for
\* a label of a member function, and none that is for no label of theirs; what an
\* earlier run left is gone.
THEOREM LinesCorrect == Spec => []OneLinePerLabel
<1>1. Init => ToolOK /\ LinesInv
  BY InitTool DEF Init, LinesInv
<1>2. ToolOK /\ LinesInv /\ [Next]_vars => ToolOK' /\ LinesInv'
  <2> SUFFICES ASSUME ToolOK, LinesInv, [Next]_vars PROVE LinesInv'
    BY NextTool
  <2>1. CASE UNCHANGED vars
    BY <2>1 DEF vars, LinesInv, Times, Before, Passed, Unit
  <2> QED
    BY <2>1, RunLines DEF Next, Stopped
<1>3. ToolOK /\ LinesInv => OneLinePerLabel
  BY LinesOnePerLabel
<1> QED
  BY <1>1, <1>2, <1>3, PTL DEF Spec
==============================================================================
