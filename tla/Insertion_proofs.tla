-------------------------- MODULE Insertion_proofs ---------------------------
(***************************************************************************)
(* What an insertion of the instrumentation pass makes of a block:         *)
(* sequences, buffers of vectors, the order of hooks and instructions.     *)
(* Module Instrument_proofs rests on these facts.                          *)
(***************************************************************************)
EXTENDS Instrument, FiniteSetTheorems, SequenceTheorems, WellFoundedInduction, TLAPS

----------------------------------------------------------------------------
(* Sequences.                                                              *)

LEMMA SeqIntro ==
  ASSUME NEW S, NEW s \in Seq(S)
  PROVE  IsSequence(s) /\ ToSet(s) \subseteq S
<1>1. Len(s) \in Nat /\ DOMAIN s = 1 .. Len(s) /\ s = [i \in 1 .. Len(s) |-> s[i]]
  OBVIOUS
<1>2. \A i \in 1 .. Len(s) : s[i] \in ToSet(s) /\ s[i] \in S
  BY <1>1 DEF ToSet
<1>3. s \in Seq(ToSet(s))
  <2> DEFINE T == ToSet(s)
             n == Len(s)
  <2>1. n \in Nat /\ s = [i \in 1 .. n |-> s[i]] /\ \A i \in 1 .. n : s[i] \in T
    BY <1>1, <1>2
  <2> HIDE DEF T, n
  <2>2. [i \in 1 .. n |-> s[i]] \in Seq(T)
    BY <2>1, IsASeq
  <2> QED
    BY <2>1, <2>2 DEF T
<1> QED
  BY <1>1, <1>2, <1>3 DEF IsSequence, ToSet

LEMMA SeqFacts ==
  ASSUME NEW s, IsSequence(s)
  PROVE  /\ Len(s) \in Nat /\ DOMAIN s = 1 .. Len(s)
         /\ \A i \in 1 .. Len(s) : s[i] \in ToSet(s)
         /\ \A x \in ToSet(s) : \E i \in 1 .. Len(s) : x = s[i]
<1>1. Len(s) \in Nat /\ DOMAIN s = 1 .. Len(s)
  BY DEF IsSequence
<1> QED
  BY <1>1 DEF ToSet

LEMMA MadeSeq ==
  ASSUME NEW n \in Nat, NEW s, s = [i \in 1 .. n |-> s[i]]
  PROVE  IsSequence(s) /\ Len(s) = n
<1> DEFINE T == {s[i] : i \in 1 .. n}
<1>1. \A i \in 1 .. n : s[i] \in T
  OBVIOUS
<1>2. [i \in 1 .. n |-> s[i]] \in Seq(T)
  <2> HIDE DEF T
  <2> QED
    BY <1>1, IsASeq
<1>3. s \in Seq(T) /\ DOMAIN s = 1 .. n
  BY <1>2
<1>4. Len(s) = n
  BY <1>3
<1> QED
  BY <1>3, <1>4, SeqIntro

LEMMA CatFacts ==
  ASSUME NEW s, NEW t, IsSequence(s), IsSequence(t)
  PROVE  /\ IsSequence(s \o t) /\ Len(s \o t) = Len(s) + Len(t)
         /\ ToSet(s \o t) = ToSet(s) \cup ToSet(t)
         /\ \A i \in 1 .. Len(s) : (s \o t)[i] = s[i]
         /\ \A i \in 1 .. Len(t) : (s \o t)[Len(s) + i] = t[i]
<1> DEFINE S == ToSet(s) \cup ToSet(t)
           m == Len(s)
           n == Len(t)
<1>1. s \in Seq(S) /\ t \in Seq(S)
  BY SeqMonotonic DEF IsSequence
<1>2. /\ m \in Nat /\ n \in Nat /\ DOMAIN s = 1 .. m /\ DOMAIN t = 1 .. n
      /\ s \o t \in Seq(S) /\ Len(s \o t) = m + n
      /\ \A i \in 1 .. m + n : (s \o t)[i] = IF i <= m THEN s[i] ELSE t[i - m]
  <2> HIDE DEF S
  <2> QED
    BY <1>1, ConcatProperties
<1>3. IsSequence(s \o t) /\ ToSet(s \o t) \subseteq S
  <2> HIDE DEF S
  <2> QED
    BY <1>2, SeqIntro
<1>4. \A i \in 1 .. m : (s \o t)[i] = s[i]
  BY <1>2
<1>5. \A i \in 1 .. n : (s \o t)[m + i] = t[i]
  BY <1>2
<1>6. DOMAIN (s \o t) = 1 .. m + n
  BY <1>2, <1>3, SeqFacts
<1>7. ASSUME NEW x \in S PROVE x \in ToSet(s \o t)
  <2>1. CASE x \in ToSet(s)
    <3>1. PICK i \in 1 .. m : x = s[i]
      BY <2>1, SeqFacts
    <3>2. i \in DOMAIN (s \o t) /\ (s \o t)[i] = x
      BY <1>2, <1>4, <1>6, <3>1
    <3> QED
      BY <3>2 DEF ToSet
  <2>2. CASE x \in ToSet(t)
    <3>1. PICK i \in 1 .. n : x = t[i]
      BY <2>2, SeqFacts
    <3>2. m + i \in DOMAIN (s \o t) /\ (s \o t)[m + i] = x
      BY <1>2, <1>5, <1>6, <3>1
    <3> QED
      BY <3>2 DEF ToSet
  <2> QED
    BY <2>1, <2>2
<1> QED
  BY <1>2, <1>3, <1>4, <1>5, <1>7

LEMMA SubFacts ==
  ASSUME NEW s, IsSequence(s), NEW m \in Nat \ {0}, NEW n \in Nat, n <= Len(s), m <= n + 1
  PROVE  /\ IsSequence(SubSeq(s, m, n)) /\ Len(SubSeq(s, m, n)) = n - m + 1
         /\ \A i \in 1 .. n - m + 1 : SubSeq(s, m, n)[i] = s[m + i - 1]
         /\ ToSet(SubSeq(s, m, n)) = {s[i] : i \in m .. n}
<1> DEFINE S == ToSet(s)
           u == SubSeq(s, m, n)
<1>1. \A i \in m .. n : s[i] \in S
  BY SeqFacts
<1>2. /\ u \in Seq(S) /\ Len(u) = n - m + 1
      /\ \A i \in 1 .. n - m + 1 : u[i] = s[m + i - 1]
  <2> HIDE DEF S
  <2> QED
    BY <1>1, SubSeqProperties
<1>3. IsSequence(u)
  <2> HIDE DEF S
  <2> QED
    BY <1>2, SeqIntro
<1>4. DOMAIN u = 1 .. n - m + 1
  <2> HIDE DEF u
  <2> QED
    BY <1>2, <1>3, SeqFacts
<1>5. \A i \in m .. n : i - m + 1 \in DOMAIN u /\ u[i - m + 1] = s[i]
  BY <1>2, <1>4
<1>6. \A i \in DOMAIN u : m + i - 1 \in m .. n /\ u[i] = s[m + i - 1]
  BY <1>2, <1>4
<1>7. ToSet(u) = {s[i] : i \in m .. n}
  <2> HIDE DEF u
  <2>1. ASSUME NEW x \in ToSet(u) PROVE x \in {s[i] : i \in m .. n}
    <3>1. PICK i \in DOMAIN u : x = u[i]
      BY <2>1 DEF ToSet
    <3> QED
      BY <1>6, <3>1
  <2>2. ASSUME NEW i \in m .. n PROVE s[i] \in ToSet(u)
    BY <1>5 DEF ToSet
  <2> QED
    BY <2>1, <2>2
<1> QED
  BY <1>2, <1>3, <1>7

LEMMA PrefixFacts ==
  ASSUME NEW s, IsSequence(s), NEW n \in Nat, n <= Len(s)
  PROVE  /\ IsSequence(SubSeq(s, 1, n)) /\ Len(SubSeq(s, 1, n)) = n
         /\ \A i \in 1 .. n : SubSeq(s, 1, n)[i] = s[i]
         /\ ToSet(SubSeq(s, 1, n)) = {s[i] : i \in 1 .. n}
<1>1. 1 \in Nat \ {0} /\ 1 <= n + 1 /\ n - 1 + 1 = n /\ \A i \in 1 .. n : 1 + i - 1 = i
  OBVIOUS
<1> QED
  BY <1>1, SubFacts

LEMMA SuffixFacts ==
  ASSUME NEW s, IsSequence(s), NEW k \in 1 .. Len(s)
  PROVE  /\ IsSequence(SubSeq(s, k + 1, Len(s)))
         /\ ToSet(SubSeq(s, k + 1, Len(s))) = {s[i] : i \in k + 1 .. Len(s)}
<1> DEFINE m == k + 1
           n == Len(s)
<1>1. n \in Nat /\ m \in Nat \ {0} /\ m <= n + 1 /\ n <= n
  BY SeqFacts
<1> HIDE DEF m
<1>2. IsSequence(SubSeq(s, m, n)) /\ ToSet(SubSeq(s, m, n)) = {s[i] : i \in m .. n}
  BY <1>1, SubFacts
<1> QED
  BY <1>2 DEF m

LEMMA EmptyFacts == IsSequence(<< >>) /\ Len(<< >>) = 0 /\ ToSet(<< >>) = {}
<1> DEFINE e == << >>
<1>1. e \in Seq(Nat) /\ Len(e) = 0
  BY EmptySeq
<1> HIDE DEF e
<1>2. IsSequence(e)
  BY <1>1, SeqIntro
<1>3. ToSet(e) = {}
  BY <1>1, <1>2, SeqFacts
<1> QED
  BY <1>1, <1>2, <1>3 DEF e

LEMMA OneFacts ==
  ASSUME NEW x
  PROVE  IsSequence(<<x>>) /\ Len(<<x>>) = 1 /\ <<x>>[1] = x /\ ToSet(<<x>>) = {x}
<1>1. <<x>> \in Seq({x})
  OBVIOUS
<1>2. IsSequence(<<x>>) /\ ToSet(<<x>>) \subseteq {x}
  BY <1>1, SeqIntro
<1>3. x \in ToSet(<<x>>)
  BY DEF ToSet
<1> QED
  BY <1>2, <1>3

LEMMA AppendFacts ==
  ASSUME NEW s, NEW x, IsSequence(s)
  PROVE  /\ IsSequence(Append(s, x)) /\ Len(Append(s, x)) = Len(s) + 1
         /\ ToSet(Append(s, x)) = ToSet(s) \cup {x}
         /\ \A i \in 1 .. Len(s) : Append(s, x)[i] = s[i]
         /\ Append(s, x)[Len(s) + 1] = x
<1> DEFINE S == ToSet(s) \cup {x}
<1>1. s \in Seq(S) /\ x \in S
  BY SeqMonotonic DEF IsSequence
<1>2. Append(s, x) = s \o <<x>>
  <2> HIDE DEF S
  <2> QED
    BY <1>1, AppendIsConcat
<1>3. /\ Append(s, x) \in Seq(S) /\ Len(Append(s, x)) = Len(s) + 1
      /\ \A i \in 1 .. Len(s) : Append(s, x)[i] = s[i]
      /\ Append(s, x)[Len(s) + 1] = x
  <2> HIDE DEF S
  <2> QED
    BY <1>1, AppendProperties
<1> QED
  BY <1>2, <1>3, CatFacts, OneFacts

LEMMA ReverseFacts ==
  ASSUME NEW s, IsSequence(s)
  PROVE  IsSequence(Reverse(s)) /\ Len(Reverse(s)) = Len(s) /\ ToSet(Reverse(s)) = ToSet(s)
<1> DEFINE n == Len(s)
           r == Reverse(s)
<1>1. n \in Nat /\ DOMAIN s = 1 .. n
  BY SeqFacts
<1>2. r = [i \in 1 .. n |-> s[(n - i) + 1]]
  BY DEF Reverse
<1>3. DOMAIN r = 1 .. n /\ \A i \in 1 .. n : r[i] = s[(n - i) + 1]
  BY <1>2
<1>4. r = [i \in 1 .. n |-> r[i]]
  BY <1>2
<1> HIDE DEF r, n
<1>5. IsSequence(r) /\ Len(r) = n
  BY <1>1, <1>4, MadeSeq
<1>6. \A i \in 1 .. n : (n - i) + 1 \in 1 .. n
  BY <1>1
<1>7. \A i \in 1 .. n : s[i] = r[(n - i) + 1]
  <2> TAKE i \in 1 .. n
  <2>1. (n - i) + 1 \in 1 .. n /\ (n - ((n - i) + 1)) + 1 = i
    BY <1>1
  <2> QED
    BY <1>3, <2>1
<1>8. ToSet(r) = ToSet(s)
  BY <1>1, <1>3, <1>6, <1>7 DEF ToSet
<1> QED
  BY <1>5, <1>8 DEF r, n

----------------------------------------------------------------------------
(* Recursion over an interval.                                             *)

LEMMA LeastNumber ==
  ASSUME NEW T, T \subseteq Nat, T # {}
  PROVE  \E n \in T : \A m \in T : ~(m < n)
<1> DEFINE less == OpToRel(<, Nat)
<1>1. \E n \in T : \A m \in T : ~(<<m, n>> \in less)
  <2> HIDE DEF less
  <2>1. IsWellFoundedOn(less, Nat)
    BY NatLessThanWellFounded DEF less
  <2> QED
    BY <2>1, WFMin
<1> QED
  BY <1>1 DEF OpToRel

\* Induction up to n, over the numbers of which something holds.
LEMMA UpTo ==
  ASSUME NEW n \in Nat, NEW T, 0 \in T, \A i \in 1 .. n : i - 1 \in T => i \in T
  PROVE  0 .. n \subseteq T
<1> SUFFICES ASSUME (0 .. n) \ T # {} PROVE FALSE
  OBVIOUS
<1> DEFINE U == (0 .. n) \ T
<1>1. U # {} /\ U \subseteq Nat
  OBVIOUS
<1>2. PICK i \in U : \A j \in U : ~(j < i)
  <2> HIDE DEF U
  <2> QED
    BY <1>1, LeastNumber
<1>3. i \in 1 .. n /\ i - 1 \in 0 .. n /\ i - 1 < i
  BY <1>2
<1> QED
  BY <1>2, <1>3

\* The values of a recursion whose i-th step is step[i][.].
Recurs(f, n, D, base, step) ==
  f \in [0 .. n -> D] /\ f[0] = base /\ \A i \in 1 .. n : f[i] = step[i][f[i - 1]]

LEMMA RecursionExists ==
  ASSUME NEW n \in Nat, NEW D, NEW base \in D, NEW step \in [1 .. n -> [D -> D]]
  PROVE  \E f : Recurs(f, n, D, base, step)
<1> DEFINE T == {m \in 0 .. n : \E f : Recurs(f, m, D, base, step)}
<1>1. 0 \in T
  <2>1. Recurs([i \in 0 .. 0 |-> base], 0, D, base, step)
    BY DEF Recurs
  <2> QED
    BY <2>1
<1>2. ASSUME NEW m \in 1 .. n, m - 1 \in T PROVE m \in T
  <2>1. PICK f : Recurs(f, m - 1, D, base, step)
    BY <1>2
  <2> DEFINE g == [i \in 0 .. m |-> IF i = m THEN step[m][f[m - 1]] ELSE f[i]]
  <2>2. f \in [0 .. m - 1 -> D] /\ m - 1 \in 0 .. m - 1 /\ f[m - 1] \in D
    BY <2>1 DEF Recurs
  <2>3. step[m][f[m - 1]] \in D
    BY <2>2
  <2>4. g \in [0 .. m -> D]
    BY <2>2, <2>3
  <2>5. g[0] = base
    BY <2>1 DEF Recurs
  <2>6. ASSUME NEW i \in 1 .. m PROVE g[i] = step[i][g[i - 1]]
    <3>1. CASE i = m
      <4>1. g[m] = step[m][f[m - 1]] /\ g[m - 1] = f[m - 1]
        BY <2>2
      <4> QED
        BY <3>1, <4>1
    <3>2. CASE i # m
      <4>1. i \in 1 .. m - 1 /\ g[i] = f[i] /\ g[i - 1] = f[i - 1]
        BY <3>2
      <4> QED
        BY <2>1, <4>1 DEF Recurs
    <3> QED
      BY <3>1, <3>2
  <2> HIDE DEF g
  <2>7. Recurs(g, m, D, base, step)
    BY <2>4, <2>5, <2>6 DEF Recurs
  <2> QED
    BY <2>7
<1>3. n \in T
  <2> HIDE DEF T
  <2>1. 0 .. n \subseteq T
    BY <1>1, <1>2, UpTo
  <2> QED
    BY <2>1
<1> QED
  BY <1>3

----------------------------------------------------------------------------
(* Hooks that are printed, and sequences put after one another.            *)

\* Sequences are put together from the first to the last.
Flattens(h, ls) ==
  /\ FlattenSeq(ls) = h[Len(ls)]
  /\ \A i \in 1 .. Len(ls) : h[i] = IF i = 1 THEN ls[i] ELSE h[i - 1] \o ls[i]

LEMMA FlattenSteps ==
  ASSUME NEW S, NEW ls \in Seq(Seq(S)), Len(ls) # 0
  PROVE  \E h : Flattens(h, ls)
<1> DEFINE n == Len(ls)
           Flat(f) == f = [i \in 1 .. n |-> IF i = 1 THEN ls[i] ELSE f[i - 1] \o ls[i]]
           D == Seq(S)
           step == [i \in 1 .. n |-> [s \in D |-> s \o ls[i]]]
           h == CHOOSE f : Flat(f)
<1>1. n \in Nat /\ n # 0 /\ \A i \in 1 .. n : ls[i] \in D
  OBVIOUS
<1>2. FlattenSeq(ls) = h[n]
  BY <1>1 DEF FlattenSeq
<1> HIDE DEF n
<1>3. << >> \in D
  OBVIOUS
<1>4. \A s, t \in D : s \o t \in D /\ << >> \o t = t
  OBVIOUS
<1> HIDE DEF D
<1>5. step \in [1 .. n -> [D -> D]]
  BY <1>1, <1>4
<1>6. \A i \in 1 .. n : \A s \in D : step[i][s] = s \o ls[i]
  OBVIOUS
<1> HIDE DEF step
<1>7. PICK f : Recurs(f, n, D, << >>, step)
  BY <1>1, <1>3, <1>5, RecursionExists
<1> DEFINE g == [i \in 1 .. n |-> f[i]]
<1>8. \A i \in 0 .. n : f[i] \in D
  BY <1>7 DEF Recurs
<1>9. ASSUME NEW i \in 1 .. n PROVE g[i] = IF i = 1 THEN ls[i] ELSE g[i - 1] \o ls[i]
  <2>1. f[i] = f[i - 1] \o ls[i]
    <3>1. i - 1 \in 0 .. n /\ f[i] = step[i][f[i - 1]]
      BY <1>1, <1>7 DEF Recurs
    <3> QED
      BY <1>6, <1>8, <3>1
  <2>2. CASE i = 1
    <3>1. f[i - 1] = << >>
      BY <1>7, <2>2 DEF Recurs
    <3> QED
      BY <1>1, <1>4, <2>1, <2>2, <3>1
  <2>3. CASE i # 1
    <3>1. i - 1 \in 1 .. n
      BY <1>1, <2>3
    <3> QED
      BY <2>1, <2>3, <3>1
  <2> QED
    BY <2>2, <2>3
<1>10. g = [i \in 1 .. n |-> g[i]]
  OBVIOUS
<1> HIDE DEF g
<1>11. Flat(g)
  BY <1>9, <1>10
<1>12. Flat(h)
  BY <1>11
<1> HIDE DEF h
<1>13. \A i \in 1 .. n : h[i] = IF i = 1 THEN ls[i] ELSE h[i - 1] \o ls[i]
  BY <1>12
<1> QED
  BY <1>2, <1>13 DEF Flattens, n

\* All that is in one of the sequences is in the whole, and nothing else.
LEMMA FlattenFacts ==
  ASSUME NEW S, NEW ls \in Seq(Seq(S))
  PROVE  /\ FlattenSeq(ls) \in Seq(S)
         /\ \A k \in 1 .. Len(ls) : ToSet(ls[k]) \subseteq ToSet(FlattenSeq(ls))
<1> DEFINE n == Len(ls)
           D == Seq(S)
<1>1. n \in Nat /\ \A i \in 1 .. n : ls[i] \in D
  OBVIOUS
<1>2. CASE n = 0
  <2>1. FlattenSeq(ls) = ls /\ ls = << >>
    BY <1>2 DEF FlattenSeq
  <2> QED
    BY <1>2, <2>1
<1>3. CASE n # 0
  <2>1. PICK h : Flattens(h, ls)
    BY <1>3, FlattenSteps
  <2>2. FlattenSeq(ls) = h[n] /\ \A i \in 1 .. n : h[i] = IF i = 1 THEN ls[i] ELSE h[i - 1] \o ls[i]
    BY <2>1 DEF Flattens
  <2> HIDE DEF n
  <2>3. \A s, t \in D : s \o t \in D
    OBVIOUS
  <2>4. \A s, t \in D : ToSet(s \o t) = ToSet(s) \cup ToSet(t)
    <3>1. \A s \in D : IsSequence(s)
      BY SeqIntro DEF IsSequence
    <3> QED
      BY <3>1, CatFacts
  <2> HIDE DEF D
  <2> DEFINE Upto(i) == h[i] \in D /\ \A k \in 1 .. i : ToSet(ls[k]) \subseteq ToSet(h[i])
             T == {0} \cup {i \in 1 .. n : Upto(i)}
  <2>5. ASSUME NEW i \in 1 .. n, i - 1 \in T PROVE Upto(i)
    <3>1. CASE i = 1
      <4>1. h[i] = ls[i] /\ ls[i] \in D /\ \A k \in 1 .. i : k = i
        BY <1>1, <2>2, <3>1
      <4> QED
        BY <4>1
    <3>2. CASE i # 1
      <4>1. i - 1 \in 1 .. n /\ \A k \in 1 .. i : k \in 1 .. i - 1 \/ k = i
        BY <1>1, <3>2
      <4>2. Upto(i - 1)
        BY <2>5, <4>1
      <4>3. h[i] = h[i - 1] \o ls[i] /\ ls[i] \in D
        BY <1>1, <2>2, <3>2
      <4>4. h[i] \in D /\ ToSet(h[i]) = ToSet(h[i - 1]) \cup ToSet(ls[i])
        BY <2>3, <2>4, <4>2, <4>3
      <4> QED
        BY <4>1, <4>2, <4>4
    <3> QED
      BY <3>1, <3>2
  <2> HIDE DEF Upto
  <2>6. 0 .. n \subseteq T
    <3>1. 0 \in T /\ \A i \in 1 .. n : i - 1 \in T => i \in T
      BY <2>5
    <3> HIDE DEF T
    <3> QED
      BY <1>1, <3>1, UpTo
  <2>7. Upto(n)
    BY <1>1, <1>3, <2>6 DEF n
  <2> QED
    BY <2>2, <2>7 DEF Upto, D, n
<1> QED
  BY <1>2, <1>3

LEMMA PrintableFacts ==
  ASSUME NEW hooks, IsSequence(hooks)
  PROVE  /\ IsSequence(Printable(hooks))
         /\ \A h \in ToSet(Printable(hooks)) : h \in ToSet(hooks) /\ h.fn # "none"
<1> DEFINE n == Len(hooks)
           D == Seq({h \in ToSet(hooks) : h.fn # "none"})
           next(s, i) == IF hooks[i].fn = "none" THEN s ELSE Append(s, hooks[i])
           Upto(f) == f = [i \in 0 .. n |->
                             IF i = 0 THEN << >>
                             ELSE IF hooks[i].fn = "none" THEN f[i - 1]
                             ELSE Append(f[i - 1], hooks[i])]
           step == [i \in 1 .. n |-> [s \in D |-> next(s, i)]]
           h == CHOOSE f : Upto(f)
<1>1. n \in Nat /\ \A i \in 1 .. n : hooks[i] \in ToSet(hooks)
  BY SeqFacts
<1>2. Printable(hooks) = h[n]
  BY DEF Printable
<1>3. << >> \in D
  OBVIOUS
<1>4. ASSUME NEW i \in 1 .. n, NEW s \in D PROVE next(s, i) \in D
  <2>1. CASE hooks[i].fn = "none"
    BY <2>1
  <2>2. CASE hooks[i].fn # "none"
    <3>1. hooks[i] \in {g \in ToSet(hooks) : g.fn # "none"}
      BY <1>1, <2>2
    <3> QED
      BY <2>2, <3>1
  <2> QED
    BY <2>1, <2>2
<1> HIDE DEF n
<1>5. ASSUME NEW s \in D PROVE IsSequence(s) /\ \A g \in ToSet(s) : g \in ToSet(hooks) /\ g.fn # "none"
  BY SeqIntro
<1> HIDE DEF D
<1>6. step \in [1 .. n -> [D -> D]] /\ \A i \in 1 .. n : \A s \in D : step[i][s] = next(s, i)
  <2> HIDE DEF next
  <2> QED
    BY <1>4
<1> HIDE DEF step
<1>7. PICK f : Recurs(f, n, D, << >>, step)
  BY <1>1, <1>3, <1>6, RecursionExists
<1>8. Upto(f)
  <2>1. f \in [0 .. n -> D] /\ f = [i \in 0 .. n |-> f[i]]
    BY <1>7 DEF Recurs
  <2>2. ASSUME NEW i \in 0 .. n
        PROVE  f[i] = IF i = 0 THEN << >>
                      ELSE IF hooks[i].fn = "none" THEN f[i - 1]
                      ELSE Append(f[i - 1], hooks[i])
    <3>1. CASE i = 0
      BY <1>7, <3>1 DEF Recurs
    <3>2. CASE i # 0
      <4>1. i \in 1 .. n /\ i - 1 \in 0 .. n
        BY <1>1, <3>2
      <4>2. f[i] = step[i][f[i - 1]] /\ f[i - 1] \in D
        BY <1>7, <2>1, <4>1 DEF Recurs
      <4> QED
        BY <1>6, <3>2, <4>1, <4>2
    <3> QED
      BY <3>1, <3>2
  <2> QED
    BY <2>1, <2>2
<1>9. Upto(h)
  BY <1>8
<1> HIDE DEF h
<1>10. h[0] = << >> /\ \A i \in 1 .. n : h[i] = next(h[i - 1], i)
  <2>1. \A i \in 0 .. n :
          h[i] = IF i = 0 THEN << >>
                 ELSE IF hooks[i].fn = "none" THEN h[i - 1]
                 ELSE Append(h[i - 1], hooks[i])
    BY <1>9
  <2>2. 0 \in 0 .. n /\ \A i \in 1 .. n : i \in 0 .. n /\ i # 0
    BY <1>1
  <2> QED
    BY <2>1, <2>2
<1> HIDE DEF next
<1> DEFINE T == {i \in 0 .. n : h[i] \in D}
<1>11. 0 \in T /\ \A i \in 1 .. n : i - 1 \in T => i \in T
  <2>1. 0 \in T
    BY <1>1, <1>3, <1>10
  <2>2. \A i \in 1 .. n : i - 1 \in T => i \in T
    BY <1>1, <1>4, <1>10
  <2> QED
    BY <2>1, <2>2
<1>12. 0 .. n \subseteq T
  <2> HIDE DEF T
  <2> QED
    BY <1>1, <1>11, UpTo
<1>13. h[n] \in D
  BY <1>1, <1>12
<1> QED
  BY <1>2, <1>5, <1>13

----------------------------------------------------------------------------
(* Numbers in order.                                                       *)

\* The members of P, from the least to the greatest.
Enumerates(J, P) ==
  /\ IsSequence(J) /\ ToSet(J) = P
  /\ \A i, j \in 1 .. Len(J) : i < j => J[i] < J[j]

LEMMA EnumEmpty == Enumerates(<< >>, {})
<1> DEFINE e == << >>
<1>1. IsSequence(e) /\ Len(e) = 0 /\ ToSet(e) = {}
  BY EmptyFacts
<1> HIDE DEF e
<1>2. Enumerates(e, {})
  BY <1>1 DEF Enumerates
<1> QED
  BY <1>2 DEF e

LEMMA EnumNext ==
  ASSUME NEW J, NEW P, Enumerates(J, P), NEW n, \A m \in P : m < n
  PROVE  Enumerates(Append(J, n), P \cup {n})
<1> DEFINE K == Append(J, n)
           m == Len(J)
<1>1. /\ IsSequence(K) /\ Len(K) = m + 1 /\ ToSet(K) = P \cup {n} /\ m \in Nat
      /\ \A i \in 1 .. m : K[i] = J[i] /\ J[i] \in P
      /\ K[m + 1] = n
  BY AppendFacts, SeqFacts DEF Enumerates
<1> HIDE DEF K
<1>2. ASSUME NEW i \in 1 .. Len(K), NEW j \in 1 .. Len(K), i < j PROVE K[i] < K[j]
  <2>1. i \in 1 .. m
    BY <1>1, <1>2
  <2>2. CASE j \in 1 .. m
    BY <1>1, <1>2, <2>1, <2>2 DEF Enumerates
  <2>3. CASE j = m + 1
    BY <1>1, <2>1, <2>3
  <2> QED
    BY <1>1, <2>2, <2>3
<1> QED
  BY <1>1, <1>2 DEF Enumerates, K

Starts(J, K) == Len(J) <= Len(K) /\ \A i \in 1 .. Len(J) : J[i] = K[i]

LEMMA EnumStarts ==
  ASSUME NEW P, P \subseteq Int, NEW J, NEW K, Enumerates(J, P), Enumerates(K, P)
  PROVE  Starts(J, K)
<1> DEFINE m == Len(J)
           n == Len(K)
           T == {i \in 0 .. m : i <= n /\ \A k \in 1 .. i : J[k] = K[k]}
<1>1. /\ m \in Nat /\ n \in Nat
      /\ \A i \in 1 .. m : J[i] \in P /\ J[i] \in Int
      /\ \A i \in 1 .. n : K[i] \in P /\ K[i] \in Int
      /\ \A x \in P : \E i \in 1 .. m : x = J[i]
      /\ \A x \in P : \E i \in 1 .. n : x = K[i]
  BY SeqFacts DEF Enumerates
<1>2. /\ \A i, j \in 1 .. m : i < j => J[i] < J[j]
      /\ \A i, j \in 1 .. n : i < j => K[i] < K[j]
  BY DEF Enumerates
<1> HIDE DEF m, n
<1>3. ASSUME NEW i \in 1 .. m, i - 1 \in T PROVE i \in T
  <2>1. i - 1 <= n /\ \A k \in 1 .. i - 1 : J[k] = K[k] /\ k \in 1 .. n /\ k \in 1 .. m
    BY <1>1, <1>3
  <2>2. PICK k \in 1 .. n : J[i] = K[k]
    BY <1>1
  <2>3. ~(k < i)
    <3>1. k < i => k \in 1 .. i - 1
      OBVIOUS
    <3>2. k < i => J[k] = J[i] /\ J[k] < J[i]
      BY <1>2, <2>1, <2>2, <3>1
    <3> QED
      BY <1>1, <3>2
  <2>4. i \in 1 .. n
    BY <1>1, <2>3
  <2>5. PICK l \in 1 .. m : K[i] = J[l]
    BY <1>1, <2>4
  <2>6. ~(l < i)
    <3>1. l < i => l \in 1 .. i - 1
      OBVIOUS
    <3>2. l < i => K[l] = K[i] /\ K[l] < K[i]
      BY <1>2, <2>1, <2>4, <2>5, <3>1
    <3> QED
      BY <1>1, <2>4, <3>2
  <2>7. J[i] <= J[l] /\ K[i] <= K[k]
    <3>1. (i = l \/ i < l) /\ (i = k \/ i < k)
      BY <1>1, <2>3, <2>6
    <3> QED
      BY <1>1, <1>2, <2>4, <3>1
  <2>8. J[i] = K[i]
    BY <1>1, <2>2, <2>4, <2>5, <2>7
  <2>9. \A j \in 1 .. i : j \in 1 .. i - 1 \/ j = i
    OBVIOUS
  <2>10. i \in 0 .. m /\ i <= n
    BY <1>1, <2>4
  <2> QED
    BY <2>1, <2>8, <2>9, <2>10
<1>4. 0 \in T
  BY <1>1
<1> HIDE DEF T
<1>5. m \in T
  <2>1. 0 .. m \subseteq T
    BY <1>1, <1>3, <1>4, UpTo
  <2> QED
    BY <1>1, <2>1
<1> QED
  BY <1>5 DEF T, m, n, Starts

\* There is one way to do it.
LEMMA EnumSame ==
  ASSUME NEW P, P \subseteq Int, NEW J, NEW K, Enumerates(J, P), Enumerates(K, P)
  PROVE  Len(J) = Len(K) /\ \A i \in 1 .. Len(J) : J[i] = K[i]
<1>1. Starts(J, K) /\ Starts(K, J)
  BY EnumStarts
<1>2. Len(J) \in Nat /\ Len(K) \in Nat
  BY SeqFacts DEF Enumerates
<1> QED
  BY <1>1, <1>2 DEF Starts

\* The elements of s at the positions in K, in their order.
Selects(t, s, K) ==
  \E J : /\ Enumerates(J, K) /\ IsSequence(t) /\ Len(t) = Len(J)
         /\ \A i \in 1 .. Len(J) : t[i] = s[J[i]]

\* The recursion that finds them.
Filters(h, s, K) ==
  h = [i \in 0 .. Len(s) |->
         IF i = 0 THEN << >> ELSE IF i \in K THEN Append(h[i - 1], s[i]) ELSE h[i - 1]]

LEMMA FilterExists ==
  ASSUME NEW s, IsSequence(s), NEW K
  PROVE  \E h : Filters(h, s, K)
<1> DEFINE n == Len(s)
           D == Seq(ToSet(s))
           next(t, i) == IF i \in K THEN Append(t, s[i]) ELSE t
           step == [i \in 1 .. n |-> [t \in D |-> next(t, i)]]
           e == << >>
<1>1. n \in Nat /\ \A i \in 1 .. n : s[i] \in ToSet(s)
  BY SeqFacts
<1>2. e \in D
  OBVIOUS
<1> HIDE DEF n
<1>3. ASSUME NEW i \in 1 .. n, NEW t \in D PROVE next(t, i) \in D
  <2>1. s[i] \in ToSet(s)
    BY <1>1
  <2> QED
    BY <2>1
<1> HIDE DEF D, e
<1>4. step \in [1 .. n -> [D -> D]] /\ \A i \in 1 .. n : \A t \in D : step[i][t] = next(t, i)
  <2> HIDE DEF next
  <2> QED
    BY <1>3
<1> HIDE DEF step
<1>5. PICK f : Recurs(f, n, D, e, step)
  BY <1>1, <1>2, <1>4, RecursionExists
<1>6. f \in [0 .. n -> D] /\ f = [i \in 0 .. n |-> f[i]]
  BY <1>5 DEF Recurs
<1>7. ASSUME NEW i \in 0 .. n PROVE f[i] = IF i = 0 THEN e ELSE next(f[i - 1], i)
  <2>1. CASE i = 0
    BY <1>5, <2>1 DEF Recurs
  <2>2. CASE i # 0
    <3>1. i \in 1 .. n /\ i - 1 \in 0 .. n
      BY <1>1, <2>2
    <3>2. f[i] = step[i][f[i - 1]] /\ f[i - 1] \in D
      BY <1>5, <1>6, <3>1 DEF Recurs
    <3> QED
      BY <1>4, <2>2, <3>1, <3>2
  <2> QED
    BY <2>1, <2>2
<1>8. Filters(f, s, K)
  <2>1. f = [i \in 0 .. n |-> IF i = 0 THEN << >> ELSE IF i \in K THEN Append(f[i - 1], s[i]) ELSE f[i - 1]]
    BY <1>6, <1>7 DEF e
  <2> QED
    BY <2>1 DEF Filters, n
<1> QED
  BY <1>8

LEMMA FilterSelects ==
  ASSUME NEW s, IsSequence(s), NEW K, K \subseteq 1 .. Len(s), NEW h, Filters(h, s, K)
  PROVE  Selects(h[Len(s)], s, K)
<1> DEFINE n == Len(s)
           upto(i) == K \cap 1 .. i
           T == {i \in 0 .. n : Selects(h[i], s, upto(i))}
<1>1. n \in Nat
  BY SeqFacts
<1>2. h[0] = << >> /\ \A i \in 1 .. n : h[i] = IF i \in K THEN Append(h[i - 1], s[i]) ELSE h[i - 1]
  <2>1. \A i \in 0 .. n :
          h[i] = IF i = 0 THEN << >> ELSE IF i \in K THEN Append(h[i - 1], s[i]) ELSE h[i - 1]
    BY DEF Filters
  <2>2. 0 \in 0 .. n /\ \A i \in 1 .. n : i \in 0 .. n /\ i # 0
    BY <1>1
  <2> QED
    BY <2>1, <2>2
<1> HIDE DEF n
<1>3. 0 \in T
  <2> DEFINE e == << >>
  <2>1. upto(0) = {}
    OBVIOUS
  <2>2. Enumerates(e, {}) /\ IsSequence(e) /\ Len(e) = 0
    BY EnumEmpty, EmptyFacts
  <2> HIDE DEF e
  <2>3. Selects(e, s, {})
    BY <2>2 DEF Selects
  <2> QED
    BY <1>1, <1>2, <2>1, <2>3 DEF e
<1>4. ASSUME NEW i \in 1 .. n, i - 1 \in T PROVE i \in T
  <2>1. PICK J : /\ Enumerates(J, upto(i - 1)) /\ IsSequence(h[i - 1]) /\ Len(h[i - 1]) = Len(J)
                 /\ \A k \in 1 .. Len(J) : h[i - 1][k] = s[J[k]]
    BY <1>4 DEF Selects
  <2>2. CASE i \notin K
    <3>1. upto(i) = upto(i - 1)
      BY <2>2
    <3> QED
      BY <1>2, <1>4, <2>2, <3>1
  <2>3. CASE i \in K
    <3>1. upto(i) = upto(i - 1) \cup {i} /\ \A m \in upto(i - 1) : m < i
      BY <2>3
    <3> DEFINE H == Append(J, i)
               t == Append(h[i - 1], s[i])
               m == Len(J)
    <3>2. Enumerates(H, upto(i))
      <4> HIDE DEF upto
      <4> QED
        BY <2>1, <3>1, EnumNext
    <3>3. IsSequence(J) /\ m \in Nat
      BY <2>1, SeqFacts DEF Enumerates
    <3>4. Len(H) = m + 1 /\ H[m + 1] = i /\ \A k \in 1 .. m : H[k] = J[k]
      BY <3>3, AppendFacts
    <3>5. IsSequence(t) /\ Len(t) = m + 1 /\ t[m + 1] = s[i] /\ \A k \in 1 .. m : t[k] = h[i - 1][k]
      BY <2>1, AppendFacts
    <3>6. h[i] = t
      BY <1>2, <2>3
    <3> HIDE DEF H, t, upto
    <3>7. \A k \in 1 .. Len(H) : t[k] = s[H[k]]
      <4>1. \A k \in 1 .. m + 1 : k \in 1 .. m \/ k = m + 1
        BY <3>3
      <4> QED
        BY <2>1, <3>4, <3>5, <4>1
    <3>8. Selects(t, s, upto(i))
      BY <3>2, <3>4, <3>5, <3>7 DEF Selects
    <3>9. i \in 0 .. n
      BY <1>1
    <3> QED
      BY <3>6, <3>8, <3>9
  <2> QED
    BY <2>2, <2>3
<1>5. n \in T
  <2> HIDE DEF T
  <2>1. 0 .. n \subseteq T
    BY <1>1, <1>3, <1>4, UpTo
  <2> QED
    BY <1>1, <2>1
<1>6. upto(n) = K
  BY DEF n
<1> QED
  BY <1>5, <1>6 DEF n

\* Printable keeps what has a function, in its order.
LEMMA PrintableSelects ==
  ASSUME NEW hooks, IsSequence(hooks)
  PROVE  Selects(Printable(hooks), hooks, {i \in 1 .. Len(hooks) : hooks[i].fn # "none"})
<1> DEFINE n == Len(hooks)
           K == {i \in 1 .. n : hooks[i].fn # "none"}
           Upto(f) == f = [i \in 0 .. n |->
                             IF i = 0 THEN << >>
                             ELSE IF hooks[i].fn = "none" THEN f[i - 1]
                             ELSE Append(f[i - 1], hooks[i])]
           h == CHOOSE f : Upto(f)
<1>1. n \in Nat
  BY SeqFacts
<1>2. Printable(hooks) = h[n]
  BY DEF Printable
<1>3. ASSUME NEW f PROVE Upto(f) <=> Filters(f, hooks, K)
  <2>1. \A i \in 0 .. n :
          (IF i = 0 THEN << >> ELSE IF hooks[i].fn = "none" THEN f[i - 1] ELSE Append(f[i - 1], hooks[i]))
            = IF i = 0 THEN << >> ELSE IF i \in K THEN Append(f[i - 1], hooks[i]) ELSE f[i - 1]
    BY <1>1
  <2> QED
    BY <2>1 DEF Filters
<1> HIDE DEF Upto
<1>4. PICK f : Filters(f, hooks, K)
  BY FilterExists
<1>5. Filters(h, hooks, K)
  BY <1>3, <1>4
<1> HIDE DEF h
<1>6. K \subseteq 1 .. Len(hooks)
  OBVIOUS
<1> HIDE DEF K, n
<1>7. Selects(h[Len(hooks)], hooks, K)
  BY <1>5, <1>6, FilterSelects
<1> QED
  BY <1>2, <1>7 DEF K, n

LEMMA SelectSelects ==
  ASSUME NEW items, IsSequence(items), NEW kind, NEW place
  PROVE  Selects(Select(items, kind, place), items,
                 {i \in 1 .. Len(items) : items[i].kind = kind /\ items[i].at = place})
<1> DEFINE n == Len(items)
           K == {i \in 1 .. n : items[i].kind = kind /\ items[i].at = place}
           Upto(f) == f = [i \in 0 .. n |->
                             IF i = 0 THEN << >>
                             ELSE IF items[i].kind = kind /\ items[i].at = place
                                  THEN Append(f[i - 1], items[i])
                             ELSE f[i - 1]]
           h == CHOOSE f : Upto(f)
<1>1. n \in Nat
  BY SeqFacts
<1>2. Select(items, kind, place) = h[n]
  BY DEF Select
<1>3. ASSUME NEW f PROVE Upto(f) <=> Filters(f, items, K)
  <2>1. \A i \in 0 .. n :
          (IF i = 0 THEN << >>
           ELSE IF items[i].kind = kind /\ items[i].at = place THEN Append(f[i - 1], items[i])
           ELSE f[i - 1])
            = IF i = 0 THEN << >> ELSE IF i \in K THEN Append(f[i - 1], items[i]) ELSE f[i - 1]
    BY <1>1
  <2> QED
    BY <2>1 DEF Filters
<1> HIDE DEF Upto
<1>4. PICK f : Filters(f, items, K)
  BY FilterExists
<1>5. Filters(h, items, K)
  BY <1>3, <1>4
<1> HIDE DEF h
<1>6. K \subseteq 1 .. Len(items)
  OBVIOUS
<1> HIDE DEF K, n
<1>7. Selects(h[Len(items)], items, K)
  BY <1>5, <1>6, FilterSelects
<1> QED
  BY <1>2, <1>7 DEF K, n

\* Sequence k of ls stands behind position o[k] of s, and there is nothing else in s.
Spots(o, s, ls, n) ==
  /\ IsSequence(s)
  /\ \A k \in 1 .. n :
       /\ o[k] \in Nat
       /\ \A j \in 1 .. Len(ls[k]) : o[k] + j \in 1 .. Len(s) /\ s[o[k] + j] = ls[k][j]
  /\ \A q \in 1 .. Len(s) : \E k \in 1 .. n : \E j \in 1 .. Len(ls[k]) : q = o[k] + j

LEMMA FlattenSpots ==
  ASSUME NEW S, NEW ls \in Seq(Seq(S)), Len(ls) # 0
  PROVE  \E o : Spots(o, FlattenSeq(ls), ls, Len(ls))
<1> DEFINE n == Len(ls)
           D == Seq(S)
<1>1. n \in Nat /\ n # 0 /\ \A i \in 1 .. n : ls[i] \in D
  OBVIOUS
<1>2. \A t \in D : IsSequence(t)
  BY SeqIntro
<1>3. PICK h : Flattens(h, ls)
  BY FlattenSteps
<1>4. FlattenSeq(ls) = h[n] /\ \A i \in 1 .. n : h[i] = IF i = 1 THEN ls[i] ELSE h[i - 1] \o ls[i]
  BY <1>3 DEF Flattens
<1> DEFINE o == [k \in 1 .. n |-> IF k = 1 THEN 0 ELSE Len(h[k - 1])]
           Good(i) == Spots(o, h[i], ls, i)
           T == {i \in 0 .. n : i = 0 \/ Good(i)}
<1>o. \A k \in 1 .. n : o[k] = IF k = 1 THEN 0 ELSE Len(h[k - 1])
  OBVIOUS
<1>5. \A i \in 1 .. n : IsSequence(ls[i])
  BY <1>1, <1>2
<1> HIDE DEF n, D, o
<1>6. ASSUME NEW i \in 1 .. n, i - 1 \in T PROVE Good(i)
  <2>1. Len(ls[i]) \in Nat
    BY <1>5, SeqFacts
  <2>2. CASE i = 1
    <3>1. h[i] = ls[i] /\ o[i] = 0 /\ \A k \in 1 .. i : k = i
      BY <1>4, <1>o, <2>2
    <3>2. i \in 1 .. i
      OBVIOUS
    <3>3. /\ \A j \in 1 .. Len(ls[i]) : o[i] + j = j
          /\ \A q \in 1 .. Len(ls[i]) : \E j \in 1 .. Len(ls[i]) : q = o[i] + j
      BY <2>1, <3>1
    <3>4. IsSequence(h[i])
      BY <1>5, <3>1
    <3> DEFINE u == h[i]
               t == ls[i]
    <3>5. u = t
      BY <3>1
    <3>6. \A k \in 1 .. i : /\ o[k] \in Nat
                          /\ \A j \in 1 .. Len(ls[k]) : o[k] + j \in 1 .. Len(u) /\ u[o[k] + j] = ls[k][j]
      <4> HIDE DEF u
      <4> QED
        BY <3>1, <3>3, <3>5
    <3>7. \A q \in 1 .. Len(u) : \E k \in 1 .. i : \E j \in 1 .. Len(ls[k]) : q = o[k] + j
      <4> HIDE DEF u
      <4> QED
        BY <3>2, <3>3, <3>5
    <3> QED
      BY <3>4, <3>6, <3>7 DEF Spots
  <2>3. CASE i # 1
    <3>1. /\ i - 1 \in 1 .. n /\ i - 1 # 0 /\ \A k \in 1 .. i : k \in 1 .. i - 1 \/ k = i
          /\ i \in 1 .. i /\ 1 .. i - 1 \subseteq 1 .. i
      BY <1>1, <2>3
    <3>2. Spots(o, h[i - 1], ls, i - 1)
      BY <1>6, <3>1
    <3> DEFINE s == h[i - 1]
               m == Len(s)
               t == ls[i]
               u == h[i]
    <3>3. u = s \o t /\ o[i] = m
      BY <1>4, <1>o, <2>3
    <3>4. IsSequence(s) /\ IsSequence(t) /\ m \in Nat /\ Len(t) \in Nat
      BY <1>5, <3>2, SeqFacts DEF Spots
    <3>t. t = ls[i]
      OBVIOUS
    <3> HIDE DEF t
    <3>5. /\ IsSequence(u) /\ Len(u) = m + Len(t)
          /\ \A j \in 1 .. m : u[j] = s[j]
          /\ \A j \in 1 .. Len(t) : u[m + j] = t[j]
      <4> HIDE DEF s, u
      <4> QED
        BY <3>3, <3>4, CatFacts
    <3> HIDE DEF u
    <3>6. ASSUME NEW k \in 1 .. i
          PROVE  /\ o[k] \in Nat
                 /\ \A j \in 1 .. Len(ls[k]) : o[k] + j \in 1 .. Len(u) /\ u[o[k] + j] = ls[k][j]
      <4>1. CASE k = i
        <5>1. \A j \in 1 .. Len(t) : m + j \in 1 .. Len(u) /\ u[m + j] = t[j]
          BY <3>4, <3>5
        <5> HIDE DEF m
        <5> QED
          BY <3>3, <3>4, <3>t, <4>1, <5>1
      <4>2. CASE k \in 1 .. i - 1
        <5>1. /\ o[k] \in Nat
              /\ \A j \in 1 .. Len(ls[k]) : o[k] + j \in 1 .. m /\ s[o[k] + j] = ls[k][j]
          BY <3>2, <4>2 DEF Spots
        <5>2. \A q \in 1 .. m : q \in 1 .. Len(u) /\ u[q] = s[q]
          BY <3>4, <3>5
        <5> HIDE DEF s, m
        <5> QED
          BY <5>1, <5>2
      <4> QED
        BY <3>1, <4>1, <4>2
    <3>7. ASSUME NEW q \in 1 .. Len(u)
          PROVE  \E k \in 1 .. i : \E j \in 1 .. Len(ls[k]) : q = o[k] + j
      <4>1. CASE q \in 1 .. m
        <5>1. PICK k \in 1 .. i - 1 : \E j \in 1 .. Len(ls[k]) : q = o[k] + j
          BY <3>2, <4>1 DEF Spots
        <5> QED
          BY <3>1, <5>1
      <4>2. CASE q \notin 1 .. m
        <5>1. q - m \in 1 .. Len(t) /\ q = m + (q - m)
          <6> HIDE DEF m
          <6> QED
            BY <3>4, <3>5, <4>2
        <5>2. q - m \in 1 .. Len(ls[i]) /\ q = o[i] + (q - m)
          BY <3>3, <3>t, <5>1
        <5> QED
          BY <3>1, <5>2
      <4> QED
        BY <4>1, <4>2
    <3> QED
      BY <3>5, <3>6, <3>7 DEF Spots, u
  <2> QED
    BY <2>2, <2>3
<1>7. n \in T
  <2>1. 0 \in T /\ \A i \in 1 .. n : i - 1 \in T => i \in T
    BY <1>1, <1>6
  <2> HIDE DEF T
  <2>2. 0 .. n \subseteq T
    BY <1>1, <2>1, UpTo
  <2> QED
    BY <1>1, <2>2
<1>8. Spots(o, FlattenSeq(ls), ls, n)
  BY <1>1, <1>4, <1>7
<1> QED
  BY <1>8 DEF n

----------------------------------------------------------------------------
(* Buffers of vectors.                                                     *)

\* What a hook h0 becomes with these buffers.
Passes(h0, h, buffers) ==
  IF h0.fn = "trace_logger_log_vector"
  THEN \E x \in ToSet(buffers) :
         createVecBufKey(x.type) = createVecBufKey(h0.type) /\ h = [h0 EXCEPT !.buffer = x]
  ELSE h = h0

OneBufferPerKey(buffers) ==
  \A i, j \in DOMAIN buffers :
    createVecBufKey(buffers[i].type) = createVecBufKey(buffers[j].type) => i = j

\* The buffers that hooks may be given, and the hooks with them.
BufferFor(h) == [fn |-> fn, type |-> h.type]
BuffersFor(hooks) ==
  {BufferFor(h) : h \in {g \in ToSet(hooks) : g.fn = "trace_logger_log_vector"}}

\* The pair x of buffers and hooks is what the first i hooks have become.
Converted(x, hooks, i) ==
  /\ \E added : /\ IsSequence(added) /\ ToSet(added) \subseteq BuffersFor(hooks)
                /\ x[1] = added \o vector_buffers
  /\ IsSequence(x[2]) /\ Len(x[2]) = i
  /\ \A j \in 1 .. i : Passes(hooks[j], x[2][j], x[1])
  /\ OneBufferPerKey(vector_buffers) => OneBufferPerKey(x[1])

LEMMA MoreBuffers ==
  ASSUME NEW h0, NEW h, NEW s, NEW t, Passes(h0, h, s), ToSet(s) \subseteq ToSet(t)
  PROVE  Passes(h0, h, t)
BY DEF Passes

LEMMA ConvertOne ==
  ASSUME NEW hooks, IsSequence(hooks), IsSequence(vector_buffers),
         NEW i \in 1 .. Len(hooks), NEW x, Converted(x, hooks, i - 1)
  PROVE  Converted(createVectorArg(x, hooks[i]), hooks, i)
<1> DEFINE h == hooks[i]
           new == BufferFor(h)
           y == createVectorArg(x, h)
           found == {b \in ToSet(x[1]) : createVecBufKey(b.type) = createVecBufKey(h.type)}
           with(b) == Append(x[2], [h EXCEPT !.buffer = b])
<1>1. y = IF h.fn # "trace_logger_log_vector" THEN <<x[1], Append(x[2], h)>>
          ELSE IF found = {} THEN <<<<new>> \o x[1], with(new)>>
          ELSE <<x[1], with(CHOOSE b \in found : TRUE)>>
  BY DEF createVectorArg, BufferFor
<1>2. Len(hooks) \in Nat /\ h \in ToSet(hooks) /\ i \in Nat /\ i - 1 \in Nat
  BY SeqFacts
<1>3. PICK added : /\ IsSequence(added) /\ ToSet(added) \subseteq BuffersFor(hooks)
                   /\ x[1] = added \o vector_buffers
  BY DEF Converted
<1>4. /\ IsSequence(x[1]) /\ IsSequence(x[2]) /\ Len(x[2]) = i - 1
      /\ \A j \in 1 .. i - 1 : Passes(hooks[j], x[2][j], x[1])
      /\ OneBufferPerKey(vector_buffers) => OneBufferPerKey(x[1])
  BY <1>3, CatFacts DEF Converted
<1> HIDE DEF h, new, y
<1>5. ASSUME NEW g, NEW buffers, y = <<buffers, Append(x[2], g)>>,
             ToSet(x[1]) \subseteq ToSet(buffers), Passes(h, g, buffers),
             \E a : /\ IsSequence(a) /\ ToSet(a) \subseteq BuffersFor(hooks)
                    /\ buffers = a \o vector_buffers,
             OneBufferPerKey(vector_buffers) => OneBufferPerKey(buffers)
      PROVE  Converted(y, hooks, i)
  <2>1. y[1] = buffers /\ y[2] = Append(x[2], g)
    BY <1>5
  <2>2. /\ IsSequence(y[2]) /\ Len(y[2]) = i
        /\ \A j \in 1 .. i - 1 : y[2][j] = x[2][j]
        /\ y[2][i] = g
    BY <1>2, <1>4, <2>1, AppendFacts
  <2>3. ASSUME NEW j \in 1 .. i PROVE Passes(hooks[j], y[2][j], buffers)
    <3>1. CASE j = i
      BY <1>5, <2>2, <3>1 DEF h
    <3>2. CASE j # i
      <4>1. j \in 1 .. i - 1
        BY <1>2, <3>2
      <4>2. Passes(hooks[j], y[2][j], x[1])
        BY <1>4, <2>2, <4>1
      <4> QED
        BY <1>5, <4>2, MoreBuffers
    <3> QED
      BY <3>1, <3>2
  <2> QED
    BY <1>5, <2>1, <2>2, <2>3 DEF Converted
<1>6. CASE h.fn # "trace_logger_log_vector"
  <2>1. Passes(h, h, x[1])
    BY <1>6 DEF Passes
  <2> QED
    BY <1>1, <1>3, <1>4, <1>5, <1>6, <2>1 DEF y, h
<1>7. CASE h.fn = "trace_logger_log_vector" /\ found = {}
  <2> DEFINE buffers == <<new>> \o x[1]
  <2>1. y = <<buffers, with(new)>>
    BY <1>1, <1>7
  <2>2. IsSequence(<<new>>) /\ ToSet(<<new>>) = {new} /\ Len(<<new>>) = 1 /\ <<new>>[1] = new
    BY OneFacts
  <2>3. /\ IsSequence(buffers) /\ ToSet(buffers) = {new} \cup ToSet(x[1])
        /\ Len(buffers) = 1 + Len(x[1]) /\ buffers[1] = new
        /\ \A j \in 1 .. Len(x[1]) : buffers[1 + j] = x[1][j]
    BY <1>4, <2>2, CatFacts
  <2>4. Passes(h, [h EXCEPT !.buffer = new], buffers)
    <3>1. new.type = h.type
      BY DEF new, BufferFor
    <3> QED
      BY <1>7, <2>3, <3>1 DEF Passes
  <2>5. new \in BuffersFor(hooks)
    BY <1>2, <1>7 DEF new, BuffersFor, h
  <2>6. /\ IsSequence(<<new>> \o added) /\ ToSet(<<new>> \o added) \subseteq BuffersFor(hooks)
        /\ buffers = (<<new>> \o added) \o vector_buffers
    <3>1. IsSequence(<<new>> \o added) /\ ToSet(<<new>> \o added) = {new} \cup ToSet(added)
      BY <1>3, <2>2, CatFacts
    <3>2. buffers = (<<new>> \o added) \o vector_buffers
      <4> DEFINE S == {new} \cup ToSet(added) \cup ToSet(vector_buffers)
      <4>1. <<new>> \in Seq(S) /\ added \in Seq(S) /\ vector_buffers \in Seq(S)
        BY <1>3, <2>2, SeqMonotonic DEF IsSequence
      <4> HIDE DEF S
      <4>2. <<new>> \o (added \o vector_buffers) = (<<new>> \o added) \o vector_buffers
        BY <4>1, ConcatAssociative
      <4> QED
        BY <1>3, <4>2
    <3> QED
      BY <1>3, <2>5, <3>1, <3>2
  <2>7. ASSUME OneBufferPerKey(vector_buffers) PROVE OneBufferPerKey(buffers)
    <3> DEFINE Key(j) == createVecBufKey(buffers[j].type)
    <3>1. DOMAIN buffers = 1 .. 1 + Len(x[1]) /\ DOMAIN x[1] = 1 .. Len(x[1]) /\ Len(x[1]) \in Nat
      BY <1>4, <2>3, SeqFacts
    <3>2. \A j \in 1 .. Len(x[1]) : x[1][j] \in ToSet(x[1])
      BY <1>4, SeqFacts
    <3>3. \A b \in ToSet(x[1]) : createVecBufKey(b.type) # createVecBufKey(h.type)
      BY <1>7
    <3>4. new.type = h.type
      BY DEF new, BufferFor
    <3>5. \A j \in 2 .. 1 + Len(x[1]) : j - 1 \in 1 .. Len(x[1]) /\ buffers[j] = x[1][j - 1]
      <4> TAKE j \in 2 .. 1 + Len(x[1])
      <4>1. j - 1 \in 1 .. Len(x[1]) /\ 1 + (j - 1) = j
        BY <3>1
      <4> QED
        BY <2>3, <4>1
    <3>6. \A i1, i2 \in 1 .. Len(x[1]) :
            createVecBufKey(x[1][i1].type) = createVecBufKey(x[1][i2].type) => i1 = i2
      BY <1>4, <2>7, <3>1 DEF OneBufferPerKey
    <3> HIDE DEF buffers
    <3>7. \A j \in 2 .. 1 + Len(x[1]) : Key(j) # createVecBufKey(h.type)
      BY <3>2, <3>3, <3>5
    <3>8. Key(1) = createVecBufKey(h.type)
      BY <2>3, <3>4
    <3>9. ASSUME NEW i1 \in DOMAIN buffers, NEW i2 \in DOMAIN buffers, Key(i1) = Key(i2)
          PROVE  i1 = i2
      <4>1. CASE i1 = 1 /\ i2 = 1
        BY <4>1
      <4>2. CASE i1 # 1 /\ i2 # 1
        <5>1. i1 \in 2 .. 1 + Len(x[1]) /\ i2 \in 2 .. 1 + Len(x[1])
          BY <3>1, <4>2
        <5>2. /\ Key(i1) = createVecBufKey(x[1][i1 - 1].type)
              /\ Key(i2) = createVecBufKey(x[1][i2 - 1].type)
          BY <3>5, <5>1
        <5>3. i1 - 1 = i2 - 1
          BY <3>5, <3>6, <3>9, <5>1, <5>2
        <5> QED
          BY <5>1, <5>3
      <4>3. CASE i1 = 1 /\ i2 # 1
        <5>1. i2 \in 2 .. 1 + Len(x[1])
          BY <3>1, <4>3
        <5> QED
          BY <3>7, <3>8, <3>9, <4>3, <5>1
      <4>4. CASE i1 # 1 /\ i2 = 1
        <5>1. i1 \in 2 .. 1 + Len(x[1])
          BY <3>1, <4>4
        <5> QED
          BY <3>7, <3>8, <3>9, <4>4, <5>1
      <4> QED
        BY <4>1, <4>2, <4>3, <4>4
    <3> QED
      BY <3>9 DEF OneBufferPerKey
  <2> DEFINE g == [h EXCEPT !.buffer = new]
  <2>8. y = <<buffers, Append(x[2], g)>> /\ Passes(h, g, buffers)
    BY <2>1, <2>4
  <2>9. \E a : /\ IsSequence(a) /\ ToSet(a) \subseteq BuffersFor(hooks)
               /\ buffers = a \o vector_buffers
    BY <2>6
  <2>10. ToSet(x[1]) \subseteq ToSet(buffers)
    BY <2>3
  <2> HIDE DEF buffers, g
  <2>11. Converted(y, hooks, i)
    BY <1>5, <2>7, <2>8, <2>9, <2>10
  <2> QED
    BY <2>11 DEF y, h
<1>8. CASE h.fn = "trace_logger_log_vector" /\ found # {}
  <2> DEFINE b == CHOOSE c \in found : TRUE
  <2>1. b \in ToSet(x[1]) /\ createVecBufKey(b.type) = createVecBufKey(h.type)
    BY <1>8
  <2>2. y = <<x[1], with(b)>>
    BY <1>1, <1>8
  <2> HIDE DEF b
  <2> DEFINE g == [h EXCEPT !.buffer = b]
  <2>3. Passes(h, g, x[1])
    BY <1>8, <2>1 DEF Passes
  <2>4. y = <<x[1], Append(x[2], g)>>
    BY <2>2
  <2> HIDE DEF g
  <2>5. Converted(y, hooks, i)
    BY <1>3, <1>4, <1>5, <2>3, <2>4
  <2> QED
    BY <2>5 DEF y, h
<1> QED
  BY <1>6, <1>7, <1>8 DEF y, h

LEMMA ConvertAll ==
  ASSUME NEW hooks, IsSequence(hooks), IsSequence(vector_buffers)
  PROVE  Converted(createVectorArgs(hooks), hooks, Len(hooks))
<1> DEFINE n == Len(hooks)
           B == BuffersFor(hooks) \cup ToSet(vector_buffers)
           H == ToSet(hooks) \cup {[h EXCEPT !.buffer = b] : h \in ToSet(hooks), b \in B}
           D == Seq(B) \X Seq(H)
           base == <<vector_buffers, << >>>>
           Upto(f) == f = [i \in 0 .. n |->
                             IF i = 0 THEN base ELSE createVectorArg(f[i - 1], hooks[i])]
           step == [i \in 1 .. n |-> [x \in D |-> createVectorArg(x, hooks[i])]]
           h == CHOOSE f : Upto(f)
<1>1. n \in Nat /\ \A i \in 1 .. n : hooks[i] \in ToSet(hooks)
  BY SeqFacts
<1>2. createVectorArgs(hooks) = h[n]
  BY DEF createVectorArgs
<1> HIDE DEF n
<1>3. base \in D
  <2>1. vector_buffers \in Seq(B)
    BY SeqMonotonic DEF IsSequence
  <2> HIDE DEF B, H
  <2>2. << >> \in Seq(H)
    OBVIOUS
  <2> QED
    BY <2>1, <2>2
<1>4. ASSUME NEW i \in 1 .. n, NEW x \in D PROVE createVectorArg(x, hooks[i]) \in D
  <2> DEFINE g == hooks[i]
             new == BufferFor(g)
             found == {b \in ToSet(x[1]) : createVecBufKey(b.type) = createVecBufKey(g.type)}
             with(b) == Append(x[2], [g EXCEPT !.buffer = b])
  <2>1. createVectorArg(x, g) =
          IF g.fn # "trace_logger_log_vector" THEN <<x[1], Append(x[2], g)>>
          ELSE IF found = {} THEN <<<<new>> \o x[1], with(new)>>
          ELSE <<x[1], with(CHOOSE b \in found : TRUE)>>
    BY DEF createVectorArg, BufferFor
  <2>2. g \in ToSet(hooks) /\ g \in H
    BY <1>1
  <2>3. g.fn = "trace_logger_log_vector" => new \in B
    BY <2>2 DEF BuffersFor
  <2>4. \A b \in B : [g EXCEPT !.buffer = b] \in H
    BY <2>2
  <2> HIDE DEF g, new, B, H
  <2>5. x[1] \in Seq(B) /\ x[2] \in Seq(H)
    OBVIOUS
  <2>6. \A b \in B : with(b) \in Seq(H)
    BY <2>4, <2>5
  <2> DEFINE y == createVectorArg(x, g)
  <2>10. \A s \in Seq(B), t \in Seq(H) : <<s, t>> \in D
    OBVIOUS
  <2> HIDE DEF D
  <2>7. ASSUME g.fn # "trace_logger_log_vector" PROVE y \in D
    <3>1. Append(x[2], g) \in Seq(H)
      BY <2>2, <2>5
    <3> QED
      BY <2>1, <2>5, <2>7, <2>10, <3>1
  <2>8. ASSUME g.fn = "trace_logger_log_vector" /\ found = {} PROVE y \in D
    <3>1. <<new>> \o x[1] \in Seq(B)
      BY <2>3, <2>5, <2>8
    <3>2. with(new) \in Seq(H)
      BY <2>3, <2>6, <2>8
    <3> QED
      BY <2>1, <2>8, <2>10, <3>1, <3>2
  <2>9. ASSUME g.fn = "trace_logger_log_vector" /\ found # {} PROVE y \in D
    <3> DEFINE b == CHOOSE c \in found : TRUE
    <3>1. b \in ToSet(x[1]) /\ createVectorArg(x, g) = <<x[1], with(b)>>
      BY <2>1, <2>9
    <3>2. b \in B
      BY <2>5, <3>1, SeqIntro
    <3> HIDE DEF b
    <3> QED
      BY <2>5, <2>6, <2>10, <3>1, <3>2
  <2> QED
    BY <2>7, <2>8, <2>9 DEF g
<1> HIDE DEF D
<1>5. /\ step \in [1 .. n -> [D -> D]]
      /\ \A i \in 1 .. n : \A x \in D : step[i][x] = createVectorArg(x, hooks[i])
  BY <1>4
<1> HIDE DEF step, base
<1>6. PICK f : Recurs(f, n, D, base, step)
  BY <1>1, <1>3, <1>5, RecursionExists
<1>7. Upto(f)
  <2>1. f \in [0 .. n -> D] /\ f = [i \in 0 .. n |-> f[i]]
    BY <1>6 DEF Recurs
  <2>2. ASSUME NEW i \in 0 .. n
        PROVE  f[i] = IF i = 0 THEN base ELSE createVectorArg(f[i - 1], hooks[i])
    <3>1. CASE i = 0
      BY <1>6, <3>1 DEF Recurs
    <3>2. CASE i # 0
      <4>1. i \in 1 .. n /\ i - 1 \in 0 .. n
        BY <1>1, <3>2
      <4>2. f[i] = step[i][f[i - 1]] /\ f[i - 1] \in D
        BY <1>6, <2>1, <4>1 DEF Recurs
      <4> QED
        BY <1>5, <3>2, <4>1, <4>2
    <3> QED
      BY <3>1, <3>2
  <2> QED
    BY <2>1, <2>2
<1>8. Upto(h)
  BY <1>7
<1> HIDE DEF h
<1>9. h[0] = base /\ \A i \in 1 .. n : h[i] = createVectorArg(h[i - 1], hooks[i])
  <2>1. \A i \in 0 .. n : h[i] = IF i = 0 THEN base ELSE createVectorArg(h[i - 1], hooks[i])
    BY <1>8
  <2>2. 0 \in 0 .. n /\ \A i \in 1 .. n : i \in 0 .. n /\ i # 0
    BY <1>1
  <2> QED
    BY <2>1, <2>2
<1> DEFINE T == {i \in 0 .. n : Converted(h[i], hooks, i)}
<1>10. 0 \in T
  <2>1. h[0][1] = vector_buffers /\ h[0][2] = << >>
    BY <1>9 DEF base
  <2>2. vector_buffers = << >> \o vector_buffers
    BY ConcatEmptySeq DEF IsSequence
  <2>3. \E added : /\ IsSequence(added) /\ ToSet(added) \subseteq BuffersFor(hooks)
                   /\ h[0][1] = added \o vector_buffers
    <3>1. IsSequence(<< >>) /\ ToSet(<< >>) \subseteq BuffersFor(hooks)
      BY EmptyFacts
    <3> QED
      BY <2>1, <2>2, <3>1
  <2>4. IsSequence(h[0][2]) /\ Len(h[0][2]) = 0
    BY <2>1, EmptyFacts
  <2>5. \A j \in 1 .. 0 : Passes(hooks[j], h[0][2][j], h[0][1])
    OBVIOUS
  <2>6. OneBufferPerKey(vector_buffers) => OneBufferPerKey(h[0][1])
    BY <2>1
  <2>7. Converted(h[0], hooks, 0)
    BY <2>3, <2>4, <2>5, <2>6, Zenon DEF Converted
  <2> QED
    BY <1>1, <2>7
<1>11. ASSUME NEW i \in 1 .. n, i - 1 \in T PROVE i \in T
  <2>1. Converted(createVectorArg(h[i - 1], hooks[i]), hooks, i)
    BY <1>11, ConvertOne DEF n
  <2> QED
    BY <1>1, <1>9, <2>1
<1>12. 0 .. n \subseteq T
  <2> HIDE DEF T
  <2> QED
    BY <1>1, <1>10, <1>11, UpTo
<1>13. Converted(h[n], hooks, n)
  BY <1>1, <1>12
<1> QED
  BY <1>2, <1>13 DEF n

----------------------------------------------------------------------------
(* Where items stand.                                                      *)

\* Where an item stands in its block: buffers and the hooks at the entry come first,
\* then the phi nodes, all their hooks, and the other instructions, each among its
\* own hooks.
EntryRank == [buffer |-> 0, status |-> 1, entry |-> 2, arg |-> 3]

Key(f, it) ==
  IF it.at = NoPlace THEN EntryRank[it.kind]
  ELSE IF f.blocks[it.at[1]][it.at[2]].op # "phi" THEN 7 * it.at[2] + Rank[it.kind]
  ELSE IF it.kind = "inst" THEN it.at[2] - Len(f.blocks[it.at[1]]) ELSE 7

\* At most one item with this key is in a block.
Single(it) == it.kind = "inst" \/ (it.at = NoPlace /\ it.kind \in {"status", "entry"})

Precedes(f, x, y) == Key(f, x) < Key(f, y) \/ (Key(f, x) = Key(f, y) /\ ~Single(x))
AllPrecede(f, S, T) == \A x \in S, y \in T : Precedes(f, x, y)
Sorted(f, s) == \A i, j \in 1 .. Len(s) : i < j => Precedes(f, s[i], s[j])

ItemFields == {"kind", "at", "id", "bbid", "opcode", "num", "type", "size", "given", "fn",
               "prev", "buffer", "operand"}
IsItem(h) == DOMAIN h = ItemFields

\* A hook of an instruction of block b of function f, and one at the entry of f.
HookKinds == {"header", "callee", "param", "status", "result"}
InstHook(f, b, h) ==
  /\ IsItem(h) /\ h.kind \in HookKinds
  /\ \E i \in 1 .. Len(f.blocks[b]) :
       /\ h.at = <<b, i>>
       /\ h.kind = "status" => f.blocks[b][i].op = "ret" /\ h.opcode = "ret"
       /\ h.kind = "result" => f.blocks[b][i].type # Void

EntryHook(h) == IsItem(h) /\ h.at = NoPlace /\ h.kind \in {"status", "entry", "arg"}

\* What may be in block b of function f.
Placed(f, b, it) ==
  \/ \E i \in 1 .. Len(f.blocks[b]) : it = Original(f)[b][i]
  \/ InstHook(f, b, it)
  \/ b = 1 /\ (EntryHook(it) \/ (it.kind = "buffer" /\ it.at = NoPlace))

Blocks(g) == 1 .. Len(Functions[g].blocks)

----------------------------------------------------------------------------
(* Functions and their items.                                              *)

\* What the order of items rests on.
Laid(f) ==
  /\ Len(f.blocks) \in Nat \ {0} /\ DOMAIN f.blocks = 1 .. Len(f.blocks)
  /\ \A b \in 1 .. Len(f.blocks) :
       /\ Len(f.blocks[b]) \in Nat \ {0} /\ DOMAIN f.blocks[b] = 1 .. Len(f.blocks[b])
       /\ \A i \in 1 .. Len(f.blocks[b]) :
            /\ f.blocks[b][i].op = "phi" =>
                 /\ b > 1 /\ i < Len(f.blocks[b])
                 /\ \A k \in 1 .. i : f.blocks[b][k].op = "phi"
            /\ f.blocks[b][i].op = "ret" =>
                 i = Len(f.blocks[b]) /\ f.blocks[b][i].type = Void

LEMMA FunctionFacts ==
  ASSUME module \in Modules, NEW g \in DOMAIN Functions
  PROVE  /\ Len(Functions) \in Nat /\ DOMAIN Functions = 1 .. Len(Functions)
         /\ Functions[g] \in ToSet(Functions)
         /\ Laid(Functions[g]) /\ IsSequence(Functions[g].args)
         /\ \A j \in DOMAIN Functions[g].args : Supported(Functions[g].args[j].type)
         /\ \A b \in Blocks(g) : \A i \in 1 .. Len(Functions[g].blocks[b]) :
              InstOK(module, Functions[g], b, i)
<1> DEFINE f == Functions[g]
<1>1. IsSequence(Functions)
  BY ModulesAssumption DEF Functions
<1>2. /\ Len(Functions) \in Nat /\ DOMAIN Functions = 1 .. Len(Functions)
      /\ f \in ToSet(Functions)
  BY <1>1, SeqFacts
<1> HIDE DEF f
<1>3. /\ IsSequence(f.blocks) /\ f.blocks # << >>
      /\ IsSequence(f.args) /\ \A j \in DOMAIN f.args : Supported(f.args[j].type)
      /\ \A b \in DOMAIN f.blocks :
           /\ IsSequence(f.blocks[b]) /\ f.blocks[b] # << >>
           /\ \A i \in DOMAIN f.blocks[b] : InstOK(module, f, b, i)
  BY <1>2, ModulesAssumption DEF Functions
<1>4. ASSUME NEW s, IsSequence(s), s # << >> PROVE Len(s) \in Nat \ {0} /\ DOMAIN s = 1 .. Len(s)
  BY <1>4, EmptySeq DEF IsSequence
<1>5. Len(f.blocks) \in Nat \ {0} /\ DOMAIN f.blocks = 1 .. Len(f.blocks)
  BY <1>3, <1>4
<1>6. ASSUME NEW b \in 1 .. Len(f.blocks)
      PROVE  /\ Len(f.blocks[b]) \in Nat \ {0} /\ DOMAIN f.blocks[b] = 1 .. Len(f.blocks[b])
             /\ \A i \in 1 .. Len(f.blocks[b]) : InstOK(module, f, b, i)
  <2>1. b \in DOMAIN f.blocks
    BY <1>5
  <2>2. Len(f.blocks[b]) \in Nat \ {0} /\ DOMAIN f.blocks[b] = 1 .. Len(f.blocks[b])
    BY <1>3, <1>4, <2>1
  <2> QED
    BY <1>3, <2>1, <2>2
<1>7. ASSUME NEW b \in 1 .. Len(f.blocks), NEW i \in 1 .. Len(f.blocks[b])
      PROVE  /\ f.blocks[b][i].op = "phi" =>
                  /\ b > 1 /\ i < Len(f.blocks[b])
                  /\ \A k \in 1 .. i : f.blocks[b][k].op = "phi"
             /\ f.blocks[b][i].op = "ret" =>
                  i = Len(f.blocks[b]) /\ f.blocks[b][i].type = Void
  <2>1. InstOK(module, f, b, i) /\ Len(f.blocks[b]) \in Nat \ {0}
    BY <1>6
  <2> DEFINE inst == f.blocks[b][i]
  <2>2. /\ inst.op = "phi" => b > 1 /\ \A k \in 1 .. i : f.blocks[b][k].op = "phi"
        /\ inst.op \in Terminators <=> i = Len(f.blocks[b])
        /\ inst.op \in {"ret", "br", "switch", "store"} => inst.type = Void
    BY <2>1 DEF InstOK
  <2>3. "ret" \in Terminators /\ "phi" \notin Terminators
    BY DEF Terminators
  <2> HIDE DEF inst
  <2>4. inst.op = "phi" => i < Len(f.blocks[b])
    BY <2>1, <2>2, <2>3
  <2>5. inst.op = "ret" => i = Len(f.blocks[b]) /\ inst.type = Void
    BY <2>2, <2>3
  <2> QED
    BY <2>2, <2>4, <2>5 DEF inst
<1>8. Laid(f)
  BY <1>5, <1>6, <1>7 DEF Laid
<1> QED
  BY <1>2, <1>3, <1>6, <1>8 DEF f, Blocks

LEMMA OriginalFacts ==
  ASSUME NEW f, Laid(f), NEW b \in 1 .. Len(f.blocks)
  PROVE  /\ IsSequence(Original(f)[b]) /\ Len(Original(f)[b]) = Len(f.blocks[b])
         /\ DOMAIN Original(f) = 1 .. Len(f.blocks)
         /\ \A i \in 1 .. Len(f.blocks[b]) :
              /\ Original(f)[b][i].kind = "inst" /\ Original(f)[b][i].at = <<b, i>>
              /\ IsItem(Original(f)[b][i]) /\ Original(f)[b][i].fn = "none"
<1> DEFINE n == Len(f.blocks[b])
           s == Original(f)[b]
<1>1. n \in Nat /\ DOMAIN f.blocks[b] = 1 .. n /\ DOMAIN f.blocks = 1 .. Len(f.blocks)
  BY DEF Laid
<1>2. s = [i \in 1 .. n |-> [Item("inst", <<b, i>>) EXCEPT !.type = f.blocks[b][i].type]]
  BY <1>1 DEF Original
<1>3. s = [i \in 1 .. n |-> s[i]]
  BY <1>2
<1>4. \A i \in 1 .. n : s[i] = [Item("inst", <<b, i>>) EXCEPT !.type = f.blocks[b][i].type]
  BY <1>2
<1>5. DOMAIN Original(f) = 1 .. Len(f.blocks)
  BY <1>1 DEF Original
<1> HIDE DEF s, n
<1>6. IsSequence(s) /\ Len(s) = n
  BY <1>1, <1>3, MadeSeq
<1>7. \A i \in 1 .. n : s[i].kind = "inst" /\ s[i].at = <<b, i>> /\ IsItem(s[i]) /\ s[i].fn = "none"
  BY <1>4 DEF Item, IsItem, ItemFields
<1> QED
  BY <1>5, <1>6, <1>7 DEF s, n

\* Places of instructions are not NoPlace.
LEMMA SomePlace ==
  ASSUME NEW b \in Nat \ {0}, NEW i
  PROVE  <<b, i>> # NoPlace /\ <<b, i>>[1] = b /\ <<b, i>>[2] = i
BY DEF NoPlace

LEMMA InstKey ==
  ASSUME NEW f, Laid(f), NEW b \in 1 .. Len(f.blocks), NEW i \in 1 .. Len(f.blocks[b])
  PROVE  LET it == Original(f)[b][i]
         IN  /\ f.blocks[b][i].op = "phi" =>
                  Key(f, it) = i - Len(f.blocks[b]) /\ Key(f, it) < 0 /\ b > 1
             /\ f.blocks[b][i].op # "phi" => Key(f, it) = 7 * i + 5
             /\ Single(it) /\ Key(f, it) \in Int /\ ~IsHook(it) /\ it.at # NoPlace
<1> DEFINE it == Original(f)[b][i]
<1>1. it.kind = "inst" /\ it.at = <<b, i>>
  BY OriginalFacts
<1>0. b \in Nat \ {0} /\ i \in Nat
  BY DEF Laid
<1>2. it.at # NoPlace /\ it.at[1] = b /\ it.at[2] = i
  BY <1>0, <1>1, SomePlace
<1>3. /\ f.blocks[b][i].op = "phi" => i < Len(f.blocks[b]) /\ b > 1
      /\ Len(f.blocks[b]) \in Nat
  BY DEF Laid
<1>4. Rank["inst"] = 5
  BY DEF Rank
<1> HIDE DEF it
<1>5. Key(f, it) = IF f.blocks[b][i].op # "phi" THEN 7 * i + 5 ELSE i - Len(f.blocks[b])
  BY <1>1, <1>2, <1>4 DEF Key
<1>6. Single(it) /\ ~IsHook(it)
  BY <1>1 DEF Single, IsHook
<1>7. Key(f, it) \in Int
  BY <1>0, <1>3, <1>5
<1>8. f.blocks[b][i].op = "phi" => Key(f, it) < 0
  BY <1>0, <1>3, <1>5
<1> QED
  BY <1>2, <1>3, <1>5, <1>6, <1>7, <1>8 DEF it

LEMMA HookKey ==
  ASSUME NEW f, Laid(f), NEW b \in 1 .. Len(f.blocks), NEW h, InstHook(f, b, h)
  PROVE  /\ h.at[1] = b /\ h.at[2] \in 1 .. Len(f.blocks[b]) /\ h.at = <<b, h.at[2]>>
         /\ h.at # NoPlace /\ IsHook(h) /\ ~Single(h) /\ Key(f, h) \in Int
         /\ f.blocks[b][h.at[2]].op = "phi" => Key(f, h) = 7 /\ b > 1
         /\ f.blocks[b][h.at[2]].op # "phi" =>
              /\ Key(f, h) = 7 * h.at[2] + Rank[h.kind]
              /\ Rank[h.kind] \in {1, 2, 3, 4, 6}
<1>1. PICK i \in 1 .. Len(f.blocks[b]) : h.at = <<b, i>>
  BY DEF InstHook
<1>2. b \in Nat \ {0} /\ i \in Nat /\ Len(f.blocks[b]) \in Nat
  BY DEF Laid
<1>3. h.at # NoPlace /\ h.at[1] = b /\ h.at[2] = i
  BY <1>1, <1>2, SomePlace
<1>4. h.kind \in HookKinds /\ h.kind # "inst" /\ IsHook(h) /\ Rank[h.kind] \in {1, 2, 3, 4, 6}
  BY DEF InstHook, HookKinds, Rank, IsHook
<1>5. Key(f, h) = IF f.blocks[b][i].op # "phi" THEN 7 * i + Rank[h.kind] ELSE 7
  BY <1>3, <1>4 DEF Key
<1>6. ~Single(h)
  BY <1>3, <1>4 DEF Single
<1>7. f.blocks[b][i].op = "phi" => b > 1
  BY DEF Laid
<1>8. Key(f, h) \in Int
  <2>1. Rank[h.kind] \in Int
    BY <1>4
  <2> QED
    BY <1>2, <1>5, <2>1
<1> QED
  BY <1>1, <1>3, <1>4, <1>5, <1>6, <1>7, <1>8

LEMMA FrontKey ==
  ASSUME NEW f, NEW h, h.at = NoPlace, h.kind \in {"buffer", "status", "entry", "arg"}
  PROVE  /\ Key(f, h) = EntryRank[h.kind] /\ Key(f, h) \in 0 .. 3
         /\ h.kind = "buffer" <=> Key(f, h) = 0
         /\ h.kind = "status" <=> Key(f, h) = 1
         /\ h.kind = "entry" <=> Key(f, h) = 2
         /\ h.kind \in {"buffer", "arg"} => ~Single(h)
BY DEF Key, EntryRank, Single

----------------------------------------------------------------------------
(* Order.                                                                  *)

\* Order depends on the kind of an item and its place only.
LEMMA SameSpot ==
  ASSUME NEW f, NEW x, NEW y, x.kind = y.kind, x.at = y.at
  PROVE  Key(f, x) = Key(f, y) /\ (Single(x) <=> Single(y))
BY DEF Key, Single

LEMMA SortedCat ==
  ASSUME NEW f, NEW s, NEW t, IsSequence(s), IsSequence(t), Sorted(f, s), Sorted(f, t),
         AllPrecede(f, ToSet(s), ToSet(t))
  PROVE  Sorted(f, s \o t)
<1> DEFINE m == Len(s)
           n == Len(t)
           u == s \o t
<1>1. /\ m \in Nat /\ n \in Nat /\ Len(u) = m + n
      /\ \A i \in 1 .. m : u[i] = s[i] /\ s[i] \in ToSet(s)
      /\ \A i \in 1 .. n : u[m + i] = t[i] /\ t[i] \in ToSet(t)
  BY CatFacts, SeqFacts
<1>2. /\ \A i, j \in 1 .. m : i < j => Precedes(f, s[i], s[j])
      /\ \A i, j \in 1 .. n : i < j => Precedes(f, t[i], t[j])
  BY DEF Sorted
<1> HIDE DEF m, n, u
<1>3. \A j \in m + 1 .. m + n : j - m \in 1 .. n /\ m + (j - m) = j
  BY <1>1
<1>4. ASSUME NEW i \in 1 .. m + n, NEW j \in 1 .. m + n, i < j PROVE Precedes(f, u[i], u[j])
  <2>1. CASE j <= m
    <3>1. i \in 1 .. m /\ j \in 1 .. m
      BY <1>1, <1>4, <2>1
    <3> QED
      BY <1>1, <1>2, <1>4, <3>1
  <2>2. CASE i <= m /\ j > m
    <3>1. i \in 1 .. m /\ j \in m + 1 .. m + n
      BY <1>1, <1>4, <2>2
    <3>2. u[i] \in ToSet(s) /\ u[j] \in ToSet(t)
      BY <1>1, <1>3, <3>1
    <3> QED
      BY <3>2 DEF AllPrecede
  <2>3. CASE i > m
    <3>1. i \in m + 1 .. m + n /\ j \in m + 1 .. m + n /\ i - m < j - m
      BY <1>1, <1>4, <2>3
    <3>2. u[i] = t[i - m] /\ u[j] = t[j - m] /\ i - m \in 1 .. n /\ j - m \in 1 .. n
      BY <1>1, <1>3, <3>1
    <3> QED
      BY <1>2, <3>1, <3>2
  <2> QED
    BY <1>1, <2>1, <2>2, <2>3
<1> QED
  BY <1>1, <1>4 DEF Sorted, u

LEMMA SortedSub ==
  ASSUME NEW f, NEW s, IsSequence(s), Sorted(f, s),
         NEW m \in Nat \ {0}, NEW n \in Nat, n <= Len(s), m <= n + 1
  PROVE  Sorted(f, SubSeq(s, m, n))
<1> DEFINE u == SubSeq(s, m, n)
<1>1. /\ Len(u) = n - m + 1 /\ Len(s) \in Nat
      /\ \A i \in 1 .. n - m + 1 : u[i] = s[m + i - 1]
  BY SubFacts, SeqFacts
<1> HIDE DEF u
<1>2. ASSUME NEW i \in 1 .. n - m + 1, NEW j \in 1 .. n - m + 1, i < j
      PROVE  Precedes(f, u[i], u[j])
  <2>1. m + i - 1 \in 1 .. Len(s) /\ m + j - 1 \in 1 .. Len(s) /\ m + i - 1 < m + j - 1
    BY <1>1, <1>2
  <2>2. Precedes(f, s[m + i - 1], s[m + j - 1])
    BY <2>1 DEF Sorted
  <2> QED
    BY <1>1, <2>2
<1> QED
  BY <1>1, <1>2 DEF Sorted, u

LEMMA SortedOne ==
  ASSUME NEW f, NEW x
  PROVE  Sorted(f, <<x>>) /\ Sorted(f, << >>)
BY OneFacts, EmptyFacts DEF Sorted

\* Items with one key are sorted as they come.
LEMMA SortedSame ==
  ASSUME NEW f, NEW s, IsSequence(s), NEW k,
         \A x \in ToSet(s) : Key(f, x) = k /\ ~Single(x)
  PROVE  Sorted(f, s)
BY SeqFacts DEF Sorted, Precedes

----------------------------------------------------------------------------
(* What an insertion leaves.                                               *)

\* A block with hooks put around its k-th item.
Widened(block, k, before, after) ==
  SubSeq(block, 1, k - 1) \o Around(before, block[k], after) \o SubSeq(block, k + 1, Len(block))

\* An insertion leaves hooks s and t for those of before and after, which use added
\* buffers a and those there were.
Leaves(b, k, before, after, a, s, t) ==
  /\ IsSequence(a) /\ ToSet(a) \subseteq BuffersFor(before \o after)
  /\ vector_buffers' = a \o vector_buffers
  /\ IsSequence(s) /\ Len(s) = Len(before)
  /\ \A i \in 1 .. Len(before) : Passes(before[i], s[i], vector_buffers')
  /\ IsSequence(t) /\ Len(t) = Len(after)
  /\ \A i \in 1 .. Len(after) : Passes(after[i], t[i], vector_buffers')
  /\ \A c \in DOMAIN Functions[fn].blocks :
       code'[fn][c] =
         (IF c = 1 THEN [i \in DOMAIN a |-> Alloca(a[i])] ELSE << >>)
         \o (IF c = b THEN Widened(code[fn][b], k, s, t) ELSE code[fn][c])

LEMMA InsertFacts ==
  ASSUME NEW b, NEW k, NEW before, NEW after, Insert(b, k, before, after),
         IsSequence(vector_buffers), IsSequence(before), IsSequence(after),
         fn \in DOMAIN Functions,
         code = [g \in DOMAIN Functions |-> [c \in DOMAIN Functions[g].blocks |-> code[g][c]]]
  PROVE  /\ code' = [g \in DOMAIN Functions |->
                       [c \in DOMAIN Functions[g].blocks |-> code'[g][c]]]
         /\ \A g \in DOMAIN Functions \ {fn} : code'[g] = code[g]
         /\ OneBufferPerKey(vector_buffers) => OneBufferPerKey(vector_buffers')
         /\ \E a, s, t : Leaves(b, k, before, after, a, s, t)
<1> DEFINE asked == before \o after
           done  == createVectorArgs(asked)
           hooks == done[2]
           some  == SubSeq(done[1], 1, Len(done[1]) - Len(vector_buffers))
           front == [i \in DOMAIN some |-> Alloca(some[i])]
           first == SubSeq(hooks, 1, Len(before))
           second == SubSeq(hooks, Len(before) + 1, Len(hooks))
           m == Len(before)
           n == Len(after)
<1>1. /\ m \in Nat /\ n \in Nat /\ IsSequence(asked) /\ Len(asked) = m + n
      /\ \A i \in 1 .. m : asked[i] = before[i]
      /\ \A i \in 1 .. n : asked[m + i] = after[i]
  BY CatFacts, SeqFacts
<1>2. Converted(done, asked, m + n)
  BY <1>1, ConvertAll
<1>3. /\ vector_buffers' = done[1]
      /\ code' = [code EXCEPT ![fn] = [c \in DOMAIN @ |->
           (IF c = 1 THEN front ELSE << >>)
           \o (IF c = b THEN Widened(code[fn][b], k, first, second) ELSE @[c])]]
  BY DEF Insert, Widened
<1> HIDE DEF asked, done, front, first, second, m, n
<1>4. PICK added : /\ IsSequence(added) /\ ToSet(added) \subseteq BuffersFor(asked)
                   /\ done[1] = added \o vector_buffers
  BY <1>2 DEF Converted
<1>5. /\ IsSequence(hooks) /\ Len(hooks) = m + n
      /\ \A i \in 1 .. m + n : Passes(asked[i], hooks[i], done[1])
      /\ OneBufferPerKey(vector_buffers) => OneBufferPerKey(done[1])
  BY <1>2 DEF Converted
<1> HIDE DEF hooks
<1>6. some = added
  <2> DEFINE S == ToSet(added) \cup ToSet(vector_buffers)
  <2>1. added \in Seq(S) /\ vector_buffers \in Seq(S)
    BY <1>4, SeqMonotonic DEF IsSequence
  <2> HIDE DEF S
  <2>2. /\ Len(added) \in Nat /\ Len(vector_buffers) \in Nat
        /\ Len(done[1]) = Len(added) + Len(vector_buffers)
    BY <1>4, CatFacts, SeqFacts
  <2>3. Len(done[1]) - Len(vector_buffers) = Len(added)
    BY <2>2
  <2>4. SubSeq(added \o vector_buffers, 1, Len(added)) = added
    <3> DEFINE u == added \o vector_buffers
               v == SubSeq(u, 1, Len(added))
    <3>1. /\ IsSequence(u) /\ Len(added) <= Len(u)
          /\ \A i \in 1 .. Len(added) : u[i] = added[i]
      BY <1>4, <2>2, CatFacts
    <3> HIDE DEF u
    <3>2. /\ IsSequence(v) /\ Len(v) = Len(added)
          /\ \A i \in 1 .. Len(added) : v[i] = u[i]
      BY <2>2, <3>1, PrefixFacts
    <3> HIDE DEF v
    <3>3. v = added
      <4>1. DOMAIN v = DOMAIN added /\ \A i \in DOMAIN added : v[i] = added[i]
        BY <1>4, <3>1, <3>2, SeqFacts
      <4>2. v = [i \in DOMAIN v |-> v[i]] /\ added = [i \in DOMAIN added |-> added[i]]
        BY <1>4, <3>2 DEF IsSequence
      <4> QED
        BY <4>1, <4>2
    <3> QED
      BY <3>3 DEF u, v
  <2> QED
    BY <1>4, <2>3, <2>4
<1>7. /\ IsSequence(first) /\ Len(first) = m
      /\ \A i \in 1 .. m : Passes(before[i], first[i], done[1])
  <2>1. /\ IsSequence(first) /\ Len(first) = m
        /\ \A i \in 1 .. m : first[i] = hooks[i]
    <3>1. m <= m + n
      BY <1>1
    <3> QED
      BY <1>1, <1>5, <3>1, PrefixFacts DEF first, m
  <2> QED
    BY <1>1, <1>5, <2>1
<1>8. /\ IsSequence(second) /\ Len(second) = n
      /\ \A i \in 1 .. n : Passes(after[i], second[i], done[1])
  <2>1. /\ m + 1 \in Nat \ {0} /\ m + n \in Nat /\ m + n <= Len(hooks) /\ m + 1 <= m + n + 1
        /\ (m + n) - (m + 1) + 1 = n /\ \A i \in 1 .. n : (m + 1) + i - 1 = m + i
    BY <1>1, <1>5
  <2>2. /\ IsSequence(second) /\ Len(second) = n
        /\ \A i \in 1 .. n : second[i] = hooks[m + i]
    BY <1>5, <2>1, SubFacts DEF second, m
  <2>3. \A i \in 1 .. n : m + i \in 1 .. m + n
    BY <1>1
  <2> QED
    BY <1>1, <1>5, <2>2, <2>3
<1> DEFINE rest(c) == IF c = b THEN Widened(code[fn][b], k, first, second) ELSE code[fn][c]
           new == [c \in DOMAIN Functions[fn].blocks |->
                     (IF c = 1 THEN front ELSE << >>) \o rest(c)]
<1>9. DOMAIN code = DOMAIN Functions /\ DOMAIN code[fn] = DOMAIN Functions[fn].blocks
  OBVIOUS
<1>10. code' = [code EXCEPT ![fn] = new]
  BY <1>3, <1>9
<1> HIDE DEF rest
<1>11. DOMAIN code' = DOMAIN Functions /\ code'[fn] = new
       /\ \A g \in DOMAIN Functions \ {fn} : code'[g] = code[g]
  BY <1>9, <1>10
<1>12. code' = [g \in DOMAIN Functions |-> [c \in DOMAIN Functions[g].blocks |-> code'[g][c]]]
  <2>1. code' = [g \in DOMAIN Functions |-> code'[g]]
    BY <1>9, <1>10
  <2>2. \A g \in DOMAIN Functions : code'[g] = [c \in DOMAIN Functions[g].blocks |-> code'[g][c]]
    <3> TAKE g \in DOMAIN Functions
    <3>1. CASE g = fn
      BY <1>11, <3>1
    <3>2. CASE g # fn
      <4>1. code[g] = [c \in DOMAIN Functions[g].blocks |-> code[g][c]]
        OBVIOUS
      <4> QED
        BY <1>11, <3>2, <4>1
    <3> QED
      BY <3>1, <3>2
  <2> QED
    BY <2>1, <2>2
<1>13. \A c \in DOMAIN Functions[fn].blocks :
         code'[fn][c] =
           (IF c = 1 THEN [i \in DOMAIN added |-> Alloca(added[i])] ELSE << >>) \o rest(c)
  BY <1>6, <1>11 DEF front
<1>14. vector_buffers' = added \o vector_buffers /\ ToSet(added) \subseteq BuffersFor(before \o after)
  BY <1>3, <1>4 DEF asked
<1>15. /\ IsSequence(first) /\ Len(first) = Len(before)
       /\ \A i \in 1 .. Len(before) : Passes(before[i], first[i], vector_buffers')
  BY <1>3, <1>7 DEF m
<1>16. /\ IsSequence(second) /\ Len(second) = Len(after)
       /\ \A i \in 1 .. Len(after) : Passes(after[i], second[i], vector_buffers')
  BY <1>3, <1>8 DEF n
<1>17. OneBufferPerKey(vector_buffers) => OneBufferPerKey(vector_buffers')
  BY <1>3, <1>5
<1>18. \A c \in DOMAIN Functions[fn].blocks :
         code'[fn][c] =
           (IF c = 1 THEN [i \in DOMAIN added |-> Alloca(added[i])] ELSE << >>)
           \o (IF c = b THEN Widened(code[fn][b], k, first, second) ELSE code[fn][c])
  BY <1>13 DEF rest
<1>19. Leaves(b, k, before, after, added, first, second)
  BY <1>4, <1>14, <1>15, <1>16, <1>18 DEF Leaves
<1>20. \E a, s, t : Leaves(b, k, before, after, a, s, t)
  BY <1>19
<1> QED
  BY <1>11, <1>12, <1>17, <1>20

LEMMA WidenedFacts ==
  ASSUME NEW block, IsSequence(block), NEW k \in 1 .. Len(block),
         NEW s, NEW t, IsSequence(s), IsSequence(t)
  PROVE  /\ IsSequence(Widened(block, k, s, t))
         /\ ToSet(Widened(block, k, s, t)) = ToSet(block) \cup ToSet(s) \cup ToSet(t)
<1> DEFINE n == Len(block)
           l == SubSeq(block, 1, k - 1)
           x == <<block[k]>>
           r == SubSeq(block, k + 1, n)
<1>1. n \in Nat /\ k - 1 \in Nat /\ k - 1 <= n /\ k + 1 \in Nat \ {0} /\ k + 1 <= n + 1 /\ n <= n
  BY SeqFacts
<1>2. IsSequence(l) /\ ToSet(l) = {block[i] : i \in 1 .. k - 1}
  BY <1>1, PrefixFacts
<1>3. IsSequence(r) /\ ToSet(r) = {block[i] : i \in k + 1 .. n}
  BY SuffixFacts
<1>4. IsSequence(x) /\ ToSet(x) = {block[k]}
  BY OneFacts
<1>5. ToSet(block) = {block[i] : i \in 1 .. k - 1} \cup {block[k]} \cup {block[i] : i \in k + 1 .. n}
  <2>1. \A i \in 1 .. n : i \in 1 .. k - 1 \/ i = k \/ i \in k + 1 .. n
    BY <1>1
  <2>2. \A i : (i \in 1 .. k - 1 \/ i = k \/ i \in k + 1 .. n) => i \in 1 .. n
    BY <1>1
  <2> QED
    BY <2>1, <2>2, SeqFacts
<1>6. Widened(block, k, s, t) = l \o ((s \o x) \o t) \o r
  BY DEF Widened, Around
<1> HIDE DEF l, x, r
<1>7. IsSequence(s \o x) /\ ToSet(s \o x) = ToSet(s) \cup ToSet(x)
  BY <1>4, CatFacts
<1>8. /\ IsSequence((s \o x) \o t)
      /\ ToSet((s \o x) \o t) = ToSet(s) \cup ToSet(x) \cup ToSet(t)
  BY <1>7, CatFacts
<1>9. /\ IsSequence(l \o ((s \o x) \o t))
      /\ ToSet(l \o ((s \o x) \o t)) = ToSet(l) \cup ToSet(s) \cup ToSet(x) \cup ToSet(t)
  BY <1>2, <1>8, CatFacts
<1>10. /\ IsSequence(l \o ((s \o x) \o t) \o r)
       /\ ToSet(l \o ((s \o x) \o t) \o r)
            = ToSet(l) \cup ToSet(s) \cup ToSet(x) \cup ToSet(t) \cup ToSet(r)
  BY <1>3, <1>9, CatFacts
<1> QED
  BY <1>2, <1>3, <1>4, <1>5, <1>6, <1>10

\* Hooks that fit around the k-th item of a block.
Fits(f, block, k, s, t) ==
  /\ Sorted(f, s) /\ Sorted(f, t) /\ AllPrecede(f, ToSet(s), ToSet(t))
  /\ \A i \in 1 .. Len(block) :
       /\ i < k => AllPrecede(f, {block[i]}, ToSet(s))
       /\ i >= k => AllPrecede(f, ToSet(s), {block[i]})
       /\ i <= k => AllPrecede(f, {block[i]}, ToSet(t))
       /\ i > k => AllPrecede(f, ToSet(t), {block[i]})

LEMMA WidenedSorted ==
  ASSUME NEW f, NEW block, IsSequence(block), Sorted(f, block), NEW k \in 1 .. Len(block),
         NEW s, NEW t, IsSequence(s), IsSequence(t), Fits(f, block, k, s, t)
  PROVE  Sorted(f, Widened(block, k, s, t))
<1> DEFINE n == Len(block)
           l == SubSeq(block, 1, k - 1)
           x == <<block[k]>>
           r == SubSeq(block, k + 1, n)
<1>1. n \in Nat /\ k - 1 \in Nat /\ k - 1 <= n /\ k + 1 \in Nat \ {0} /\ k + 1 <= n + 1 /\ n <= n
      /\ 1 \in Nat \ {0} /\ 1 <= (k - 1) + 1
  BY SeqFacts
<1>2. IsSequence(l) /\ ToSet(l) = {block[i] : i \in 1 .. k - 1}
  BY <1>1, PrefixFacts
<1>3. IsSequence(r) /\ ToSet(r) = {block[i] : i \in k + 1 .. n}
  BY SuffixFacts
<1>4. IsSequence(x) /\ ToSet(x) = {block[k]}
  BY OneFacts
<1>5. Sorted(f, l) /\ Sorted(f, x) /\ Sorted(f, r)
  BY <1>1, SortedSub, SortedOne
<1>6. Widened(block, k, s, t) = l \o ((s \o x) \o t) \o r
  BY DEF Widened, Around
<1>7. \A i, j \in 1 .. n : i < j => AllPrecede(f, {block[i]}, {block[j]})
  BY DEF Sorted, AllPrecede
<1>8. \A i \in 1 .. k - 1 : i \in 1 .. n /\ i < k /\ i <= k
  BY <1>1
<1>9. \A i \in k + 1 .. n : i \in 1 .. n /\ i > k /\ i >= k
  BY <1>1
<1>10. k \in 1 .. n /\ k <= k /\ k >= k
  BY <1>1
<1> HIDE DEF l, x, r, n
<1>11. AllPrecede(f, ToSet(l), ToSet(x)) /\ AllPrecede(f, ToSet(l), ToSet(r))
       /\ AllPrecede(f, ToSet(x), ToSet(r))
  <2>1. \A i \in 1 .. k - 1, j \in k + 1 .. n : i < j
    BY <1>1
  <2> QED
    BY <1>2, <1>3, <1>4, <1>7, <1>8, <1>9, <1>10, <2>1 DEF AllPrecede
<1>12. /\ AllPrecede(f, ToSet(l), ToSet(s)) /\ AllPrecede(f, ToSet(l), ToSet(t))
       /\ AllPrecede(f, ToSet(s), ToSet(x)) /\ AllPrecede(f, ToSet(x), ToSet(t))
       /\ AllPrecede(f, ToSet(s), ToSet(r)) /\ AllPrecede(f, ToSet(t), ToSet(r))
       /\ AllPrecede(f, ToSet(s), ToSet(t)) /\ Sorted(f, s) /\ Sorted(f, t)
  BY <1>2, <1>3, <1>4, <1>8, <1>9, <1>10 DEF Fits, AllPrecede, n
<1>13. /\ IsSequence(s \o x) /\ ToSet(s \o x) = ToSet(s) \cup ToSet(x) /\ Sorted(f, s \o x)
  BY <1>4, <1>5, <1>12, CatFacts, SortedCat
<1>14. /\ IsSequence((s \o x) \o t) /\ Sorted(f, (s \o x) \o t)
       /\ ToSet((s \o x) \o t) = ToSet(s) \cup ToSet(x) \cup ToSet(t)
  <2>1. AllPrecede(f, ToSet(s \o x), ToSet(t))
    BY <1>12, <1>13 DEF AllPrecede
  <2> QED
    BY <1>12, <1>13, <2>1, CatFacts, SortedCat
<1> DEFINE m == (s \o x) \o t
<1>15. /\ IsSequence(l \o m) /\ Sorted(f, l \o m)
       /\ ToSet(l \o m) = ToSet(l) \cup ToSet(s) \cup ToSet(x) \cup ToSet(t)
  <2>1. AllPrecede(f, ToSet(l), ToSet(m))
    BY <1>11, <1>12, <1>14 DEF AllPrecede
  <2> HIDE DEF m
  <2>2. IsSequence(m) /\ Sorted(f, m) /\ ToSet(m) = ToSet(s) \cup ToSet(x) \cup ToSet(t)
    BY <1>14 DEF m
  <2>3. IsSequence(l \o m) /\ ToSet(l \o m) = ToSet(l) \cup ToSet(m)
    BY <1>2, <2>2, CatFacts
  <2>4. Sorted(f, l \o m)
    BY <1>2, <1>5, <2>1, <2>2, SortedCat
  <2>5. ToSet(l \o m) = ToSet(l) \cup ToSet(s) \cup ToSet(x) \cup ToSet(t)
    BY <2>2, <2>3
  <2> QED
    BY <2>3, <2>4, <2>5
<1>16. Sorted(f, (l \o m) \o r)
  <2>1. AllPrecede(f, ToSet(l \o m), ToSet(r))
    BY <1>11, <1>12, <1>15 DEF AllPrecede
  <2> HIDE DEF m
  <2> QED
    BY <1>3, <1>5, <1>15, <2>1, SortedCat
<1> QED
  BY <1>6, <1>16

LEMMA PassesFacts ==
  ASSUME NEW h, NEW x, NEW buffers, IsItem(h), Passes(h, x, buffers)
  PROVE  /\ IsItem(x) /\ x.kind = h.kind /\ x.at = h.at /\ x.opcode = h.opcode /\ x.fn = h.fn
         /\ x.type = h.type /\ x.size = h.size /\ x.given = h.given /\ x.operand = h.operand
         /\ x.num = h.num
         /\ x.fn = "trace_logger_log_vector" =>
              x.buffer \in ToSet(buffers)
              /\ createVecBufKey(x.buffer.type) = createVecBufKey(x.type)
BY DEF Passes, IsItem, ItemFields

LEMMA PassedSeq ==
  ASSUME NEW f, NEW s, NEW t, NEW buffers, IsSequence(s), IsSequence(t), Len(t) = Len(s),
         \A i \in 1 .. Len(s) : Passes(s[i], t[i], buffers), \A h \in ToSet(s) : IsItem(h)
  PROVE  /\ Sorted(f, s) => Sorted(f, t)
         /\ \A x \in ToSet(t) : \E h \in ToSet(s) : Passes(h, x, buffers)
         /\ \A h \in ToSet(s) : \E x \in ToSet(t) : Passes(h, x, buffers)
<1>1. /\ Len(s) \in Nat
      /\ \A i \in 1 .. Len(s) : s[i] \in ToSet(s) /\ t[i] \in ToSet(t)
      /\ \A x \in ToSet(s) : \E i \in 1 .. Len(s) : x = s[i]
      /\ \A x \in ToSet(t) : \E i \in 1 .. Len(s) : x = t[i]
  BY SeqFacts
<1>2. \A i \in 1 .. Len(s) : t[i].kind = s[i].kind /\ t[i].at = s[i].at
  BY <1>1, PassesFacts
<1>3. \A i \in 1 .. Len(s) : Key(f, t[i]) = Key(f, s[i]) /\ (Single(t[i]) <=> Single(s[i]))
  BY <1>2, SameSpot
<1>4. Sorted(f, s) => Sorted(f, t)
  BY <1>3 DEF Sorted, Precedes
<1> QED
  BY <1>1, <1>4

LEMMA AllocaFacts ==
  ASSUME NEW x
  PROVE  /\ IsItem(Alloca(x)) /\ Alloca(x).kind = "buffer" /\ Alloca(x).at = NoPlace
         /\ Alloca(x).buffer = x /\ ~IsHook(Alloca(x))
BY DEF Alloca, Item, IsItem, ItemFields, IsHook

\* Buffers precede everything else in the first block.
LEMMA BuffersFirst ==
  ASSUME NEW f, Laid(f), NEW x, NEW it, Placed(f, 1, it)
  PROVE  Precedes(f, Alloca(x), it)
<1>1. Key(f, Alloca(x)) = 0 /\ ~Single(Alloca(x))
  BY AllocaFacts, FrontKey
<1>2. 1 \in 1 .. Len(f.blocks)
  BY DEF Laid
<1>3. Key(f, it) \in Int /\ Key(f, it) >= 0
  <2>1. CASE \E i \in 1 .. Len(f.blocks[1]) : it = Original(f)[1][i]
    <3>1. PICK i \in 1 .. Len(f.blocks[1]) : it = Original(f)[1][i]
      BY <2>1
    <3>2. f.blocks[1][i].op # "phi" /\ i \in Nat
      BY <1>2 DEF Laid
    <3>3. Key(f, it) = 7 * i + 5
      BY <1>2, <3>1, <3>2, InstKey
    <3> QED
      BY <3>2, <3>3
  <2>2. CASE InstHook(f, 1, it)
    <3>1. it.at[2] \in Nat /\ Key(f, it) = 7 * it.at[2] + Rank[it.kind] /\ Rank[it.kind] \in {1, 2, 3, 4, 6}
      BY <1>2, <2>2, HookKey
    <3>2. \A n \in Nat : \A r \in {1, 2, 3, 4, 6} : 7 * n + r \in Int /\ 7 * n + r >= 0
      OBVIOUS
    <3> QED
      BY <3>1, <3>2
  <2>3. CASE EntryHook(it) \/ (it.kind = "buffer" /\ it.at = NoPlace)
    <3>1. Key(f, it) \in 0 .. 3
      BY <2>3, FrontKey DEF EntryHook
    <3> QED
      BY <3>1
  <2> QED
    BY <2>1, <2>2, <2>3 DEF Placed
<1> QED
  BY <1>1, <1>3 DEF Precedes

LEMMA PlacedPassed ==
  ASSUME NEW f, Laid(f), NEW b \in 1 .. Len(f.blocks), NEW h, NEW x, NEW buffers,
         IsItem(h), IsHook(h), Placed(f, b, h), Passes(h, x, buffers)
  PROVE  IsHook(x) /\ Placed(f, b, x)
<1>1. IsItem(x) /\ x.kind = h.kind /\ x.at = h.at /\ x.opcode = h.opcode
  BY PassesFacts
<1>2. h.kind \notin {"inst", "buffer"}
  BY DEF IsHook
<1>3. ~\E i \in 1 .. Len(f.blocks[b]) : h = Original(f)[b][i]
  <2>1. \A i \in 1 .. Len(f.blocks[b]) : Original(f)[b][i].kind = "inst"
    BY OriginalFacts
  <2> QED
    BY <1>2, <2>1
<1>4. IsHook(x)
  BY <1>1, <1>2 DEF IsHook
<1>5. CASE InstHook(f, b, h)
  <2>1. IsItem(x) /\ x.kind \in HookKinds
    BY <1>1, <1>5 DEF InstHook
  <2>2. PICK i \in 1 .. Len(f.blocks[b]) :
          /\ h.at = <<b, i>>
          /\ h.kind = "status" => f.blocks[b][i].op = "ret" /\ h.opcode = "ret"
          /\ h.kind = "result" => f.blocks[b][i].type # Void
    BY <1>5 DEF InstHook
  <2>3. InstHook(f, b, x)
    BY <1>1, <2>1, <2>2 DEF InstHook
  <2> QED
    BY <1>4, <2>3 DEF Placed
<1>6. CASE b = 1 /\ EntryHook(h)
  <2>1. EntryHook(x)
    BY <1>1, <1>6 DEF EntryHook
  <2> QED
    BY <1>4, <1>6, <2>1 DEF Placed
<1> QED
  BY <1>2, <1>3, <1>4, <1>5, <1>6 DEF Placed

LEMMA FitsPassed ==
  ASSUME NEW f, NEW block, NEW k, NEW buffers, NEW s, NEW t, NEW s2, NEW t2,
         Fits(f, block, k, s, t),
         IsSequence(s), IsSequence(s2), Len(s2) = Len(s),
         IsSequence(t), IsSequence(t2), Len(t2) = Len(t),
         \A i \in 1 .. Len(s) : Passes(s[i], s2[i], buffers), \A h \in ToSet(s) : IsItem(h),
         \A i \in 1 .. Len(t) : Passes(t[i], t2[i], buffers), \A h \in ToSet(t) : IsItem(h)
  PROVE  Fits(f, block, k, s2, t2)
<1>1. \A x \in ToSet(s2) : \E h \in ToSet(s) : Key(f, x) = Key(f, h) /\ (Single(x) <=> Single(h))
  <2> TAKE x \in ToSet(s2)
  <2>1. PICK h \in ToSet(s) : Passes(h, x, buffers)
    BY PassedSeq
  <2> QED
    BY <2>1, PassesFacts, SameSpot
<1>2. \A x \in ToSet(t2) : \E h \in ToSet(t) : Key(f, x) = Key(f, h) /\ (Single(x) <=> Single(h))
  <2> TAKE x \in ToSet(t2)
  <2>1. PICK h \in ToSet(t) : Passes(h, x, buffers)
    BY PassedSeq
  <2> QED
    BY <2>1, PassesFacts, SameSpot
<1>3. ASSUME NEW S, NEW T, NEW S2, NEW T2, AllPrecede(f, S, T),
             \A x \in S2 : \E h \in S : Key(f, x) = Key(f, h) /\ (Single(x) <=> Single(h)),
             \A x \in T2 : \E h \in T : Key(f, x) = Key(f, h) /\ (Single(x) <=> Single(h))
      PROVE  AllPrecede(f, S2, T2)
  <2> SUFFICES ASSUME NEW x \in S2, NEW y \in T2 PROVE Precedes(f, x, y)
    BY DEF AllPrecede
  <2>1. PICK h \in S : Key(f, x) = Key(f, h) /\ (Single(x) <=> Single(h))
    BY <1>3
  <2>2. PICK g \in T : Key(f, y) = Key(f, g) /\ (Single(y) <=> Single(g))
    BY <1>3
  <2>3. Precedes(f, h, g)
    BY <1>3 DEF AllPrecede
  <2> QED
    BY <2>1, <2>2, <2>3 DEF Precedes
<1>4. Sorted(f, s2) /\ Sorted(f, t2)
  BY PassedSeq DEF Fits
<1>5. AllPrecede(f, ToSet(s2), ToSet(t2))
  BY <1>1, <1>2, <1>3 DEF Fits
<1>6. ASSUME NEW i \in 1 .. Len(block)
      PROVE  /\ i < k => AllPrecede(f, {block[i]}, ToSet(s2))
             /\ i >= k => AllPrecede(f, ToSet(s2), {block[i]})
             /\ i <= k => AllPrecede(f, {block[i]}, ToSet(t2))
             /\ i > k => AllPrecede(f, ToSet(t2), {block[i]})
  <2> DEFINE B == {block[i]}
  <2>1. \A x \in B : \E h \in B : Key(f, x) = Key(f, h) /\ (Single(x) <=> Single(h))
    OBVIOUS
  <2>2. /\ i < k => AllPrecede(f, B, ToSet(s))
        /\ i >= k => AllPrecede(f, ToSet(s), B)
        /\ i <= k => AllPrecede(f, B, ToSet(t))
        /\ i > k => AllPrecede(f, ToSet(t), B)
    BY DEF Fits
  <2> HIDE DEF B
  <2>3. AllPrecede(f, B, ToSet(s)) => AllPrecede(f, B, ToSet(s2))
    BY <1>1, <1>3, <2>1
  <2>4. AllPrecede(f, ToSet(s), B) => AllPrecede(f, ToSet(s2), B)
    BY <1>1, <1>3, <2>1
  <2>5. AllPrecede(f, B, ToSet(t)) => AllPrecede(f, B, ToSet(t2))
    BY <1>2, <1>3, <2>1
  <2>6. AllPrecede(f, ToSet(t), B) => AllPrecede(f, ToSet(t2), B)
    BY <1>2, <1>3, <2>1
  <2> QED
    BY <2>2, <2>3, <2>4, <2>5, <2>6 DEF B
<1> QED
  BY <1>4, <1>5, <1>6 DEF Fits

=============================================================================
