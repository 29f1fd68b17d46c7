---------------------------- MODULE Names_proofs -----------------------------
(***************************************************************************)
(* What the hooks of the instrumentation pass call the things they are     *)
(* about, for every module: the numbers and names of values and blocks,    *)
(* one header for each instruction, and the arguments of a call as the     *)
(* callee lists them.                                                      *)
(***************************************************************************)
EXTENDS Instrument_proofs

----------------------------------------------------------------------------
(* Where a hook comes from.                                                *)

\* The walk is at this instruction, or at its block and it is a phi node.
Reached(b, i) ==
  /\ IsPlace(b, i) /\ Visited(Function)
  /\ at = <<b, i>> \/ (at = <<b, 0>> /\ Function.blocks[b][i].op = "phi")

\* A hook of an instruction or of the entry of curr_function, with its buffer.
Made(h, buffers) ==
  \E h0 : /\ IsItem(h0) /\ Passes(h0, h, buffers)
          /\ HookAtEntry(h0) \/ \E b, i : Reached(b, i) /\ HookOf(<<b, i>>, h0)

LEMMA BasicBlockHooks ==
  ASSUME PassInv, RunOnBasicBlock, NEW g \in DOMAIN Functions, NEW b \in Blocks(g),
         NEW h \in ToSet(code'[g][b]), IsHook(h)
  PROVE  h \in ToSet(code[g][b]) \/ (g = fn /\ Rewriting /\ Made(h, vector_buffers'))
<1> DEFINE c == at[1]
           n == Phis(c)
           before == PhiHooks(c, n)
           after == << >>
           k == n + 1
<1>1. /\ pc = "block" /\ c \in DOMAIN Function.blocks
      /\ Insert(c, k, before, after) /\ module' = module /\ Visited(Function)
  BY DEF RunOnBasicBlock, unchangedModule
<1>2. WalkInv /\ LayoutInv /\ FreshInv /\ BufferInv
  BY DEF PassInv
<1>3. /\ module \in Modules /\ fn \in DOMAIN Functions /\ Rewriting /\ c \in Blocks(fn)
  BY <1>1, <1>2, AtBlock
<1>at. at = <<c, 0>>
  <2>1. PICK m \in 1 .. Len(Function.blocks) + 1 : at = <<m, 0>>
    BY <1>1, <1>2, AtBlock
  <2>2. c = m
    BY <2>1
  <2> QED
    BY <2>1, <2>2
<1> HIDE DEF c
<1>4. /\ IsSequence(before)
      /\ \A x \in ToSet(before) : \E i \in 1 .. n : IsPlace(c, i) /\ HookOf(<<c, i>>, x)
  BY <1>3, PhiHooksFacts
<1>5. k \in 1 .. Len(code[fn][c]) /\ Fits(Function, code[fn][c], k, before, after)
  BY <1>1, <1>2, <1>3, <1>at, PhiFits
<1>6. IsSequence(after) /\ ToSet(after) = {}
  BY EmptyFacts
<1> HIDE DEF n, before, after, k
<1>7. \A x \in ToSet(before) \cup ToSet(after) : IsItem(x) /\ IsHook(x) /\ Placed(Function, c, x)
  BY <1>3, <1>4, <1>6, HookSpot
<1>8. Leaving(c, before, after)
  BY <1>1, <1>2, <1>3, <1>4, <1>5, <1>6, <1>7, Inserted
<1>9. CASE g # fn
  BY <1>8, <1>9 DEF Leaving
<1>10. CASE g = fn /\ h \notin ToSet(code[g][b])
  <2>1. PICK x \in ToSet(before) : Passes(x, h, vector_buffers')
    BY <1>6, <1>8, <1>10 DEF Leaving
  <2>2. PICK i \in 1 .. n : IsPlace(c, i) /\ HookOf(<<c, i>>, x)
    BY <1>4
  <2>3. Function.blocks[c][i].op = "phi"
    <3>1. i <= n /\ n \in Nat
      BY <1>3, PhisFacts DEF n
    <3> QED
      BY <1>3, <2>2, <3>1, PhisFacts DEF n, IsPlace
  <2>4. Reached(c, i) /\ IsItem(x)
    BY <1>1, <1>7, <1>at, <2>2, <2>3 DEF Reached
  <2>5. Made(h, vector_buffers')
    BY <2>1, <2>2, <2>4 DEF Made
  <2> QED
    BY <1>3, <1>10, <2>5
<1> QED
  BY <1>9, <1>10

LEMMA InstructionHooks ==
  ASSUME PassInv, TraceInstruction, NEW g \in DOMAIN Functions, NEW b \in Blocks(g),
         NEW h \in ToSet(code'[g][b]), IsHook(h)
  PROVE  h \in ToSet(code[g][b]) \/ (g = fn /\ Rewriting /\ Made(h, vector_buffers'))
<1>1. /\ pc = "instruction" /\ module' = module
      /\ Insert(at[1], Position(at), Before(at), Result(at))
  BY DEF TraceInstruction, unchangedModule
<1>2. WalkInv /\ LayoutInv /\ FreshInv /\ BufferInv
  BY DEF PassInv
<1>3. /\ module \in Modules /\ fn \in DOMAIN Functions /\ Function = Functions[fn]
      /\ Rewriting /\ Laid(Function)
  BY <1>1, <1>2, AtInstruction
<1>4. PICK c, i : at = <<c, i>> /\ IsPlace(c, i) /\ c \in Nat \ {0}
                  /\ Function.blocks[c][i].op # "phi"
  BY <1>1, <1>2, AtInstruction
<1>5. at[1] = c /\ c \in Blocks(fn)
  BY <1>4 DEF IsPlace
<1> DEFINE k == Position(at)
           before == Before(at)
           after == Result(at)
<1>6. IsSequence(before) /\ \A x \in ToSet(before) : HookOf(at, x)
  BY <1>3, <1>4, BeforeFacts
<1>7. IsSequence(after) /\ \A x \in ToSet(after) : HookOf(at, x)
  BY <1>3, <1>4, ResultFacts
<1>8. k \in 1 .. Len(code[fn][c])
  BY <1>2, <1>3, <1>4, PositionFacts
<1>9. Fits(Function, code[fn][c], k, before, after)
  BY <1>2, <1>3, <1>4, TraceFits
<1>10. Insert(c, k, before, after)
  BY <1>1, <1>5
<1> HIDE DEF k, before, after
<1>11. \A x \in ToSet(before) \cup ToSet(after) :
         IsItem(x) /\ IsHook(x) /\ Placed(Function, c, x) /\ HookOf(at, x)
  BY <1>3, <1>4, <1>6, <1>7, HookSpot
<1>12. Leaving(c, before, after)
  BY <1>1, <1>2, <1>3, <1>5, <1>6, <1>7, <1>8, <1>9, <1>10, <1>11, Inserted
<1>13. CASE g # fn
  BY <1>12, <1>13 DEF Leaving
<1>14. CASE g = fn /\ h \notin ToSet(code[g][b])
  <2>1. PICK x \in ToSet(before) \cup ToSet(after) : Passes(x, h, vector_buffers')
    BY <1>12, <1>14 DEF Leaving
  <2>2. IsItem(x) /\ HookOf(<<c, i>>, x)
    BY <1>4, <1>11
  <2>3. Visited(Function)
    BY <1>1, <1>2, AtInstruction
  <2>4. Reached(c, i)
    BY <1>4, <2>3 DEF Reached
  <2>5. Made(h, vector_buffers')
    BY <2>1, <2>2, <2>4 DEF Made
  <2> QED
    BY <1>3, <1>14, <2>5
<1> QED
  BY <1>13, <1>14

LEMMA FunctionEntryHooks ==
  ASSUME PassInv, RunOnFunctionEntry, NEW g \in DOMAIN Functions, NEW b \in Blocks(g),
         NEW h \in ToSet(code'[g][b]), IsHook(h)
  PROVE  h \in ToSet(code[g][b]) \/ (g = fn /\ Rewriting /\ Made(h, vector_buffers'))
<1>1. pc = "block" /\ module' = module
  BY DEF RunOnFunctionEntry, unchangedModule
<1>2. WalkInv /\ LayoutInv /\ FreshInv /\ BufferInv
  BY DEF PassInv
<1>3. /\ module \in Modules /\ fn \in DOMAIN Functions /\ Function = Functions[fn]
      /\ Rewriting /\ Laid(Function) /\ Blocks(fn) = 1 .. Len(Function.blocks)
  BY <1>1, <1>2, AtBlock
<1>4. CASE Function.symbol = MainFn
  BY <1>4 DEF RunOnFunctionEntry
<1>5. CASE Function.symbol # MainFn
  <2> DEFINE one == 1
             k == insertionPoint
             before == EntryHooks
             after == << >>
  <2>1. Insert(one, k, before, after)
    BY <1>5 DEF RunOnFunctionEntry
  <2>2. k \in 1 .. Len(code[fn][one]) /\ Fits(Function, code[fn][one], k, before, after)
    BY <1>2, <1>3, InsertionPointFacts, EntryFits
  <2>3. IsSequence(before) /\ \A x \in ToSet(before) : HookAtEntry(x)
    BY <1>3, EntryHooksFacts
  <2>4. IsSequence(after) /\ ToSet(after) = {}
    BY EmptyFacts
  <2>5. one \in Blocks(fn)
    BY <1>3 DEF Laid
  <2>6. \A x : HookAtEntry(x) => IsItem(x) /\ IsHook(x) /\ Placed(Function, one, x)
    BY EntryFields
  <2> HIDE DEF one, k, before, after
  <2>7. \A x \in ToSet(before) \cup ToSet(after) :
          IsItem(x) /\ IsHook(x) /\ Placed(Function, one, x) /\ HookAtEntry(x)
    BY <2>3, <2>4, <2>6
  <2>8. Leaving(one, before, after)
    BY <1>1, <1>2, <1>3, <2>1, <2>2, <2>3, <2>4, <2>5, <2>7, Inserted
  <2>9. CASE g # fn
    BY <2>8, <2>9 DEF Leaving
  <2>10. CASE g = fn /\ h \notin ToSet(code[g][b])
    <3>1. PICK x \in ToSet(before) \cup ToSet(after) : Passes(x, h, vector_buffers')
      BY <2>8, <2>10 DEF Leaving
    <3>2. Made(h, vector_buffers')
      BY <2>7, <3>1 DEF Made
    <3> QED
      BY <1>3, <2>10, <3>2
  <2> QED
    BY <2>9, <2>10
<1> QED
  BY <1>4, <1>5

\* Every hook that a step adds is one of the function it is at.
LEMMA NextHooks ==
  ASSUME PassInv, [Next]_vars, NEW g \in DOMAIN Functions, NEW b \in Blocks(g),
         NEW h \in ToSet(code'[g][b]), IsHook(h)
  PROVE  h \in ToSet(code[g][b]) \/ (g = fn /\ Rewriting /\ Made(h, vector_buffers'))
<1>1. CASE RunOnBasicBlock
  BY <1>1, BasicBlockHooks
<1>2. CASE TraceInstruction
  BY <1>2, InstructionHooks
<1>3. CASE RunOnFunctionEntry
  BY <1>3, FunctionEntryHooks
<1>4. CASE code' = code
  BY <1>4
<1> QED
  BY <1>1, <1>2, <1>3, <1>4
     DEF Next, DoInitialization, RunOnFunction, SkipBlock, SkipInstruction, Done, Stopped, vars

----------------------------------------------------------------------------
(* The numbering of a function.                                            *)

LEMMA SameSeq ==
  ASSUME NEW s, NEW t, IsSequence(s), IsSequence(t), Len(s) = Len(t),
         \A i \in 1 .. Len(s) : s[i] = t[i]
  PROVE  s = t
<1>1. Len(s) \in Nat /\ s \in Seq(ToSet(s)) /\ t \in Seq(ToSet(t))
  BY SeqFacts DEF IsSequence
<1>2. \A S : \A x \in Seq(S) : x = [i \in 1 .. Len(x) |-> x[i]]
  OBVIOUS
<1>3. s = [i \in 1 .. Len(s) |-> s[i]] /\ t = [i \in 1 .. Len(t) |-> t[i]]
  BY <1>1, <1>2
<1> QED
  BY <1>3

LEMMA NoElements ==
  ASSUME NEW s, IsSequence(s), Len(s) = 0 \/ ToSet(s) = {}
  PROVE  s = << >>
<1>1. IsSequence(<< >>) /\ Len(<< >>) = 0
  BY EmptyFacts
<1>2. Len(s) = 0
  BY SeqFacts
<1> QED
  BY <1>1, <1>2, SameSeq

LEMMA WidenedByNothing ==
  ASSUME NEW block, IsSequence(block), NEW k \in 1 .. Len(block)
  PROVE  Widened(block, k, << >>, << >>) = block
<1> DEFINE n == Len(block)
           l == SubSeq(block, 1, k - 1)
           x == <<block[k]>>
           r == SubSeq(block, k + 1, n)
<1>1. /\ n \in Nat /\ k \in Nat /\ k - 1 \in Nat /\ k - 1 <= n /\ k + 1 \in Nat \ {0}
      /\ k + 1 <= n + 1 /\ n <= n
  BY SeqFacts
<1>2. IsSequence(x) /\ Len(x) = 1 /\ x[1] = block[k] /\ x \in Seq({block[k]})
  BY OneFacts
<1>3. \A S : \A y \in Seq(S) : << >> \o y \o << >> = y
  OBVIOUS
<1>4. Around(<< >>, block[k], << >>) = x
  BY <1>2, <1>3 DEF Around
<1>5. Widened(block, k, << >>, << >>) = l \o x \o r
  BY <1>4 DEF Widened
<1>6. /\ IsSequence(l) /\ Len(l) = k - 1 /\ \A i \in 1 .. k - 1 : l[i] = block[i]
  <2>1. 1 \in Nat \ {0} /\ 1 <= k - 1 + 1 /\ k - 1 - 1 + 1 = k - 1
        /\ \A i \in 1 .. k - 1 : 1 + i - 1 = i
    BY <1>1
  <2>2. /\ IsSequence(l) /\ Len(l) = k - 1 - 1 + 1
        /\ \A i \in 1 .. k - 1 - 1 + 1 : l[i] = block[1 + i - 1]
    BY <1>1, <2>1, SubFacts
  <2> HIDE DEF l
  <2> QED
    BY <2>1, <2>2
<1>7. /\ IsSequence(r) /\ Len(r) = n - k /\ \A i \in 1 .. n - k : r[i] = block[k + i]
  <2>1. n - (k + 1) + 1 = n - k /\ \A i \in 1 .. n - k : k + 1 + i - 1 = k + i
    BY <1>1
  <2>2. /\ IsSequence(r) /\ Len(r) = n - (k + 1) + 1
        /\ \A i \in 1 .. n - (k + 1) + 1 : r[i] = block[k + 1 + i - 1]
    BY <1>1, SubFacts
  <2> HIDE DEF r
  <2> QED
    BY <2>1, <2>2
<1> HIDE DEF l, r, x, n
<1>8. /\ IsSequence(l \o x) /\ Len(l \o x) = k
      /\ \A i \in 1 .. k : (l \o x)[i] = block[i]
  <2>1. /\ IsSequence(l \o x) /\ Len(l \o x) = Len(l) + Len(x)
        /\ \A i \in 1 .. Len(l) : (l \o x)[i] = l[i]
        /\ \A i \in 1 .. Len(x) : (l \o x)[Len(l) + i] = x[i]
    <3>1. IsSequence(l) /\ IsSequence(x)
      BY <1>2, <1>6
    <3> QED
      BY ONLY <3>1, CatFacts
  <2>2. (l \o x)[k] = block[k]
    <3>1. Len(l) + 1 = k /\ 1 \in 1 .. Len(x)
      BY <1>1, <1>2, <1>6
    <3> QED
      BY <1>2, <2>1, <3>1
  <2>3. \A i \in 1 .. k : i = k \/ i \in 1 .. k - 1
    BY <1>1
  <2>4. Len(l \o x) = k
    BY <1>1, <1>2, <1>6, <2>1
  <2> QED
    BY <1>6, <2>1, <2>2, <2>3, <2>4
<1>9. /\ IsSequence((l \o x) \o r) /\ Len((l \o x) \o r) = n
      /\ \A i \in 1 .. n : ((l \o x) \o r)[i] = block[i]
  <2> DEFINE y == l \o x
  <2> HIDE DEF y
  <2>1. /\ IsSequence(y \o r) /\ Len(y \o r) = Len(y) + Len(r)
        /\ \A i \in 1 .. Len(y) : (y \o r)[i] = y[i]
        /\ \A i \in 1 .. Len(r) : (y \o r)[Len(y) + i] = r[i]
    <3>1. IsSequence(y) /\ IsSequence(r)
      BY <1>7, <1>8 DEF y
    <3> QED
      BY ONLY <3>1, CatFacts
  <2>2. Len(y) = k /\ \A i \in 1 .. k : y[i] = block[i]
    BY <1>8 DEF y
  <2>3. ASSUME NEW i \in 1 .. n PROVE (y \o r)[i] = block[i]
    <3>1. CASE i <= k
      BY <1>1, <2>1, <2>2, <3>1
    <3>2. CASE i > k
      <4> DEFINE j == i - k
      <4>1. j \in 1 .. n - k /\ k + j = i
        BY <1>1, <3>2
      <4> HIDE DEF j
      <4>2. j \in 1 .. Len(r) /\ Len(y) + j = i
        BY <1>7, <2>2, <4>1
      <4>3. (y \o r)[i] = r[j]
        BY <2>1, <4>2
      <4>4. r[j] = block[i]
        BY <1>7, <4>1
      <4> QED
        BY <4>3, <4>4
    <3>3. i <= k \/ i > k
      BY <1>1
    <3> QED
      BY <3>1, <3>2, <3>3
  <2>4. Len(y \o r) = n
    BY <1>1, <1>7, <2>1, <2>2
  <2> QED
    BY <2>1, <2>3, <2>4 DEF y
<1> QED
  BY <1>5, <1>9, SameSeq DEF n

\* The numbers of a function as it was before the pass.
Source(f) == processFunction(Countable(f, Original(f)))

\* The function at hand is numbered as the source, or still is as in the source.
NumberInv ==
  Rewriting =>
    /\ DOMAIN st = TrackerFields /\ st.TheFunction # NoFunction
    /\ st.FunctionProcessed \in BOOLEAN
    /\ IF st.FunctionProcessed THEN st.fMap = Source(Function)
       ELSE DOMAIN st.fMap = {} /\ code[fn] = Original(Function)

LEMMA TrackerSource ==
  ASSUME NumberInv, Rewriting
  PROVE  /\ DOMAIN Tracker = TrackerFields /\ Tracker.TheFunction # NoFunction
         /\ Tracker.FunctionProcessed = TRUE /\ Tracker.fMap = Source(Function)
<1> DEFINE values == Countable(Function, code[fn])
           new == processFunction(values)
<1>1. Tracker = initialize(st, values)
  BY DEF Tracker
<1>2. new = [p \in DOMAIN new |-> new[p]]
  BY DEF processFunction
<1> HIDE DEF values, new
<1>3. CASE st.FunctionProcessed
  BY <1>1, <1>3 DEF NumberInv, initialize
<1>4. CASE ~st.FunctionProcessed
  <2>1. Tracker = [st EXCEPT !.FunctionProcessed = TRUE,
                     !.fMap = [p \in DOMAIN @ \cup DOMAIN new |->
                                 IF p \in DOMAIN new THEN new[p] ELSE @[p]]]
    BY <1>1, <1>4 DEF NumberInv, initialize, new
  <2>2. /\ DOMAIN Tracker = TrackerFields /\ Tracker.TheFunction = st.TheFunction
        /\ Tracker.FunctionProcessed = TRUE
        /\ Tracker.fMap = [p \in DOMAIN st.fMap \cup DOMAIN new |->
                             IF p \in DOMAIN new THEN new[p] ELSE st.fMap[p]]
    BY <2>1 DEF NumberInv, TrackerFields
  <2>3. Tracker.fMap = [p \in DOMAIN new |-> new[p]]
    BY <1>4, <2>2 DEF NumberInv
  <2>4. new = Source(Function)
    BY <1>4 DEF NumberInv, Source, new, values
  <2> QED
    BY <1>2, <2>2, <2>3, <2>4 DEF NumberInv
<1> QED
  BY <1>3, <1>4 DEF NumberInv

LEMMA StillSource ==
  ASSUME NumberInv, Rewriting, module' = module, fn' = fn, st' \in {st, Tracker},
         st' = st => code' = code \/ code[fn] = code'[fn]
  PROVE  NumberInv'
<1>1. Function' = Function
  BY DEF Function
<1>2. CASE st' = st
  BY <1>1, <1>2 DEF NumberInv
<1>3. CASE st' = Tracker
  <2>1. /\ DOMAIN st' = TrackerFields /\ st'.TheFunction # NoFunction
        /\ st'.FunctionProcessed = TRUE /\ st'.fMap = Source(Function')
    BY <1>1, <1>3, TrackerSource
  <2> QED
    BY <2>1 DEF NumberInv
<1> QED
  BY <1>2, <1>3

\* Blocks without phi nodes are not changed before their first instruction.
LEMMA NoPhis ==
  ASSUME PassInv, RunOnBasicBlock, Phis(at[1]) = 0
  PROVE  code'[fn] = code[fn]
<1> DEFINE b == at[1]
           n == Phis(b)
           before == PhiHooks(b, n)
           after == << >>
           k == n + 1
<1>1. /\ pc = "block" /\ b \in DOMAIN Function.blocks
      /\ Insert(b, k, before, after) /\ n = 0
  BY DEF RunOnBasicBlock
<1>2. WalkInv /\ LayoutInv /\ FreshInv /\ BufferInv
  BY DEF PassInv
<1>3. /\ module \in Modules /\ fn \in DOMAIN Functions /\ Rewriting /\ b \in Blocks(fn)
      /\ DOMAIN Functions[fn].blocks = Blocks(fn)
  BY <1>1, <1>2, AtBlock
<1>at. at = <<b, 0>>
  <2>1. PICK m \in 1 .. Len(Function.blocks) + 1 : at = <<m, 0>>
    BY <1>1, <1>2, AtBlock
  <2>2. b = m
    BY <2>1
  <2> QED
    BY <2>1, <2>2
<1>4. k \in 1 .. Len(code[fn][b])
  <2> HIDE DEF b
  <2> QED
    BY <1>1, <1>2, <1>3, <1>at, PhiFits
<1>5. /\ IsSequence(before)
      /\ \A x \in ToSet(before) : \E i \in 1 .. n : IsPlace(b, i) /\ HookOf(<<b, i>>, x)
  <2> HIDE DEF b
  <2> QED
    BY <1>3, PhiHooksFacts
<1> HIDE DEF b, n, before, k
<1>6. before = << >>
  <2>1. ToSet(before) = {}
    BY <1>1, <1>5
  <2> QED
    BY <1>5, <2>1, NoElements
<1>7. /\ IsSequence(after) /\ Len(after) = 0 /\ IsSequence(vector_buffers)
      /\ code = [g \in DOMAIN Functions |-> [c \in DOMAIN Functions[g].blocks |-> code[g][c]]]
      /\ \A c \in Blocks(fn) : IsSequence(code[fn][c])
  BY <1>2, <1>3, EmptyFacts DEF LayoutInv, BufferInv
<1>8. /\ code' = [g \in DOMAIN Functions |-> [c \in DOMAIN Functions[g].blocks |-> code'[g][c]]]
      /\ \E a, s, t : Leaves(b, k, before, after, a, s, t)
  BY <1>1, <1>3, <1>5, <1>7, InsertFacts
<1>9. PICK a, s, t : Leaves(b, k, before, after, a, s, t)
  BY <1>8
<1>10. /\ IsSequence(a) /\ ToSet(a) \subseteq BuffersFor(before \o after)
       /\ IsSequence(s) /\ Len(s) = 0 /\ IsSequence(t) /\ Len(t) = 0
       /\ \A c \in Blocks(fn) :
            code'[fn][c] = (IF c = 1 THEN [i \in DOMAIN a |-> Alloca(a[i])] ELSE << >>)
                           \o (IF c = b THEN Widened(code[fn][b], k, s, t) ELSE code[fn][c])
  BY <1>3, <1>6, <1>7, <1>9 DEF Leaves
<1>11. a = << >> /\ s = << >> /\ t = << >>
  <2>1. before \o after = << >>
    BY <1>6
  <2>2. BuffersFor(<< >>) = {}
    BY EmptyFacts DEF BuffersFor
  <2>3. ToSet(a) = {}
    BY <1>10, <2>1, <2>2
  <2> QED
    BY <1>10, <2>3, NoElements
<1>12. ASSUME NEW c \in Blocks(fn) PROVE code'[fn][c] = code[fn][c]
  <2>1. (IF c = 1 THEN [i \in DOMAIN a |-> Alloca(a[i])] ELSE << >>) = << >>
    <3>1. IsSequence(a)
      BY <1>10
    <3>2. IsSequence([i \in DOMAIN a |-> Alloca(a[i])])
          /\ ToSet([i \in DOMAIN a |-> Alloca(a[i])]) = {Alloca(x) : x \in ToSet(a)}
      BY <3>1, AllocaSeq
    <3>3. ToSet(a) = {}
      BY <1>11, EmptyFacts
    <3>4. [i \in DOMAIN a |-> Alloca(a[i])] = << >>
      BY <3>2, <3>3, NoElements
    <3> QED
      BY <3>4
  <2>2. (IF c = b THEN Widened(code[fn][b], k, s, t) ELSE code[fn][c]) = code[fn][c]
    BY <1>3, <1>4, <1>7, <1>11, WidenedByNothing
  <2>3. code'[fn][c] = << >> \o code[fn][c]
    BY <1>10, <2>1, <2>2
  <2>4. \A S : \A x \in Seq(S) : << >> \o x = x
    OBVIOUS
  <2>5. code[fn][c] \in Seq(ToSet(code[fn][c]))
    BY <1>7 DEF IsSequence
  <2> QED
    BY <2>3, <2>4, <2>5
<1>13. /\ code'[fn] = [c \in Blocks(fn) |-> code'[fn][c]]
       /\ code[fn] = [c \in Blocks(fn) |-> code[fn][c]]
  BY <1>3, <1>7, <1>8
<1> QED
  BY <1>12, <1>13

\* The values of a function are numbered before anything is inserted in it.
THEOREM NumberInvariant == Spec => []NumberInv
<1>1. Init => NumberInv
  BY DEF Init, NumberInv, Rewriting
<1>2. PassInv /\ NumberInv /\ [Next]_vars => NumberInv'
  <2> SUFFICES ASSUME PassInv, NumberInv, [Next]_vars PROVE NumberInv'
    OBVIOUS
  <2>1. CASE DoInitialization
    BY <2>1 DEF DoInitialization, NumberInv, Rewriting
  <2>2. CASE RunOnFunction
    <3>1. CASE ~IsC(Function)
      <4>1. pc' = "function"
        BY <2>2, <3>1 DEF RunOnFunction
      <4> QED
        BY <4>1 DEF NumberInv, Rewriting
    <3>2. CASE IsC(Function)
      <4>1. /\ pc = "function" /\ fn \in DOMAIN Functions /\ fn' = fn /\ code' = code
            /\ module' = module /\ st' = incorporateFunction(newTracker, fn)
        BY <2>2, <3>2 DEF RunOnFunction, unchangedModule, Functions
      <4>2. /\ Function' = Function /\ Function = Functions[fn] /\ ~Rewriting
            /\ fn # NoFunction
        <5>1. fn \in 1 .. Len(Functions) + 1 /\ module \in Modules
          BY DEF PassInv, WalkInv
        <5>2. Len(Functions) \in Nat
          BY <5>1, ModuleFacts
        <5> QED
          BY <4>1, <5>1, <5>2 DEF Function, Functions, Rewriting, NoFunction
      <4>3. code'[fn'] = Original(Function)
        BY <4>1, <4>2 DEF PassInv, FreshInv
      <4>4. /\ DOMAIN st' = TrackerFields /\ st'.TheFunction = fn
            /\ st'.FunctionProcessed = FALSE /\ st'.fMap = [v \in {} |-> 0]
        BY <4>1 DEF incorporateFunction, newTracker, TrackerFields
      <4> QED
        BY <4>2, <4>3, <4>4 DEF NumberInv
    <3> QED
      BY <3>1, <3>2
  <2>3. CASE SkipBlock
    <3>1. Rewriting /\ module' = module /\ fn' = fn /\ st' = st /\ code' = code
      BY <2>3 DEF SkipBlock, unchangedModule, Rewriting
    <3> QED
      BY <3>1, StillSource
  <2>4. CASE RunOnBasicBlock
    <3>1. /\ Rewriting /\ module' = module /\ fn' = fn
          /\ st' = IF Phis(at[1]) > 0 THEN Tracker ELSE st
          /\ at[1] \in DOMAIN Function.blocks
      <4>1. pc = "block" /\ UNCHANGED fn /\ unchangedModule
        BY <2>4 DEF RunOnBasicBlock
      <4>2. st' = (IF Phis(at[1]) > 0 THEN Tracker ELSE st) /\ at[1] \in DOMAIN Function.blocks
        BY <2>4 DEF RunOnBasicBlock
      <4> QED
        BY <4>1, <4>2 DEF unchangedModule, Rewriting
    <3>2. Phis(at[1]) \in Nat
      <4>1. module \in Modules /\ fn \in DOMAIN Functions /\ DOMAIN Function.blocks = Blocks(fn)
        <5>1. pc = "block" /\ WalkInv
          BY <2>4 DEF RunOnBasicBlock, PassInv
        <5>2. at[1] \in DOMAIN Function.blocks
          BY <3>1
        <5> QED
          BY <5>1, <5>2, AtBlock
      <4>2. at[1] \in Blocks(fn)
        BY <3>1, <4>1
      <4> HIDE DEF Blocks
      <4> QED
        BY <4>1, <4>2, PhisFacts
    <3>3. CASE Phis(at[1]) = 0
      <4>1. code'[fn] = code[fn]
        BY <2>4, <3>3, NoPhis
      <4>2. ~(Phis(at[1]) > 0)
        BY <3>3
      <4>3. st' = st
        BY <3>1, <4>2
      <4> QED
        BY <3>1, <4>1, <4>3, StillSource
    <3>4. CASE Phis(at[1]) # 0
      <4>1. st' = Tracker
        BY <3>1, <3>2, <3>4
      <4> QED
        BY <3>1, <4>1, TrackerSource DEF NumberInv, Function
    <3> QED
      BY <3>3, <3>4
  <2>5. CASE SkipInstruction
    <3>1. Rewriting /\ module' = module /\ fn' = fn /\ code' = code /\ st' \in {st, Tracker}
      BY <2>5 DEF SkipInstruction, Count, unchangedModule, Rewriting
    <3> QED
      BY <3>1, StillSource
  <2>6. CASE TraceInstruction
    <3>1. Rewriting /\ module' = module /\ fn' = fn /\ st' = Tracker
      BY <2>6 DEF TraceInstruction, Traced, Count, unchangedModule, Rewriting
    <3> QED
      BY <3>1, TrackerSource DEF NumberInv, Function
  <2>7. CASE RunOnFunctionEntry
    BY <2>7 DEF RunOnFunctionEntry, NumberInv, Rewriting
  <2>8. CASE Done
    BY <2>8 DEF Done, NumberInv, Rewriting
  <2>9. CASE UNCHANGED vars
    <3>1. /\ pc' = pc /\ module' = module /\ fn' = fn /\ st' = st /\ code' = code
      BY <2>9 DEF vars
    <3> QED
      BY <3>1 DEF NumberInv, Rewriting, Function
  <2> QED
    BY <2>1, <2>2, <2>3, <2>4, <2>5, <2>6, <2>7, <2>8, <2>9 DEF Next, Stopped
<1> QED
  BY <1>1, <1>2, PassInvariant, PTL DEF Spec


----------------------------------------------------------------------------
(* Numbers of values.                                                      *)

\* What is counted has a number below the number of values, and one of its own.
LEMMA ProcessFacts ==
  ASSUME NEW values, IsSequence(values)
  PROVE  LET source == processFunction(values)
         IN  /\ \A v \in ToSet(values) : ~v.named /\ ~v.void => v.at \in DOMAIN source
             /\ \A p \in DOMAIN source : source[p] \in Nat /\ source[p] < Len(values)
             /\ \A p, q \in DOMAIN source : source[p] = source[q] => p = q
<1> DEFINE counted == {i \in DOMAIN values : ~values[i].named /\ ~values[i].void}
           index(p) == CHOOSE i \in counted : values[i].at = p
           P == {values[i].at : i \in counted}
           C(p) == {i \in counted : i < index(p)}
           source == processFunction(values)
           N == Len(values)
<1>1. source = [p \in P |-> Cardinality(C(p))]
  BY DEF processFunction
<1>2. N \in Nat /\ DOMAIN values = 1 .. N
  BY SeqFacts
<1>3. \A p \in P : index(p) \in counted /\ values[index(p)].at = p
  OBVIOUS
<1>4. \A v \in ToSet(values) : ~v.named /\ ~v.void => v.at \in P
  <2>1. \A v \in ToSet(values) : \E i \in 1 .. N : v = values[i]
    BY SeqFacts
  <2> QED
    BY <1>2, <2>1
<1>5. counted \subseteq 1 .. N
  BY <1>2
<1> HIDE DEF source, P, index, counted
<1>51. \A p \in P : index(p) \in 1 .. N /\ index(p) \in Nat
  <2>1. \A p \in P : index(p) \in 1 .. N
    BY <1>3, <1>5
  <2>2. \A i \in 1 .. N : i \in Nat
    BY <1>2
  <2> QED
    BY <2>1, <2>2
<1>6. IsFiniteSet(1 .. N) /\ Cardinality(1 .. N) = N
  <2>1. 1 \in Int /\ N \in Int
    BY <1>2
  <2>2. IsFiniteSet(1 .. N) /\ Cardinality(1 .. N) = IF 1 > N THEN 0 ELSE N - 1 + 1
    BY <2>1, FS_Interval
  <2> HIDE DEF N
  <2> QED
    BY <1>2, <2>2
<1> HIDE DEF N
<1>7. IsFiniteSet(counted)
  BY <1>5, <1>6, FS_Subset
<1>8. ASSUME NEW p \in P
      PROVE  IsFiniteSet(C(p)) /\ Cardinality(C(p)) \in Nat /\ Cardinality(C(p)) < N
  <2>1. C(p) \in SUBSET (1 .. N) /\ index(p) \in 1 .. N /\ index(p) \notin C(p)
    <3>1. index(p) \in 1 .. N
      BY <1>51
    <3>2. ~(index(p) < index(p))
      BY <1>2, <3>1
    <3> QED
      BY <1>5, <3>1, <3>2
  <2> HIDE DEF C
  <2>2. C(p) # 1 .. N
    BY <2>1
  <2>3. IsFiniteSet(C(p)) /\ Cardinality(C(p)) <= N /\ Cardinality(C(p)) # N
    BY <1>6, <2>1, <2>2, FS_Subset
  <2>4. Cardinality(C(p)) \in Nat
    BY <2>3, FS_CardinalityType
  <2> QED
    BY <1>2, <2>3, <2>4
<1>9. ASSUME NEW p \in P, NEW q \in P, index(p) < index(q)
      PROVE  Cardinality(C(p)) # Cardinality(C(q))
  <2>1. C(p) \in SUBSET C(q) /\ index(p) \in C(q) /\ index(p) \notin C(p)
    <3>1. index(p) \in Nat /\ index(q) \in Nat /\ counted \subseteq Nat
      BY <1>2, <1>5, <1>51
    <3>2. \A i \in Nat : i < index(p) => i < index(q)
      BY <1>9, <3>1
    <3>3. ~(index(p) < index(p))
      BY <3>1
    <3> QED
      BY <1>3, <1>9, <3>1, <3>2, <3>3
  <2>2. IsFiniteSet(C(q))
    BY <1>8
  <2> HIDE DEF C
  <2> QED
    BY <2>1, <2>2, FS_Subset
<1>10. ASSUME NEW p \in P, NEW q \in P, Cardinality(C(p)) = Cardinality(C(q)) PROVE p = q
  <2>1. ~(index(p) < index(q)) /\ ~(index(q) < index(p))
    BY <1>9, <1>10
  <2>2. index(p) \in Nat /\ index(q) \in Nat
    BY <1>51
  <2>3. index(p) = index(q)
    BY <2>1, <2>2
  <2> QED
    BY <1>3, <2>3
<1> HIDE DEF C
<1> QED
  BY <1>1, <1>4, <1>8, <1>10 DEF source, N

\* The sequence of blocks that is numbered, one by one.
LEMMA MapSeq ==
  ASSUME NEW n \in Nat, NEW T, NEW s, s = [i \in 1 .. n |-> s[i]], \A i \in 1 .. n : s[i] \in T
  PROVE  s \in Seq(T) /\ Len(s) = n
<1>1. IsSequence(s) /\ Len(s) = n
  BY MadeSeq
<1>2. DOMAIN s = 1 .. n
  BY <1>1, SeqFacts
<1>3. ToSet(s) \subseteq T
  BY <1>2 DEF ToSet
<1> QED
  BY <1>1, <1>3, SeqMonotonic DEF IsSequence

Value(place, name, void) == [at |-> place, named |-> name # NoName, void |-> void]

\* The blocks and the instructions of a function are among what is numbered.
LEMMA CountableFacts ==
  ASSUME module \in Modules, NEW g \in DOMAIN Functions
  PROVE  LET f == Functions[g]
             values == Countable(f, Original(f))
         IN  /\ IsSequence(values)
             /\ \A b \in Blocks(g) :
                  /\ Value(<<b, 0>>, f.labels[b], FALSE) \in ToSet(values)
                  /\ \A i \in 1 .. Len(f.blocks[b]) :
                       Value(<<b, i>>, f.blocks[b][i].name, f.blocks[b][i].type = Void)
                         \in ToSet(values)
<1> DEFINE f == Functions[g]
           S == [at : Nat \X Nat, named : BOOLEAN, void : BOOLEAN]
           item(it) == IF it.kind = "inst"
                       THEN Value(it.at, f.blocks[it.at[1]][it.at[2]].name, it.type = Void)
                       ELSE Value(NoPlace, NoName, it.kind # "buffer")
           insts(b) == [i \in DOMAIN Original(f)[b] |-> item(Original(f)[b][i])]
           own(b) == <<Value(<<b, 0>>, f.labels[b], FALSE)>>
           row(b) == own(b) \o insts(b)
           rows == [b \in DOMAIN Original(f) |-> row(b)]
           args == [j \in DOMAIN f.args |-> Value(<<0, j>>, f.args[j].name, FALSE)]
           n == Len(f.blocks)
<1>1. Countable(f, Original(f)) = args \o FlattenSeq(rows)
  BY DEF Countable, Value
<1>2. Laid(f) /\ IsSequence(f.args) /\ n \in Nat /\ Blocks(g) = 1 .. n
  BY FunctionFacts DEF Laid, Blocks
<1>3. \A i, j \in Nat : \A name : Value(<<i, j>>, name, FALSE) \in S
  BY DEF Value
<1>31. \A i, j \in Nat : \A name, type : Value(<<i, j>>, name, type = Void) \in S
  <2> SUFFICES ASSUME NEW i \in Nat, NEW j \in Nat, NEW name, NEW type
               PROVE  Value(<<i, j>>, name, type = Void) \in S
    OBVIOUS
  <2>1. CASE type = Void
    BY <2>1 DEF Value
  <2>2. CASE type # Void
    BY <2>2 DEF Value
  <2> QED
    BY <2>1, <2>2
<1>4. ASSUME NEW b \in 1 .. n
      PROVE  /\ row(b) \in Seq(S) /\ Value(<<b, 0>>, f.labels[b], FALSE) \in ToSet(row(b))
             /\ \A i \in 1 .. Len(f.blocks[b]) :
                  Value(<<b, i>>, f.blocks[b][i].name, f.blocks[b][i].type = Void) \in ToSet(row(b))
  <2> DEFINE m == Len(f.blocks[b])
             blk == Original(f)[b]
             val(i) == Value(<<b, i>>, f.blocks[b][i].name, f.blocks[b][i].type = Void)
  <2>1. m \in Nat /\ b \in Nat
    BY <1>2 DEF Laid
  <2>2. /\ IsSequence(blk) /\ Len(blk) = m
        /\ \A i \in 1 .. m : blk[i].kind = "inst" /\ blk[i].at = <<b, i>>
    BY <1>2, OriginalFacts
  <2>3. DOMAIN blk = 1 .. m
    BY <2>2, SeqFacts
  <2>4. \A i \in 1 .. m : blk[i].type = f.blocks[b][i].type
    BY <1>2 DEF Original, Item, Laid
  <2>5. insts(b) = [i \in 1 .. m |-> insts(b)[i]] /\ \A i \in 1 .. m : insts(b)[i] = val(i)
    <3> HIDE DEF f, m, blk
    <3>1. insts(b) = [i \in 1 .. m |-> item(blk[i])]
      BY <2>3 DEF blk
    <3>2. \A i \in 1 .. m : item(blk[i]) = val(i)
      BY <2>2, <2>4 DEF blk
    <3> HIDE DEF val, item
    <3>3. \A i \in 1 .. m : insts(b)[i] = val(i)
      BY <3>1, <3>2
    <3> HIDE DEF insts
    <3> QED
      BY <3>1, <3>3
  <2>6. \A i \in 1 .. m : val(i) \in S
    <3>1. \A i \in 1 .. m : i \in Nat
      BY <2>1
    <3> HIDE DEF S
    <3> QED
      BY <1>31, <2>1, <3>1
  <2>7. own(b) \in Seq(S) /\ IsSequence(own(b)) /\ Value(<<b, 0>>, f.labels[b], FALSE) \in ToSet(own(b))
    <3>1. Value(<<b, 0>>, f.labels[b], FALSE) \in S
      BY <1>3, <2>1
    <3> DEFINE v == Value(<<b, 0>>, f.labels[b], FALSE)
    <3> HIDE DEF S, v
    <3>2. v \in S
      BY <3>1 DEF v
    <3>3. IsSequence(<<v>>) /\ ToSet(<<v>>) = {v}
      BY OneFacts
    <3>4. <<v>> \in Seq(S)
      BY <3>2
    <3> QED
      BY <3>3, <3>4 DEF v
  <2> HIDE DEF val, insts, own, S, m
  <2>8. insts(b) \in Seq(S) /\ Len(insts(b)) = m
    BY <2>1, <2>5, <2>6, MapSeq
  <2>9. IsSequence(insts(b)) /\ \A i \in 1 .. m : val(i) \in ToSet(insts(b))
    <3>1. IsSequence(insts(b))
      BY <2>8, SeqIntro
    <3> QED
      BY <2>5, <2>8, <3>1, SeqFacts
  <2>10. row(b) \in Seq(S) /\ ToSet(row(b)) = ToSet(own(b)) \cup ToSet(insts(b))
    <3>1. own(b) \o insts(b) \in Seq(S)
      BY <2>7, <2>8
    <3> QED
      BY <2>7, <2>9, <3>1, CatFacts
  <2> QED
    BY <2>7, <2>9, <2>10 DEF val, m
<1>5. DOMAIN Original(f) = 1 .. n
  BY <1>2 DEF Original, Laid
<1>6. rows = [b \in 1 .. n |-> rows[b]] /\ \A b \in 1 .. n : rows[b] = row(b)
  BY <1>5
<1>7. args \in Seq(S) /\ IsSequence(args)
  <2> DEFINE k == Len(f.args)
  <2>1. k \in Nat /\ DOMAIN f.args = 1 .. k
    <3> HIDE DEF f
    <3> QED
      BY <1>2, SeqFacts
  <2>2. args = [j \in 1 .. k |-> args[j]] /\ \A j \in 1 .. k : args[j] \in S
    <3>1. \A j \in 1 .. k : j \in Nat
      BY <2>1
    <3> HIDE DEF S, f
    <3>2. args = [j \in 1 .. k |-> Value(<<0, j>>, f.args[j].name, FALSE)]
      BY <2>1
    <3> HIDE DEF args
    <3>3. \A j \in 1 .. k : args[j] = Value(<<0, j>>, f.args[j].name, FALSE)
      BY <3>2
    <3> QED
      BY <1>3, <3>1, <3>2, <3>3
  <2> HIDE DEF args, S, k
  <2>3. args \in Seq(S)
    BY <2>1, <2>2, MapSeq
  <2> QED
    BY <2>3, SeqIntro
<1> HIDE DEF S, row, rows, args, n, f
<1>8. rows \in Seq(Seq(S)) /\ Len(rows) = n
  <2>1. \A b \in 1 .. n : rows[b] \in Seq(S)
    BY <1>4, <1>6
  <2> DEFINE T == Seq(S)
  <2> HIDE DEF T
  <2>2. rows \in Seq(T) /\ Len(rows) = n
    BY <1>2, <1>6, <2>1, MapSeq DEF T
  <2> QED
    BY <2>2 DEF T
<1>9. /\ FlattenSeq(rows) \in Seq(S)
      /\ \A b \in 1 .. n : ToSet(row(b)) \subseteq ToSet(FlattenSeq(rows))
  BY <1>6, <1>8, FlattenFacts
<1>10. IsSequence(FlattenSeq(rows))
  BY <1>9, SeqIntro
<1>11. /\ IsSequence(args \o FlattenSeq(rows))
       /\ \A b \in 1 .. n : ToSet(row(b)) \subseteq ToSet(args \o FlattenSeq(rows))
  BY <1>7, <1>9, <1>10, CatFacts
<1> QED
  BY <1>1, <1>2, <1>4, <1>11 DEF f


\* The numbers of the values of a function.
LEMMA SourceFacts ==
  ASSUME module \in Modules, NEW g \in DOMAIN Functions
  PROVE  LET f == Functions[g]
             source == Source(f)
         IN  /\ \A b \in Blocks(g) :
                  /\ f.labels[b] = NoName => <<b, 0>> \in DOMAIN source
                  /\ \A i \in 1 .. Len(f.blocks[b]) :
                       f.blocks[b][i].name = NoName /\ f.blocks[b][i].type # Void =>
                         <<b, i>> \in DOMAIN source
             /\ \A p \in DOMAIN source :
                  source[p] \in Nat /\ source[p] < Len(Countable(f, Original(f)))
             /\ \A p, q \in DOMAIN source : source[p] = source[q] => p = q
<1> DEFINE f == Functions[g]
           values == Countable(f, Original(f))
           source == processFunction(values)
<1>1. /\ IsSequence(values)
      /\ \A b \in Blocks(g) :
           /\ Value(<<b, 0>>, f.labels[b], FALSE) \in ToSet(values)
           /\ \A i \in 1 .. Len(f.blocks[b]) :
                Value(<<b, i>>, f.blocks[b][i].name, f.blocks[b][i].type = Void) \in ToSet(values)
  BY CountableFacts
<1> HIDE DEF values, f
<1>2. /\ \A v \in ToSet(values) : ~v.named /\ ~v.void => v.at \in DOMAIN source
      /\ \A p \in DOMAIN source : source[p] \in Nat /\ source[p] < Len(values)
      /\ \A p, q \in DOMAIN source : source[p] = source[q] => p = q
  BY <1>1, ProcessFacts
<1> HIDE DEF source
<1>3. ASSUME NEW b \in Blocks(g), f.labels[b] = NoName PROVE <<b, 0>> \in DOMAIN source
  <2> DEFINE v == Value(<<b, 0>>, f.labels[b], FALSE)
  <2>1. v.at = <<b, 0>> /\ ~v.named /\ ~v.void
    BY <1>3 DEF Value
  <2> QED
    BY <1>1, <1>2, <2>1
<1>4. ASSUME NEW b \in Blocks(g), NEW i \in 1 .. Len(f.blocks[b]),
             f.blocks[b][i].name = NoName, f.blocks[b][i].type # Void
      PROVE  <<b, i>> \in DOMAIN source
  <2> DEFINE v == Value(<<b, i>>, f.blocks[b][i].name, f.blocks[b][i].type = Void)
  <2>1. v.at = <<b, i>> /\ ~v.named /\ ~v.void
    BY <1>4 DEF Value
  <2> QED
    BY <1>1, <1>2, <2>1
<1> QED
  BY <1>2, <1>3, <1>4 DEF Source, source, values, f

\* Names of values and blocks, told by what the function was.
BlockId(f, b) ==
  IF f.labels[b] # NoName THEN namedId(f.labels[b], f.depth[b])
  ELSE slotId(Source(f)[<<b, 0>>], f.depth[b])

Shown(f, id, place) ==
  id[1] = "slot" => place \in DOMAIN Source(f) /\ id[2] = Source(f)[place]

Names(f, h) ==
  /\ h.kind \in {"header", "result"} => Shown(f, h.id, h.at)
  /\ h.kind = "header" => h.at[1] \in DOMAIN f.blocks /\ h.bbid = BlockId(f, h.at[1])
  /\ h.kind = "param" =>
       /\ Shown(f, h.id, h.operand.at)
       /\ h.operand.kind = "label" =>
            h.operand.at[1] \in DOMAIN f.blocks /\ h.id = BlockId(f, h.operand.at[1])
       /\ f.blocks[h.at[1]][h.at[2]].op = "phi" =>
            LET c == f.blocks[h.at[1]][h.at[2]].from[h.num]
            IN  c \in DOMAIN f.blocks /\ h.prev = BlockId(f, c)

\* Every hook names values and blocks as the function was before the pass.
IdInv ==
  \A g \in DOMAIN Functions : \A b \in Blocks(g) : \A h \in ToSet(code[g][b]) :
    IsHook(h) => Names(Functions[g], h)

LEMMA Tags ==
  ASSUME NEW x, NEW y
  PROVE  /\ Named(x)[1] = "name" /\ Numbered(x)[1] = "slot" /\ Numbered(x)[2] = x
         /\ Artificial(x, y)[1] = "inst" /\ NoId[1] = "name"
         /\ namedId(x, y)[1] = "label" /\ slotId(x, y)[1] = "block"
         /\ namedId(x, y)[2] = x /\ slotId(x, y)[2] = Leading(x, 6)
BY DEF Named, Numbered, Artificial, NoId, namedId, slotId, kMaxLoopDepthChars

LEMMA SlotFacts ==
  ASSUME NumberInv, Rewriting, NEW p
  PROVE  Slot(p) = IF p \in DOMAIN Source(Function) THEN Source(Function)[p] ELSE -1
<1>1. Tracker.fMap = Source(Function)
  BY TrackerSource
<1> QED
  BY <1>1 DEF Slot, getLocalSlot

LEMMA BlockIdFacts ==
  ASSUME module \in Modules, fn \in DOMAIN Functions, NumberInv, Rewriting, NEW b \in Blocks(fn)
  PROVE  blockId(b) = BlockId(Function, b) /\ blockId(b)[1] # "slot"
<1>1. Function = Functions[fn]
  BY DEF Function, Functions
<1>2. CASE Function.labels[b] # NoName
  <2>1. blockId(b) = namedId(Function.labels[b], Function.depth[b])
    BY <1>2 DEF blockId
  <2>2. blockId(b) = BlockId(Function, b)
    BY <1>2, <2>1 DEF BlockId
  <2>3. namedId(Function.labels[b], Function.depth[b])[1] = "label"
    BY Tags
  <2> QED
    BY <2>1, <2>2, <2>3
<1>3. CASE Function.labels[b] = NoName
  <2>1. <<b, 0>> \in DOMAIN Source(Function)
    BY <1>1, <1>3, SourceFacts
  <2>2. Slot(<<b, 0>>) = Source(Function)[<<b, 0>>]
    BY <2>1, SlotFacts
  <2>3. blockId(b) = slotId(Source(Function)[<<b, 0>>], Function.depth[b])
    BY <1>3, <2>2 DEF blockId
  <2>4. blockId(b) = BlockId(Function, b)
    BY <1>3, <2>3 DEF BlockId
  <2>5. slotId(Source(Function)[<<b, 0>>], Function.depth[b])[1] = "block"
    BY Tags
  <2> QED
    BY <2>3, <2>4, <2>5
<1> QED
  BY <1>2, <1>3

\* A number in a header is the one the instruction has.
LEMMA InstIdFacts ==
  ASSUME NumberInv, Rewriting, NEW place
  PROVE  Shown(Function, getInstId(place), place)
<1>1. CASE IsArtificial(place)
  <2>1. getInstId(place)[1] = "inst"
    BY <1>1, Tags DEF getInstId
  <2> QED
    BY <2>1 DEF Shown
<1>2. CASE ~IsArtificial(place)
  <2>1. getInstId(place) = operandId(place) /\ operandId(place) # Numbered(-1)
    BY <1>2 DEF getInstId, IsArtificial
  <2>2. CASE \E name : operandId(place) = Named(name)
    BY <2>1, <2>2, Tags DEF Shown
  <2>3. CASE ~\E name : operandId(place) = Named(name)
    <3>1. operandId(place) = Numbered(Slot(place))
      BY <2>3 DEF operandId
    <3>2. place \in DOMAIN Source(Function) /\ Slot(place) = Source(Function)[place]
      BY <2>1, <3>1, SlotFacts
    <3> QED
      BY <2>1, <3>1, <3>2, Tags DEF Shown
  <2> QED
    BY <2>2, <2>3
<1> QED
  BY <1>1, <1>2

\* An operand without a name has a number.
LEMMA OperandIdFacts ==
  ASSUME module \in Modules, fn \in DOMAIN Functions, NumberInv, Rewriting,
         NEW b, NEW i, NEW o, OperandOK(Function, b, i, o)
  PROVE  /\ Shown(Function, operandName(o), o.at)
         /\ o.kind = "label" =>
              o.at[1] \in Blocks(fn) /\ operandName(o) = BlockId(Function, o.at[1])
<1>1. Function = Functions[fn] /\ Laid(Function) /\ Blocks(fn) = 1 .. Len(Function.blocks)
  <2>1. Function = Functions[fn]
    BY DEF Function, Functions
  <2> QED
    BY <2>1, FunctionFacts DEF Blocks
<1>2. DOMAIN Function.blocks = Blocks(fn)
  BY <1>1 DEF Laid
<1>3. CASE o.kind = "inst"
  <2> DEFINE c == o.at[1]
             j == o.at[2]
             p == o.at
  <2>1. /\ c \in Blocks(fn) /\ j \in DOMAIN Function.blocks[c] /\ p = <<c, j>>
        /\ o.type = Function.blocks[c][j].type /\ o.type # Void
    BY <1>2, <1>3 DEF OperandOK, StringKinds
  <2>2. operandName(o) = operandId(p)
    BY <1>3 DEF operandName
  <2>3. j \in 1 .. Len(Function.blocks[c])
    BY <1>1, <2>1 DEF Laid
  <2> HIDE DEF p, c, j
  <2>4. CASE \E name : operandId(p) = Named(name)
    <3>1. operandName(o)[1] # "slot"
      BY <2>2, <2>4, Tags
    <3> QED
      BY <1>3, <3>1 DEF Shown
  <2>5. CASE ~\E name : operandId(p) = Named(name)
    <3>1. operandId(p) = Numbered(Slot(p)) /\ getValueName(asOperand(p)) = NoName
      BY <2>5 DEF operandId
    <3>2. ownName(Function, asOperand(p)) = NoName
      BY <3>1 DEF getValueName, nameIn
    <3>3. asOperand(p).kind = "inst" /\ asOperand(p).at = p
      BY DEF asOperand, Operand
    <3>4. p[1] = c /\ p[2] = j
      BY <2>1
    <3>5. Function.blocks[c][j].name = NoName
      BY <3>2, <3>3, <3>4 DEF ownName
    <3>6. p \in DOMAIN Source(Function)
      BY <1>1, <2>1, <2>3, <3>5, SourceFacts
    <3>7. Slot(p) = Source(Function)[p]
      BY <3>6, SlotFacts
    <3>8. Shown(Function, operandName(o), p)
      BY <2>2, <3>1, <3>6, <3>7, Tags DEF Shown
    <3> QED
      BY <1>3, <3>8 DEF p
  <2> QED
    BY <2>4, <2>5
<1>4. CASE o.kind = "label"
  <2>1. PICK c \in Blocks(fn) : o.at = <<c, 0>>
    BY <1>2, <1>4 DEF OperandOK, StringKinds
  <2>2. o.at[1] = c /\ operandName(o) = blockId(c)
    BY <1>4, <2>1 DEF operandName
  <2>3. blockId(c) = BlockId(Function, c) /\ blockId(c)[1] # "slot"
    BY BlockIdFacts
  <2> QED
    BY <2>2, <2>3 DEF Shown
<1>5. CASE o.kind \notin {"inst", "label"}
  <2>1. operandName(o) = Named(getValueName(o))
    BY <1>5 DEF operandName
  <2> QED
    BY <1>5, <2>1, Tags DEF Shown
<1> QED
  BY <1>3, <1>4, <1>5


LEMMA HookNames ==
  ASSUME module \in Modules, fn \in DOMAIN Functions, NumberInv, Rewriting,
         NEW b, NEW i, IsPlace(b, i), NEW h, HookOf(<<b, i>>, h)
  PROVE  Names(Function, h)
<1> DEFINE f == Function
           p == <<b, i>>
           inst == Inst(p)
<1>1. /\ b \in Nat \ {0} /\ p[1] = b /\ p[2] = i /\ inst = f.blocks[b][i]
      /\ IsSequence(inst.operands) /\ InstOK(module, f, b, i) /\ b \in Blocks(fn)
  BY PlaceFacts, SomePlace DEF IsPlace
<1>2. DOMAIN f.blocks = Blocks(fn)
  <2>1. f = Functions[fn]
    BY DEF Function, Functions
  <2> QED
    BY <2>1, ModuleFacts
<1>3. CASE h = HeaderItem(p)
  <2>1. h.kind = "header" /\ h.at = p /\ h.id = getInstId(p) /\ h.bbid = blockId(b)
    BY <1>1, <1>3 DEF HeaderItem, Item
  <2>2. Shown(f, getInstId(p), p)
    BY InstIdFacts
  <2>3. blockId(b) = BlockId(f, b)
    BY <1>1, BlockIdFacts
  <2> HIDE DEF p, f, inst
  <2>4. h.at[1] \in DOMAIN f.blocks /\ h.bbid = BlockId(f, h.at[1])
    BY <1>1, <1>2, <2>1, <2>3
  <2>5. Shown(f, h.id, h.at)
    BY <2>1, <2>2
  <2>6. h.kind # "param"
    BY <2>1
  <2> QED
    BY <2>4, <2>5, <2>6 DEF Names, f
<1>4. CASE h = StatusItem(p)
  <2>1. h.kind = "status"
    BY <1>4 DEF StatusItem, Item
  <2> QED
    BY <2>1 DEF Names
<1>5. CASE h = CalleeLine(p)
  <2>1. h.kind = "callee"
    BY <1>5, CalleeFields
  <2> QED
    BY <2>1 DEF Names
<1>6. CASE \E j \in 1 .. Len(inst.operands) : h = ParamLine(p, j)
  <2>1. PICK j \in 1 .. Len(inst.operands) : h = ParamLine(p, j)
    BY <1>6
  <2> DEFINE o == inst.operands[j]
  <2>2. h.kind = "param" /\ h.at = p /\ h.operand = o
    BY <2>1, ParamFields
  <2>3. /\ h.id = operandName(o) /\ h.num = j
        /\ h.prev = IF inst.op = "phi" THEN blockId(inst.from[j]) ELSE NoId
    <3> HIDE DEF p, inst
    <3> QED
      BY <2>1 DEF ParamLine, Line, Item, inst
  <2>4. OperandOK(f, b, i, o)
    <3>1. \A x \in ToSet(inst.operands) : OperandOK(f, b, i, x)
      BY <1>1 DEF InstOK
    <3> HIDE DEF inst
    <3> QED
      BY <1>1, <3>1, SeqFacts
  <2> HIDE DEF o, p, f, inst
  <2>5. /\ Shown(f, h.id, h.operand.at)
        /\ h.operand.kind = "label" =>
             h.operand.at[1] \in Blocks(fn) /\ h.id = BlockId(f, h.operand.at[1])
    BY <2>2, <2>3, <2>4, OperandIdFacts DEF f
  <2>6. ASSUME inst.op = "phi"
        PROVE  inst.from[j] \in Blocks(fn) /\ h.prev = BlockId(f, inst.from[j])
    <3>1. /\ Len(inst.from) = Len(inst.operands) /\ IsSequence(inst.from)
          /\ ToSet(inst.from) \subseteq Blocks(fn)
      BY <1>1, <1>2, <2>6 DEF InstOK
    <3>2. inst.from[j] \in Blocks(fn)
      BY <3>1, SeqFacts
    <3>3. h.prev = blockId(inst.from[j])
      BY <2>3, <2>6
    <3> QED
      BY <3>2, <3>3, BlockIdFacts DEF f
  <2>7. /\ f.blocks[h.at[1]][h.at[2]] = inst /\ h.num = j
        /\ h.kind # "header" /\ h.kind # "result"
    BY <1>1, <2>2, <2>3
  <2>8. f.blocks[h.at[1]][h.at[2]].op = "phi" =>
          LET c == f.blocks[h.at[1]][h.at[2]].from[h.num]
          IN  c \in DOMAIN f.blocks /\ h.prev = BlockId(f, c)
    BY <1>2, <2>6, <2>7
  <2> QED
    BY <1>2, <2>5, <2>7, <2>8 DEF Names, f
<1>7. CASE h = ResultLine(p)
  <2> DEFINE id == IF Renames(p) THEN Named(getValueName(inst.operands[1])) ELSE getInstId(p)
  <2>1. h.kind = "result" /\ h.at = p /\ h.id = id
    BY <1>7 DEF ResultLine, Line, Item
  <2>2. Shown(f, getInstId(p), p)
    BY InstIdFacts
  <2>3. Shown(f, id, p)
    BY <2>2, Tags DEF Shown
  <2> HIDE DEF id, p
  <2> QED
    BY <2>1, <2>3 DEF Names
<1> HIDE DEF f
<1> QED
  BY <1>3, <1>4, <1>5, <1>6, <1>7 DEF HookOf, f

LEMMA PassedNames ==
  ASSUME NEW f, NEW h, NEW x, NEW buffers, IsItem(h), Passes(h, x, buffers), Names(f, h)
  PROVE  Names(f, x)
<1>1. /\ x.kind = h.kind /\ x.at = h.at /\ x.operand = h.operand
      /\ x.id = h.id /\ x.bbid = h.bbid /\ x.prev = h.prev /\ x.num = h.num
  BY DEF Passes, IsItem, ItemFields
<1> QED
  BY <1>1 DEF Names

LEMMA MadeNames ==
  ASSUME module \in Modules, fn \in DOMAIN Functions, NumberInv, Rewriting,
         NEW h, NEW buffers, Made(h, buffers)
  PROVE  Names(Function, h)
<1>1. PICK h0 : /\ IsItem(h0) /\ Passes(h0, h, buffers)
                /\ HookAtEntry(h0) \/ \E b, i : Reached(b, i) /\ HookOf(<<b, i>>, h0)
  BY DEF Made
<1>2. CASE HookAtEntry(h0)
  <2>1. h0.kind \in {"status", "entry", "arg"}
    BY <1>2, EntryFields DEF EntryHook
  <2>2. Names(Function, h0)
    BY <2>1 DEF Names
  <2> QED
    BY <1>1, <2>2, PassedNames
<1>3. CASE \E b, i : Reached(b, i) /\ HookOf(<<b, i>>, h0)
  BY <1>1, <1>3, HookNames, PassedNames DEF Reached
<1> QED
  BY <1>1, <1>2, <1>3

\* Every hook names values and blocks as the function was before the pass.
THEOREM IdInvariant == Spec => []IdInv
<1>1. Init => IdInv
  <2> SUFFICES ASSUME Init, NEW g \in DOMAIN Functions, NEW b \in Blocks(g),
                      NEW h \in ToSet(code[g][b]), IsHook(h)
               PROVE  FALSE
    BY DEF IdInv
  <2>1. module \in Modules /\ code[g] = Original(Functions[g])
    BY DEF Init, Functions
  <2>2. Laid(Functions[g]) /\ b \in 1 .. Len(Functions[g].blocks)
    BY <2>1, FunctionFacts DEF Blocks
  <2>3. h \in ToSet(Original(Functions[g])[b])
    BY <2>1
  <2> QED
    BY <2>2, <2>3, NoHooks
<1>2. PassInv /\ NumberInv /\ IdInv /\ [Next]_vars => IdInv'
  <2> SUFFICES ASSUME PassInv, NumberInv, IdInv, [Next]_vars PROVE IdInv'
    OBVIOUS
  <2>1. module' = module /\ Functions' = Functions /\ module \in Modules
        /\ Function = Functions[fn]
    <3>1. module' = module
      BY DEF Next, DoInitialization, RunOnFunction, SkipBlock, RunOnBasicBlock, SkipInstruction,
             TraceInstruction, RunOnFunctionEntry, Done, Stopped, vars, unchangedModule
    <3> QED
      BY <3>1 DEF Functions, Function, PassInv, WalkInv
  <2>2. ASSUME NEW g \in DOMAIN Functions, NEW b \in Blocks(g), NEW h \in ToSet(code'[g][b]),
               IsHook(h)
        PROVE  Names(Functions[g], h)
    <3>1. CASE h \in ToSet(code[g][b])
      BY <2>2, <3>1 DEF IdInv
    <3>2. CASE g = fn /\ Rewriting /\ Made(h, vector_buffers')
      BY <2>1, <3>2, MadeNames
    <3> QED
      BY <2>2, <3>1, <3>2, NextHooks
  <2>3. \A g : Blocks(g)' = Blocks(g)
    BY <2>1 DEF Blocks
  <2> QED
    BY <2>1, <2>2, <2>3 DEF IdInv
<1> QED
  BY <1>1, <1>2, PassInvariant, NumberInvariant, PTL DEF Spec


----------------------------------------------------------------------------
(* Numbers that are not cut off.                                           *)

LEMMA Powers ==
  /\ TenTo[1] = 10 /\ TenTo[2] = 100 /\ TenTo[3] = 1000 /\ TenTo[4] = 10000
  /\ TenTo[5] = 100000 /\ TenTo[6] = 1000000 /\ TenTo[7] = 10000000
  /\ TenTo[8] = 100000000 /\ TenTo[9] = 1000000000
BY DEF TenTo

LEMMA DigitsFacts ==
  ASSUME NEW n \in Nat
  PROVE  /\ Digits(n) \in 1 .. 10
         /\ n < 100 => Digits(n) <= 2
         /\ n < 1000000 => Digits(n) <= 6
<1> DEFINE P(k) == (k = 10 \/ n < TenTo[k]) /\ (k = 1 \/ n >= TenTo[k - 1])
<1>1. Digits(n) = CHOOSE k \in 1 .. 10 : P(k)
  BY DEF Digits
<1>2. /\ P(1) <=> n < 10
      /\ P(2) <=> n < 100 /\ n >= 10
      /\ P(3) <=> n < 1000 /\ n >= 100
      /\ P(4) <=> n < 10000 /\ n >= 1000
      /\ P(5) <=> n < 100000 /\ n >= 10000
      /\ P(6) <=> n < 1000000 /\ n >= 100000
      /\ P(7) <=> n < 10000000 /\ n >= 1000000
      /\ P(8) <=> n < 100000000 /\ n >= 10000000
      /\ P(9) <=> n < 1000000000 /\ n >= 100000000
      /\ P(10) <=> n >= 1000000000
  BY Powers
<1> HIDE DEF P
<1>3. \E k \in 1 .. 10 : P(k)
  <2>1. P(1) \/ P(2) \/ P(3) \/ P(4) \/ P(5) \/ P(6) \/ P(7) \/ P(8) \/ P(9) \/ P(10)
    BY <1>2
  <2> QED
    BY <2>1
<1>4. PICK k \in 1 .. 10 : P(k) /\ Digits(n) = k
  BY <1>1, <1>3
<1>5. k \in {1, 2, 3, 4, 5, 6, 7, 8, 9, 10}
  OBVIOUS
<1>6. n < 100 => k <= 2
  BY <1>2, <1>4, <1>5
<1>7. n < 1000000 => k <= 6
  BY <1>2, <1>4, <1>5
<1> QED
  BY <1>4, <1>6, <1>7

\* A depth is shown if it fits in the id of its block.
LEMMA DepthShown ==
  ASSUME NEW f, NEW b, f.depth[b] \in Nat, f.labels[b] = NoName =>
           Source(f)[<<b, 0>>] \in Nat /\ Source(f)[<<b, 0>>] < 1000000,
         DepthFits(f, b, BlockId(f, b))
  PROVE  BlockId(f, b)[3] = f.depth[b]
<1> DEFINE d == f.depth[b]
           slot == Source(f)[<<b, 0>>]
<1>1. d \in Nat /\ Digits(d) \in 1 .. 10
  BY DigitsFacts
<1>2. CASE f.labels[b] # NoName
  <2>1. d <= 99
    BY <1>2 DEF DepthFits
  <2>2. Digits(d) <= 2
    <3>1. d < 100
      BY <1>1, <2>1
    <3> QED
      BY <1>1, <3>1, DigitsFacts
  <2>3. BlockId(f, b) = <<"label", f.labels[b], Leading(d, 3 - 1)>>
    BY <1>2 DEF BlockId, namedId, kMaxLoopDepthChars
  <2>4. Leading(d, 3 - 1) = d
    BY <2>2 DEF Leading
  <2> QED
    BY <2>3, <2>4
<1>3. CASE f.labels[b] = NoName
  <2> DEFINE room == 2 * 3 - 1 - Digits(slot)
  <2>1. slot \in Nat /\ Digits(slot) \in 1 .. 10 /\ Digits(slot) <= 6
    BY <1>3, DigitsFacts
  <2>2. BlockId(f, b) = <<"block", Leading(slot, 2 * 3),
                          IF room > 0 THEN Leading(d, room) ELSE 0>>
    BY <1>3 DEF BlockId, slotId, kMaxLoopDepthChars
  <2>3. Leading(slot, 2 * 3) = slot
    BY <2>1 DEF Leading
  <2>4. Digits(slot) + 1 + Digits(d) <= 6
    <3>1. BlockId(f, b)[2] = slot
      BY <2>2, <2>3
    <3> QED
      BY <1>3, <3>1 DEF DepthFits
  <2> HIDE DEF d, slot
  <2>5. room > 0 /\ Digits(d) <= room
    BY <1>1, <2>1, <2>4
  <2> HIDE DEF room
  <2>6. Leading(d, room) = d
    BY <2>5 DEF Leading
  <2> QED
    BY <2>2, <2>5, <2>6 DEF d
<1> QED
  BY <1>2, <1>3

LEMMA SmallSource ==
  ASSUME FewValues, module \in Modules, NEW g \in DOMAIN Functions, NEW b \in Blocks(g),
         Functions[g].labels[b] = NoName
  PROVE  LET slot == Source(Functions[g])[<<b, 0>>]
         IN  /\ <<b, 0>> \in DOMAIN Source(Functions[g])
             /\ slot \in Nat /\ slot < 1000000 /\ Leading(slot, 6) = slot
<1> DEFINE f == Functions[g]
           slot == Source(f)[<<b, 0>>]
           N == Len(Countable(f, Original(f)))
<1>1. <<b, 0>> \in DOMAIN Source(f) /\ slot \in Nat /\ slot < N
  BY SourceFacts
<1>2. N <= 1000000 /\ N \in Nat
  <2>1. f \in ToSet(module.functions)
    BY FunctionFacts DEF Functions
  <2>2. IsSequence(Countable(f, Original(f)))
    BY CountableFacts
  <2>3. N \in Nat
    BY <2>2, SeqFacts
  <2> QED
    BY <2>1, <2>3 DEF FewValues
<1> HIDE DEF f, N
<1>3. slot < 1000000
  BY <1>1, <1>2
<1> HIDE DEF slot
<1>4. Digits(slot) <= 6
  BY <1>1, <1>3, DigitsFacts
<1>5. Leading(slot, 6) = slot
  BY <1>4 DEF Leading
<1> QED
  BY <1>1, <1>3, <1>5 DEF f, slot

LEMMA WrittenNames ==
  ASSUME PassInv, IdInv, NEW g \in Written, NEW h \in Items(g), IsHook(h)
  PROVE  Names(Functions[g], h)
<1>1. g \in DOMAIN Functions /\ module \in Modules
  BY DEF Written, PassInv, WalkInv
<1>2. DOMAIN Functions[g].blocks = Blocks(g)
  BY <1>1, ModuleFacts
<1>3. DOMAIN code[g] = Blocks(g)
  <2>1. code[g] = [b \in DOMAIN Functions[g].blocks |-> code[g][b]]
    BY <1>1 DEF PassInv, LayoutInv
  <2> QED
    BY <1>2, <2>1
<1>4. PICK b \in Blocks(g) : h \in ToSet(code[g][b])
  BY <1>3 DEF Items
<1> QED
  BY <1>1, <1>4 DEF IdInv

\* If no function has a million values, the numbers in a trace are those of the
\* function as it was before the pass: inserting buffers, and the hooks of other
\* functions, does not shift them.
THEOREM SlotsCorrect ==
  ASSUME FewValues
  PROVE  Spec => []SlotsOfSource
<1>1. PassInv /\ IdInv => SlotsOfSource
  <2> SUFFICES ASSUME PassInv, IdInv, NEW g \in Written, NEW it \in Items(g)
               PROVE  LET source == Source(Functions[g])
                          Right(id, place) ==
                            id[1] = "slot" => place \in DOMAIN source /\ id[2] = source[place]
                      IN  /\ it.kind \in {"header", "result"} => Right(it.id, it.at)
                          /\ it.kind = "param" => Right(it.id, it.operand.at)
                          /\ it.kind = "header" /\ Functions[g].labels[it.at[1]] = NoName =>
                               it.bbid[2] = source[<<it.at[1], 0>>]
    BY DEF SlotsOfSource, Source
  <2> DEFINE f == Functions[g]
  <2>1. g \in DOMAIN Functions /\ module \in Modules
    BY DEF Written, PassInv, WalkInv
  <2>2. it.kind \in {"header", "result", "param"} => Names(f, it)
    <3>1. it.kind \in {"header", "result", "param"} => IsHook(it)
      BY DEF IsHook
    <3> QED
      BY <3>1, WrittenNames
  <2>3. it.kind \in {"header", "result"} => Shown(f, it.id, it.at)
    BY <2>2 DEF Names
  <2>4. it.kind = "param" => Shown(f, it.id, it.operand.at)
    BY <2>2 DEF Names
  <2>5. ASSUME it.kind = "header", f.labels[it.at[1]] = NoName
        PROVE  it.bbid[2] = Source(f)[<<it.at[1], 0>>]
    <3> DEFINE b == it.at[1]
    <3>1. b \in DOMAIN f.blocks /\ it.bbid = BlockId(f, b)
      BY <2>2, <2>5 DEF Names
    <3>2. b \in Blocks(g)
      BY <2>1, <3>1, ModuleFacts
    <3> HIDE DEF b, f
    <3>3. it.bbid = slotId(Source(f)[<<b, 0>>], f.depth[b])
      BY <2>5, <3>1 DEF BlockId, b
    <3>4. Leading(Source(f)[<<b, 0>>], 6) = Source(f)[<<b, 0>>]
      BY <2>1, <2>5, <3>2, SmallSource DEF f, b
    <3> QED
      BY <3>3, <3>4, Tags DEF b
  <2> QED
    BY <2>3, <2>4, <2>5 DEF Shown
<1> QED
  BY <1>1, PassInvariant, IdInvariant, PTL


\* Blocks that have a name have different ones.
LEMMA LabelsDiffer ==
  ASSUME module \in Modules, NEW g \in DOMAIN Functions, NEW b \in Blocks(g), NEW c \in Blocks(g),
         Functions[g].labels[b] = Functions[g].labels[c], Functions[g].labels[b] # NoName
  PROVE  b = c
<1> DEFINE f == Functions[g]
           insts == FlattenSeq(f.blocks)
           x == [i \in DOMAIN insts |-> insts[i].name]
           y == [j \in DOMAIN f.args |-> f.args[j].name]
           names == f.labels \o x \o y
           n == Len(f.blocks)
<1>1. f \in ToSet(module.functions) /\ Laid(f) /\ Blocks(g) = 1 .. n /\ n \in Nat
  BY FunctionFacts DEF Functions, Laid, Blocks
<1> HIDE DEF f
<1>2. /\ IsSequence(f.blocks) /\ IsSequence(f.labels) /\ Len(f.labels) = n /\ IsSequence(f.args)
      /\ \A k \in DOMAIN f.blocks : IsSequence(f.blocks[k])
  BY <1>1, ModulesAssumption
<1>3. \A i, j \in DOMAIN names : names[i] = names[j] => i = j \/ names[i] = NoName
  BY <1>1, NamesAssumption
<1>4. IsSequence(insts)
  BY InstsFacts DEF f
<1>5. IsSequence(x)
  <2> DEFINE k == Len(insts)
  <2> HIDE DEF insts
  <2>1. k \in Nat /\ DOMAIN insts = 1 .. k
    BY <1>4, SeqFacts
  <2>2. x = [i \in 1 .. k |-> x[i]]
    BY <2>1
  <2> HIDE DEF x, k
  <2> QED
    BY <2>1, <2>2, MadeSeq
<1>6. IsSequence(y)
  <2> DEFINE k == Len(f.args)
  <2>1. k \in Nat /\ DOMAIN f.args = 1 .. k
    BY <1>2, SeqFacts
  <2>2. y = [i \in 1 .. k |-> y[i]]
    BY <2>1
  <2> HIDE DEF y, k
  <2> QED
    BY <2>1, <2>2, MadeSeq
<1> HIDE DEF x, y, n
<1>7. /\ IsSequence(f.labels \o x) /\ Len(f.labels \o x) = n + Len(x)
      /\ \A i \in 1 .. n : (f.labels \o x)[i] = f.labels[i]
  BY <1>2, <1>5, CatFacts
<1>8. Len(x) \in Nat /\ Len(y) \in Nat
  BY <1>5, <1>6, SeqFacts
<1>9. /\ IsSequence(names) /\ Len(names) = n + Len(x) + Len(y)
      /\ \A i \in 1 .. n + Len(x) : names[i] = (f.labels \o x)[i]
  <2> DEFINE z == f.labels \o x
  <2> HIDE DEF z
  <2>1. /\ IsSequence(z \o y) /\ Len(z \o y) = Len(z) + Len(y)
        /\ \A i \in 1 .. Len(z) : (z \o y)[i] = z[i]
    BY <1>6, <1>7, CatFacts DEF z
  <2>2. Len(z) = n + Len(x)
    BY <1>7 DEF z
  <2> QED
    BY <2>1, <2>2 DEF z
<1> HIDE DEF names
<1>10. DOMAIN names = 1 .. n + Len(x) + Len(y)
  BY <1>9, SeqFacts
<1>11. \A i \in 1 .. n : i \in DOMAIN names /\ i \in 1 .. n + Len(x)
  BY <1>1, <1>8, <1>10
<1>12. \A i \in 1 .. n : names[i] = f.labels[i]
  BY <1>7, <1>9, <1>11
<1> QED
  BY <1>1, <1>3, <1>11, <1>12 DEF f

\* Every block has a depth.
LEMMA DepthFacts ==
  ASSUME module \in Modules, NEW g \in DOMAIN Functions, NEW b \in Blocks(g)
  PROVE  Functions[g].depth[b] \in Nat
<1> DEFINE f == Functions[g]
<1>1. f \in ToSet(module.functions) /\ Blocks(g) = 1 .. Len(f.blocks)
  BY FunctionFacts DEF Functions, Blocks
<1> HIDE DEF f
<1>2. IsSequence(f.depth) /\ Len(f.depth) = Len(f.blocks) /\ ToSet(f.depth) \subseteq Nat
  BY <1>1, ModulesAssumption
<1>3. f.depth[b] \in ToSet(f.depth)
  BY <1>1, <1>2, SeqFacts
<1> QED
  BY <1>2, <1>3 DEF f

\* No two blocks of a function have the same id.
LEMMA BlockIdsDiffer ==
  ASSUME FewValues, module \in Modules, NEW g \in DOMAIN Functions, NEW b \in Blocks(g),
         NEW c \in Blocks(g), BlockId(Functions[g], b) = BlockId(Functions[g], c)
  PROVE  b = c
<1> DEFINE f == Functions[g]
           name(x) == f.labels[x]
           slot(x) == Source(f)[<<x, 0>>]
<1> HIDE DEF f
<1>1. ASSUME NEW x \in Blocks(g), name(x) # NoName
      PROVE  BlockId(f, x)[1] = "label" /\ BlockId(f, x)[2] = name(x)
  <2>1. BlockId(f, x) = namedId(name(x), f.depth[x])
    BY <1>1 DEF BlockId
  <2> HIDE DEF name
  <2> QED
    BY <2>1, Tags
<1>2. ASSUME NEW x \in Blocks(g), name(x) = NoName
      PROVE  /\ BlockId(f, x)[1] = "block" /\ BlockId(f, x)[2] = slot(x)
             /\ <<x, 0>> \in DOMAIN Source(f)
  <2>1. BlockId(f, x) = slotId(slot(x), f.depth[x])
    BY <1>2 DEF BlockId
  <2>2. <<x, 0>> \in DOMAIN Source(f) /\ Leading(slot(x), 6) = slot(x)
    BY <1>2, SmallSource DEF f
  <2> HIDE DEF slot
  <2> QED
    BY <2>1, <2>2, Tags
<1>3. BlockId(f, b) = BlockId(f, c)
  BY DEF f
<1>4. CASE name(b) # NoName
  <2>1. name(c) # NoName
    BY <1>1, <1>2, <1>3, <1>4
  <2>2. name(b) = name(c)
    BY <1>1, <1>3, <1>4, <2>1
  <2> QED
    BY <1>4, <2>2, LabelsDiffer DEF f
<1>5. CASE name(b) = NoName
  <2>1. name(c) = NoName
    BY <1>1, <1>2, <1>3, <1>5
  <2>2. /\ <<b, 0>> \in DOMAIN Source(f) /\ <<c, 0>> \in DOMAIN Source(f)
        /\ slot(b) = slot(c)
    BY <1>2, <1>3, <1>5, <2>1
  <2>3. <<b, 0>> = <<c, 0>>
    BY <2>2, SourceFacts DEF f
  <2> QED
    BY <2>3
<1> QED
  BY <1>4, <1>5

\* If no function has a million values, a block goes by the same id wherever a trace
\* speaks of it, no other block has that id, and the id shows the loop depth if it
\* fits.
THEOREM BlocksCorrect ==
  ASSUME FewValues
  PROVE  Spec => []BlocksNamed
<1>1. PassInv /\ IdInv => BlocksNamed
  <2> SUFFICES ASSUME PassInv, IdInv, NEW g \in Written
               PROVE  LET f == Functions[g]
                          params == OfKind(g, "param")
                          ids == {<<h.at[1], h.bbid>> : h \in OfKind(g, "header")}
                            \cup {<<p.operand.at[1], p.id>> :
                                    p \in {q \in params : q.operand.kind = "label"}}
                            \cup {<<InstOf(g, p.at).from[p.num], p.prev>> :
                                    p \in {q \in params : InstOf(g, q.at).op = "phi"}}
                      IN  /\ \A x, y \in ids : x[1] = y[1] <=> x[2] = y[2]
                          /\ \A x \in ids : DepthFits(f, x[1], x[2]) => x[2][3] = f.depth[x[1]]
    BY DEF BlocksNamed
  <2> DEFINE f == Functions[g]
             params == OfKind(g, "param")
             inHeaders == {<<h.at[1], h.bbid>> : h \in OfKind(g, "header")}
             inLabels == {<<p.operand.at[1], p.id>> :
                            p \in {q \in params : q.operand.kind = "label"}}
             inPhis == {<<InstOf(g, p.at).from[p.num], p.prev>> :
                          p \in {q \in params : InstOf(g, q.at).op = "phi"}}
             ids == inHeaders \cup inLabels \cup inPhis
  <2>1. g \in DOMAIN Functions /\ module \in Modules
    BY DEF Written, PassInv, WalkInv
  <2>2. DOMAIN f.blocks = Blocks(g)
    BY <2>1, ModuleFacts
  <2>3. \A h \in OfKind(g, "header") \cup params : Names(f, h)
    <3>1. \A h \in OfKind(g, "header") \cup params : h \in Items(g) /\ IsHook(h)
      BY DEF OfKind, IsHook
    <3> QED
      BY <3>1, WrittenNames
  <2>4. \A p : InstOf(g, p) = f.blocks[p[1]][p[2]]
    BY DEF InstOf
  <2> HIDE DEF f
  <2>5. ASSUME NEW x \in ids PROVE \E b \in Blocks(g) : x = <<b, BlockId(f, b)>>
    <3>1. CASE x \in inHeaders
      <4>1. PICK h \in OfKind(g, "header") : x = <<h.at[1], h.bbid>>
        BY <3>1
      <4>2. h.kind = "header" /\ Names(f, h)
        BY <2>3 DEF OfKind
      <4>3. h.at[1] \in Blocks(g) /\ h.bbid = BlockId(f, h.at[1])
        BY <2>2, <4>2 DEF Names
      <4> QED
        BY <4>1, <4>3
    <3>2. CASE x \in inLabels
      <4>1. PICK p \in params : p.operand.kind = "label" /\ x = <<p.operand.at[1], p.id>>
        BY <3>2
      <4>2. p.kind = "param" /\ Names(f, p)
        BY <2>3 DEF OfKind
      <4>3. p.operand.at[1] \in Blocks(g) /\ p.id = BlockId(f, p.operand.at[1])
        BY <2>2, <4>1, <4>2 DEF Names
      <4> QED
        BY <4>1, <4>3
    <3>3. CASE x \in inPhis
      <4>1. PICK p \in params : InstOf(g, p.at).op = "phi"
                                /\ x = <<InstOf(g, p.at).from[p.num], p.prev>>
        BY <3>3
      <4>2. p.kind = "param" /\ Names(f, p)
        BY <2>3 DEF OfKind
      <4> DEFINE c == InstOf(g, p.at).from[p.num]
      <4>3. c \in Blocks(g) /\ p.prev = BlockId(f, c)
        BY <2>2, <2>4, <4>1, <4>2 DEF Names
      <4> QED
        BY <4>1, <4>3
    <3> HIDE DEF inHeaders, inLabels, inPhis
    <3> QED
      BY <3>1, <3>2, <3>3
  <2> HIDE DEF ids
  <2>6. ASSUME NEW x \in ids, NEW y \in ids PROVE x[1] = y[1] <=> x[2] = y[2]
    <3>1. PICK b \in Blocks(g) : x = <<b, BlockId(f, b)>>
      BY <2>5
    <3>2. PICK c \in Blocks(g) : y = <<c, BlockId(f, c)>>
      BY <2>5
    <3>3. BlockId(f, b) = BlockId(f, c) => b = c
      BY <2>1, BlockIdsDiffer DEF f
    <3> QED
      BY <3>1, <3>2, <3>3
  <2>7. ASSUME NEW x \in ids, DepthFits(f, x[1], x[2]) PROVE x[2][3] = f.depth[x[1]]
    <3>1. PICK b \in Blocks(g) : x = <<b, BlockId(f, b)>>
      BY <2>5
    <3>2. f.depth[b] \in Nat
      BY <2>1, DepthFacts DEF f
    <3>3. f.labels[b] = NoName => Source(f)[<<b, 0>>] \in Nat /\ Source(f)[<<b, 0>>] < 1000000
      BY <2>1, SmallSource DEF f
    <3>4. DepthFits(f, b, BlockId(f, b))
      BY <2>7, <3>1
    <3>5. BlockId(f, b)[3] = f.depth[b]
      BY <3>2, <3>3, <3>4, DepthShown
    <3> QED
      BY <3>1, <3>5
  <2> QED
    BY <2>6, <2>7 DEF ids, f
<1> QED
  BY <1>1, PassInvariant, IdInvariant, PTL

----------------------------------------------------------------------------
(* Names of operands.                                                      *)

\* The name of an operand of function f, if it has one.
NameOf(f, o) == nameIn(f, collectDebugInfo(f), o)

\* The places of the instructions of function f, and what is there.
Places(f) ==
  UNION {{<<b, i>> : i \in 1 .. Len(f.blocks[b])} : b \in 1 .. Len(f.blocks)}
InstAt(f, q) == f.blocks[q[1]][q[2]]
ValueOf(f, q) == Operand("inst", q, InstAt(f, q).type, NoName)

\* The instruction at q casts a named pointer.
CastOf(f, q) ==
  LET o == InstAt(f, q).operands[1]
  IN  InstAt(f, q).op = "bitcast" /\ o.type.id = "Pointer" /\ NameOf(f, o) # NoName

\* ... and the walk, now at p, has passed it.
Behind(f, p) == {q \in Places(f) : CastOf(f, q) /\ Before_in_layout(q, p)}

\* A slot goes by another name for every cast that is behind, and only for those.
CastsNamed(f, map, p) ==
  /\ DOMAIN map = {Source(f)[q] : q \in Behind(f, p)}
  /\ \A q \in Behind(f, p) : map[Source(f)[q]] = NameOf(f, InstAt(f, q).operands[1])

CastInv ==
  Rewriting =>
    /\ valueDebugName = collectDebugInfo(Function)
    /\ Visited(Function) /\ ~NamedCast(Function) => CastsNamed(Function, slotToVarName, at)

LEMMA PlacesFacts ==
  ASSUME module \in Modules, NEW g \in DOMAIN Functions, NEW q
  PROVE  q \in Places(Functions[g]) <=>
           \E b \in Blocks(g) : \E i \in 1 .. Len(Functions[g].blocks[b]) :
             q = <<b, i>> /\ q[1] = b /\ q[2] = i /\ b \in Nat \ {0} /\ i \in Nat \ {0}
<1> DEFINE f == Functions[g]
<1>1. Blocks(g) = 1 .. Len(f.blocks) /\ Len(f.blocks) \in Nat
      /\ \A b \in Blocks(g) : b \in Nat \ {0} /\ Len(f.blocks[b]) \in Nat
  BY ModuleFacts DEF Laid
<1>2. \A b, i : <<b, i>>[1] = b /\ <<b, i>>[2] = i
  OBVIOUS
<1> HIDE DEF f
<1>3. \A b \in Blocks(g) : \A i \in 1 .. Len(f.blocks[b]) : i \in Nat \ {0}
  BY <1>1
<1>4. q \in Places(f) <=> \E b \in Blocks(g) : \E i \in 1 .. Len(f.blocks[b]) : q = <<b, i>>
  BY <1>1 DEF Places
<1> QED
  BY <1>1, <1>2, <1>3, <1>4 DEF f

\* A cast of a named pointer has no name, and a number of its own.
LEMMA CastFacts ==
  ASSUME module \in Modules, NEW g \in DOMAIN Functions, ~NamedCast(Functions[g]),
         NEW q \in Places(Functions[g]), CastOf(Functions[g], q)
  PROVE  /\ InstAt(Functions[g], q).name = NoName /\ q \in DOMAIN Source(Functions[g])
         /\ NameOf(Functions[g], ValueOf(Functions[g], q)) = NoName
<1> DEFINE f == Functions[g]
<1>0. PICK b \in Blocks(g) : \E i \in 1 .. Len(f.blocks[b]) : q = <<b, i>> /\ q[1] = b /\ q[2] = i
  BY PlacesFacts
<1>1. PICK i \in 1 .. Len(f.blocks[b]) : q = <<b, i>> /\ q[1] = b /\ q[2] = i
  BY <1>0
<1> DEFINE inst == f.blocks[b][i]
<1>2. InstAt(f, q) = inst
  BY <1>1 DEF InstAt
<1>3. inst \in ToSet(FlattenSeq(f.blocks))
  BY InstsFacts
<1>4. InstOK(module, f, b, i)
  BY FunctionFacts
<1> HIDE DEF f, inst
<1>5. inst.op = "bitcast" /\ inst.name = NoName
  <2>1. inst.op = "bitcast" /\ inst.operands[1].type.id = "Pointer"
        /\ nameIn(f, collectDebugInfo(f), inst.operands[1]) # NoName
    BY <1>2 DEF CastOf, NameOf, f
  <2> QED
    BY <1>3, <2>1 DEF NamedCast, f
<1>6. inst.type # Void
  BY <1>4, <1>5 DEF InstOK, inst
<1>7. q \in DOMAIN Source(f)
  BY <1>1, <1>5, <1>6, SourceFacts DEF inst, f
<1>8. NameOf(f, ValueOf(f, q)) = NoName
  <2> DEFINE o == ValueOf(f, q)
  <2>1. o.kind = "inst" /\ o.at = q
    BY DEF ValueOf, Operand
  <2>2. ownName(f, o) = NoName
    BY <1>1, <1>5, <2>1 DEF ownName, inst
  <2>3. IsBitcast(f, o)
    BY <1>1, <1>5, <2>1 DEF IsBitcast, inst
  <2>4. o \notin DOMAIN collectDebugInfo(f)
    BY <2>3, DebugNames DEF f
  <2> QED
    BY <2>2, <2>4 DEF NameOf, nameIn
<1> QED
  BY <1>2, <1>5, <1>7, <1>8 DEF f

\* What is behind the place that comes after an instruction.
LEMMA BehindNext ==
  ASSUME module \in Modules, NEW g \in DOMAIN Functions,
         NEW b \in Blocks(g), NEW i \in 1 .. Len(Functions[g].blocks[b]),
         NEW p, p = IF i = Len(Functions[g].blocks[b]) THEN <<b + 1, 0>> ELSE <<b, i + 1>>
  PROVE  /\ <<b, i>> \notin Behind(Functions[g], <<b, i>>)
         /\ Behind(Functions[g], p) =
              Behind(Functions[g], <<b, i>>)
                \cup (IF CastOf(Functions[g], <<b, i>>) THEN {<<b, i>>} ELSE {})
<1> DEFINE f == Functions[g]
           N == Len(f.blocks[b])
           x == <<b, i>>
<1>1. b \in Nat \ {0} /\ N \in Nat /\ i \in 1 .. N /\ i \in Nat \ {0}
  BY ModuleFacts
<1>2. x[1] = b /\ x[2] = i /\ x \in Places(f)
  BY <1>1, PlacesFacts
<1>3. ~Before_in_layout(x, x)
  BY <1>1, <1>2 DEF Before_in_layout
<1>4. ASSUME NEW q \in Places(f)
      PROVE  Before_in_layout(q, p) <=> Before_in_layout(q, x) \/ q = x
  <2>0. PICK c \in Blocks(g) : \E j \in 1 .. Len(f.blocks[c]) :
          q = <<c, j>> /\ q[1] = c /\ q[2] = j /\ c \in Nat \ {0} /\ j \in Nat \ {0}
    BY PlacesFacts
  <2>1. PICK j \in 1 .. Len(f.blocks[c]) :
          q = <<c, j>> /\ q[1] = c /\ q[2] = j /\ c \in Nat \ {0} /\ j \in Nat \ {0}
    BY <2>0
  <2>2. c = b => j \in 1 .. N
    OBVIOUS
  <2>3. q = x <=> c = b /\ j = i
    BY <1>2, <2>1
  <2> HIDE DEF N, f, x
  <2>4. CASE i = N
    <3>1. p[1] = b + 1 /\ p[2] = 0
      BY <2>4 DEF N, f
    <3>2. Before_in_layout(q, p) <=> c <= b
      BY <1>1, <2>1, <3>1 DEF Before_in_layout
    <3>3. Before_in_layout(q, x) <=> c < b \/ (c = b /\ j < i)
      BY <1>2, <2>1 DEF Before_in_layout
    <3> QED
      BY <1>1, <2>1, <2>2, <2>3, <2>4, <3>2, <3>3
  <2>5. CASE i # N
    <3>1. p[1] = b /\ p[2] = i + 1
      BY <2>5 DEF N, f
    <3>2. Before_in_layout(q, p) <=> c < b \/ (c = b /\ j < i + 1)
      BY <2>1, <3>1 DEF Before_in_layout
    <3>3. Before_in_layout(q, x) <=> c < b \/ (c = b /\ j < i)
      BY <1>2, <2>1 DEF Before_in_layout
    <3> QED
      BY <1>1, <2>1, <2>3, <3>2, <3>3
  <2> QED
    BY <2>4, <2>5
<1> HIDE DEF f, x
<1> QED
  BY <1>2, <1>3, <1>4 DEF Behind, f, x

\* Phi nodes are not casts.
LEMMA BehindPhis ==
  ASSUME module \in Modules, fn \in DOMAIN Functions, NEW b \in Blocks(fn)
  PROVE  Behind(Function, <<b, Phis(b) + 1>>) = Behind(Function, <<b, 0>>)
<1> DEFINE f == Function
           x == <<b, Phis(b) + 1>>
           y == <<b, 0>>
<1>1. f = Functions[fn] /\ b \in Nat
  <2>1. f = Functions[fn]
    BY DEF Function, Functions
  <2> QED
    BY <2>1, ModuleFacts
<1>2. /\ Phis(b) \in Nat
      /\ \A i \in 1 .. Len(f.blocks[b]) : f.blocks[b][i].op = "phi" <=> i <= Phis(b)
  BY PhisFacts
<1>3. x[1] = b /\ x[2] = Phis(b) + 1 /\ y[1] = b /\ y[2] = 0
  OBVIOUS
<1> HIDE DEF f, x, y
<1>4. ASSUME NEW q \in Places(f), CastOf(f, q)
      PROVE  Before_in_layout(q, x) <=> Before_in_layout(q, y)
  <2>0. PICK c \in Blocks(fn) : \E j \in 1 .. Len(f.blocks[c]) :
          q = <<c, j>> /\ q[1] = c /\ q[2] = j /\ c \in Nat \ {0} /\ j \in Nat \ {0}
    BY <1>1, PlacesFacts
  <2>1. PICK j \in 1 .. Len(f.blocks[c]) :
          q = <<c, j>> /\ q[1] = c /\ q[2] = j /\ c \in Nat \ {0} /\ j \in Nat \ {0}
    BY <2>0
  <2>2. f.blocks[c][j].op = "bitcast"
    BY <1>4, <2>1 DEF CastOf, InstAt
  <2>3. c = b => ~(j <= Phis(b))
    BY <1>2, <2>2
  <2>4. Before_in_layout(q, x) <=> c < b \/ (c = b /\ j < Phis(b) + 1)
    BY <1>3, <2>1 DEF Before_in_layout
  <2>5. Before_in_layout(q, y) <=> c < b \/ (c = b /\ j < 0)
    BY <1>3, <2>1 DEF Before_in_layout
  <2> QED
    BY <1>1, <1>2, <2>1, <2>3, <2>4, <2>5
<1> QED
  BY <1>4 DEF Behind, f, x, y

\* What the pass knows of names in a function that names no cast of a named pointer.
Knows ==
  /\ module \in Modules /\ fn \in DOMAIN Functions /\ NumberInv /\ Rewriting
  /\ valueDebugName = collectDebugInfo(Function)
  /\ ~NamedCast(Function) /\ CastsNamed(Function, slotToVarName, at)

LEMMA SlotOfCast ==
  ASSUME Knows, NEW q
  PROVE  /\ Slot(q) \in DOMAIN slotToVarName <=> q \in Behind(Function, at)
         /\ q \in Behind(Function, at) =>
              /\ Slot(q) = Source(Function)[q]
              /\ slotToVarName[Slot(q)] = NameOf(Function, InstAt(Function, q).operands[1])
<1> DEFINE f == Function
           B == Behind(f, at)
<1>1. /\ f = Functions[fn] /\ module \in Modules /\ fn \in DOMAIN Functions /\ ~NamedCast(f)
      /\ NumberInv /\ Rewriting
      /\ DOMAIN slotToVarName = {Source(f)[r] : r \in B}
      /\ \A r \in B : slotToVarName[Source(f)[r]] = NameOf(f, InstAt(f, r).operands[1])
  BY DEF Knows, CastsNamed, Function, Functions
<1>2. /\ \A p \in DOMAIN Source(f) : Source(f)[p] \in Nat
      /\ \A p, r \in DOMAIN Source(f) : Source(f)[p] = Source(f)[r] => p = r
  BY <1>1, SourceFacts
<1>3. Slot(q) = IF q \in DOMAIN Source(f) THEN Source(f)[q] ELSE -1
  BY <1>1, SlotFacts
<1> HIDE DEF f
<1>4. \A r \in B : r \in DOMAIN Source(f)
  BY <1>1, CastFacts DEF Behind
<1> HIDE DEF B
<1>5. CASE q \in DOMAIN Source(f)
  <2>1. Slot(q) = Source(f)[q]
    BY <1>3, <1>5
  <2>2. Slot(q) \in DOMAIN slotToVarName <=> \E r \in B : Source(f)[r] = Source(f)[q]
    BY <1>1, <2>1
  <2>3. Slot(q) \in DOMAIN slotToVarName <=> q \in B
    BY <1>2, <1>4, <1>5, <2>2
  <2>4. q \in B => slotToVarName[Slot(q)] = NameOf(f, InstAt(f, q).operands[1])
    BY <1>1, <2>1
  <2> QED
    BY <2>1, <2>3, <2>4 DEF f, B
<1>6. CASE q \notin DOMAIN Source(f)
  <2>1. Slot(q) = -1 /\ -1 \notin Nat
    BY <1>3, <1>6
  <2>2. Slot(q) \notin DOMAIN slotToVarName
    BY <1>1, <1>2, <1>4, <2>1
  <2> QED
    BY <1>4, <1>6, <2>2 DEF f, B
<1> QED
  BY <1>5, <1>6

LEMMA ValueNames ==
  ASSUME Knows, NEW o
  PROVE  getValueName(o) = NameOf(Function, o)
BY DEF Knows, getValueName, NameOf

\* A slot is renamed for a cast of a named pointer, once.
LEMMA RenamesCast ==
  ASSUME Knows, NEW q
  PROVE  Renames(q) <=> CastOf(Function, q) /\ q \notin Behind(Function, at)
<1>1. Inst(q) = InstAt(Function, q)
  BY DEF Inst, InstAt
<1>2. getValueName(Inst(q).operands[1]) = NameOf(Function, Inst(q).operands[1])
  BY ValueNames
<1>3. Slot(q) \in DOMAIN slotToVarName <=> q \in Behind(Function, at)
  BY SlotOfCast
<1> QED
  BY <1>1, <1>2, <1>3 DEF Renames, CastOf

LEMMA RenamedCast ==
  ASSUME Knows, NEW b \in Blocks(fn), NEW i \in 1 .. Len(Function.blocks[b]), at = <<b, i>>,
         NEW p, p = IF i = Len(Function.blocks[b]) THEN <<b + 1, 0>> ELSE <<b, i + 1>>
  PROVE  CastsNamed(Function, Renamed(at), p)
<1> DEFINE f == Function
           B == Behind(f, at)
           C == Behind(f, p)
           map == slotToVarName
           name == NameOf(f, InstAt(f, at).operands[1])
<1>1. /\ module \in Modules /\ fn \in DOMAIN Functions /\ f = Functions[fn] /\ ~NamedCast(f)
      /\ NumberInv /\ Rewriting
      /\ DOMAIN map = {Source(f)[r] : r \in B}
      /\ \A r \in B : map[Source(f)[r]] = NameOf(f, InstAt(f, r).operands[1])
  BY DEF Knows, CastsNamed, Function, Functions
<1>2. at \notin B /\ C = B \cup (IF CastOf(f, at) THEN {at} ELSE {})
  BY <1>1, BehindNext
<1>3. Renames(at) <=> CastOf(f, at)
  BY <1>2, RenamesCast
<1>4. CASE CastOf(f, at)
  <2>1. at \in Places(f)
    BY <1>1, PlacesFacts, ModuleFacts DEF Places
  <2>2. /\ \A r \in B \cup {at} : r \in DOMAIN Source(f)
    <3>1. \A r \in B \cup {at} : r \in Places(f) /\ CastOf(f, r)
      BY <1>4, <2>1 DEF Behind
    <3> HIDE DEF f
    <3> QED
      BY <1>1, <3>1, CastFacts
  <2>3. Slot(at) = Source(f)[at]
    <3> HIDE DEF f
    <3> QED
      BY <1>1, <2>2, SlotFacts DEF f
  <2>4. Renamed(at) = Put(map, Source(f)[at], name)
    <3>1. getValueName(Inst(at).operands[1]) = name
      BY ValueNames DEF Inst, InstAt
    <3> QED
      BY <1>3, <1>4, <2>3, <3>1 DEF Renamed
  <2>5. \A q, r \in DOMAIN Source(f) : Source(f)[q] = Source(f)[r] => q = r
    BY <1>1, SourceFacts
  <2> HIDE DEF f, map, name
  <2>6. C = B \cup {at}
    BY <1>2, <1>4
  <2> HIDE DEF B, C
  <2>7. DOMAIN Renamed(at) = {Source(f)[r] : r \in C}
    <3>1. DOMAIN Renamed(at) = DOMAIN map \cup {Source(f)[at]}
      BY <2>4 DEF Put
    <3>2. {Source(f)[r] : r \in B \cup {at}} = {Source(f)[r] : r \in B} \cup {Source(f)[at]}
      OBVIOUS
    <3> QED
      BY <1>1, <2>6, <3>1, <3>2
  <2>8. \A r \in C : Renamed(at)[Source(f)[r]] = NameOf(f, InstAt(f, r).operands[1])
    <3>1. Renamed(at)[Source(f)[at]] = NameOf(f, InstAt(f, at).operands[1])
      BY <2>4 DEF Put, name
    <3>2. ASSUME NEW r \in B
          PROVE  Renamed(at)[Source(f)[r]] = map[Source(f)[r]]
      <4>1. Source(f)[r] # Source(f)[at]
        BY <1>2, <2>2, <2>5
      <4>2. Source(f)[r] \in DOMAIN map
        BY <1>1
      <4> QED
        BY <2>4, <4>1, <4>2 DEF Put
    <3> QED
      BY <1>1, <2>6, <3>1, <3>2
  <2> QED
    BY <2>7, <2>8 DEF CastsNamed, C, f
<1>5. CASE ~CastOf(f, at)
  <2>1. Renamed(at) = map /\ C = B
    BY <1>2, <1>3, <1>5 DEF Renamed
  <2> HIDE DEF f
  <2> QED
    BY <1>1, <2>1 DEF CastsNamed, f
<1> QED
  BY <1>4, <1>5

LEMMA CastsInit ==
  ASSUME module \in Modules, fn \in DOMAIN Functions
  PROVE  CastsNamed(Function, [s \in {} |-> NoName], <<1, 0>>)
<1> DEFINE f == Function
<1>1. f = Functions[fn]
  BY DEF Function, Functions
<1>2. ASSUME NEW q \in Places(f) PROVE ~Before_in_layout(q, <<1, 0>>)
  <2>0. PICK c \in Blocks(fn) : \E j \in 1 .. Len(f.blocks[c]) :
          q = <<c, j>> /\ q[1] = c /\ q[2] = j /\ c \in Nat \ {0} /\ j \in Nat \ {0}
    BY <1>1, PlacesFacts
  <2>1. PICK j \in 1 .. Len(f.blocks[c]) :
          q = <<c, j>> /\ q[1] = c /\ q[2] = j /\ c \in Nat \ {0} /\ j \in Nat \ {0}
    BY <2>0
  <2> QED
    BY <2>1 DEF Before_in_layout
<1>3. Behind(f, <<1, 0>>) = {}
  BY <1>2 DEF Behind
<1> HIDE DEF f
<1> QED
  BY <1>3 DEF CastsNamed, f

\* Debug information names values, and casts of named pointers that are behind name
\* their slots.
THEOREM CastInvariant == Spec => []CastInv
<1> USE DEF unchangedNames
<1>1. Init => CastInv
  BY DEF Init, CastInv, Rewriting
<1>2. PassInv /\ NumberInv /\ CastInv /\ [Next]_vars => CastInv'
  <2> SUFFICES ASSUME PassInv, NumberInv, CastInv, [Next]_vars PROVE CastInv'
    OBVIOUS
  <2>0. WalkInv /\ module \in Modules
    BY DEF PassInv, WalkInv
  <2>1. ASSUME pc' \notin {"block", "instruction"} PROVE CastInv'
    BY <2>1 DEF CastInv, Rewriting
  <2>2. ASSUME Rewriting, unchangedModule, fn' = fn, valueDebugName' = valueDebugName,
               Visited(Function) /\ ~NamedCast(Function) /\ CastsNamed(Function, slotToVarName, at) =>
                 CastsNamed(Function, slotToVarName', at')
        PROVE  CastInv'
    <3>1. Function' = Function /\ (Visited(Function)' <=> Visited(Function))
      BY <2>2, SameModule DEF Function
    <3> QED
      BY <2>2, <3>1 DEF CastInv
  <2>3. CASE DoInitialization
    BY <2>1, <2>3 DEF DoInitialization
  <2>4. CASE RunOnFunction
    <3>1. CASE ~IsC(Function)
      BY <2>1, <2>4, <3>1 DEF RunOnFunction
    <3>2. CASE IsC(Function)
      <4>1. /\ fn \in DOMAIN Functions /\ fn' = fn /\ module' = module
            /\ at' = <<1, 0>> /\ valueDebugName' = collectDebugInfo(Function)
            /\ slotToVarName' = [s \in {} |-> NoName]
        BY <2>4, <3>2 DEF RunOnFunction, unchangedModule, Functions
      <4>2. Function' = Function
        BY <4>1 DEF Function
      <4>3. CastsNamed(Function, slotToVarName', at')
        BY <2>0, <4>1, CastsInit
      <4> QED
        BY <4>1, <4>2, <4>3 DEF CastInv
    <3> QED
      BY <3>1, <3>2
  <2>5. CASE SkipBlock
    <3>1. /\ Rewriting /\ unchangedModule /\ fn' = fn /\ valueDebugName' = valueDebugName
          /\ ~Visited(Function)
      BY <2>5 DEF SkipBlock, Rewriting
    <3> QED
      BY <2>2, <3>1
  <2>6. CASE RunOnBasicBlock
    <3> DEFINE b == at[1]
    <3>1. /\ pc = "block" /\ Rewriting /\ unchangedModule /\ fn' = fn
          /\ b \in DOMAIN Function.blocks
      BY <2>6 DEF RunOnBasicBlock, Rewriting
    <3>2. /\ valueDebugName' = valueDebugName
          /\ slotToVarName' = slotToVarName /\ at' = <<b, Phis(b) + 1>>
      BY <2>6 DEF RunOnBasicBlock
    <3>3. /\ fn \in DOMAIN Functions /\ DOMAIN Function.blocks = Blocks(fn)
          /\ \E m \in 1 .. Len(Function.blocks) + 1 : at = <<m, 0>>
      BY <2>0, <3>1, AtBlock
    <3>4. at = <<b, 0>>
      <4>1. PICK m \in 1 .. Len(Function.blocks) + 1 : at = <<m, 0>>
        BY <3>3
      <4>2. b = m
        BY <4>1
      <4> QED
        BY <4>1, <4>2
    <3> HIDE DEF b
    <3>5. Behind(Function, at') = Behind(Function, at)
      BY <2>0, <3>1, <3>2, <3>3, <3>4, BehindPhis
    <3>6. CastsNamed(Function, slotToVarName, at) => CastsNamed(Function, slotToVarName', at')
      BY <3>2, <3>5 DEF CastsNamed
    <3> QED
      BY <2>2, <3>1, <3>2, <3>6
  <2>7. ASSUME pc = "instruction", GoOn
        PROVE  /\ fn \in DOMAIN Functions /\ Function = Functions[fn] /\ Rewriting
               /\ \E b \in Blocks(fn) : \E i \in 1 .. Len(Function.blocks[b]) :
                    /\ at = <<b, i>> /\ Inst(at) = Function.blocks[b][i]
                    /\ at' = IF i = Len(Function.blocks[b]) THEN <<b + 1, 0>> ELSE <<b, i + 1>>
    <3>1. PICK b, i : /\ at = <<b, i>> /\ IsPlace(b, i) /\ Inst(at) = Function.blocks[b][i]
      BY <2>0, <2>7, AtInstruction
    <3>2. at[1] = b /\ at[2] = i
      BY <3>1
    <3>3. at' = IF i = Len(Function.blocks[b]) THEN <<b + 1, 0>> ELSE <<b, i + 1>>
      BY <2>7, <3>2 DEF GoOn, NextBlock
    <3> QED
      BY <2>0, <2>7, <3>1, <3>3, AtInstruction DEF IsPlace
  <2>8. CASE SkipInstruction
    <3>1. /\ pc = "instruction" /\ GoOn /\ unchangedModule /\ fn' = fn /\ ~Traced(Inst(at))
          /\ valueDebugName' = valueDebugName /\ slotToVarName' = slotToVarName
      BY <2>8 DEF SkipInstruction
    <3>2. PICK b \in Blocks(fn) : \E i \in 1 .. Len(Function.blocks[b]) :
            /\ at = <<b, i>> /\ Inst(at) = Function.blocks[b][i]
            /\ at' = IF i = Len(Function.blocks[b]) THEN <<b + 1, 0>> ELSE <<b, i + 1>>
      BY <2>7, <3>1
    <3>3. PICK i \in 1 .. Len(Function.blocks[b]) :
            /\ at = <<b, i>> /\ Inst(at) = Function.blocks[b][i]
            /\ at' = IF i = Len(Function.blocks[b]) THEN <<b + 1, 0>> ELSE <<b, i + 1>>
      BY <3>2
    <3>4. ~CastOf(Function, at)
      <4>1. Inst(at).op # "bitcast"
        BY <3>1 DEF Traced
      <4> QED
        BY <4>1 DEF CastOf, InstAt, Inst
    <3>5. fn \in DOMAIN Functions /\ Function = Functions[fn] /\ Rewriting
      BY <2>7, <3>1
    <3>6. Behind(Function, at') = Behind(Function, at)
      <4> DEFINE f == Functions[fn]
                 p == at'
      <4>1. p = IF i = Len(f.blocks[b]) THEN <<b + 1, 0>> ELSE <<b, i + 1>>
        BY <3>3, <3>5
      <4>2. i \in 1 .. Len(f.blocks[b])
        BY <3>5
      <4> HIDE DEF p
      <4>3. Behind(f, p) = Behind(f, <<b, i>>) \cup (IF CastOf(f, <<b, i>>) THEN {<<b, i>>} ELSE {})
        BY <2>0, <3>5, <4>1, <4>2, BehindNext
      <4>4. ~CastOf(f, <<b, i>>) /\ Behind(f, <<b, i>>) = Behind(f, at)
        BY <3>3, <3>4, <3>5
      <4> HIDE DEF f
      <4>5. Behind(f, p) = Behind(f, at)
        BY <4>3, <4>4
      <4> QED
        BY <3>5, <4>5 DEF f, p
    <3>7. CastsNamed(Function, slotToVarName, at) => CastsNamed(Function, slotToVarName', at')
      BY <3>1, <3>6 DEF CastsNamed
    <3> QED
      BY <2>2, <3>1, <3>5, <3>7
  <2>9. CASE TraceInstruction
    <3>1. /\ pc = "instruction" /\ GoOn /\ unchangedModule /\ fn' = fn
          /\ valueDebugName' = valueDebugName /\ slotToVarName' = Renamed(at)
      BY <2>9 DEF TraceInstruction
    <3>2. PICK b \in Blocks(fn) : \E i \in 1 .. Len(Function.blocks[b]) :
            /\ at = <<b, i>> /\ Inst(at) = Function.blocks[b][i]
            /\ at' = IF i = Len(Function.blocks[b]) THEN <<b + 1, 0>> ELSE <<b, i + 1>>
      BY <2>7, <3>1
    <3>3. PICK i \in 1 .. Len(Function.blocks[b]) :
            /\ at = <<b, i>> /\ Inst(at) = Function.blocks[b][i]
            /\ at' = IF i = Len(Function.blocks[b]) THEN <<b + 1, 0>> ELSE <<b, i + 1>>
      BY <3>2
    <3>5. fn \in DOMAIN Functions /\ Function = Functions[fn] /\ Rewriting
      BY <2>7, <3>1
    <3>6. ASSUME ~NamedCast(Function), CastsNamed(Function, slotToVarName, at)
          PROVE  CastsNamed(Function, Renamed(at), at')
      <4>1. Knows
        BY <2>0, <3>5, <3>6 DEF Knows, CastInv
      <4> QED
        BY <3>3, <4>1, RenamedCast
    <3> QED
      BY <2>2, <3>1, <3>5, <3>6
  <2>10. CASE RunOnFunctionEntry
    BY <2>1, <2>10 DEF RunOnFunctionEntry
  <2>11. CASE Done
    BY <2>1, <2>11 DEF Done
  <2>12. CASE UNCHANGED vars
    <3>1. /\ pc' = pc /\ unchangedModule /\ fn' = fn /\ valueDebugName' = valueDebugName
          /\ slotToVarName' = slotToVarName /\ at' = at
      BY <2>12 DEF vars, unchangedModule
    <3>2. CASE Rewriting
      BY <2>2, <3>1, <3>2
    <3>3. CASE ~Rewriting
      BY <2>1, <3>1, <3>3 DEF Rewriting
    <3> QED
      BY <3>2, <3>3
  <2> QED
    BY <2>3, <2>4, <2>5, <2>6, <2>8, <2>9, <2>10, <2>11, <2>12 DEF Next, Stopped
<1> QED
  BY <1>1, <1>2, PassInvariant, NumberInvariant, PTL DEF Spec

\* The name that the instruction at q goes by, once the walk has passed it.
IdOf(f, q) ==
  IF NameOf(f, ValueOf(f, q)) # NoName THEN Named(NameOf(f, ValueOf(f, q)))
  ELSE IF CastOf(f, q) THEN Named(NameOf(f, InstAt(f, q).operands[1]))
  ELSE Numbered(Source(f)[q])

\* The hook shows it, unless it is one of a phi node and the instruction a cast that
\* comes later.
Agrees(f, h) ==
  /\ h.kind = "result" => h.id = IdOf(f, h.at)
  /\ h.kind = "param" =>
       /\ h.operand.kind = "inst" =>
            \/ h.id = IdOf(f, h.operand.at)
            \/ /\ InstAt(f, h.at).op = "phi" /\ InstAt(f, h.operand.at).op = "bitcast"
               /\ ~Before_in_layout(h.operand.at, h.at)
       /\ h.operand.kind = "const" /\ h.operand \notin DOMAIN collectDebugInfo(f) =>
            h.id = NoId

AgreeInv ==
  \A g \in DOMAIN Functions : \A b \in Blocks(g) : \A h \in ToSet(code[g][b]) :
    IsHook(h) /\ ~NamedCast(Functions[g]) => Agrees(Functions[g], h)

\* An operand goes by that name, unless it is a cast that the walk has yet to come to.
LEMMA OperandIds ==
  ASSUME Knows, NEW q \in Places(Function), InstAt(Function, q).type # Void
  PROVE  /\ CastOf(Function, q) => q \in Behind(Function, at) \/ ~Before_in_layout(q, at)
         /\ (CastOf(Function, q) /\ q \notin Behind(Function, at)) \/ operandId(q) = IdOf(Function, q)
         /\ operandId(q) # Numbered(-1)
<1> DEFINE f == Function
           name == NameOf(f, ValueOf(f, q))
<1>1. /\ f = Functions[fn] /\ module \in Modules /\ fn \in DOMAIN Functions /\ ~NamedCast(f)
      /\ NumberInv /\ Rewriting
  BY DEF Knows, Function, Functions
<1>2. asOperand(q) = ValueOf(f, q) /\ getValueName(asOperand(q)) = name
  <2>1. asOperand(q) = ValueOf(f, q)
    BY DEF asOperand, ValueOf, Inst, InstAt
  <2> QED
    BY <2>1, ValueNames
<1>3. CastOf(f, q) => q \in Behind(f, at) \/ ~Before_in_layout(q, at)
  BY DEF Behind
<1>4. CASE name # NoName
  <2>1. operandId(q) = Named(name)
    BY <1>2, <1>4 DEF operandId
  <2>2. IdOf(f, q) = Named(name)
    BY <1>4 DEF IdOf
  <2>3. Named(name) # Numbered(-1)
    BY Tags
  <2> QED
    BY <1>3, <2>1, <2>2, <2>3
<1>5. CASE name = NoName
  <2>1. q \in DOMAIN Source(f) /\ Source(f)[q] \in Nat
    <3>0. PICK b \in Blocks(fn) : \E i \in 1 .. Len(f.blocks[b]) : q = <<b, i>> /\ q[1] = b /\ q[2] = i
      BY <1>1, PlacesFacts
    <3>1. PICK i \in 1 .. Len(f.blocks[b]) : q = <<b, i>> /\ q[1] = b /\ q[2] = i
      BY <3>0
    <3>2. f.blocks[b][i].name = NoName
      <4> DEFINE o == ValueOf(f, q)
      <4>1. o.kind = "inst" /\ o.at = q
        BY DEF ValueOf, Operand
      <4> HIDE DEF o, f
      <4>2. ownName(f, o) = NoName
        <5>1. name = nameIn(f, collectDebugInfo(f), o)
          BY DEF NameOf, o
        <5> QED
          BY <1>5, <5>1 DEF nameIn
      <4> QED
        BY <3>1, <4>1, <4>2 DEF ownName
    <3>3. f.blocks[b][i].type # Void
      BY <3>1 DEF InstAt
    <3> HIDE DEF f
    <3> QED
      BY <1>1, <3>1, <3>2, <3>3, SourceFacts
  <2>2. /\ Slot(q) = Source(f)[q]
        /\ Slot(q) \in DOMAIN slotToVarName <=> q \in Behind(f, at)
        /\ q \in Behind(f, at) => slotToVarName[Slot(q)] = NameOf(f, InstAt(f, q).operands[1])
    BY <1>1, <2>1, SlotFacts, SlotOfCast
  <2>3. operandId(q) = IF q \in Behind(f, at) THEN Named(NameOf(f, InstAt(f, q).operands[1]))
                       ELSE Numbered(Source(f)[q])
    BY <1>2, <1>5, <2>2 DEF operandId
  <2>4. IdOf(f, q) = IF CastOf(f, q) THEN Named(NameOf(f, InstAt(f, q).operands[1]))
                     ELSE Numbered(Source(f)[q])
    BY <1>5 DEF IdOf
  <2>5. q \in Behind(f, at) => CastOf(f, q)
    BY DEF Behind
  <2>6. operandId(q) # Numbered(-1)
    <3>1. \A x : Named(x) # Numbered(-1)
      BY Tags
    <3>2. Source(f)[q] # -1
      BY <2>1
    <3>3. Numbered(Source(f)[q]) # Numbered(-1)
      BY <3>2, Tags
    <3> QED
      BY <2>3, <3>1, <3>3
  <2> HIDE DEF f
  <2> QED
    BY <1>3, <2>3, <2>4, <2>5, <2>6 DEF f
<1> QED
  BY <1>4, <1>5

LEMMA HookAgrees ==
  ASSUME Knows, NEW b, NEW i, Reached(b, i), NEW h, HookOf(<<b, i>>, h)
  PROVE  Agrees(Function, h)
<1> DEFINE f == Function
           p == <<b, i>>
           inst == Inst(p)
<1>0. /\ module \in Modules /\ fn \in DOMAIN Functions /\ f = Functions[fn] /\ IsPlace(b, i)
      /\ at = p \/ (at = <<b, 0>> /\ inst.op = "phi")
  <2>1. inst = f.blocks[b][i]
    BY DEF Inst
  <2> QED
    BY <2>1 DEF Knows, Reached, Function, Functions
<1>1. /\ b \in Nat \ {0} /\ p[1] = b /\ p[2] = i /\ inst = f.blocks[b][i] /\ inst = InstAt(f, p)
      /\ IsSequence(inst.operands) /\ InstOK(module, f, b, i) /\ b \in Blocks(fn)
      /\ i \in 1 .. Len(f.blocks[b]) /\ i \in Nat \ {0}
  BY <1>0, PlaceFacts, SomePlace DEF IsPlace, InstAt
<1>2. p \in Places(f)
  <2> HIDE DEF f, inst
  <2> QED
    BY <1>0, <1>1, PlacesFacts
<1>3. CASE h = HeaderItem(p) \/ h = StatusItem(p) \/ h = CalleeLine(p)
  <2>1. h.kind \in {"header", "status", "callee"}
    BY <1>3, CalleeFields DEF HeaderItem, StatusItem, Item
  <2> QED
    BY <2>1 DEF Agrees
<1>4. CASE h = ResultLine(p) /\ inst.type # Void
  <2> DEFINE id == IF Renames(p) THEN Named(getValueName(inst.operands[1])) ELSE getInstId(p)
  <2>1. h.kind = "result" /\ h.at = p /\ h.id = id
    BY <1>4 DEF ResultLine, Line, Item
  <2>2. /\ operandId(p) # Numbered(-1)
        /\ (CastOf(f, p) /\ p \notin Behind(f, at)) \/ operandId(p) = IdOf(f, p)
    BY <1>1, <1>2, <1>4, OperandIds
  <2>3. getInstId(p) = operandId(p)
    BY <2>2 DEF getInstId, IsArtificial
  <2>4. Renames(p) <=> CastOf(f, p) /\ p \notin Behind(f, at)
    BY RenamesCast
  <2>5. getValueName(inst.operands[1]) = NameOf(f, InstAt(f, p).operands[1])
    BY <1>1, ValueNames
  <2> HIDE DEF id, p, f, inst
  <2>6. id = IdOf(f, p)
    <3>1. CASE Renames(p)
      <4>1. NameOf(f, ValueOf(f, p)) = NoName
        BY <1>0, <1>2, <2>4, <3>1, CastFacts DEF Knows, f
      <4> QED
        BY <2>4, <2>5, <3>1, <4>1 DEF id, IdOf
    <3>2. CASE ~Renames(p)
      BY <2>2, <2>3, <2>4, <3>2 DEF id
    <3> QED
      BY <3>1, <3>2
  <2> QED
    BY <2>1, <2>6 DEF Agrees, f
<1>5. CASE \E j \in 1 .. Len(inst.operands) : h = ParamLine(p, j)
  <2>1. PICK j \in 1 .. Len(inst.operands) : h = ParamLine(p, j)
    BY <1>5
  <2> DEFINE o == inst.operands[j]
  <2>2. h.kind = "param" /\ h.at = p /\ h.operand = o
    BY <2>1, ParamFields
  <2>3. h.id = operandName(o)
    <3> HIDE DEF p, inst
    <3> QED
      BY <2>1 DEF ParamLine, Line, Item, inst
  <2>4. OperandOK(f, b, i, o)
    <3>1. \A x \in ToSet(inst.operands) : OperandOK(f, b, i, x)
      BY <1>1 DEF InstOK
    <3> HIDE DEF inst
    <3> QED
      BY <1>1, <3>1, SeqFacts
  <2> HIDE DEF o
  <2>5. ASSUME o.kind = "const", o \notin DOMAIN collectDebugInfo(f)
        PROVE  h.id = NoId
    <3>1. ownName(f, o) = NoName
      BY <2>4, <2>5 DEF OperandOK, StringKinds, ownName
    <3>2. NameOf(f, o) = NoName
      BY <2>5, <3>1 DEF NameOf, nameIn
    <3>3. operandName(o) = Named(NoName)
      BY <2>5, <3>2, ValueNames DEF operandName
    <3> QED
      BY <2>3, <3>3 DEF NoId
  <2>6. ASSUME o.kind = "inst"
        PROVE  \/ h.id = IdOf(f, o.at)
               \/ inst.op = "phi" /\ InstAt(f, o.at).op = "bitcast" /\ ~Before_in_layout(o.at, p)
    <3> DEFINE q == o.at
               c == o.at[1]
               k == o.at[2]
    <3>1. /\ c \in DOMAIN f.blocks /\ k \in DOMAIN f.blocks[c] /\ q = <<c, k>>
          /\ o.type = InstAt(f, q).type /\ o.type # Void
          /\ inst.op = "phi" \/ c < b \/ (c = b /\ k < i)
      BY <1>1, <2>4, <2>6 DEF OperandOK, StringKinds, InstAt
    <3>2. operandName(o) = operandId(q)
      BY <2>6 DEF operandName
    <3>3. q[1] = c /\ q[2] = k
      OBVIOUS
    <3> HIDE DEF q, c, k, p, f, inst
    <3>4. c \in Blocks(fn) /\ c \in 1 .. Len(f.blocks) /\ k \in 1 .. Len(f.blocks[c])
      <4>1. c \in Blocks(fn) /\ Laid(f) /\ Blocks(fn) = 1 .. Len(f.blocks)
        BY <1>0, <3>1, ModuleFacts
      <4>2. DOMAIN f.blocks[c] = 1 .. Len(f.blocks[c])
        BY <4>1 DEF Laid
      <4> QED
        BY <3>1, <4>1, <4>2
    <3>5. q \in Places(f)
      BY <3>1, <3>4 DEF Places
    <3>6. /\ CastOf(f, q) => q \in Behind(f, at) \/ ~Before_in_layout(q, at)
          /\ (CastOf(f, q) /\ q \notin Behind(f, at)) \/ operandId(q) = IdOf(f, q)
      BY <3>1, <3>5, OperandIds DEF f
    <3>7. CASE operandId(q) = IdOf(f, q)
      BY <2>3, <3>2, <3>7 DEF q
    <3>8. CASE CastOf(f, q) /\ ~Before_in_layout(q, at)
      <4>1. InstAt(f, q).op = "bitcast" /\ f.blocks[c][k].op = "bitcast"
        BY <3>3, <3>8 DEF CastOf, InstAt
      <4>2. ~Before_in_layout(q, p)
        <5>1. CASE at = p
          BY <3>8, <5>1
        <5>2. CASE at = <<b, 0>> /\ inst.op = "phi"
          <6>1. \A m \in 1 .. i : f.blocks[b][m].op = "phi"
            BY <1>1, <5>2 DEF InstOK
          <6>2. ~(c = b /\ k < i)
            <7>1. SUFFICES ASSUME c = b, k < i PROVE FALSE
              OBVIOUS
            <7>2. k \in Nat \ {0}
              BY <1>0, <3>4, ModuleFacts
            <7>3. k \in 1 .. i
              BY <1>1, <7>1, <7>2
            <7>4. f.blocks[c][k].op = "phi"
              BY <6>1, <7>1, <7>3
            <7> QED
              BY <4>1, <7>4
          <6>3. ~(c < b)
            <7>1. at[1] = b
              BY <5>2
            <7> QED
              BY <3>3, <3>8, <7>1 DEF Before_in_layout
          <6> QED
            BY <1>1, <3>3, <6>2, <6>3 DEF Before_in_layout
        <5> QED
          BY <1>0, <5>1, <5>2
      <4>3. inst.op = "phi"
        BY <1>1, <3>1, <3>3, <4>2 DEF Before_in_layout
      <4> QED
        BY <4>1, <4>2, <4>3 DEF q
    <3> QED
      BY <3>6, <3>7, <3>8
  <2>7. InstAt(f, h.at) = inst
    BY <1>1, <2>2
  <2> HIDE DEF p, f, inst
  <2> QED
    BY <2>2, <2>5, <2>6, <2>7 DEF Agrees, f
<1> HIDE DEF f
<1> QED
  BY <1>3, <1>4, <1>5 DEF HookOf, f

\* Every result, and every operand, shows the name that the instruction goes by.
THEOREM AgreeInvariant == Spec => []AgreeInv
<1>1. Init => AgreeInv
  <2> SUFFICES ASSUME Init, NEW g \in DOMAIN Functions, NEW b \in Blocks(g),
                      NEW h \in ToSet(code[g][b]), IsHook(h)
               PROVE  FALSE
    BY DEF AgreeInv
  <2>1. module \in Modules /\ code[g] = Original(Functions[g])
    BY DEF Init, Functions
  <2>2. Laid(Functions[g]) /\ b \in 1 .. Len(Functions[g].blocks)
    BY <2>1, FunctionFacts DEF Blocks
  <2>3. h \in ToSet(Original(Functions[g])[b])
    BY <2>1
  <2> QED
    BY <2>2, <2>3, NoHooks
<1>2. PassInv /\ NumberInv /\ CastInv /\ AgreeInv /\ [Next]_vars => AgreeInv'
  <2> SUFFICES ASSUME PassInv, NumberInv, CastInv, AgreeInv, [Next]_vars PROVE AgreeInv'
    OBVIOUS
  <2>1. module' = module /\ Functions' = Functions /\ module \in Modules
        /\ Function = Functions[fn]
    <3>1. module' = module
      BY DEF Next, DoInitialization, RunOnFunction, SkipBlock, RunOnBasicBlock, SkipInstruction,
             TraceInstruction, RunOnFunctionEntry, Done, Stopped, vars, unchangedModule
    <3> QED
      BY <3>1 DEF Functions, Function, PassInv, WalkInv
  <2>2. ASSUME NEW g \in DOMAIN Functions, NEW b \in Blocks(g), NEW h \in ToSet(code'[g][b]),
               IsHook(h), ~NamedCast(Functions[g])
        PROVE  Agrees(Functions[g], h)
    <3>1. CASE h \in ToSet(code[g][b])
      BY <2>2, <3>1 DEF AgreeInv
    <3>2. CASE g = fn /\ Rewriting /\ Made(h, vector_buffers')
      <4>1. PICK h0 : /\ IsItem(h0) /\ Passes(h0, h, vector_buffers')
                      /\ HookAtEntry(h0) \/ \E c, i : Reached(c, i) /\ HookOf(<<c, i>>, h0)
        BY <3>2 DEF Made
      <4>2. h.kind = h0.kind /\ h.at = h0.at /\ h.operand = h0.operand /\ h.id = h0.id
        BY <4>1 DEF Passes, IsItem, ItemFields
      <4>3. CASE HookAtEntry(h0)
        <5>1. h0.kind \in {"status", "entry", "arg"}
          BY <4>3, EntryFields DEF EntryHook
        <5> QED
          BY <4>2, <5>1 DEF Agrees
      <4>4. CASE \E c, i : Reached(c, i) /\ HookOf(<<c, i>>, h0)
        <5>1. PICK c, i : Reached(c, i) /\ HookOf(<<c, i>>, h0)
          BY <4>4
        <5>2. Visited(Function) /\ fn \in DOMAIN Functions
          BY <2>2, <3>2, <5>1 DEF Reached
        <5>3. Knows
          BY <2>1, <2>2, <3>2, <5>2 DEF Knows, CastInv
        <5>4. Agrees(Function, h0)
          BY <5>1, <5>3, HookAgrees
        <5> QED
          BY <2>1, <3>2, <4>2, <5>4 DEF Agrees
      <4> QED
        BY <4>1, <4>3, <4>4
    <3> QED
      BY <2>2, <3>1, <3>2, NextHooks
  <2>3. \A g : Blocks(g)' = Blocks(g)
    BY <2>1 DEF Blocks
  <2> QED
    BY <2>1, <2>2, <2>3 DEF AgreeInv
<1> QED
  BY <1>1, <1>2, PassInvariant, NumberInvariant, CastInvariant, PTL DEF Spec

\* Unless a cast of a named pointer is itself named, an operand has the name that
\* the result line of the instruction that produced it shows; only a phi may show
\* the number of a cast that comes after it in the layout.  A constant has no name,
\* unless debug information describes that constant as a variable.
THEOREM AgreeCorrect == Spec => []OperandsAgree
<1>1. PassInv /\ AgreeInv => OperandsAgree
  <2> SUFFICES ASSUME PassInv, AgreeInv, NEW g \in Written, ~NamedCast(Functions[g]),
                      NEW p \in OfKind(g, "param")
               PROVE  /\ \A r \in OfKind(g, "result") :
                           p.operand.kind = "inst" /\ p.operand.at = r.at =>
                             \/ p.id = r.id
                             \/ /\ InstOf(g, p.at).op = "phi" /\ InstOf(g, r.at).op = "bitcast"
                                /\ ~Before_in_layout(r.at, p.at)
                      /\ p.operand.kind = "const"
                           /\ p.operand \notin DOMAIN collectDebugInfo(Functions[g]) => p.id = NoId
    BY DEF OperandsAgree
  <2> DEFINE f == Functions[g]
  <2>1. g \in DOMAIN Functions /\ module \in Modules
    BY DEF Written, PassInv, WalkInv
  <2>2. DOMAIN f.blocks = Blocks(g)
    BY <2>1, ModuleFacts
  <2>3. DOMAIN code[g] = Blocks(g)
    <3>1. code[g] = [b \in DOMAIN f.blocks |-> code[g][b]]
      BY <2>1 DEF PassInv, LayoutInv
    <3> QED
      BY <2>2, <3>1
  <2>4. ASSUME NEW h \in Items(g), IsHook(h) PROVE Agrees(f, h)
    <3>1. PICK b \in Blocks(g) : h \in ToSet(code[g][b])
      BY <2>3 DEF Items
    <3> QED
      BY <2>1, <2>4, <3>1 DEF AgreeInv
  <2>5. p.kind = "param" /\ Agrees(f, p)
    BY <2>4 DEF OfKind, IsHook
  <2>6. \A r \in OfKind(g, "result") : r.kind = "result" /\ Agrees(f, r)
    BY <2>4 DEF OfKind, IsHook
  <2>7. \A q : InstOf(g, q) = InstAt(f, q)
    BY DEF InstOf, InstAt
  <2> HIDE DEF f
  <2>8. \A r \in OfKind(g, "result") : r.id = IdOf(f, r.at)
    BY <2>6 DEF Agrees
  <2> QED
    BY <2>5, <2>7, <2>8 DEF Agrees, f
<1> QED
  BY <1>1, PassInvariant, AgreeInvariant, PTL

----------------------------------------------------------------------------
(* One header for each instruction, and the parameters of a call in order. *)

\* What must hold of x and y if x stands before y in a block of f.
Follows(f, x, y) ==
  x.kind = y.kind /\ x.at = y.at =>
    /\ x.kind # "header"
    /\ x.kind = "param" /\ InstAt(f, x.at).op = "call" => x.num < y.num
InOrder(f, s) == \A i, j \in 1 .. Len(s) : i < j => Follows(f, s[i], s[j])

\* These kinds of hooks are told apart by their instructions.
Ranked == {"header", "param"}
Apart(S, T) == \A x \in S, y \in T : x.kind \in Ranked /\ y.kind = x.kind => x.at # y.at

AllFollow(f, S, T) == \A x \in S, y \in T : Follows(f, x, y)

LEMMA ApartFollow ==
  ASSUME NEW f, NEW S, NEW T, Apart(S, T)
  PROVE  AllFollow(f, S, T) /\ AllFollow(f, T, S)
BY DEF Apart, Ranked, Follows, AllFollow

LEMMA PlainFollow ==
  ASSUME NEW f, NEW S, NEW T, \A x \in T : x.kind \notin Ranked
  PROVE  AllFollow(f, S, T) /\ AllFollow(f, T, S)
BY DEF Ranked, Follows, AllFollow

LEMMA OrderPlain ==
  ASSUME NEW f, NEW s, IsSequence(s), \A x \in ToSet(s) : x.kind \notin Ranked
  PROVE  InOrder(f, s)
BY SeqFacts DEF InOrder, Follows, Ranked

LEMMA OrderCat ==
  ASSUME NEW f, NEW s, NEW t, IsSequence(s), IsSequence(t), InOrder(f, s), InOrder(f, t),
         AllFollow(f, ToSet(s), ToSet(t))
  PROVE  InOrder(f, s \o t)
<1> DEFINE u == s \o t
           m == Len(s)
           n == Len(t)
<1>1. /\ m \in Nat /\ n \in Nat /\ Len(u) = m + n
      /\ \A i \in 1 .. m : u[i] = s[i] /\ s[i] \in ToSet(s)
      /\ \A i \in 1 .. n : u[m + i] = t[i] /\ t[i] \in ToSet(t)
  BY SeqFacts, CatFacts
<1> HIDE DEF u
<1> SUFFICES ASSUME NEW i \in 1 .. Len(u), NEW j \in 1 .. Len(u), i < j
             PROVE  Follows(f, u[i], u[j])
  BY DEF InOrder, u
<1>2. ASSUME NEW k \in 1 .. Len(u)
      PROVE  \/ k \in 1 .. m /\ u[k] = s[k] /\ u[k] \in ToSet(s)
             \/ k - m \in 1 .. n /\ u[k] = t[k - m] /\ u[k] \in ToSet(t)
  <2>1. CASE k \in 1 .. m
    BY <1>1, <2>1
  <2>2. CASE k \notin 1 .. m
    <3>1. k - m \in 1 .. n /\ m + (k - m) = k
      BY <1>1, <2>2
    <3> QED
      BY <1>1, <3>1
  <2> QED
    BY <2>1, <2>2
<1>3. CASE i \in 1 .. m /\ j \in 1 .. m
  <2>1. Follows(f, s[i], s[j])
    BY <1>3 DEF InOrder
  <2> QED
    BY <1>1, <1>3, <2>1
<1>4. CASE i - m \in 1 .. n /\ u[i] = t[i - m] /\ j - m \in 1 .. n /\ u[j] = t[j - m]
  <2>1. i - m < j - m
    BY <1>1
  <2>2. Follows(f, t[i - m], t[j - m])
    BY <1>4, <2>1 DEF InOrder
  <2> QED
    BY <1>4, <2>2
<1>5. CASE u[i] \in ToSet(s) /\ u[j] \in ToSet(t)
  BY <1>5 DEF AllFollow
<1>6. ~(i - m \in 1 .. n /\ j \in 1 .. m)
  BY <1>1
<1> HIDE DEF m, n
<1> QED
  BY <1>2, <1>3, <1>4, <1>5, <1>6

LEMMA OrderSub ==
  ASSUME NEW f, NEW s, IsSequence(s), InOrder(f, s),
         NEW m \in Nat \ {0}, NEW n \in Nat, n <= Len(s), m <= n + 1
  PROVE  InOrder(f, SubSeq(s, m, n))
<1> DEFINE u == SubSeq(s, m, n)
<1>1. Len(s) \in Nat /\ Len(u) = n - m + 1 /\ \A i \in 1 .. n - m + 1 : u[i] = s[m + i - 1]
  BY SeqFacts, SubFacts
<1> HIDE DEF u
<1> SUFFICES ASSUME NEW i \in 1 .. Len(u), NEW j \in 1 .. Len(u), i < j
             PROVE  Follows(f, u[i], u[j])
  BY DEF InOrder, u
<1>2. m + i - 1 \in 1 .. Len(s) /\ m + j - 1 \in 1 .. Len(s) /\ m + i - 1 < m + j - 1
  BY <1>1
<1>3. u[i] = s[m + i - 1] /\ u[j] = s[m + j - 1]
  BY <1>1
<1> QED
  BY <1>2, <1>3 DEF InOrder

LEMMA OrderPassed ==
  ASSUME NEW f, NEW s, NEW t, NEW buffers, IsSequence(s), IsSequence(t), Len(t) = Len(s),
         \A i \in 1 .. Len(s) : Passes(s[i], t[i], buffers), \A h \in ToSet(s) : IsItem(h),
         InOrder(f, s)
  PROVE  InOrder(f, t)
<1>1. \A i \in 1 .. Len(s) : t[i].kind = s[i].kind /\ t[i].at = s[i].at /\ t[i].num = s[i].num
  BY SeqFacts, PassesFacts
<1> QED
  BY <1>1 DEF InOrder, Follows

LEMMA OrderWidened ==
  ASSUME NEW f, NEW block, IsSequence(block), InOrder(f, block), NEW k \in 1 .. Len(block),
         NEW s, IsSequence(s), NEW t, IsSequence(t), InOrder(f, s),
         \A x \in ToSet(t) : x.kind \notin Ranked, Apart(ToSet(s), ToSet(block))
  PROVE  InOrder(f, Widened(block, k, s, t))
<1> DEFINE n == Len(block)
           l == SubSeq(block, 1, k - 1)
           x == <<block[k]>>
           r == SubSeq(block, k + 1, n)
           sx == s \o x
           around == sx \o t
<1>1. /\ n \in Nat /\ k - 1 \in Nat /\ k - 1 <= n /\ k + 1 \in Nat \ {0} /\ n <= n /\ k + 1 <= n + 1
      /\ 1 \in Nat \ {0} /\ 1 <= k - 1 + 1
  BY SeqFacts
<1>2. IsSequence(l) /\ InOrder(f, l) /\ ToSet(l) = {block[i] : i \in 1 .. k - 1}
  <2>1. IsSequence(l) /\ ToSet(l) = {block[i] : i \in 1 .. k - 1}
    BY <1>1, PrefixFacts
  <2>2. InOrder(f, l)
    BY <1>1, OrderSub
  <2> QED
    BY <2>1, <2>2
<1>3. IsSequence(r) /\ InOrder(f, r) /\ ToSet(r) = {block[i] : i \in k + 1 .. n}
  <2>1. IsSequence(r) /\ ToSet(r) = {block[i] : i \in k + 1 .. n}
    BY <1>1, SuffixFacts
  <2>2. InOrder(f, r)
    BY <1>1, OrderSub
  <2> QED
    BY <2>1, <2>2
<1>4. IsSequence(x) /\ ToSet(x) = {block[k]} /\ InOrder(f, x)
  <2>1. IsSequence(x) /\ ToSet(x) = {block[k]} /\ Len(x) = 1
    BY OneFacts
  <2> HIDE DEF x
  <2> QED
    BY <2>1 DEF InOrder
<1>5. ToSet(l) \subseteq ToSet(block) /\ ToSet(r) \subseteq ToSet(block)
  <2>1. \A i \in 1 .. n : block[i] \in ToSet(block)
    BY SeqFacts
  <2>2. 1 .. k - 1 \subseteq 1 .. n /\ k + 1 .. n \subseteq 1 .. n
    BY <1>1
  <2> QED
    BY <1>2, <1>3, <2>1, <2>2
<1>6. Widened(block, k, s, t) = (l \o around) \o r
  <2>1. Widened(block, k, s, t) = l \o around \o r
    BY DEF Widened, Around
  <2> HIDE DEF l, around, r
  <2> QED
    BY <2>1
<1>7. /\ AllFollow(f, ToSet(l), ToSet(r)) /\ AllFollow(f, ToSet(l), {block[k]})
      /\ AllFollow(f, {block[k]}, ToSet(r)) /\ block[k] \in ToSet(block)
  <2>1. \A i, j \in 1 .. n : i < j => Follows(f, block[i], block[j])
    BY DEF InOrder
  <2>2. /\ \A i \in 1 .. k - 1 : i \in 1 .. n /\ i < k
        /\ \A j \in k + 1 .. n : j \in 1 .. n /\ k < j
        /\ \A i \in 1 .. k - 1, j \in k + 1 .. n : i < j
    BY <1>1
  <2>3. block[k] \in ToSet(block)
    BY SeqFacts
  <2> QED
    BY <1>2, <1>3, <2>1, <2>2, <2>3 DEF AllFollow
<1>a. AllFollow(f, ToSet(s), ToSet(block)) /\ AllFollow(f, ToSet(block), ToSet(s))
  BY ApartFollow
<1>b. \A S : AllFollow(f, S, ToSet(t)) /\ AllFollow(f, ToSet(t), S)
  BY PlainFollow
<1> HIDE DEF l, r, x
<1>8. IsSequence(sx) /\ ToSet(sx) = ToSet(s) \cup {block[k]} /\ InOrder(f, sx)
  <2>1. AllFollow(f, ToSet(s), ToSet(x))
    BY <1>4, <1>7, <1>a DEF AllFollow
  <2>2. InOrder(f, s \o x)
    BY <1>4, <2>1, OrderCat
  <2>3. IsSequence(s \o x) /\ ToSet(s \o x) = ToSet(s) \cup ToSet(x)
    BY <1>4, CatFacts
  <2> QED
    BY <1>4, <2>2, <2>3
<1> HIDE DEF sx
<1>9. IsSequence(around) /\ ToSet(around) = ToSet(s) \cup {block[k]} \cup ToSet(t) /\ InOrder(f, around)
  <2>1. AllFollow(f, ToSet(sx), ToSet(t)) /\ InOrder(f, t)
    BY <1>b, OrderPlain
  <2>2. InOrder(f, sx \o t)
    BY <1>8, <2>1, OrderCat
  <2>3. IsSequence(sx \o t) /\ ToSet(sx \o t) = ToSet(sx) \cup ToSet(t)
    BY <1>8, CatFacts
  <2> QED
    BY <1>8, <2>2, <2>3
<1> HIDE DEF around
<1>10. AllFollow(f, ToSet(l), ToSet(around)) /\ AllFollow(f, ToSet(around), ToSet(r))
  <2>1. /\ AllFollow(f, ToSet(l), ToSet(s)) /\ AllFollow(f, ToSet(s), ToSet(r))
        /\ AllFollow(f, ToSet(l), ToSet(t)) /\ AllFollow(f, ToSet(t), ToSet(r))
    BY <1>5, <1>a, <1>b DEF AllFollow
  <2> QED
    BY <1>7, <1>9, <2>1 DEF AllFollow
<1>11. IsSequence(l \o around) /\ ToSet(l \o around) = ToSet(l) \cup ToSet(around) /\ InOrder(f, l \o around)
  BY <1>2, <1>9, <1>10, CatFacts, OrderCat
<1>12. AllFollow(f, ToSet(l \o around), ToSet(r))
  BY <1>7, <1>10, <1>11 DEF AllFollow
<1> QED
  BY <1>3, <1>6, <1>11, <1>12, OrderCat

\* The parameters of a call come in order, and all of them.
LEMMA CallParams ==
  ASSUME module \in Modules, fn \in DOMAIN Functions, NEW b, NEW i, IsPlace(b, i),
         Inst(<<b, i>>).op = "call"
  PROVE  LET p == <<b, i>>
         IN  /\ InOrder(Function, Params(p))
             /\ CalleeLine(p) \in ToSet(Params(p))
             /\ \A j \in 1 .. Len(Inst(p).operands) :
                  ParamLine(p, j).fn # "none" => ParamLine(p, j) \in ToSet(Params(p))
<1> DEFINE p == <<b, i>>
           inst == Inst(p)
           n == Len(inst.operands)
           lines == [j \in 1 .. n |-> ParamLine(p, j)]
           K == {j \in 1 .. Len(lines) : lines[j].fn # "none"}
           first == <<CalleeLine(p)>>
           rest == Printable(lines)
<1>1. n \in Nat
  BY PlaceFacts
<1>2. Params(p) = first \o rest
  BY DEF Params, CalleeLine, ParamLine, ForIntrinsic, Listed
<1> HIDE DEF p
<1>3. IsSequence(lines) /\ Len(lines) = n /\ \A j \in 1 .. n : lines[j] = ParamLine(p, j)
  <2>1. lines = [j \in 1 .. n |-> lines[j]] /\ \A j \in 1 .. n : lines[j] = ParamLine(p, j)
    OBVIOUS
  <2> HIDE DEF lines, n
  <2> QED
    BY <1>1, <2>1, MadeSeq
<1> HIDE DEF lines
<1>4. Selects(rest, lines, K)
  BY <1>3, PrintableSelects
<1> HIDE DEF rest
<1>5. PICK J : /\ Enumerates(J, K) /\ IsSequence(rest) /\ Len(rest) = Len(J)
               /\ \A k \in 1 .. Len(J) : rest[k] = lines[J[k]]
  BY <1>4 DEF Selects
<1>6. IsSequence(J) /\ ToSet(J) = K /\ \A k, l \in 1 .. Len(J) : k < l => J[k] < J[l]
  BY <1>5 DEF Enumerates
<1>7. /\ \A k \in 1 .. Len(J) : J[k] \in K
      /\ \A j \in K : \E k \in 1 .. Len(J) : j = J[k]
  BY <1>6, SeqFacts
<1>8. \A k \in 1 .. Len(J) : J[k] \in 1 .. n /\ rest[k] = ParamLine(p, J[k])
  BY <1>3, <1>5, <1>7
<1>9. \A j \in 1 .. n : ParamLine(p, j).kind = "param" /\ ParamLine(p, j).num = j
  BY DEF ParamLine, Line, Item
<1>10. InOrder(Function, rest)
  <2> SUFFICES ASSUME NEW k \in 1 .. Len(J), NEW l \in 1 .. Len(J), k < l
               PROVE  Follows(Function, rest[k], rest[l])
    BY <1>5 DEF InOrder
  <2>1. J[k] < J[l] /\ rest[k].kind = "param" /\ rest[k].num = J[k] /\ rest[l].num = J[l]
    BY <1>6, <1>8, <1>9
  <2> QED
    BY <2>1 DEF Follows
<1>11. IsSequence(first) /\ ToSet(first) = {CalleeLine(p)}
  BY OneFacts
<1>12. CalleeLine(p).kind = "callee"
  BY CalleeFields
<1> HIDE DEF first
<1>13. /\ IsSequence(first \o rest) /\ ToSet(first \o rest) = ToSet(first) \cup ToSet(rest)
       /\ InOrder(Function, first \o rest)
  <2>1. \A x \in ToSet(first) : x.kind \notin Ranked
    BY <1>11, <1>12 DEF Ranked
  <2>2. InOrder(Function, first) /\ AllFollow(Function, ToSet(first), ToSet(rest))
    BY <1>11, <2>1, OrderPlain, PlainFollow
  <2>3. InOrder(Function, first \o rest)
    BY <1>5, <1>10, <1>11, <2>2, OrderCat
  <2> QED
    BY <1>5, <1>11, <2>3, CatFacts
<1>14. ASSUME NEW j \in 1 .. n, ParamLine(p, j).fn # "none" PROVE ParamLine(p, j) \in ToSet(rest)
  <2>1. j \in K
    BY <1>3, <1>14
  <2>2. PICK k \in 1 .. Len(J) : j = J[k]
    BY <1>7, <2>1
  <2>3. rest[k] = ParamLine(p, j)
    BY <1>8, <2>2
  <2>4. \A m \in 1 .. Len(rest) : rest[m] \in ToSet(rest)
    BY <1>5, SeqFacts
  <2> QED
    BY <1>5, <2>3, <2>4
<1> QED
  BY <1>2, <1>11, <1>13, <1>14 DEF p

LEMMA OrderParams ==
  ASSUME module \in Modules, fn \in DOMAIN Functions, NEW b, NEW i, IsPlace(b, i)
  PROVE  InOrder(Function, Params(<<b, i>>))
<1> DEFINE p == <<b, i>>
           params == Params(p)
<1>1. CASE Inst(p).op = "call"
  BY <1>1, CallParams
<1>2. CASE Inst(p).op # "call"
  <2>1. IsSequence(params) /\ \A h \in ToSet(params) : HookOf(p, h) /\ h.kind \in {"callee", "param"}
    BY ParamsFacts
  <2>2. InstAt(Function, p).op # "call"
    BY <1>2 DEF InstAt, Inst
  <2> HIDE DEF params
  <2>3. \A h \in ToSet(params) : h.at = p /\ h.kind # "header"
    BY <2>1, HookFields
  <2> QED
    BY <2>1, <2>2, <2>3, SeqFacts DEF InOrder, Follows, params
<1> QED
  BY <1>1, <1>2

LEMMA OrderBefore ==
  ASSUME module \in Modules, fn \in DOMAIN Functions, NEW b, NEW i, IsPlace(b, i)
  PROVE  InOrder(Function, Before(<<b, i>>) \o Result(<<b, i>>)) /\ InOrder(Function, Before(<<b, i>>))
<1> DEFINE p == <<b, i>>
           head == <<HeaderItem(p)>>
           mid == Params(p)
           last == IF Inst(p).op = "ret" THEN <<StatusItem(p)>> ELSE << >>
           tail == mid \o last
           result == Result(p)
<1>1. /\ IsSequence(mid) /\ InOrder(Function, mid)
      /\ \A h \in ToSet(mid) : h.kind \in {"callee", "param"}
  BY ParamsFacts, OrderParams
<1>2. IsSequence(result) /\ \A h \in ToSet(result) : h.kind \notin Ranked
  BY ResultFacts DEF Ranked
<1> HIDE DEF mid, result
<1>3. IsSequence(last) /\ \A h \in ToSet(last) : h.kind \notin Ranked
  <2>1. StatusItem(p).kind = "status"
    BY DEF StatusItem, Item
  <2>2. CASE Inst(p).op = "ret"
    BY <2>1, <2>2, OneFacts DEF Ranked
  <2>3. CASE Inst(p).op # "ret"
    BY <2>3, EmptyFacts
  <2> QED
    BY <2>2, <2>3
<1>4. IsSequence(head) /\ (\A h \in ToSet(head) : h.kind = "header") /\ InOrder(Function, head)
  <2>1. IsSequence(head) /\ Len(head) = 1 /\ ToSet(head) = {HeaderItem(p)}
    BY OneFacts
  <2>2. HeaderItem(p).kind = "header"
    BY DEF HeaderItem, Item
  <2> HIDE DEF head
  <2> QED
    BY <2>1, <2>2 DEF InOrder
<1>5. Before(p) = head \o mid \o last
  BY DEF Before, HeaderItem, StatusItem, mid
<1> HIDE DEF head, last, p
<1>6. InOrder(Function, head \o mid) /\ IsSequence(head \o mid)
  <2>1. AllFollow(Function, ToSet(head), ToSet(mid))
    BY <1>1, <1>4 DEF AllFollow, Follows
  <2> QED
    BY <1>1, <1>4, <2>1, OrderCat, CatFacts
<1> DEFINE hm == head \o mid
<1>7. hm \o last = head \o mid \o last
  OBVIOUS
<1> HIDE DEF hm
<1>8. InOrder(Function, hm \o last) /\ IsSequence(hm \o last)
  <2>1. AllFollow(Function, ToSet(hm), ToSet(last)) /\ InOrder(Function, last)
    BY <1>3, OrderPlain, PlainFollow
  <2>2. IsSequence(hm) /\ InOrder(Function, hm)
    BY <1>6 DEF hm
  <2> QED
    BY <1>3, <2>1, <2>2, OrderCat, CatFacts
<1> DEFINE before == Before(p)
<1>9. InOrder(Function, before) /\ IsSequence(before)
  BY <1>5, <1>7, <1>8
<1> HIDE DEF before
<1>10. InOrder(Function, before \o result)
  <2>1. AllFollow(Function, ToSet(before), ToSet(result)) /\ InOrder(Function, result)
    BY <1>2, OrderPlain, PlainFollow
  <2> QED
    BY <1>2, <1>9, <2>1, OrderCat
<1> QED
  BY <1>9, <1>10 DEF before, p, result

LEMMA OrderPhis ==
  ASSUME module \in Modules, fn \in DOMAIN Functions, NEW b \in Blocks(fn)
  PROVE  InOrder(Function, PhiHooks(b, Phis(b)))
<1> DEFINE n == Phis(b)
           one(i) == Before(<<b, i>>) \o Result(<<b, i>>)
           S == UNION {ToSet(one(i)) : i \in 1 .. n}
           ls == [i \in 1 .. n |-> one(i)]
<1>1. n \in Nat /\ \A i \in 1 .. n : IsPlace(b, i)
  <2>1. n \in Nat /\ n < Len(Function.blocks[b])
    BY PhisFacts
  <2>2. Laid(Function) /\ b \in 1 .. Len(Function.blocks)
    <3>1. Function = Functions[fn]
      BY DEF Function, Functions
    <3> QED
      BY <3>1, FunctionFacts DEF Blocks
  <2>3. Len(Function.blocks[b]) \in Nat
    BY <2>2 DEF Laid
  <2> HIDE DEF n
  <2> QED
    BY <2>1, <2>3 DEF IsPlace
<1>2. PhiHooks(b, n) = FlattenSeq(ls)
  BY DEF PhiHooks
<1> HIDE DEF n
<1>3. ASSUME NEW i \in 1 .. n
      PROVE  /\ one(i) \in Seq(S) /\ IsSequence(one(i)) /\ InOrder(Function, one(i))
             /\ \A h \in ToSet(one(i)) : h.at = <<b, i>>
  <2>1. /\ IsSequence(Before(<<b, i>>)) /\ IsSequence(Result(<<b, i>>))
        /\ \A h \in ToSet(Before(<<b, i>>)) \cup ToSet(Result(<<b, i>>)) : HookOf(<<b, i>>, h)
    BY <1>1, BeforeFacts, ResultFacts
  <2>2. /\ IsSequence(one(i))
        /\ ToSet(one(i)) = ToSet(Before(<<b, i>>)) \cup ToSet(Result(<<b, i>>))
    BY <2>1, CatFacts
  <2>3. \A h \in ToSet(one(i)) : h.at = <<b, i>>
    BY <2>1, <2>2, HookFields
  <2>4. InOrder(Function, one(i))
    BY <1>1, OrderBefore
  <2> HIDE DEF one
  <2>5. ToSet(one(i)) \subseteq S
    OBVIOUS
  <2> HIDE DEF S
  <2>6. one(i) \in Seq(S)
    BY <2>2, <2>5, SeqMonotonic DEF IsSequence
  <2> QED
    BY <2>2, <2>3, <2>4, <2>6
<1> HIDE DEF S, one
<1>4. ls \in Seq(Seq(S)) /\ Len(ls) = n /\ \A i \in 1 .. n : ls[i] = one(i)
  <2> DEFINE D == Seq(S)
  <2>1. \A i \in 1 .. n : one(i) \in D
    BY <1>3
  <2> HIDE DEF D
  <2>2. ls \in Seq(D)
    BY <1>1, <2>1, IsASeq
  <2> QED
    BY <1>1, <2>2 DEF D
<1> HIDE DEF ls
<1>5. CASE n = 0
  <2>1. ls = << >>
    BY <1>4, <1>5
  <2>2. FlattenSeq(ls) = << >>
    BY <2>1 DEF FlattenSeq
  <2>3. Len(<< >>) = 0
    BY EmptyFacts
  <2> QED
    BY <1>2, <2>2, <2>3 DEF InOrder, n
<1>6. CASE n # 0
  <2>1. PICK h : Flattens(h, ls)
    BY <1>4, <1>6, FlattenSteps
  <2>2. /\ FlattenSeq(ls) = h[n] /\ h[1] = ls[1]
        /\ \A i \in 2 .. n : h[i] = h[i - 1] \o ls[i]
    <3>1. 1 \in 1 .. n /\ 2 .. n \subseteq 1 .. n /\ \A i \in 2 .. n : i # 1
      BY <1>1, <1>6
    <3> QED
      BY <1>4, <2>1, <3>1 DEF Flattens
  <2> DEFINE Good(i) == /\ IsSequence(h[i]) /\ InOrder(Function, h[i])
                        /\ \A x \in ToSet(h[i]) : \E j \in 1 .. i : x.at = <<b, j>>
             T == {i \in 0 .. n : i = 0 \/ Good(i)}
  <2>3. ASSUME NEW i \in 1 .. n, i - 1 \in T PROVE i \in T
    <3>1. CASE i = 1
      <4>1. h[1] = one(1) /\ 1 \in 1 .. n /\ 1 \in 1 .. 1
        BY <1>4, <2>2, <3>1
      <4>2. Good(1)
        BY <1>3, <4>1
      <4> QED
        BY <3>1, <4>1, <4>2
    <3>2. CASE i # 1
      <4>1. i - 1 \in 1 .. n /\ i \in 2 .. n
        BY <1>1, <3>2
      <4>2. Good(i - 1) /\ h[i] = h[i - 1] \o one(i)
        <5>1. i - 1 # 0
          BY <3>2
        <5>2. i - 1 = 0 \/ Good(i - 1)
          BY <2>3
        <5>3. h[i] = h[i - 1] \o ls[i] /\ ls[i] = one(i)
          BY <1>4, <2>2, <4>1
        <5> QED
          BY <5>1, <5>2, <5>3
      <4>3. Apart(ToSet(h[i - 1]), ToSet(one(i)))
        <5> SUFFICES ASSUME NEW x \in ToSet(h[i - 1]), NEW y \in ToSet(one(i)), x.at = y.at
                     PROVE  FALSE
          BY DEF Apart
        <5>1. PICK j \in 1 .. i - 1 : x.at = <<b, j>>
          BY <4>2
        <5>2. y.at = <<b, i>>
          BY <1>3
        <5>3. <<b, j>> = <<b, i>>
          BY <5>1, <5>2
        <5>4. j = i
          BY <5>3
        <5> QED
          BY <1>1, <5>4
      <4>4. InOrder(Function, h[i - 1] \o one(i)) /\ IsSequence(h[i - 1] \o one(i))
            /\ ToSet(h[i - 1] \o one(i)) = ToSet(h[i - 1]) \cup ToSet(one(i))
        <5>1. AllFollow(Function, ToSet(h[i - 1]), ToSet(one(i)))
          BY <4>3, ApartFollow
        <5> QED
          BY <1>3, <4>2, <5>1, OrderCat, CatFacts
      <4>5. \A x \in ToSet(h[i]) : \E j \in 1 .. i : x.at = <<b, j>>
        <5> SUFFICES ASSUME NEW x \in ToSet(h[i]) PROVE \E j \in 1 .. i : x.at = <<b, j>>
          OBVIOUS
        <5>1. CASE x \in ToSet(h[i - 1])
          <6>1. PICK j \in 1 .. i - 1 : x.at = <<b, j>>
            BY <4>2, <5>1
          <6>2. j \in 1 .. i
            BY <4>1
          <6> QED
            BY <6>1, <6>2
        <5>2. CASE x \in ToSet(one(i))
          BY <1>3, <5>2
        <5> QED
          BY <4>2, <4>4, <5>1, <5>2
      <4>6. Good(i)
        BY <4>2, <4>4, <4>5
      <4> QED
        BY <4>6
    <3> QED
      BY <3>1, <3>2
  <2>4. n \in T
    <3>1. 0 \in T
      BY <1>1
    <3> HIDE DEF T
    <3>2. 0 .. n \subseteq T
      BY <1>1, <2>3, <3>1, UpTo
    <3> QED
      BY <1>1, <3>2
  <2> QED
    BY <1>2, <1>6, <2>2, <2>4 DEF n
<1> QED
  BY <1>5, <1>6

----------------------------------------------------------------------------
(* What a step inserts.                                                    *)

Inserts(b, k, before, after) ==
  /\ b \in Blocks(fn) /\ k \in 1 .. Len(code[fn][b])
  /\ IsSequence(before) /\ IsSequence(after)
  /\ \A h \in ToSet(before) \cup ToSet(after) : IsItem(h)
  /\ \A g \in DOMAIN Functions \ {fn} : code'[g] = code[g]
  /\ \E a, s, t : Leaves(b, k, before, after, a, s, t)

LEMMA BasicBlockInserts ==
  ASSUME PassInv, RunOnBasicBlock
  PROVE  /\ module \in Modules /\ fn \in DOMAIN Functions /\ Function = Functions[fn]
         /\ Rewriting /\ at[1] \in Blocks(fn) /\ at = <<at[1], 0>>
         /\ Inserts(at[1], Phis(at[1]) + 1, PhiHooks(at[1], Phis(at[1])), << >>)
<1> DEFINE c == at[1]
           n == Phis(c)
           before == PhiHooks(c, n)
           after == << >>
           k == n + 1
<1>1. pc = "block" /\ c \in DOMAIN Function.blocks /\ Insert(c, k, before, after)
  BY DEF RunOnBasicBlock
<1>2. WalkInv /\ LayoutInv /\ FreshInv /\ BufferInv
  BY DEF PassInv
<1>3. /\ module \in Modules /\ fn \in DOMAIN Functions /\ Function = Functions[fn]
      /\ Rewriting /\ c \in Blocks(fn)
  BY <1>1, <1>2, AtBlock
<1>at. at = <<c, 0>>
  <2>1. PICK m \in 1 .. Len(Function.blocks) + 1 : at = <<m, 0>>
    BY <1>1, <1>2, AtBlock
  <2>2. c = m
    BY <2>1
  <2> QED
    BY <2>1, <2>2
<1> HIDE DEF c
<1>4. /\ IsSequence(before)
      /\ \A x \in ToSet(before) : \E i \in 1 .. n : HookOf(<<c, i>>, x)
  BY <1>3, PhiHooksFacts
<1>5. k \in 1 .. Len(code[fn][c])
  BY <1>1, <1>2, <1>3, <1>at, PhiFits
<1>6. IsSequence(after) /\ ToSet(after) = {}
  BY EmptyFacts
<1> HIDE DEF n, before, after, k
<1>7. \A x \in ToSet(before) \cup ToSet(after) : IsItem(x)
  BY <1>4, <1>6, HookFields
<1>8. /\ \A g \in DOMAIN Functions \ {fn} : code'[g] = code[g]
      /\ \E a, s, t : Leaves(c, k, before, after, a, s, t)
  <2>1. code = [g \in DOMAIN Functions |-> [d \in DOMAIN Functions[g].blocks |-> code[g][d]]]
    BY <1>2 DEF LayoutInv
  <2>2. IsSequence(vector_buffers)
    BY <1>2 DEF BufferInv
  <2> QED
    BY <1>1, <1>3, <1>4, <1>6, <2>1, <2>2, InsertFacts
<1>9. Inserts(c, k, before, after)
  BY <1>3, <1>4, <1>5, <1>6, <1>7, <1>8 DEF Inserts
<1> QED
  BY <1>3, <1>at, <1>9 DEF c, n, before, after, k

LEMMA InstructionInserts ==
  ASSUME PassInv, TraceInstruction
  PROVE  /\ module \in Modules /\ fn \in DOMAIN Functions /\ Function = Functions[fn]
         /\ Rewriting
         /\ \E c, i : /\ at = <<c, i>> /\ IsPlace(c, i) /\ Reached(c, i)
                      /\ Function.blocks[c][i].op # "phi"
                      /\ Inserts(c, Position(<<c, i>>), Before(<<c, i>>), Result(<<c, i>>))
<1>1. /\ pc = "instruction" /\ Insert(at[1], Position(at), Before(at), Result(at))
  BY DEF TraceInstruction
<1>2. WalkInv /\ LayoutInv /\ FreshInv /\ BufferInv
  BY DEF PassInv
<1>3. /\ module \in Modules /\ fn \in DOMAIN Functions /\ Function = Functions[fn]
      /\ Rewriting /\ Visited(Function)
  BY <1>1, <1>2, AtInstruction
<1>4. PICK c, i : /\ at = <<c, i>> /\ IsPlace(c, i) /\ Function.blocks[c][i].op # "phi"
  BY <1>1, <1>2, AtInstruction
<1>5. at[1] = c /\ c \in Blocks(fn) /\ Reached(c, i)
  BY <1>3, <1>4 DEF IsPlace, Reached
<1> DEFINE k == Position(at)
           before == Before(at)
           after == Result(at)
<1>6. IsSequence(before) /\ \A h \in ToSet(before) : HookOf(at, h)
  BY <1>3, <1>4, BeforeFacts
<1>7. IsSequence(after) /\ \A h \in ToSet(after) : HookOf(at, h)
  BY <1>3, <1>4, ResultFacts
<1>8. k \in 1 .. Len(code[fn][c])
  BY <1>2, <1>3, <1>4, PositionFacts
<1>9. Insert(c, k, before, after)
  BY <1>1, <1>5
<1> HIDE DEF k, before, after
<1>10. \A h \in ToSet(before) \cup ToSet(after) : IsItem(h)
  BY <1>6, <1>7, HookFields
<1>11. /\ \A g \in DOMAIN Functions \ {fn} : code'[g] = code[g]
       /\ \E a, s, t : Leaves(c, k, before, after, a, s, t)
  <2>1. code = [g \in DOMAIN Functions |-> [d \in DOMAIN Functions[g].blocks |-> code[g][d]]]
    BY <1>2 DEF LayoutInv
  <2>2. IsSequence(vector_buffers)
    BY <1>2 DEF BufferInv
  <2> QED
    BY <1>3, <1>6, <1>7, <1>9, <2>1, <2>2, InsertFacts
<1>12. Inserts(c, k, before, after)
  BY <1>5, <1>6, <1>7, <1>8, <1>10, <1>11 DEF Inserts
<1>13. Inserts(c, Position(<<c, i>>), Before(<<c, i>>), Result(<<c, i>>))
  BY <1>4, <1>12 DEF k, before, after
<1> QED
  BY <1>3, <1>4, <1>5, <1>13

LEMMA EntryInserts ==
  ASSUME PassInv, RunOnFunctionEntry, Function.symbol # MainFn
  PROVE  /\ module \in Modules /\ fn \in DOMAIN Functions /\ Function = Functions[fn]
         /\ Rewriting /\ Inserts(1, insertionPoint, EntryHooks, << >>)
<1> DEFINE one == 1
           k == insertionPoint
           before == EntryHooks
           after == << >>
<1>1. pc = "block" /\ Insert(one, k, before, after)
  BY DEF RunOnFunctionEntry
<1>2. WalkInv /\ LayoutInv /\ FreshInv /\ BufferInv
  BY DEF PassInv
<1>3. /\ module \in Modules /\ fn \in DOMAIN Functions /\ Function = Functions[fn]
      /\ Rewriting /\ Laid(Function) /\ Blocks(fn) = 1 .. Len(Function.blocks)
  BY <1>1, <1>2, AtBlock
<1>4. k \in 1 .. Len(code[fn][one])
  BY <1>2, <1>3, InsertionPointFacts
<1>5. IsSequence(before) /\ \A h \in ToSet(before) : HookAtEntry(h)
  BY <1>3, EntryHooksFacts
<1>6. IsSequence(after) /\ ToSet(after) = {}
  BY EmptyFacts
<1>7. one \in Blocks(fn)
  BY <1>3 DEF Laid
<1> HIDE DEF one, k, before, after
<1>8. \A h \in ToSet(before) \cup ToSet(after) : IsItem(h)
  BY <1>5, <1>6, EntryFields
<1>9. /\ \A g \in DOMAIN Functions \ {fn} : code'[g] = code[g]
      /\ \E a, s, t : Leaves(one, k, before, after, a, s, t)
  <2>1. code = [g \in DOMAIN Functions |-> [d \in DOMAIN Functions[g].blocks |-> code[g][d]]]
    BY <1>2 DEF LayoutInv
  <2>2. IsSequence(vector_buffers)
    BY <1>2 DEF BufferInv
  <2> QED
    BY <1>1, <1>3, <1>5, <1>6, <2>1, <2>2, InsertFacts
<1>10. Inserts(one, k, before, after)
  BY <1>4, <1>5, <1>6, <1>7, <1>8, <1>9 DEF Inserts
<1> QED
  BY <1>3, <1>10 DEF one, k, before, after

LEMMA OrderInserted ==
  ASSUME LayoutInv, module \in Modules, fn \in DOMAIN Functions,
         NEW b, NEW k, NEW before, NEW after, Inserts(b, k, before, after),
         \A c \in Blocks(fn) : InOrder(Functions[fn], code[fn][c]),
         InOrder(Functions[fn], before), \A h \in ToSet(after) : h.kind \notin Ranked,
         Apart(ToSet(before), ToSet(code[fn][b]))
  PROVE  \A c \in Blocks(fn) : InOrder(Functions[fn], code'[fn][c])
<1>1. /\ b \in Blocks(fn) /\ k \in 1 .. Len(code[fn][b])
      /\ IsSequence(before) /\ IsSequence(after)
      /\ \A h \in ToSet(before) \cup ToSet(after) : IsItem(h)
  BY DEF Inserts
<1>2. PICK a, s, t : Leaves(b, k, before, after, a, s, t)
  BY DEF Inserts
<1> DEFINE front == [i \in DOMAIN a |-> Alloca(a[i])]
           new == Widened(code[fn][b], k, s, t)
           pre(c) == IF c = 1 THEN front ELSE << >>
           body(c) == IF c = b THEN new ELSE code[fn][c]
<1>3. /\ IsSequence(a) /\ IsSequence(s) /\ IsSequence(t)
      /\ Len(s) = Len(before) /\ Len(t) = Len(after)
      /\ \A i \in 1 .. Len(before) : Passes(before[i], s[i], vector_buffers')
      /\ \A i \in 1 .. Len(after) : Passes(after[i], t[i], vector_buffers')
      /\ \A c \in DOMAIN Functions[fn].blocks : code'[fn][c] = pre(c) \o body(c)
  BY <1>2 DEF Leaves
<1>4. /\ \A x \in ToSet(s) : \E h \in ToSet(before) : Passes(h, x, vector_buffers')
      /\ \A x \in ToSet(t) : \E h \in ToSet(after) : Passes(h, x, vector_buffers')
  BY <1>1, <1>3, PassedSeq
<1>5. InOrder(Functions[fn], s)
  BY <1>1, <1>3, OrderPassed
<1>6. (\A x \in ToSet(t) : x.kind \notin Ranked) /\ Apart(ToSet(s), ToSet(code[fn][b]))
  <2>1. \A h \in ToSet(before) \cup ToSet(after) : \A x :
          Passes(h, x, vector_buffers') => x.kind = h.kind /\ x.at = h.at
    BY <1>1, PassesFacts
  <2> QED
    BY <1>4, <2>1 DEF Apart, Ranked
<1>7. \A c \in Blocks(fn) : IsSequence(code[fn][c])
  BY DEF LayoutInv
<1>8. InOrder(Functions[fn], new) /\ IsSequence(new)
  BY <1>1, <1>3, <1>5, <1>6, <1>7, OrderWidened, WidenedFacts
<1>9. IsSequence(front) /\ \A x \in ToSet(front) : x.kind \notin Ranked
  <2>1. IsSequence(front) /\ ToSet(front) = {Alloca(x) : x \in ToSet(a)}
    BY <1>3, AllocaSeq
  <2> HIDE DEF front
  <2> QED
    BY <2>1, AllocaFacts DEF Ranked
<1> HIDE DEF front, new
<1>10. ASSUME NEW c \in Blocks(fn) PROVE InOrder(Functions[fn], code'[fn][c])
  <2>1. IsSequence(pre(c)) /\ \A x \in ToSet(pre(c)) : x.kind \notin Ranked
    <3>1. IsSequence(<< >>) /\ ToSet(<< >>) = {}
      BY EmptyFacts
    <3> QED
      BY <1>9, <3>1
  <2>2. IsSequence(body(c)) /\ InOrder(Functions[fn], body(c))
    BY <1>7, <1>8
  <2>3. code'[fn][c] = pre(c) \o body(c)
    <3>1. DOMAIN Functions[fn].blocks = Blocks(fn)
      BY ModuleFacts
    <3> QED
      BY <1>3, <3>1
  <2> HIDE DEF pre, body
  <2>4. InOrder(Functions[fn], pre(c)) /\ AllFollow(Functions[fn], ToSet(pre(c)), ToSet(body(c)))
    BY <2>1, OrderPlain, PlainFollow
  <2> QED
    BY <2>1, <2>2, <2>3, <2>4, OrderCat
<1> QED
  BY <1>10

OrderInv == \A g \in DOMAIN Functions : \A b \in Blocks(g) : InOrder(Functions[g], code[g][b])

\* However often a block is rewritten, no instruction has two headers in it, and the
\* parameters of a call stand in the order of their numbers.
THEOREM OrderInvariant == Spec => []OrderInv
<1>1. Init => OrderInv
  <2> SUFFICES ASSUME Init, NEW g \in DOMAIN Functions, NEW b \in Blocks(g)
               PROVE  InOrder(Functions[g], code[g][b])
    BY DEF OrderInv
  <2>1. module \in Modules /\ code[g] = Original(Functions[g])
    BY DEF Init, Functions
  <2>2. Laid(Functions[g]) /\ b \in 1 .. Len(Functions[g].blocks)
    BY <2>1, FunctionFacts DEF Blocks
  <2>3. IsSequence(Original(Functions[g])[b])
    BY <2>2, OriginalFacts
  <2>4. \A x \in ToSet(Original(Functions[g])[b]) : x.kind \notin Ranked
    BY <2>2, NoHooks DEF Ranked
  <2> QED
    BY <2>1, <2>3, <2>4, OrderPlain
<1>2. PassInv /\ OrderInv /\ [Next]_vars => OrderInv'
  <2> SUFFICES ASSUME PassInv, OrderInv, [Next]_vars PROVE OrderInv'
    OBVIOUS
  <2>1. module' = module /\ Functions' = Functions /\ LayoutInv /\ FreshInv /\ WalkInv
    <3>1. module' = module
      BY DEF Next, DoInitialization, RunOnFunction, SkipBlock, RunOnBasicBlock, SkipInstruction,
             TraceInstruction, RunOnFunctionEntry, Done, Stopped, vars, unchangedModule
    <3> QED
      BY <3>1 DEF Functions, PassInv
  <2>2. \A g : Blocks(g)' = Blocks(g)
    BY <2>1 DEF Blocks
  <2>3. CASE code' = code
    BY <2>1, <2>2, <2>3 DEF OrderInv
  <2>4. ASSUME module \in Modules, fn \in DOMAIN Functions,
               NEW b, NEW k, NEW before, NEW after, Inserts(b, k, before, after),
               InOrder(Functions[fn], before), \A h \in ToSet(after) : h.kind \notin Ranked,
               Apart(ToSet(before), ToSet(code[fn][b]))
        PROVE  OrderInv'
    <3>1. \A c \in Blocks(fn) : InOrder(Functions[fn], code'[fn][c])
      BY <2>1, <2>4, OrderInserted DEF OrderInv
    <3>2. \A g \in DOMAIN Functions \ {fn} : code'[g] = code[g]
      BY <2>4 DEF Inserts
    <3> QED
      BY <2>1, <2>2, <3>1, <3>2 DEF OrderInv
  <2>5. CASE RunOnBasicBlock
    <3> DEFINE c == at[1]
               before == PhiHooks(c, Phis(c))
    <3>1. /\ module \in Modules /\ fn \in DOMAIN Functions /\ Function = Functions[fn]
          /\ Rewriting /\ c \in Blocks(fn)
          /\ Inserts(c, Phis(c) + 1, before, << >>)
      BY <2>5, BasicBlockInserts
    <3>2. InOrder(Function, before)
      BY <3>1, OrderPhis
    <3>3. code[fn][c] = Original(Function)[c]
      BY <2>1, <2>5, <3>1 DEF FreshInv, RunOnBasicBlock
    <3>4. \A x \in ToSet(code[fn][c]) : x.kind \notin Ranked
      <4>1. Laid(Function) /\ c \in 1 .. Len(Function.blocks)
        BY <3>1, FunctionFacts DEF Blocks
      <4> QED
        BY <3>3, <4>1, NoHooks DEF Ranked
    <3>5. ToSet(<< >>) = {}
      BY EmptyFacts
    <3> HIDE DEF before
    <3>6. Apart(ToSet(before), ToSet(code[fn][c]))
      BY <3>4 DEF Apart
    <3> QED
      BY <2>4, <3>1, <3>2, <3>5, <3>6
  <2>6. CASE TraceInstruction
    <3>1. /\ module \in Modules /\ fn \in DOMAIN Functions /\ Function = Functions[fn] /\ Rewriting
      BY <2>6, InstructionInserts
    <3>2. PICK c, i : /\ at = <<c, i>> /\ IsPlace(c, i)
                      /\ Inserts(c, Position(<<c, i>>), Before(<<c, i>>), Result(<<c, i>>))
      BY <2>6, InstructionInserts
    <3> DEFINE before == Before(<<c, i>>)
               after == Result(<<c, i>>)
    <3>3. InOrder(Function, before) /\ \A h \in ToSet(before) : h.at = <<c, i>>
      <4>1. \A h \in ToSet(before) : HookOf(<<c, i>>, h)
        BY <3>1, <3>2, BeforeFacts
      <4>2. InOrder(Function, before)
        BY <3>1, <3>2, OrderBefore
      <4> QED
        BY <4>1, <4>2, HookFields
    <3>4. \A h \in ToSet(after) : h.kind \notin Ranked
      BY <3>1, <3>2, ResultFacts DEF Ranked
    <3> HIDE DEF before, after
    <3>5. ASSUME NEW x \in ToSet(code[fn][c]), x.kind \in Ranked PROVE x.at # <<c, i>>
      <4>1. c \in Blocks(fn) /\ at[1] = c /\ at[2] = i /\ i \in Nat /\ c \in Nat
        <5>1. c \in Blocks(fn) /\ c \in Nat /\ i \in Nat
          BY <3>1, <3>2, PlaceFacts DEF IsPlace
        <5> QED
          BY <3>2, <5>1
      <4>2. x.at[2] < i
        BY <2>1, <3>1, <3>5, <4>1 DEF FreshInv, IsHook, Ranked
      <4>3. x.at = <<c, i>> => x.at[2] = i
        OBVIOUS
      <4> QED
        BY <4>1, <4>2, <4>3
    <3>6. Apart(ToSet(before), ToSet(code[fn][c]))
      BY <3>3, <3>5 DEF Apart
    <3> QED
      BY <2>4, <3>1, <3>2, <3>3, <3>4, <3>6 DEF before, after
  <2>7. CASE RunOnFunctionEntry
    <3>1. CASE Function.symbol = MainFn
      BY <2>3, <2>7, <3>1 DEF RunOnFunctionEntry
    <3>2. CASE Function.symbol # MainFn
      <4> DEFINE before == EntryHooks
                 one == 1
      <4>1. /\ module \in Modules /\ fn \in DOMAIN Functions
            /\ Inserts(one, insertionPoint, before, << >>)
        BY <2>7, <3>2, EntryInserts
      <4>2. \A h \in ToSet(before) : h.kind \notin Ranked
        BY <4>1, EntryHooksFacts, EntryFields DEF EntryHook, Ranked
      <4>3. ToSet(<< >>) = {} /\ IsSequence(before)
        BY <4>1, EmptyFacts DEF Inserts
      <4> HIDE DEF before, one
      <4>4. InOrder(Functions[fn], before) /\ Apart(ToSet(before), ToSet(code[fn][one]))
        BY <4>2, <4>3, OrderPlain DEF Apart
      <4> QED
        BY <2>4, <4>1, <4>3, <4>4
    <3> QED
      BY <3>1, <3>2
  <2> QED
    BY <2>3, <2>5, <2>6, <2>7
       DEF Next, DoInitialization, RunOnFunction, SkipBlock, SkipInstruction, Done, Stopped, vars
<1> QED
  BY <1>1, <1>2, PassInvariant, PTL DEF Spec

----------------------------------------------------------------------------
(* What headers show.                                                      *)

\* The instruction at q has neither a name nor a number of the tracker.
Nameless(f, q) == NameOf(f, ValueOf(f, q)) = NoName /\ q \notin DOMAIN Source(f)

\* The id in the header of the instruction at q, n being the number of those of its
\* block that needed one so far.
HeadId(f, q, n) ==
  IF NameOf(f, ValueOf(f, q)) # NoName THEN Named(NameOf(f, ValueOf(f, q)))
  ELSE IF q \in DOMAIN Source(f) THEN Numbered(Source(f)[q])
  ELSE Artificial(BlockId(f, q[1]), n)

LEMMA HeadIds ==
  ASSUME Knows, NEW b, NEW i, Reached(b, i)
  PROVE  /\ IsArtificial(<<b, i>>) <=> Nameless(Function, <<b, i>>)
         /\ getInstId(<<b, i>>) = HeadId(Function, <<b, i>>, instc)
         /\ Function.blocks[b][i].op = "phi" => ~Nameless(Function, <<b, i>>)
<1> DEFINE f == Function
           q == <<b, i>>
           name == NameOf(f, ValueOf(f, q))
<1>1. /\ f = Functions[fn] /\ module \in Modules /\ fn \in DOMAIN Functions
      /\ NumberInv /\ Rewriting
  BY DEF Knows, Function, Functions
<1>2. /\ b \in Blocks(fn) /\ i \in 1 .. Len(f.blocks[b]) /\ b \in Nat \ {0} /\ i \in Nat \ {0}
      /\ InstOK(module, f, b, i) /\ Inst(q) = f.blocks[b][i] /\ IsPlace(b, i)
  BY <1>1, PlaceFacts DEF Reached, IsPlace
<1>3. getValueName(asOperand(q)) = name
  <2>1. asOperand(q) = ValueOf(f, q)
    BY DEF asOperand, ValueOf, Inst, InstAt
  <2> QED
    BY <2>1, ValueNames
<1>4. Slot(q) \notin DOMAIN slotToVarName
  <2>1. q \notin Behind(f, at)
    <3>1. ~Before_in_layout(q, at)
      <4>1. q[1] = b /\ q[2] = i
        OBVIOUS
      <4>2. at[1] = b /\ at[2] \in {0, i}
        BY DEF Reached
      <4> QED
        BY <1>2, <4>1, <4>2 DEF Before_in_layout
    <3> QED
      BY <3>1 DEF Behind
  <2> QED
    BY <2>1, SlotOfCast
<1>5. Slot(q) = IF q \in DOMAIN Source(f) THEN Source(f)[q] ELSE -1
  BY <1>1, SlotFacts
<1>6. \A p \in DOMAIN Source(f) : Source(f)[p] \in Nat
  BY <1>1, SourceFacts
<1>7. operandId(q) = IF name # NoName THEN Named(name) ELSE Numbered(Slot(q))
  BY <1>3, <1>4 DEF operandId
<1>8. \A x : Named(x) # Numbered(-1)
  <2>1. "name" # "slot"
    OBVIOUS
  <2> QED
    BY <2>1, Tags
<1>9. \A x \in Nat : Numbered(x) # Numbered(-1)
  <2>1. \A x : Numbered(x)[2] = x
    BY Tags
  <2>2. \A x \in Nat : x # -1
    OBVIOUS
  <2> QED
    BY <2>1, <2>2
<1>10. blockId(b) = BlockId(f, b) /\ q[1] = b
  BY <1>1, <1>2, BlockIdFacts
<1>11. f.blocks[b][i].op = "phi" => ~Nameless(f, q)
  <2> SUFFICES ASSUME f.blocks[b][i].op = "phi", Nameless(f, q) PROVE FALSE
    OBVIOUS
  <2>1. f.blocks[b][i].type # Void
    BY <1>2 DEF InstOK
  <2>2. f.blocks[b][i].name # NoName
    <3>1. f.blocks[b][i].name = NoName => q \in DOMAIN Source(f)
      BY <1>1, <1>2, <2>1, SourceFacts
    <3> QED
      BY <3>1 DEF Nameless
  <2>3. ownName(f, ValueOf(f, q)) = f.blocks[b][i].name
    BY DEF ownName, ValueOf, Operand
  <2> QED
    BY <2>2, <2>3 DEF Nameless, NameOf, nameIn
<1> HIDE DEF f, q, name
<1>12. IsArtificial(q) <=> Nameless(f, q)
  BY <1>5, <1>6, <1>7, <1>8, <1>9 DEF IsArtificial, Nameless, name
<1>13. getInstId(q) = HeadId(f, q, instc)
  BY <1>5, <1>7, <1>10, <1>12 DEF getInstId, HeadId, Nameless, name
<1> QED
  BY <1>11, <1>12, <1>13 DEF f, q

\* A header that a step adds.
LEMMA NewHeader ==
  ASSUME PassInv, PassInv', [Next]_vars, module' = module,
         NEW g \in DOMAIN Functions, NEW b \in Blocks(g),
         NEW h \in ToSet(code'[g][b]), h.kind = "header", h \notin ToSet(code[g][b])
  PROVE  /\ g = fn /\ Rewriting /\ h.at[1] = b
         /\ \E i : /\ Reached(b, i) /\ h.at = <<b, i>> /\ h.id = getInstId(<<b, i>>)
<1>1. g = fn /\ Rewriting /\ Made(h, vector_buffers')
  BY NextHooks DEF IsHook
<1>2. PICK h0 : /\ IsItem(h0) /\ Passes(h0, h, vector_buffers')
                /\ HookAtEntry(h0) \/ \E c, i : Reached(c, i) /\ HookOf(<<c, i>>, h0)
  BY <1>1 DEF Made
<1>3. h0.kind = "header"
  BY <1>2, PassesFacts
<1>4. PICK c, i : Reached(c, i) /\ HookOf(<<c, i>>, h0)
  BY <1>2, <1>3, EntryFields DEF EntryHook
<1> DEFINE q == <<c, i>>
<1>5. h0 = HeaderItem(q)
  <2>1. StatusItem(q).kind = "status"
    BY DEF StatusItem, Item
  <2> HIDE DEF q
  <2>2. h0 # StatusItem(q) /\ h0 # CalleeLine(q) /\ h0 # ResultLine(q)
    BY <1>3, <2>1, CalleeFields, ResultFields
  <2>3. \A j : h0 # ParamLine(q, j)
    BY <1>3, ParamFields
  <2> QED
    BY <1>4, <2>2, <2>3 DEF HookOf, q
<1>6. h0.at = q /\ h0.id = getInstId(q)
  <2> HIDE DEF q
  <2> QED
    BY <1>5 DEF HeaderItem, Item
<1>7. h.at = q /\ h.id = getInstId(q)
  BY <1>2, <1>6 DEF Passes, IsItem, ItemFields
<1>8. h.at[1] = b
  <2>1. Placed(Functions[g], b, h)
    BY DEF PassInv, LayoutInv, Functions, Blocks
  <2>2. /\ module \in Modules /\ Laid(Functions[g]) /\ b \in 1 .. Len(Functions[g].blocks)
    BY FunctionFacts DEF PassInv, WalkInv, Blocks
  <2>3. InstHook(Functions[g], b, h)
    <3>1. \A j \in 1 .. Len(Functions[g].blocks[b]) : Original(Functions[g])[b][j].kind = "inst"
      BY <2>2, OriginalFacts
    <3> QED
      BY <2>1, <3>1 DEF Placed, EntryHook
  <2> QED
    BY <2>2, <2>3, HookKey
<1>9. c = b
  BY <1>7, <1>8
<1> QED
  BY <1>1, <1>4, <1>7, <1>8, <1>9

\* Headers show that id, and the numbers in those of one block differ.
HeadInv ==
  /\ \A g \in DOMAIN Functions : ~NamedCast(Functions[g]) =>
       \A b \in Blocks(g) : \A h \in ToSet(code[g][b]) : h.kind = "header" =>
         /\ h.at[1] = b
         /\ \E n \in Nat :
              /\ h.id = HeadId(Functions[g], h.at, n)
              /\ pc = "instruction" /\ g = fn /\ b = at[1] /\ Nameless(Functions[g], h.at) => n < instc
         /\ \A x \in ToSet(code[g][b]) :
              x.kind = "header" /\ x.id = h.id /\ Nameless(Functions[g], h.at)
                /\ Nameless(Functions[g], x.at) => x.at = h.at

\* Every header, at any time, shows the id of its instruction, and no two instructions
\* of a block that need a number are given the same one.
THEOREM HeadInvariant == Spec => []HeadInv
<1>1. Init => HeadInv
  <2> SUFFICES ASSUME Init, NEW g \in DOMAIN Functions, NEW b \in Blocks(g),
                      NEW h \in ToSet(code[g][b]), h.kind = "header"
               PROVE  FALSE
    BY DEF HeadInv
  <2>1. module \in Modules /\ code[g] = Original(Functions[g])
    BY DEF Init, Functions
  <2>2. Laid(Functions[g]) /\ b \in 1 .. Len(Functions[g].blocks)
    BY <2>1, FunctionFacts DEF Blocks
  <2> QED
    BY <2>1, <2>2, NoHooks
<1>2. PassInv /\ PassInv' /\ NumberInv /\ NameInv /\ NameInv' /\ CastInv /\ HeadInv /\ [Next]_vars
        => HeadInv'
  <2> SUFFICES ASSUME PassInv, PassInv', NumberInv, NameInv, NameInv', CastInv, HeadInv, [Next]_vars
               PROVE  HeadInv'
    OBVIOUS
  <2>1. module' = module /\ Functions' = Functions /\ module \in Modules
        /\ Function = Functions[fn] /\ WalkInv /\ LayoutInv /\ FreshInv
    <3>1. module' = module
      BY DEF Next, DoInitialization, RunOnFunction, SkipBlock, RunOnBasicBlock, SkipInstruction,
             TraceInstruction, RunOnFunctionEntry, Done, Stopped, vars, unchangedModule
    <3> QED
      BY <3>1 DEF Functions, Function, PassInv, WalkInv
  <2>2. \A g : Blocks(g)' = Blocks(g)
    BY <2>1 DEF Blocks
  <2>3. instc \in Nat /\ instc' \in Nat
    BY DEF NameInv
  \* A header that was not there before.
  <2>4. ASSUME NEW g \in DOMAIN Functions, ~NamedCast(Functions[g]), NEW b \in Blocks(g),
               NEW h \in ToSet(code'[g][b]), h.kind = "header", h \notin ToSet(code[g][b])
        PROVE  /\ g = fn /\ h.at[1] = b /\ b = at[1] /\ h.id = HeadId(Functions[g], h.at, instc)
               /\ Nameless(Functions[g], h.at) =>
                    pc = "instruction" /\ h.at = at /\ IsArtificial(at)
    <3>1. /\ g = fn /\ Rewriting /\ h.at[1] = b
          /\ \E i : Reached(b, i) /\ h.at = <<b, i>> /\ h.id = getInstId(<<b, i>>)
      BY <2>1, <2>4, NewHeader
    <3>2. PICK i : Reached(b, i) /\ h.at = <<b, i>> /\ h.id = getInstId(<<b, i>>)
      BY <3>1
    <3>3. Knows
      BY <2>1, <2>4, <3>1, <3>2 DEF Knows, CastInv, Reached
    <3>4. /\ IsArtificial(<<b, i>>) <=> Nameless(Function, <<b, i>>)
          /\ getInstId(<<b, i>>) = HeadId(Function, <<b, i>>, instc)
          /\ Function.blocks[b][i].op = "phi" => ~Nameless(Function, <<b, i>>)
      BY <3>2, <3>3, HeadIds
    <3>5. at[1] = b
      BY <3>2 DEF Reached
    <3>6. at = <<b, i>> => pc = "instruction"
      <4>1. i # 0
        BY <2>4, <3>1, <3>2 DEF Reached, IsPlace
      <4>2. pc = "block" => \E c \in 1 .. Len(Function.blocks) + 1 : at = <<c, 0>>
        BY <2>1 DEF WalkInv
      <4> QED
        BY <3>1, <4>1, <4>2 DEF Rewriting
    <3> QED
      BY <2>1, <3>1, <3>2, <3>4, <3>5, <3>6 DEF Reached
  <2>5. ASSUME NEW g \in DOMAIN Functions, ~NamedCast(Functions[g]), NEW b \in Blocks(g),
               NEW h \in ToSet(code'[g][b]), h.kind = "header"
        PROVE  h.at[1] = b
    BY <2>4, <2>5 DEF HeadInv
  <2>6. ASSUME NEW g \in DOMAIN Functions, ~NamedCast(Functions[g]), NEW b \in Blocks(g),
               NEW h \in ToSet(code'[g][b]), h.kind = "header"
        PROVE  \E n \in Nat :
                 /\ h.id = HeadId(Functions[g], h.at, n)
                 /\ pc' = "instruction" /\ g = fn' /\ b = at'[1] /\ Nameless(Functions[g], h.at) =>
                      n < instc'
    <3>1. CASE h \notin ToSet(code[g][b])
      <4>1. /\ g = fn /\ h.id = HeadId(Functions[g], h.at, instc)
            /\ Nameless(Functions[g], h.at) =>
                 pc = "instruction" /\ h.at = at /\ IsArtificial(at)
        BY <2>4, <2>6, <3>1
      <4>2. ASSUME Nameless(Functions[g], h.at) PROVE instc < instc'
        <5>1. pc = "instruction" /\ IsArtificial(at)
          BY <4>1, <4>2
        <5>2. TraceInstruction
          BY <2>6, <3>1, <5>1
             DEF Next, DoInitialization, RunOnFunction, SkipBlock, RunOnBasicBlock,
                 SkipInstruction, RunOnFunctionEntry, Done, Stopped, vars
        <5>3. instc' = instc + 1
          <6>1. Count /\ Inst(at).op # "invoke"
            BY <5>2 DEF TraceInstruction, Traced
          <6> QED
            BY <5>1, <6>1 DEF Count
        <5> QED
          BY <2>3, <5>3
      <4> QED
        BY <2>3, <4>1, <4>2
    <3>2. CASE h \in ToSet(code[g][b])
      <4>1. PICK n \in Nat :
              /\ h.id = HeadId(Functions[g], h.at, n)
              /\ pc = "instruction" /\ g = fn /\ b = at[1] /\ Nameless(Functions[g], h.at) =>
                   n < instc
        BY <2>6, <3>2 DEF HeadInv
      <4>2. ASSUME pc' = "instruction", g = fn', b = at'[1], Nameless(Functions[g], h.at)
            PROVE  n < instc'
        <5>1. CASE RunOnBasicBlock
          <6>1. /\ pc = "block" /\ fn' = fn /\ at' = <<at[1], Phis(at[1]) + 1>>
                /\ Function.blocks = Function.blocks
            BY <5>1 DEF RunOnBasicBlock
          <6>2. at[1] = b
            BY <4>2, <6>1
          <6>3. code[g][b] = Original(Functions[g])[b]
            BY <2>1, <2>6, <4>2, <6>1, <6>2 DEF FreshInv, Rewriting
          <6>4. Laid(Functions[g]) /\ b \in 1 .. Len(Functions[g].blocks)
            BY <2>1, <2>6, FunctionFacts DEF Blocks
          <6> QED
            BY <2>6, <3>2, <6>3, <6>4, NoHooks
        <5>2. CASE SkipInstruction \/ TraceInstruction
          <6>1. pc = "instruction" /\ fn' = fn /\ Count /\ GoOn
            BY <5>2 DEF SkipInstruction, TraceInstruction
          <6>2. at'[1] = at[1]
            BY <4>2, <6>1 DEF GoOn, NextBlock
          <6>3. n < instc
            BY <4>1, <4>2, <6>1, <6>2
          <6>4. instc <= instc'
            BY <2>3, <6>1 DEF Count
          <6> QED
            BY <2>3, <6>3, <6>4
        <5>3. CASE UNCHANGED vars
          BY <4>1, <4>2, <5>3 DEF vars
        <5> QED
          BY <4>2, <5>1, <5>2, <5>3
             DEF Next, DoInitialization, RunOnFunction, SkipBlock, RunOnFunctionEntry, Done,
                 Stopped, NextBlock, Rewriting
      <4> QED
        BY <4>1, <4>2
    <3> QED
      BY <3>1, <3>2
  <2>7. ASSUME NEW g \in DOMAIN Functions, ~NamedCast(Functions[g]), NEW b \in Blocks(g),
               NEW h \in ToSet(code'[g][b]), h.kind = "header",
               NEW x \in ToSet(code'[g][b]), x.kind = "header", x.id = h.id,
               Nameless(Functions[g], h.at), Nameless(Functions[g], x.at)
        PROVE  x.at = h.at
    <3>1. CASE h \in ToSet(code[g][b]) /\ x \in ToSet(code[g][b])
      BY <2>7, <3>1 DEF HeadInv
    <3>2. CASE h \notin ToSet(code[g][b]) /\ x \notin ToSet(code[g][b])
      BY <2>4, <2>7, <3>2
    <3>3. ASSUME NEW y \in ToSet(code[g][b]), y.kind = "header", Nameless(Functions[g], y.at),
                 NEW z \in ToSet(code'[g][b]), z.kind = "header", Nameless(Functions[g], z.at),
                 z \notin ToSet(code[g][b]), y.id = z.id
          PROVE  FALSE
      <4>1. /\ g = fn /\ b = at[1] /\ z.id = HeadId(Functions[g], z.at, instc) /\ pc = "instruction"
        BY <2>4, <2>7, <3>3
      <4>2. PICK n \in Nat : y.id = HeadId(Functions[g], y.at, n) /\ n < instc
        BY <2>7, <3>3, <4>1 DEF HeadInv
      <4>3. /\ y.id = Artificial(BlockId(Functions[g], y.at[1]), n)
            /\ z.id = Artificial(BlockId(Functions[g], z.at[1]), instc)
        BY <3>3, <4>1, <4>2 DEF HeadId, Nameless
      <4>4. n = instc
        <5>1. \A u, v : Artificial(u, v)[3] = v
          BY DEF Artificial
        <5>2. y.id[3] = n /\ z.id[3] = instc
          BY <4>3, <5>1
        <5> QED
          BY <3>3, <5>2
      <4> QED
        BY <2>3, <4>2, <4>4
    <3> QED
      BY <2>7, <3>1, <3>2, <3>3
  <2> QED
    BY <2>1, <2>2, <2>5, <2>6, <2>7 DEF HeadInv
<1> QED
  BY <1>1, <1>2, PassInvariant, NumberInvariant, NameInvariant, CastInvariant, PTL DEF Spec

LEMMA HeadIdsDiffer ==
  ASSUME FewValues, module \in Modules, NEW g \in DOMAIN Functions,
         NEW p, NEW q, p[1] \in Blocks(g), q[1] \in Blocks(g), NEW m, NEW n,
         HeadId(Functions[g], p, m) = HeadId(Functions[g], q, n),
         NameOf(Functions[g], ValueOf(Functions[g], p)) = NoName
  PROVE  \/ p = q
         \/ Nameless(Functions[g], p) /\ Nameless(Functions[g], q) /\ p[1] = q[1] /\ m = n
<1> DEFINE f == Functions[g]
           x == HeadId(f, p, m)
           y == HeadId(f, q, n)
           source == Source(f)
<1>1. \A u, v \in DOMAIN source : source[u] = source[v] => u = v
  BY SourceFacts
<1>2. x = IF p \in DOMAIN source THEN Numbered(source[p]) ELSE Artificial(BlockId(f, p[1]), m)
  BY DEF HeadId
<1>3. /\ NameOf(f, ValueOf(f, q)) # NoName => y[1] = "name"
      /\ NameOf(f, ValueOf(f, q)) = NoName =>
           y = IF q \in DOMAIN source THEN Numbered(source[q]) ELSE Artificial(BlockId(f, q[1]), n)
  BY Tags DEF HeadId
<1>4. \A u, v : /\ Numbered(u)[1] = "slot" /\ Numbered(u)[2] = u
                /\ Artificial(u, v)[1] = "inst" /\ Artificial(u, v)[2] = u /\ Artificial(u, v)[3] = v
  BY DEF Numbered, Artificial
<1> HIDE DEF x, y, source
<1>5. x = y /\ "slot" # "inst" /\ "slot" # "name" /\ "inst" # "name"
  BY DEF x, y
<1>6. NameOf(f, ValueOf(f, q)) = NoName
  <2>1. x[1] \in {"slot", "inst"}
    BY <1>2, <1>4
  <2> QED
    BY <1>3, <1>5, <2>1
<1>7. CASE p \in DOMAIN source
  <2>1. x = Numbered(source[p]) /\ x[1] = "slot"
    BY <1>2, <1>4, <1>7
  <2>2. q \in DOMAIN source
    <3>1. q \notin DOMAIN source => y[1] = "inst"
      BY <1>3, <1>4, <1>6
    <3> QED
      BY <1>5, <2>1, <3>1
  <2>3. y = Numbered(source[q])
    BY <1>3, <1>6, <2>2
  <2>4. source[p] = source[q]
    <3>1. x[2] = source[p] /\ y[2] = source[q]
      BY <1>4, <2>1, <2>3
    <3> QED
      BY <1>5, <3>1
  <2> QED
    BY <1>1, <1>7, <2>2, <2>4
<1>8. CASE p \notin DOMAIN source
  <2>1. x = Artificial(BlockId(f, p[1]), m) /\ x[1] = "inst"
    BY <1>2, <1>4, <1>8
  <2>2. q \notin DOMAIN source
    <3>1. q \in DOMAIN source => y[1] = "slot"
      BY <1>3, <1>4, <1>6
    <3> QED
      BY <1>5, <2>1, <3>1
  <2>3. y = Artificial(BlockId(f, q[1]), n)
    BY <1>3, <1>6, <2>2
  <2>4. BlockId(f, p[1]) = BlockId(f, q[1]) /\ m = n
    <3>1. /\ x[2] = BlockId(f, p[1]) /\ y[2] = BlockId(f, q[1])
          /\ x[3] = m /\ y[3] = n
      BY <1>4, <2>1, <2>3
    <3> QED
      BY <1>5, <3>1
  <2>5. p[1] = q[1]
    BY <2>4, BlockIdsDiffer
  <2> QED
    BY <1>6, <1>8, <2>2, <2>4, <2>5 DEF Nameless, source
<1> QED
  BY <1>7, <1>8

\* Unless a cast of a named pointer is itself named, the headers of a function's
\* instructions tell those apart that neither their own name nor debug information
\* names, in a function of no more than a million values.
THEOREM IdsCorrect ==
  ASSUME FewValues
  PROVE  Spec => []IdsUnique
<1>1. PassInv /\ OrderInv /\ HeadInv => IdsUnique
  <2> SUFFICES ASSUME PassInv, OrderInv, HeadInv, NEW g \in Written, ~NamedCast(Functions[g]),
                      NEW b \in DOMAIN code[g], NEW c \in DOMAIN code[g],
                      NEW i \in DOMAIN code[g][b], NEW j \in DOMAIN code[g][c],
                      code[g][b][i].kind = "header", code[g][c][j].kind = "header",
                      code[g][b][i].id = code[g][c][j].id,
                      nameIn(Functions[g], collectDebugInfo(Functions[g]),
                             Operand("inst", code[g][b][i].at,
                                     InstOf(g, code[g][b][i].at).type, NoName)) = NoName
               PROVE  b = c /\ i = j
    BY DEF IdsUnique
  <2> DEFINE f == Functions[g]
             x == code[g][b][i]
             y == code[g][c][j]
  <2>1. g \in DOMAIN Functions /\ module \in Modules /\ LayoutInv
    BY DEF Written, PassInv, WalkInv
  <2>2. DOMAIN f.blocks = Blocks(g)
    BY <2>1, ModuleFacts
  <2>3. b \in Blocks(g) /\ c \in Blocks(g)
    <3>1. code[g] = [d \in DOMAIN f.blocks |-> code[g][d]]
      BY <2>1 DEF LayoutInv
    <3> QED
      BY <2>2, <3>1
  <2>4. \A d \in Blocks(g) : IsSequence(code[g][d])
    BY <2>1 DEF LayoutInv
  <2>5. /\ i \in 1 .. Len(code[g][b]) /\ x \in ToSet(code[g][b])
        /\ j \in 1 .. Len(code[g][c]) /\ y \in ToSet(code[g][c])
    BY <2>3, <2>4, SeqFacts
  <2>6. NameOf(f, ValueOf(f, x.at)) = NoName
    BY DEF NameOf, ValueOf, InstOf, InstAt
  <2> HIDE DEF f
  <2>7. x.kind = "header" /\ y.kind = "header" /\ x.id = y.id
    OBVIOUS
  <2> HIDE DEF x, y
  <2>8. /\ x.at[1] = b /\ \E m \in Nat : x.id = HeadId(f, x.at, m)
        /\ y.at[1] = c /\ \E m \in Nat : y.id = HeadId(f, y.at, m)
    BY <2>1, <2>3, <2>5, <2>7 DEF HeadInv, f
  <2>9. PICK m : x.id = HeadId(f, x.at, m)
    BY <2>8
  <2>10. PICK n : y.id = HeadId(f, y.at, n)
    BY <2>8
  <2>11. \/ x.at = y.at
         \/ Nameless(f, x.at) /\ Nameless(f, y.at) /\ x.at[1] = y.at[1]
    <3> DEFINE p == x.at
               q == y.at
    <3>1. p[1] \in Blocks(g) /\ q[1] \in Blocks(g) /\ HeadId(f, p, m) = HeadId(f, q, n)
      BY <2>3, <2>7, <2>8, <2>9, <2>10
    <3>2. NameOf(f, ValueOf(f, p)) = NoName
      BY <2>6
    <3> HIDE DEF p, q
    <3>3. p = q \/ (Nameless(f, p) /\ Nameless(f, q) /\ p[1] = q[1])
      BY <2>1, <3>1, <3>2, HeadIdsDiffer DEF f
    <3> QED
      BY <3>3 DEF p, q
  <2>12. b = c
    BY <2>8, <2>11
  <2>13. x.at = y.at
    BY <2>1, <2>3, <2>5, <2>7, <2>11, <2>12 DEF HeadInv, f
  <2>14. InOrder(Functions[g], code[g][b])
    BY <2>1, <2>3 DEF OrderInv
  <2>15. ~(i < j) /\ ~(j < i)
    BY <2>5, <2>7, <2>12, <2>13, <2>14 DEF InOrder, Follows, x, y
  <2> QED
    BY <2>5, <2>12, <2>15
<1> QED
  BY <1>1, PassInvariant, OrderInvariant, HeadInvariant, PTL

----------------------------------------------------------------------------
(* Calls and the functions they call.                                      *)

\* What a parameter or a callee shows of its instruction.
Lists(f, h) ==
  LET inst == InstAt(f, h.at)
  IN  /\ h.kind = "param" =>
           /\ h.num \in 1 .. Len(inst.operands) /\ h.operand = inst.operands[h.num]
           /\ h.type = h.operand.type
      /\ h.kind = "callee" =>
           /\ inst.op = "call" /\ h.id = Named(inst.callee)
           /\ h.num = Len(inst.operands) + inst.more + 1

ListInv ==
  \A g \in DOMAIN Functions : \A b \in Blocks(g) : \A h \in ToSet(code[g][b]) :
    IsHook(h) => Lists(Functions[g], h)

LEMMA HookLists ==
  ASSUME module \in Modules, fn \in DOMAIN Functions, NEW b, NEW i, IsPlace(b, i),
         NEW h, HookOf(<<b, i>>, h)
  PROVE  Lists(Function, h)
<1> DEFINE p == <<b, i>>
           inst == Inst(p)
<1>1. inst = InstAt(Function, p)
  BY DEF Inst, InstAt
<1>2. h.at = p
  BY HookFields
<1> HIDE DEF p, inst
<1>3. CASE h = HeaderItem(p) \/ h = StatusItem(p) \/ h = ResultLine(p)
  <2>1. h.kind \in {"header", "status", "result"}
    BY <1>3, ResultFields DEF HeaderItem, StatusItem, Item
  <2> QED
    BY <2>1 DEF Lists
<1>4. CASE h = CalleeLine(p) /\ inst.op = "call"
  <2>1. h.kind = "callee" /\ h.id = Named(inst.callee) /\ h.num = Len(inst.operands) + inst.more + 1
    BY <1>4 DEF CalleeLine, Line, Item, inst
  <2> QED
    BY <1>1, <1>2, <1>4, <2>1 DEF Lists
<1>5. CASE \E j \in 1 .. Len(inst.operands) : h = ParamLine(p, j)
  <2>1. PICK j \in 1 .. Len(inst.operands) : h = ParamLine(p, j)
    BY <1>5
  <2>2. h.kind = "param" /\ h.operand = inst.operands[j] /\ h.type = h.operand.type
    BY <2>1, ParamFields DEF inst
  <2>3. h.num = j
    BY <2>1 DEF ParamLine, Line, Item
  <2> QED
    BY <1>1, <1>2, <2>1, <2>2, <2>3 DEF Lists
<1> QED
  BY <1>3, <1>4, <1>5 DEF HookOf, p, inst

\* A line of an operand shows its place in the list and its type, that of a callee
\* stands at a call and has the number behind all of its arguments.
THEOREM ListInvariant == Spec => []ListInv
<1>1. Init => ListInv
  <2> SUFFICES ASSUME Init, NEW g \in DOMAIN Functions, NEW b \in Blocks(g),
                      NEW h \in ToSet(code[g][b]), IsHook(h)
               PROVE  FALSE
    BY DEF ListInv
  <2>1. module \in Modules /\ code[g] = Original(Functions[g])
    BY DEF Init, Functions
  <2>2. Laid(Functions[g]) /\ b \in 1 .. Len(Functions[g].blocks)
    BY <2>1, FunctionFacts DEF Blocks
  <2>3. h \in ToSet(Original(Functions[g])[b])
    BY <2>1
  <2> QED
    BY <2>2, <2>3, NoHooks
<1>2. PassInv /\ ListInv /\ [Next]_vars => ListInv'
  <2> SUFFICES ASSUME PassInv, ListInv, [Next]_vars PROVE ListInv'
    OBVIOUS
  <2>1. module' = module /\ Functions' = Functions /\ module \in Modules
        /\ Function = Functions[fn]
    <3>1. module' = module
      BY DEF Next, DoInitialization, RunOnFunction, SkipBlock, RunOnBasicBlock, SkipInstruction,
             TraceInstruction, RunOnFunctionEntry, Done, Stopped, vars, unchangedModule
    <3> QED
      BY <3>1 DEF Functions, Function, PassInv, WalkInv
  <2>2. ASSUME NEW g \in DOMAIN Functions, NEW b \in Blocks(g), NEW h \in ToSet(code'[g][b]),
               IsHook(h)
        PROVE  Lists(Functions[g], h)
    <3>1. CASE h \in ToSet(code[g][b])
      BY <2>2, <3>1 DEF ListInv
    <3>2. CASE g = fn /\ Rewriting /\ Made(h, vector_buffers')
      <4>1. PICK h0 : /\ IsItem(h0) /\ Passes(h0, h, vector_buffers')
                      /\ HookAtEntry(h0) \/ \E c, i : Reached(c, i) /\ HookOf(<<c, i>>, h0)
        BY <3>2 DEF Made
      <4>2. h.kind = h0.kind /\ h.at = h0.at /\ h.operand = h0.operand /\ h.id = h0.id
            /\ h.num = h0.num /\ h.type = h0.type
        BY <4>1 DEF Passes, IsItem, ItemFields
      <4>3. CASE HookAtEntry(h0)
        <5>1. h0.kind \in {"status", "entry", "arg"}
          BY <4>3, EntryFields DEF EntryHook
        <5> QED
          BY <4>2, <5>1 DEF Lists
      <4>4. CASE \E c, i : Reached(c, i) /\ HookOf(<<c, i>>, h0)
        <5>1. PICK c, i : Reached(c, i) /\ HookOf(<<c, i>>, h0)
          BY <4>4
        <5>2. Lists(Function, h0)
          BY <2>1, <2>2, <3>2, <5>1, HookLists DEF Reached
        <5> QED
          BY <2>1, <3>2, <4>2, <5>2 DEF Lists
      <4> QED
        BY <4>1, <4>3, <4>4
    <3> QED
      BY <2>2, <3>1, <3>2, NextHooks
  <2>3. \A g : Blocks(g)' = Blocks(g)
    BY <2>1 DEF Blocks
  <2> QED
    BY <2>1, <2>2, <2>3 DEF ListInv
<1> QED
  BY <1>1, <1>2, PassInvariant, PTL DEF Spec

\* An insertion keeps the items of every block and adds the hooks before its place.
LEMMA InsertedItems ==
  ASSUME LayoutInv, module \in Modules, fn \in DOMAIN Functions,
         NEW b, NEW k, NEW before, NEW after, Inserts(b, k, before, after)
  PROVE  /\ \A g \in DOMAIN Functions : \A c \in Blocks(g) : ToSet(code[g][c]) \subseteq ToSet(code'[g][c])
         /\ \A h \in ToSet(before) : \E x \in ToSet(code'[fn][b]) : Passes(h, x, vector_buffers')
         /\ \A c \in Blocks(fn) \ {b} : \A x \in ToSet(code'[fn][c]) :
              x \in ToSet(code[fn][c]) \/ x.kind = "buffer"
<1>1. /\ b \in Blocks(fn) /\ k \in 1 .. Len(code[fn][b])
      /\ IsSequence(before) /\ IsSequence(after)
      /\ \A h \in ToSet(before) \cup ToSet(after) : IsItem(h)
  BY DEF Inserts
<1>2. PICK a, s, t : Leaves(b, k, before, after, a, s, t)
  BY DEF Inserts
<1> DEFINE front == [i \in DOMAIN a |-> Alloca(a[i])]
           new == Widened(code[fn][b], k, s, t)
           pre(c) == IF c = 1 THEN front ELSE << >>
           body(c) == IF c = b THEN new ELSE code[fn][c]
<1>3. /\ IsSequence(a) /\ IsSequence(s) /\ IsSequence(t) /\ Len(s) = Len(before)
      /\ \A i \in 1 .. Len(before) : Passes(before[i], s[i], vector_buffers')
      /\ \A c \in DOMAIN Functions[fn].blocks : code'[fn][c] = pre(c) \o body(c)
  BY <1>2 DEF Leaves
<1>4. \A h \in ToSet(before) : \E x \in ToSet(s) : Passes(h, x, vector_buffers')
  BY <1>1, <1>3, PassedSeq
<1>5. \A c \in Blocks(fn) : IsSequence(code[fn][c])
  BY DEF LayoutInv
<1>6. IsSequence(new) /\ ToSet(new) = ToSet(code[fn][b]) \cup ToSet(s) \cup ToSet(t)
  BY <1>1, <1>3, <1>5, WidenedFacts
<1>7. IsSequence(front) /\ \A x \in ToSet(front) : x.kind = "buffer"
  <2>1. IsSequence(front) /\ ToSet(front) = {Alloca(x) : x \in ToSet(a)}
    BY <1>3, AllocaSeq
  <2> HIDE DEF front
  <2> QED
    BY <2>1, AllocaFacts
<1> HIDE DEF front, new
<1>8. ASSUME NEW c \in Blocks(fn) PROVE ToSet(code'[fn][c]) = ToSet(pre(c)) \cup ToSet(body(c))
  <2>1. IsSequence(pre(c))
    BY <1>7, EmptyFacts
  <2>2. IsSequence(body(c))
    BY <1>5, <1>6
  <2>3. code'[fn][c] = pre(c) \o body(c)
    <3>1. DOMAIN Functions[fn].blocks = Blocks(fn)
      BY ModuleFacts
    <3> QED
      BY <1>3, <3>1
  <2> HIDE DEF pre, body
  <2> QED
    BY <2>1, <2>2, <2>3, CatFacts
<1>9. \A c \in Blocks(fn) : ToSet(code[fn][c]) \subseteq ToSet(code'[fn][c])
  BY <1>6, <1>8
<1>10. ToSet(s) \subseteq ToSet(code'[fn][b])
  BY <1>1, <1>6, <1>8
<1>11. \A g \in DOMAIN Functions \ {fn} : code'[g] = code[g]
  BY DEF Inserts
<1>12. \A c \in Blocks(fn) : \A x \in ToSet(pre(c)) : x.kind = "buffer"
  BY <1>7, EmptyFacts
<1>13. \A c \in Blocks(fn) \ {b} : body(c) = code[fn][c]
  OBVIOUS
<1> HIDE DEF pre, body
<1>14. \A c \in Blocks(fn) \ {b} : \A x \in ToSet(code'[fn][c]) :
         x \in ToSet(code[fn][c]) \/ x.kind = "buffer"
  BY <1>8, <1>12, <1>13
<1> QED
  BY <1>4, <1>9, <1>10, <1>11, <1>14

LEMMA NextKeeps ==
  ASSUME PassInv, [Next]_vars, NEW g \in DOMAIN Functions, NEW b \in Blocks(g)
  PROVE  ToSet(code[g][b]) \subseteq ToSet(code'[g][b])
<1>1. LayoutInv
  BY DEF PassInv
<1>2. CASE RunOnBasicBlock
  BY <1>1, <1>2, BasicBlockInserts, InsertedItems
<1>3. CASE TraceInstruction
  BY <1>1, <1>3, InstructionInserts, InsertedItems
<1>4. CASE RunOnFunctionEntry
  <2>1. CASE Function.symbol = MainFn
    BY <1>4, <2>1 DEF RunOnFunctionEntry
  <2>2. CASE Function.symbol # MainFn
    BY <1>1, <1>4, <2>2, EntryInserts, InsertedItems
  <2> QED
    BY <2>1, <2>2
<1>5. CASE code' = code
  BY <1>5
<1> QED
  BY <1>2, <1>3, <1>4, <1>5
     DEF Next, DoInitialization, RunOnFunction, SkipBlock, SkipInstruction, Done, Stopped, vars

\* A call shows its j-th operand.
ShowsOperand(inst, j) ==
  LET o == inst.operands[j]
  IN  logFunction(o.type, Given(inst, o), o.kind \in StringKinds, ForIntrinsic(inst)) # "none"
HasParam(s, place, j) == \E p \in ToSet(s) : p.kind = "param" /\ p.at = place /\ p.num = j

\* Where there is the line of a callee, the lines of all arguments are.
AllParams(f, s, place) ==
  \A j \in 1 .. Len(InstAt(f, place).operands) :
    ShowsOperand(InstAt(f, place), j) => HasParam(s, place, j)

ArgumentsInv ==
  \A g \in DOMAIN Functions : \A b \in Blocks(g) : \A c \in ToSet(code[g][b]) :
    c.kind = "callee" => AllParams(Functions[g], code[g][b], c.at)

\* When a call is traced, its lines are inserted with it.
LEMMA CallTraced ==
  ASSUME PassInv, [Next]_vars, NEW g \in DOMAIN Functions, NEW b \in Blocks(g),
         NEW c \in ToSet(code'[g][b]), c.kind = "callee", c \notin ToSet(code[g][b])
  PROVE  AllParams(Functions[g], code'[g][b], c.at)
<1>1. g = fn /\ Rewriting /\ Made(c, vector_buffers')
  BY NextHooks DEF IsHook
<1>2. PICK h0 : /\ IsItem(h0) /\ Passes(h0, c, vector_buffers')
                /\ HookAtEntry(h0) \/ \E d, i : Reached(d, i) /\ HookOf(<<d, i>>, h0)
  BY <1>1 DEF Made
<1>3. h0.kind = "callee" /\ c.at = h0.at
  BY <1>2, PassesFacts
<1>4. ~HookAtEntry(h0)
  BY <1>3, EntryFields DEF EntryHook
<1>5. PICK d, i : Reached(d, i) /\ HookOf(<<d, i>>, h0)
  BY <1>2, <1>4
<1> DEFINE p == <<d, i>>
<1>6. module \in Modules /\ fn \in DOMAIN Functions /\ Function = Functions[fn] /\ LayoutInv
      /\ IsPlace(d, i)
  BY <1>1, <1>5 DEF PassInv, WalkInv, Function, Functions, Reached
<1>7. c.at = p /\ Inst(p).op = "call"
  <2>1. h0.at = p
    BY <1>5, HookFields
  <2>2. h0 = CalleeLine(p) /\ Inst(p).op = "call"
    <3>1. HeaderItem(p).kind = "header" /\ StatusItem(p).kind = "status"
      BY DEF HeaderItem, StatusItem, Item
    <3> HIDE DEF p
    <3>2. \A j : ParamLine(p, j).kind = "param"
      BY ParamFields
    <3>3. ResultLine(p).kind = "result"
      BY ResultFields
    <3> QED
      BY <1>3, <1>5, <3>1, <3>2, <3>3 DEF HookOf, p
  <2> QED
    BY <1>3, <2>1, <2>2
<1>8. Inst(p) = InstAt(Function, p) /\ Function.blocks[d][i].op = "call"
  BY <1>7 DEF Inst, InstAt
<1>9. at = p /\ pc # "block" /\ p[1] = d /\ i \in Nat \ {0}
  <2>1. at = p
    BY <1>5, <1>8 DEF Reached
  <2>2. i \in Nat \ {0} /\ p[1] = d /\ p[2] = i
    BY <1>6, PlaceFacts
  <2>3. pc = "block" => at[2] = 0
    <3>1. WalkInv
      BY DEF PassInv
    <3> HIDE DEF p
    <3>2. pc = "block" => \E m \in 1 .. Len(Function.blocks) + 1 : at = <<m, 0>>
      BY <3>1 DEF WalkInv
    <3> QED
      BY <3>2
  <2> QED
    BY <2>1, <2>2, <2>3
<1>10. code' # code
  OBVIOUS
<1>11. TraceInstruction
  <2> HIDE DEF p
  <2> QED
    BY <1>9, <1>10 DEF Next, DoInitialization, RunOnFunction, SkipBlock, RunOnBasicBlock, SkipInstruction,
        RunOnFunctionEntry, Done, Stopped, vars
<1>12. Inserts(d, Position(p), Before(p), Result(p))
  <2>1. PICK e, j : at = <<e, j>> /\ Inserts(e, Position(<<e, j>>), Before(<<e, j>>), Result(<<e, j>>))
    BY <1>11, InstructionInserts
  <2>2. e = d /\ j = i
    BY <1>9, <2>1
  <2> QED
    BY <2>1, <2>2
<1> DEFINE before == Before(p)
           k == Position(p)
           after == Result(p)
<1>13. Inserts(d, k, before, after)
  BY <1>12
<1>14. \A j \in 1 .. Len(Inst(p).operands) : ParamLine(p, j).fn # "none" => ParamLine(p, j) \in ToSet(before)
  <2> DEFINE mid == Params(p)
             head == <<HeaderItem(p)>>
             last == IF Inst(p).op = "ret" THEN <<StatusItem(p)>> ELSE << >>
  <2>1. before = (head \o mid) \o last
    BY DEF Before, HeaderItem, StatusItem
  <2>2. \A j \in 1 .. Len(Inst(p).operands) : ParamLine(p, j).fn # "none" => ParamLine(p, j) \in ToSet(mid)
    BY <1>6, <1>7, CallParams
  <2>3. IsSequence(mid)
    BY <1>6, ParamsFacts
  <2>4. IsSequence(head) /\ IsSequence(last)
    BY OneFacts, EmptyFacts
  <2> HIDE DEF before, mid, head, last, p
  <2>5. IsSequence(head \o mid) /\ ToSet(head \o mid) = ToSet(head) \cup ToSet(mid)
    BY <2>3, <2>4, CatFacts
  <2>6. ToSet(before) = ToSet(head) \cup ToSet(mid) \cup ToSet(last)
    BY <2>1, <2>4, <2>5, CatFacts
  <2> QED
    BY <2>2, <2>6
<1> HIDE DEF before, k, after
<1>15. /\ \A h \in ToSet(before) : \E x \in ToSet(code'[fn][d]) : Passes(h, x, vector_buffers')
       /\ b = d
  <2>1. /\ \A h \in ToSet(before) : \E x \in ToSet(code'[fn][d]) : Passes(h, x, vector_buffers')
        /\ \A e \in Blocks(fn) \ {d} : \A x \in ToSet(code'[fn][e]) :
             x \in ToSet(code[fn][e]) \/ x.kind = "buffer"
    BY <1>6, <1>13, InsertedItems
  <2> QED
    BY <1>1, <2>1
<1>16. ASSUME NEW j \in 1 .. Len(Inst(p).operands), ShowsOperand(Inst(p), j)
       PROVE  HasParam(code'[g][b], p, j)
  <2> DEFINE l == ParamLine(p, j)
  <2>1. l.fn # "none" /\ l.kind = "param" /\ l.at = p /\ IsItem(l)
    BY <1>16, ParamFields DEF ShowsOperand
  <2>2. l.num = j
    BY DEF ParamLine, Line, Item
  <2>3. l \in ToSet(before)
    BY <1>14, <1>16, <2>1
  <2> HIDE DEF l, p
  <2>4. PICK x \in ToSet(code'[fn][d]) : Passes(l, x, vector_buffers')
    BY <1>15, <2>3
  <2>5. x.kind = "param" /\ x.at = p /\ x.num = j
    BY <2>1, <2>2, <2>4, PassesFacts
  <2> QED
    BY <1>1, <1>15, <2>4, <2>5 DEF HasParam
<1> HIDE DEF p
<1> QED
  BY <1>1, <1>6, <1>7, <1>8, <1>16 DEF AllParams

\* However often its block is rewritten, a call that shows its callee shows every
\* argument that can be printed.
THEOREM ArgumentsInvariant == Spec => []ArgumentsInv
<1>1. Init => ArgumentsInv
  <2> SUFFICES ASSUME Init, NEW g \in DOMAIN Functions, NEW b \in Blocks(g),
                      NEW c \in ToSet(code[g][b]), c.kind = "callee"
               PROVE  FALSE
    BY DEF ArgumentsInv
  <2>1. module \in Modules /\ code[g] = Original(Functions[g])
    BY DEF Init, Functions
  <2>2. Laid(Functions[g]) /\ b \in 1 .. Len(Functions[g].blocks)
    BY <2>1, FunctionFacts DEF Blocks
  <2>3. c \in ToSet(Original(Functions[g])[b]) /\ IsHook(c)
    BY <2>1 DEF IsHook
  <2> QED
    BY <2>2, <2>3, NoHooks
<1>2. PassInv /\ ArgumentsInv /\ [Next]_vars => ArgumentsInv'
  <2> SUFFICES ASSUME PassInv, ArgumentsInv, [Next]_vars PROVE ArgumentsInv'
    OBVIOUS
  <2>1. module' = module /\ Functions' = Functions
    <3>1. module' = module
      BY DEF Next, DoInitialization, RunOnFunction, SkipBlock, RunOnBasicBlock, SkipInstruction,
             TraceInstruction, RunOnFunctionEntry, Done, Stopped, vars, unchangedModule
    <3> QED
      BY <3>1 DEF Functions
  <2>2. ASSUME NEW g \in DOMAIN Functions, NEW b \in Blocks(g), NEW c \in ToSet(code'[g][b]),
               c.kind = "callee"
        PROVE  AllParams(Functions[g], code'[g][b], c.at)
    <3>1. CASE c \in ToSet(code[g][b])
      <4>1. AllParams(Functions[g], code[g][b], c.at)
        BY <2>2, <3>1 DEF ArgumentsInv
      <4>2. ToSet(code[g][b]) \subseteq ToSet(code'[g][b])
        BY NextKeeps
      <4> QED
        BY <4>1, <4>2 DEF AllParams, HasParam
    <3>2. CASE c \notin ToSet(code[g][b])
      BY <2>2, <3>2, CallTraced
    <3> QED
      BY <3>1, <3>2
  <2>3. \A g : Blocks(g)' = Blocks(g)
    BY <2>1 DEF Blocks
  <2> QED
    BY <2>1, <2>2, <2>3 DEF ArgumentsInv
<1> QED
  BY <1>1, <1>2, PassInvariant, PTL DEF Spec

\* The arguments of f that can be printed, and their lines N in s, behind position d.
PrintedArgs(f) == {j \in 1 .. Len(f.args) : logFunction(f.args[j].type, TRUE, FALSE, FALSE) # "none"}

ArgLineOf(f, h, j) ==
  /\ h.kind = "arg" /\ h.type = f.args[j].type /\ h.size = getMemSize(h.type)
  /\ h.num \in {j, FORWARD_LINE}

ArgsAt(f, s, d, N) ==
  /\ d \in Nat
  /\ \A i \in 1 .. Len(N) : d + i \in 1 .. Len(s) /\ ArgLineOf(f, s[d + i], N[i])
  /\ \A k \in 1 .. Len(s) : s[k].kind = "arg" => \E i \in 1 .. Len(N) : k = d + i

LEMMA ArgsBehind ==
  ASSUME NEW f, NEW l, NEW s, NEW d, NEW N, IsSequence(l), IsSequence(s), IsSequence(N),
         ArgsAt(f, s, d, N), \A x \in ToSet(l) : x.kind # "arg"
  PROVE  ArgsAt(f, l \o s, Len(l) + d, N)
<1> DEFINE m == Len(l)
           n == Len(s)
           c == l \o s
           w == Len(N)
<1>1. /\ m \in Nat /\ n \in Nat /\ w \in Nat /\ Len(c) = m + n
      /\ \A i \in 1 .. m : c[i] = l[i]
      /\ \A i \in 1 .. n : c[m + i] = s[i]
  BY CatFacts, SeqFacts
<1>2. \A i \in 1 .. m : c[i].kind # "arg"
  BY <1>1, SeqFacts
<1>3. /\ d \in Nat
      /\ \A i \in 1 .. w : d + i \in 1 .. n /\ ArgLineOf(f, s[d + i], N[i])
      /\ \A k \in 1 .. n : s[k].kind = "arg" => \E i \in 1 .. w : k = d + i
  BY DEF ArgsAt
<1> HIDE DEF m, n, c, w
<1>4. ASSUME NEW i \in 1 .. w PROVE m + d + i \in 1 .. Len(c) /\ ArgLineOf(f, c[m + d + i], N[i])
  <2>1. d + i \in 1 .. n /\ c[m + (d + i)] = s[d + i]
    BY <1>1, <1>3
  <2>2. m + (d + i) = m + d + i /\ m + d + i \in 1 .. Len(c)
    BY <1>1, <1>3, <2>1
  <2> QED
    BY <1>3, <2>1, <2>2
<1>5. ASSUME NEW k \in 1 .. Len(c), c[k].kind = "arg" PROVE \E i \in 1 .. w : k = m + d + i
  <2>1. k - m \in 1 .. n /\ k = m + (k - m)
    BY <1>1, <1>2, <1>5
  <2>2. s[k - m].kind = "arg"
    BY <1>1, <1>5, <2>1
  <2>3. PICK i \in 1 .. w : k - m = d + i
    BY <1>3, <2>1, <2>2
  <2>4. m \in Nat /\ d \in Nat /\ w \in Nat
    BY <1>1, <1>3
  <2>5. k = m + d + i
    BY ONLY <2>3, <2>4, k \in 1 .. Len(c), i \in 1 .. w, Len(c) \in Nat
  <2> QED
    BY <2>5
<1>6. m + d \in Nat
  BY <1>1, <1>3
<1>7. ArgsAt(f, c, m + d, N)
  BY <1>4, <1>5, <1>6 DEF ArgsAt, w
<1> QED
  BY <1>7 DEF c, m

LEMMA ArgsBefore ==
  ASSUME NEW f, NEW s, NEW r, NEW d, NEW N, IsSequence(s), IsSequence(r), IsSequence(N),
         ArgsAt(f, s, d, N), \A x \in ToSet(r) : x.kind # "arg"
  PROVE  ArgsAt(f, s \o r, d, N)
<1> DEFINE m == Len(s)
           n == Len(r)
           c == s \o r
           w == Len(N)
<1>1. /\ m \in Nat /\ n \in Nat /\ w \in Nat /\ Len(c) = m + n
      /\ \A i \in 1 .. m : c[i] = s[i]
      /\ \A i \in 1 .. n : c[m + i] = r[i]
  BY CatFacts, SeqFacts
<1>2. \A i \in 1 .. n : c[m + i].kind # "arg"
  BY <1>1, SeqFacts
<1>3. /\ d \in Nat
      /\ \A i \in 1 .. w : d + i \in 1 .. m /\ ArgLineOf(f, s[d + i], N[i])
      /\ \A k \in 1 .. m : s[k].kind = "arg" => \E i \in 1 .. w : k = d + i
  BY DEF ArgsAt
<1> HIDE DEF m, n, c, w
<1>4. \A i \in 1 .. w : d + i \in 1 .. Len(c) /\ ArgLineOf(f, c[d + i], N[i])
  BY <1>1, <1>3
<1>5. ASSUME NEW k \in 1 .. Len(c), c[k].kind = "arg" PROVE \E i \in 1 .. w : k = d + i
  <2>1. k \in 1 .. m
    <3>1. k \notin 1 .. m => k - m \in 1 .. n /\ k = m + (k - m)
      BY <1>1
    <3> QED
      BY <1>2, <1>5, <3>1
  <2> QED
    BY <1>1, <1>3, <1>5, <2>1
<1>6. ArgsAt(f, c, d, N)
  BY <1>3, <1>4, <1>5 DEF ArgsAt, w
<1> QED
  BY <1>6 DEF c

\* A buffer changes nothing about it.
LEMMA ArgsPassed ==
  ASSUME NEW f, NEW s, NEW t, NEW d, NEW N, NEW buffers, IsSequence(s), IsSequence(t), Len(t) = Len(s),
         \A i \in 1 .. Len(s) : Passes(s[i], t[i], buffers), \A h \in ToSet(s) : IsItem(h),
         ArgsAt(f, s, d, N)
  PROVE  ArgsAt(f, t, d, N)
<1>1. \A i \in 1 .. Len(s) : t[i].kind = s[i].kind /\ t[i].type = s[i].type /\ t[i].size = s[i].size
                             /\ t[i].num = s[i].num
  BY SeqFacts, PassesFacts
<1> QED
  BY <1>1 DEF ArgsAt, ArgLineOf

LEMMA EntryArgs ==
  ASSUME module \in Modules, fn \in DOMAIN Functions
  PROVE  \E d, N : Enumerates(N, PrintedArgs(Function)) /\ ArgsAt(Function, EntryHooks, d, N)
<1> DEFINE F == Function
           lines == [j \in DOMAIN F.args |-> ArgLine(j)]
           rest == Printable(lines)
           two == <<SwitchItem, EntryItem>>
           first == IF IsEntryBlock THEN two ELSE << >>
           n == Len(F.args)
           K == {j \in 1 .. Len(lines) : lines[j].fn # "none"}
<1>1. n \in Nat /\ DOMAIN F.args = 1 .. n
  <2>1. F = Functions[fn]
    BY DEF Function, Functions
  <2>2. IsSequence(F.args)
    BY <2>1, FunctionFacts
  <2> QED
    BY <2>2, SeqFacts
<1>2. EntryHooks = first \o rest
  BY DEF EntryHooks, SwitchItem, EntryItem, ArgLine
<1> HIDE DEF F
<1>3. IsSequence(lines) /\ Len(lines) = n /\ \A j \in 1 .. n : lines[j] = ArgLine(j)
  <2>1. lines = [j \in 1 .. n |-> lines[j]] /\ \A j \in 1 .. n : lines[j] = ArgLine(j)
    BY <1>1
  <2> HIDE DEF lines, n
  <2> QED
    BY <1>1, <2>1, MadeSeq
<1> HIDE DEF lines
<1>4. PICK N : /\ Enumerates(N, K) /\ IsSequence(rest) /\ Len(rest) = Len(N)
               /\ \A i \in 1 .. Len(N) : rest[i] = lines[N[i]]
  BY <1>3, PrintableSelects DEF Selects
<1> HIDE DEF rest
<1>5. \A j \in 1 .. n : ArgLineOf(F, ArgLine(j), j) /\ ArgLine(j).fn = logFunction(F.args[j].type, TRUE, FALSE, FALSE)
  <2> TAKE j \in 1 .. n
  <2>1. ArgLine(j).num \in {j, FORWARD_LINE}
    BY DEF ArgLine, Line, Item
  <2> QED
    BY <2>1, ArgFields DEF F, ArgLineOf
<1>6. K = PrintedArgs(F)
  BY <1>3, <1>5 DEF PrintedArgs
<1>7. IsSequence(N) /\ Len(N) \in Nat /\ \A i \in 1 .. Len(N) : N[i] \in 1 .. n
  BY <1>3, <1>4, SeqFacts DEF Enumerates
<1> HIDE DEF K, n
<1>zero. PICK zero \in Nat : \A i \in Int : zero + i = i
  <2>1. 0 \in Nat /\ \A i \in Int : 0 + i = i
    OBVIOUS
  <2> QED
    BY <2>1
<1>8. ArgsAt(F, rest, zero, N)
  <2> DEFINE w == Len(N)
  <2>1. w \in Nat
    BY <1>7
  <2>2. \A i \in 1 .. w : rest[i] = lines[N[i]] /\ N[i] \in 1 .. n
    BY <1>4, <1>7
  <2>3. Len(rest) = w
    BY <1>4
  <2>4. \A i \in 1 .. w : ArgLineOf(F, rest[i], N[i])
    BY <1>3, <1>5, <2>2
  <2> HIDE DEF w
  <2>5. \A i \in 1 .. w : zero + i = i
    BY <1>zero, <2>1
  <2>6. \A i \in 1 .. w : zero + i \in 1 .. Len(rest) /\ ArgLineOf(F, rest[zero + i], N[i])
    BY <2>3, <2>4, <2>5
  <2>7. \A i \in 1 .. Len(rest) : \E k \in 1 .. w : i = zero + k
    BY <2>3, <2>5
  <2>8. zero \in Nat
    BY <1>zero
  <2> QED
    BY <2>6, <2>7, <2>8 DEF ArgsAt, w
<1>9. IsSequence(first) /\ \A x \in ToSet(first) : x.kind # "arg"
  <2>1. SwitchItem.kind = "status" /\ EntryItem.kind = "entry"
    BY DEF SwitchItem, EntryItem, Item
  <2>2. IsSequence(two) /\ ToSet(two) \subseteq {SwitchItem, EntryItem}
    <3> DEFINE S == {SwitchItem, EntryItem}
    <3>1. two \in Seq(S)
      <4> DEFINE x == SwitchItem
                 y == EntryItem
      <4> HIDE DEF x, y
      <4>1. <<x, y>> \in Seq({x, y})
        OBVIOUS
      <4> QED
        BY <4>1 DEF x, y
    <3> HIDE DEF S, two
    <3>2. ToSet(two) \subseteq S /\ IsSequence(two)
      BY <3>1, SeqIntro
    <3> QED
      BY <3>2 DEF S
  <2> HIDE DEF two
  <2> QED
    BY <2>1, <2>2, EmptyFacts
<1> HIDE DEF first
<1>10. ArgsAt(F, first \o rest, Len(first) + zero, N)
  BY <1>4, <1>7, <1>8, <1>9, ArgsBehind
<1> QED
  BY <1>2, <1>4, <1>6, <1>10 DEF F

ArgsOnce(f, blocks) ==
  \E d, N : Enumerates(N, PrintedArgs(f)) /\ ArgsAt(f, blocks[1], d, N)

\* Once the pass has left a function, its arguments are listed in its first block.
ArgInv ==
  \A g \in DOMAIN Functions :
    g < fn /\ IsC(Functions[g]) /\ Functions[g].symbol # MainFn => ArgsOnce(Functions[g], code[g])

LEMMA ArgsInserted ==
  ASSUME PassInv, RunOnFunctionEntry, Function.symbol # MainFn
  PROVE  ArgsOnce(Functions[fn], code'[fn])
<1> DEFINE one == 1
           block == code[fn][one]
           before == EntryHooks
           after == << >>
           k == insertionPoint
           F == Functions[fn]
<1>1. /\ module \in Modules /\ fn \in DOMAIN Functions /\ Function = F
      /\ Rewriting /\ Inserts(one, k, before, after)
  BY EntryInserts
<1>2. PICK d, N : Enumerates(N, PrintedArgs(F)) /\ ArgsAt(F, before, d, N)
  BY <1>1, EntryArgs
<1>3. LayoutInv /\ FreshInv
  BY DEF PassInv
<1> HIDE DEF before, after, k, F
<1>4. /\ one \in Blocks(fn) /\ k \in 1 .. Len(block)
      /\ IsSequence(before) /\ IsSequence(after)
      /\ \A h \in ToSet(before) \cup ToSet(after) : IsItem(h)
  BY <1>1 DEF Inserts
<1>5. PICK a, s, t : Leaves(one, k, before, after, a, s, t)
  BY <1>1 DEF Inserts
<1>6. IsSequence(block) /\ \A x \in ToSet(block) : x.kind # "arg"
  <2>1. IsSequence(block) /\ \A x \in ToSet(block) : Placed(F, one, x)
    BY <1>1, <1>3, <1>4 DEF LayoutInv, F
  <2>2. ASSUME NEW x \in ToSet(block), x.kind = "arg" PROVE FALSE
    <3>1. IsHook(x)
      BY <2>2 DEF IsHook
    <3>2. x.at # NoPlace
      BY <1>1, <1>3, <1>4, <3>1 DEF FreshInv
    <3>3. InstHook(F, one, x) \/ \E i \in 1 .. Len(F.blocks[one]) : x = Original(F)[one][i]
      BY <2>1, <2>2, <3>2 DEF Placed, EntryHook
    <3>4. ~InstHook(F, one, x)
      BY <2>2 DEF InstHook, HookKinds
    <3>5. Laid(F) /\ one \in 1 .. Len(F.blocks)
      BY <1>1, <1>4, FunctionFacts DEF Blocks, F
    <3>6. \A i \in 1 .. Len(F.blocks[one]) : Original(F)[one][i].kind = "inst"
      BY <3>5, OriginalFacts
    <3> QED
      BY <2>2, <3>3, <3>4, <3>6
  <2> QED
    BY <2>1, <2>2
<1> DEFINE n == Len(block)
           l == SubSeq(block, 1, k - 1)
           x == <<block[k]>>
           r == SubSeq(block, k + 1, n)
           front == [i \in DOMAIN a |-> Alloca(a[i])]
<1>7. /\ IsSequence(a) /\ IsSequence(s) /\ Len(s) = Len(before) /\ IsSequence(t) /\ Len(t) = Len(after)
      /\ \A i \in 1 .. Len(before) : Passes(before[i], s[i], vector_buffers')
      /\ code'[fn][1] = front \o Widened(block, k, s, t)
  <2>1. one \in DOMAIN Functions[fn].blocks
    BY <1>1, <1>4, ModuleFacts
  <2> QED
    BY <1>5, <2>1 DEF Leaves
<1>8. IsSequence(t) /\ ToSet(t) = {}
  <2>1. Len(t) = 0
    BY <1>7, EmptyFacts DEF after
  <2> QED
    BY <1>7, <2>1, SeqFacts
<1>9. ArgsAt(F, s, d, N)
  BY <1>2, <1>4, <1>7, ArgsPassed
<1>10. n \in Nat /\ k - 1 \in Nat /\ k - 1 <= n
  BY <1>4, <1>6, SeqFacts
<1>11. IsSequence(l) /\ \A y \in ToSet(l) : y.kind # "arg"
  <2>1. IsSequence(l) /\ ToSet(l) = {block[i] : i \in 1 .. k - 1}
    BY <1>6, <1>10, PrefixFacts
  <2>2. \A i \in 1 .. k - 1 : block[i] \in ToSet(block)
    BY <1>6, <1>10, SeqFacts
  <2> QED
    BY <1>6, <2>1, <2>2
<1>12. IsSequence(r) /\ \A y \in ToSet(r) : y.kind # "arg"
  <2>1. IsSequence(r) /\ ToSet(r) = {block[i] : i \in k + 1 .. n}
    BY <1>4, <1>6, SuffixFacts
  <2>2. \A i \in k + 1 .. n : block[i] \in ToSet(block)
    BY <1>4, <1>6, <1>10, SeqFacts
  <2> QED
    BY <1>6, <2>1, <2>2
<1>13. IsSequence(x) /\ \A y \in ToSet(x) : y.kind # "arg"
  <2>1. IsSequence(x) /\ ToSet(x) = {block[k]}
    BY OneFacts
  <2>2. block[k] \in ToSet(block)
    BY <1>4, <1>6, SeqFacts
  <2> QED
    BY <1>6, <2>1, <2>2
<1>14. IsSequence(front) /\ \A y \in ToSet(front) : y.kind # "arg"
  <2>1. IsSequence(front) /\ ToSet(front) = {Alloca(y) : y \in ToSet(a)}
    BY <1>7, AllocaSeq
  <2> HIDE DEF front
  <2> QED
    BY <2>1, AllocaFacts
<1>15. Widened(block, k, s, t) = l \o ((s \o x) \o t) \o r
  BY DEF Widened, Around
<1>16. IsSequence(N)
  BY <1>2 DEF Enumerates
<1> HIDE DEF l, x, r, front, n, block, one
<1> DEFINE sx == s \o x
           mid == sx \o t
           lm == l \o mid
           new == lm \o r
<1>17. IsSequence(sx) /\ ArgsAt(F, sx, d, N)
  BY <1>7, <1>9, <1>13, <1>16, ArgsBefore, CatFacts
<1> HIDE DEF sx
<1>18. IsSequence(mid) /\ ArgsAt(F, mid, d, N)
  BY <1>8, <1>16, <1>17, ArgsBefore, CatFacts
<1> HIDE DEF mid
<1>19. IsSequence(lm) /\ ArgsAt(F, lm, Len(l) + d, N)
  BY <1>11, <1>16, <1>18, ArgsBehind, CatFacts
<1> HIDE DEF lm
<1>20. IsSequence(new) /\ ArgsAt(F, new, Len(l) + d, N)
  BY <1>12, <1>16, <1>19, ArgsBefore, CatFacts
<1> HIDE DEF new
<1>21. ArgsAt(F, front \o new, Len(front) + (Len(l) + d), N)
  BY <1>14, <1>16, <1>20, ArgsBehind
<1>22. code'[fn][1] = front \o new
  BY <1>7, <1>15 DEF new, lm, mid, sx
<1>23. ArgsAt(F, code'[fn][1], Len(front) + (Len(l) + d), N)
  BY <1>21, <1>22
<1> QED
  BY <1>2, <1>23 DEF ArgsOnce, F

\* Every function but main that the pass has left lists the arguments that can be
\* printed, each once, in order and next to each other, in its first block.
THEOREM ArgInvariant == Spec => []ArgInv
<1>1. Init => ArgInv
  <2> SUFFICES ASSUME Init, NEW g \in DOMAIN Functions PROVE ~(g < fn)
    BY DEF ArgInv
  <2>1. module \in Modules /\ fn = 1
    BY DEF Init
  <2>2. g \in 1 .. Len(Functions) /\ Len(Functions) \in Nat
    BY <2>1, FunctionFacts
  <2> QED
    BY <2>1, <2>2
<1>2. PassInv /\ ArgInv /\ [Next]_vars => ArgInv'
  <2> SUFFICES ASSUME PassInv, ArgInv, [Next]_vars, NEW g \in DOMAIN Functions',
                      (g < fn)', IsC(Functions[g])', Functions[g]'.symbol # MainFn
               PROVE  ArgsOnce(Functions[g], code[g])'
    BY DEF ArgInv
  <2>1. module' = module /\ Functions' = Functions /\ module \in Modules /\ Function = Functions[fn]
    <3>1. module' = module
      BY DEF Next, DoInitialization, RunOnFunction, SkipBlock, RunOnBasicBlock, SkipInstruction,
             TraceInstruction, RunOnFunctionEntry, Done, Stopped, vars, unchangedModule
    <3> QED
      BY <3>1 DEF Functions, Function, PassInv, WalkInv
  <2>2. /\ g \in DOMAIN Functions /\ g \in 1 .. Len(Functions) /\ Len(Functions) \in Nat
        /\ fn \in Nat /\ Functions[g].symbol # MainFn
    BY <2>1, FunctionFacts DEF PassInv, WalkInv
  <2>3. SUFFICES ArgsOnce(Functions[g], code'[g])
    BY <2>1 DEF ArgsOnce, ArgsAt, ArgLineOf, PrintedArgs, Enumerates
  <2>4. ASSUME mangledNameMap' = mangledNameMap, g < fn, code'[g] = code[g]
        PROVE  ArgsOnce(Functions[g], code'[g])
    BY <2>1, <2>2, <2>4 DEF ArgInv, IsC
  <2>5. CASE DoInitialization
    <3>1. fn' = 1
      BY <2>5 DEF DoInitialization, PassInv, WalkInv
    <3> QED
      BY <2>2, <3>1
  <2>6. CASE RunOnFunction
    <3>1. code' = code /\ mangledNameMap' = mangledNameMap
      BY <2>6 DEF RunOnFunction, unchangedModule
    <3>2. CASE g < fn
      BY <2>4, <3>1, <3>2
    <3>3. CASE ~(g < fn)
      <4>1. fn' # fn
        BY <3>3
      <4>2. ~IsC(Function) /\ fn' = fn + 1
        BY <2>6, <4>1 DEF RunOnFunction
      <4>3. g = fn
        BY <2>2, <3>3, <4>2
      <4>4. ~IsC(Functions[g])'
        BY <2>1, <3>1, <4>2, <4>3 DEF IsC
      <4> QED
        BY <4>4
    <3> QED
      BY <3>2, <3>3
  <2>7. CASE RunOnFunctionEntry
    <3>1. mangledNameMap' = mangledNameMap /\ fn' = fn + 1
      BY <2>7 DEF RunOnFunctionEntry, unchangedModule
    <3>2. CASE g = fn
      BY <2>1, <2>2, <2>7, <3>2, ArgsInserted
    <3>3. CASE g # fn
      <4>1. g < fn
        BY <2>2, <3>1, <3>3
      <4>2. code'[g] = code[g]
        <5>1. CASE Function.symbol = MainFn
          BY <2>7, <5>1 DEF RunOnFunctionEntry
        <5>2. CASE Function.symbol # MainFn
          <6>1. Inserts(1, insertionPoint, EntryHooks, << >>)
            BY <2>7, <5>2, EntryInserts
          <6> QED
            BY <2>2, <3>3, <6>1 DEF Inserts
        <5> QED
          BY <5>1, <5>2
      <4> QED
        BY <2>4, <3>1, <4>1, <4>2
    <3> QED
      BY <3>2, <3>3
  <2>8. CASE RunOnBasicBlock
    <3>1. mangledNameMap' = mangledNameMap /\ fn' = fn
      BY <2>8 DEF RunOnBasicBlock, unchangedModule
    <3>2. Inserts(at[1], Phis(at[1]) + 1, PhiHooks(at[1], Phis(at[1])), << >>)
      BY <2>8, BasicBlockInserts
    <3>3. g < fn /\ g # fn
      BY <2>2, <3>1
    <3>4. code'[g] = code[g]
      BY <2>2, <3>2, <3>3 DEF Inserts
    <3> QED
      BY <2>4, <3>1, <3>3, <3>4
  <2>9. CASE TraceInstruction
    <3>1. mangledNameMap' = mangledNameMap /\ fn' = fn
      BY <2>9 DEF TraceInstruction, unchangedModule
    <3>2. \E c, i : Inserts(c, Position(<<c, i>>), Before(<<c, i>>), Result(<<c, i>>))
      BY <2>9, InstructionInserts
    <3>3. g < fn /\ g # fn
      BY <2>2, <3>1
    <3>4. code'[g] = code[g]
      BY <2>2, <3>2, <3>3 DEF Inserts
    <3> QED
      BY <2>4, <3>1, <3>3, <3>4
  <2>10. CASE code' = code /\ mangledNameMap' = mangledNameMap /\ fn' = fn
    BY <2>4, <2>10
  <2> QED
    BY <2>5, <2>6, <2>7, <2>8, <2>9, <2>10
       DEF Next, SkipBlock, SkipInstruction, Done, Stopped, vars, unchangedModule
<1> QED
  BY <1>1, <1>2, PassInvariant, PTL DEF Spec

\* The blocks of a function, one after the other.
LEMMA BlocksSpots ==
  ASSUME LayoutInv, module \in Modules, NEW g \in DOMAIN Functions
  PROVE  \E o : Spots(o, FlattenSeq(code[g]), code[g], Len(Functions[g].blocks))
<1> DEFINE ls == code[g]
           n == Len(Functions[g].blocks)
           S == UNION {ToSet(ls[b]) : b \in 1 .. n}
<1>1. Laid(Functions[g]) /\ n \in Nat \ {0} /\ DOMAIN Functions[g].blocks = 1 .. n
      /\ Blocks(g) = 1 .. n
  BY FunctionFacts DEF Laid, Blocks
<1>2. ls = [b \in 1 .. n |-> ls[b]] /\ \A b \in 1 .. n : IsSequence(ls[b])
  <2>1. ls = [b \in DOMAIN Functions[g].blocks |-> ls[b]] /\ \A b \in Blocks(g) : IsSequence(ls[b])
    BY DEF LayoutInv
  <2> QED
    BY <1>1, <2>1
<1> HIDE DEF ls, n
<1>3. \A b \in 1 .. n : ls[b] \in Seq(S)
  <2> TAKE b \in 1 .. n
  <2>1. ls[b] \in Seq(ToSet(ls[b])) /\ ToSet(ls[b]) \subseteq S
    BY <1>2 DEF IsSequence
  <2> QED
    BY <2>1, SeqMonotonic
<1> HIDE DEF S
<1>4. ls \in Seq(Seq(S)) /\ Len(ls) = n
  <2>1. [b \in 1 .. n |-> ls[b]] \in Seq(Seq(S))
    BY <1>1, <1>3, IsASeq
  <2> QED
    BY <1>1, <1>2, <2>1, MadeSeq
<1>5. \E o : Spots(o, FlattenSeq(ls), ls, Len(ls))
  BY <1>1, <1>4, FlattenSpots
<1> QED
  BY <1>4, <1>5 DEF ls, n

\* A parameter or a callee is in the block of its instruction.
LEMMA HookPlace ==
  ASSUME LayoutInv, module \in Modules, NEW g \in DOMAIN Functions, NEW b \in Blocks(g),
         NEW h \in ToSet(code[g][b]), h.kind \in {"callee", "param"}
  PROVE  \E i \in 1 .. Len(Functions[g].blocks[b]) : h.at = <<b, i>>
<1> DEFINE f == Functions[g]
<1>1. Placed(f, b, h)
  BY DEF LayoutInv
<1>2. Laid(f) /\ b \in 1 .. Len(f.blocks)
  BY FunctionFacts DEF Blocks
<1>3. \A i \in 1 .. Len(f.blocks[b]) : Original(f)[b][i].kind = "inst"
  BY <1>2, OriginalFacts
<1>4. InstHook(f, b, h)
  BY <1>1, <1>3 DEF Placed, EntryHook
<1> QED
  BY <1>4 DEF InstHook

\* The operands that a call shows.
ShownOperands(inst) == {j \in 1 .. Len(inst.operands) : ShowsOperand(inst, j)}

ParamAt(s, place, h, j) == h \in ToSet(s) /\ h.kind = "param" /\ h.at = place /\ h.num = j

\* The parameters of a call that is traced are those operands, in their order.
LEMMA ShownParams ==
  ASSUME LayoutInv, HookInv, ListInv, OrderInv, ArgumentsInv, module \in Modules,
         NEW g \in DOMAIN Functions, NEW b \in Blocks(g),
         NEW c \in ToSet(code[g][b]), c.kind = "callee"
  PROVE  LET shown == Ordered(g, "param", c.at)
         IN  \E N : /\ Enumerates(N, ShownOperands(InstAt(Functions[g], c.at)))
                    /\ Len(shown) = Len(N)
                    /\ \A i \in 1 .. Len(N) : ParamAt(code[g][b], c.at, shown[i], N[i])
<1> DEFINE f == Functions[g]
           place == c.at
           inst == InstAt(f, place)
           block == code[g][b]
           flat == FlattenSeq(code[g])
           n == Len(f.blocks)
           K == {q \in 1 .. Len(flat) : flat[q].kind = "param" /\ flat[q].at = place}
           shown == Ordered(g, "param", place)
           m == Len(block)
<1>1. PICK o : Spots(o, flat, code[g], n)
  BY BlocksSpots
<1>2. /\ IsSequence(block) /\ InOrder(f, block) /\ b \in 1 .. n /\ m \in Nat
      /\ \A h \in ToSet(block) : IsHook(h) => Carries(f, h) /\ Lists(f, h)
      /\ \A j \in 1 .. m : block[j] \in ToSet(block)
      /\ \A x \in ToSet(block) : \E j \in 1 .. m : x = block[j]
      /\ AllParams(f, block, place)
  <2>1. IsSequence(block)
    BY DEF LayoutInv
  <2>2. InOrder(f, block)
    BY DEF OrderInv
  <2>3. \A h \in ToSet(block) : IsHook(h) => Carries(f, h) /\ Lists(f, h)
    BY DEF HookInv, ListInv
  <2>4. AllParams(f, block, place)
    BY DEF ArgumentsInv
  <2>5. b \in 1 .. n
    BY DEF Blocks
  <2> HIDE DEF block, f, n, place
  <2> QED
    BY <2>1, <2>2, <2>3, <2>4, <2>5, SeqFacts
<1>3. IsSequence(flat) /\ Len(flat) \in Nat /\ Selects(shown, flat, K)
  <2>1. IsSequence(flat)
    BY <1>1 DEF Spots
  <2> HIDE DEF flat
  <2> QED
    BY <2>1, SeqFacts, SelectSelects DEF Ordered, flat
<1>4. PICK J : /\ Enumerates(J, K) /\ IsSequence(shown) /\ Len(shown) = Len(J)
               /\ \A i \in 1 .. Len(J) : shown[i] = flat[J[i]]
  BY <1>3 DEF Selects
<1>5. inst.op = "call"
  <2>1. Lists(f, c)
    BY <1>2 DEF IsHook
  <2> QED
    BY <2>1 DEF Lists
<1>6. ASSUME NEW q \in K
      PROVE  \E j \in 1 .. m : q = o[b] + j /\ flat[q] = block[j]
  <2>1. PICK k \in 1 .. n : \E j \in 1 .. Len(code[g][k]) : q = o[k] + j /\ flat[q] = code[g][k][j]
    BY <1>1, <1>6 DEF Spots
  <2>2. PICK j \in 1 .. Len(code[g][k]) : q = o[k] + j /\ flat[q] = code[g][k][j]
    BY <2>1
  <2>3. k \in Blocks(g) /\ IsSequence(code[g][k])
    BY DEF Blocks, LayoutInv
  <2>4. flat[q] \in ToSet(code[g][k]) /\ flat[q].kind = "param"
    BY <1>6, <2>2, <2>3, SeqFacts
  <2>5. (\E i \in 1 .. Len(f.blocks[k]) : flat[q].at = <<k, i>>)
        /\ (\E i \in 1 .. Len(f.blocks[b]) : place = <<b, i>>)
    <3> HIDE DEF flat
    <3> QED
      BY <2>3, <2>4, HookPlace
  <2>6. k = b
    <3>1. flat[q].at[1] = k /\ place[1] = b
      BY <2>5
    <3> QED
      BY <1>6, <3>1
  <2> QED
    BY <2>2, <2>6
<1>7. \A j \in 1 .. m : o[b] + j \in 1 .. Len(flat) /\ flat[o[b] + j] = block[j]
  BY <1>1, <1>2 DEF Spots
<1>8. o[b] \in Nat
  BY <1>1, <1>2 DEF Spots
<1> HIDE DEF flat, block, f, n, place, m, shown
<1>9. IsSequence(J) /\ ToSet(J) = K /\ Len(J) \in Nat
      /\ (\A i, j \in 1 .. Len(J) : i < j => J[i] < J[j])
      /\ (\A i \in 1 .. Len(J) : J[i] \in K)
      /\ \A q \in K : \E i \in 1 .. Len(J) : q = J[i]
  BY <1>4, SeqFacts DEF Enumerates
<1>10. \A q \in K : flat[q] \in ToSet(block) /\ flat[q].kind = "param" /\ flat[q].at = place
  BY <1>2, <1>6
<1>11. ASSUME NEW q \in K PROVE flat[q].num \in ShownOperands(inst)
  <2> DEFINE h == flat[q]
  <2>1. Carries(f, h) /\ Lists(f, h) /\ h.kind = "param" /\ h.at = place
    BY <1>2, <1>10 DEF IsHook
  <2> HIDE DEF h
  <2>2. h.num \in 1 .. Len(inst.operands) /\ h.operand = inst.operands[h.num] /\ h.type = h.operand.type
    BY <2>1 DEF Lists
  <2>3. IsLine(f, h)
    BY <2>1 DEF Carries, LineKinds
  <2>4. GivenIn(f, h) = Given(inst, h.operand) /\ LiteralIn(h) = (h.operand.kind \in StringKinds)
    BY <2>1 DEF GivenIn, LiteralIn, Given, InstAt
  <2>5. IntrinsicIn(f, h) = ForIntrinsic(inst)
    BY <2>1 DEF IntrinsicIn, ForIntrinsic, InstAt
  <2>6. h.fn = logFunction(h.type, Given(inst, h.operand), h.operand.kind \in StringKinds, ForIntrinsic(inst))
        /\ h.fn # "none"
    BY <2>3, <2>4, <2>5 DEF IsLine
  <2> QED
    BY <2>2, <2>6 DEF ShownOperands, ShowsOperand, h
<1>12. ASSUME NEW j \in ShownOperands(inst) PROVE \E q \in K : flat[q].num = j
  <2>1. HasParam(block, place, j)
    BY <1>2, <1>12 DEF AllParams, ShownOperands
  <2>2. PICK p \in ToSet(block) : p.kind = "param" /\ p.at = place /\ p.num = j
    BY <2>1 DEF HasParam
  <2>3. PICK k \in 1 .. m : p = block[k]
    BY <1>2
  <2>4. o[b] + k \in K /\ flat[o[b] + k] = p
    BY <1>7, <2>2, <2>3
  <2> QED
    BY <2>2, <2>4
<1>13. ASSUME NEW q \in K, NEW r \in K, q < r PROVE flat[q].num < flat[r].num
  <2>1. PICK j \in 1 .. m : q = o[b] + j /\ flat[q] = block[j]
    BY <1>6
  <2>2. PICK k \in 1 .. m : r = o[b] + k /\ flat[r] = block[k]
    BY <1>6
  <2>3. j < k
    BY <1>2, <1>8, <1>13, <2>1, <2>2
  <2>4. Follows(f, block[j], block[k])
    BY <1>2, <2>3 DEF InOrder, m
  <2> QED
    BY <1>5, <1>10, <2>1, <2>2, <2>4 DEF Follows
<1> HIDE DEF K
<1> DEFINE w == Len(J)
           N == [i \in 1 .. w |-> flat[J[i]].num]
           P == ShownOperands(inst)
<1>14. IsSequence(N) /\ Len(N) = w /\ \A i \in 1 .. w : N[i] = flat[J[i]].num
  <2>1. N = [i \in 1 .. w |-> N[i]] /\ \A i \in 1 .. w : N[i] = flat[J[i]].num
    OBVIOUS
  <2>2. w \in Nat
    BY <1>9
  <2> HIDE DEF N, w
  <2> QED
    BY <2>1, <2>2, MadeSeq
<1> HIDE DEF N, P, w
<1>15. ToSet(N) = P
  <2>1. ASSUME NEW x \in ToSet(N) PROVE x \in P
    <3>1. PICK i \in 1 .. w : x = N[i]
      BY <1>14, SeqFacts
    <3> QED
      BY <1>9, <1>11, <1>14, <3>1 DEF w, P
  <2>2. ASSUME NEW x \in P PROVE x \in ToSet(N)
    <3>1. PICK q \in K : flat[q].num = x
      BY <1>12, <2>2 DEF P
    <3>2. PICK i \in 1 .. w : q = J[i]
      BY <1>9 DEF w
    <3>3. N[i] = x /\ N[i] \in ToSet(N)
      BY <1>14, <3>1, <3>2, SeqFacts
    <3> QED
      BY <3>3
  <2> QED
    BY <2>1, <2>2
<1>16. Enumerates(N, P)
  <2>1. \A i, j \in 1 .. Len(N) : i < j => N[i] < N[j]
    BY <1>9, <1>13, <1>14 DEF w
  <2> QED
    BY <1>14, <1>15, <2>1 DEF Enumerates
<1>17. Len(shown) = Len(N)
  BY <1>4, <1>14 DEF w
<1>18. \A i \in 1 .. Len(N) : ParamAt(block, place, shown[i], N[i])
  BY <1>4, <1>9, <1>10, <1>14 DEF w, ParamAt
<1>19. /\ Enumerates(N, ShownOperands(InstAt(Functions[g], c.at)))
       /\ Len(Ordered(g, "param", c.at)) = Len(N)
       /\ \A i \in 1 .. Len(N) : ParamAt(code[g][b], c.at, Ordered(g, "param", c.at)[i], N[i])
  BY <1>16, <1>17, <1>18 DEF P, shown, place, block, f
<1> QED
  BY <1>19

\* The argument lines of a function are in its first block, one behind the other.
LEMMA OwnArgs ==
  ASSUME LayoutInv, module \in Modules, NEW g \in DOMAIN Functions, ArgsOnce(Functions[g], code[g])
  PROVE  LET own == Ordered(g, "arg", NoPlace)
         IN  \E N : /\ Enumerates(N, PrintedArgs(Functions[g])) /\ IsSequence(own) /\ Len(own) = Len(N)
                    /\ \A i \in 1 .. Len(N) : ArgLineOf(Functions[g], own[i], N[i])
<1> DEFINE f == Functions[g]
           flat == FlattenSeq(code[g])
           n == Len(f.blocks)
           one == 1
           block == code[g][one]
           K == {q \in 1 .. Len(flat) : flat[q].kind = "arg" /\ flat[q].at = NoPlace}
           own == Ordered(g, "arg", NoPlace)
<1>1. PICK o : Spots(o, flat, code[g], n)
  BY BlocksSpots
<1>2. PICK d, N : Enumerates(N, PrintedArgs(f)) /\ ArgsAt(f, block, d, N)
  BY DEF ArgsOnce
<1>3. one \in 1 .. n /\ one \in Blocks(g) /\ Blocks(g) = 1 .. n
  BY FunctionFacts DEF Laid, Blocks
<1>4. IsSequence(flat) /\ Len(flat) \in Nat /\ Selects(own, flat, K)
  <2>1. IsSequence(flat)
    BY <1>1 DEF Spots
  <2> HIDE DEF flat
  <2> QED
    BY <2>1, SeqFacts, SelectSelects DEF Ordered, flat
<1>5. PICK J : /\ Enumerates(J, K) /\ IsSequence(own) /\ Len(own) = Len(J)
               /\ \A i \in 1 .. Len(J) : own[i] = flat[J[i]]
  BY <1>4 DEF Selects
<1> DEFINE e == o[one] + d
           w == Len(N)
<1> HIDE DEF f, n, one
<1>6. /\ o[one] \in Nat /\ d \in Nat /\ IsSequence(N) /\ w \in Nat
      /\ \A j \in 1 .. Len(block) : o[one] + j \in 1 .. Len(flat) /\ flat[o[one] + j] = block[j]
      /\ \A i \in 1 .. w : d + i \in 1 .. Len(block) /\ ArgLineOf(f, block[d + i], N[i])
      /\ \A k \in 1 .. Len(block) : block[k].kind = "arg" => \E i \in 1 .. w : k = d + i
  <2>1. o[one] \in Nat
        /\ \A j \in 1 .. Len(block) : o[one] + j \in 1 .. Len(flat) /\ flat[o[one] + j] = block[j]
    BY <1>1, <1>3 DEF Spots
  <2>2. IsSequence(N) /\ w \in Nat
    BY <1>2, SeqFacts DEF Enumerates
  <2> HIDE DEF block
  <2> QED
    BY <1>2, <2>1, <2>2 DEF ArgsAt
\* What is an argument line stands in the first block, and has no place.
<1>7. ASSUME NEW k \in 1 .. n, NEW j \in 1 .. Len(code[g][k]), code[g][k][j].kind = "arg"
      PROVE  k = one /\ code[g][k][j].at = NoPlace
  <2> DEFINE x == code[g][k][j]
  <2>1. k \in Blocks(g) /\ IsSequence(code[g][k])
    BY <1>3 DEF LayoutInv
  <2>2. Placed(f, k, x)
    <3>1. x \in ToSet(code[g][k])
      BY <2>1, SeqFacts
    <3> HIDE DEF x
    <3> QED
      BY <2>1, <3>1 DEF LayoutInv, f
  <2>3. Laid(f) /\ k \in 1 .. Len(f.blocks)
    BY <2>1, FunctionFacts DEF Blocks, f
  <2> HIDE DEF x
  <2>4. x.kind = "arg"
    BY <1>7 DEF x
  <2>5. \A i \in 1 .. Len(f.blocks[k]) : Original(f)[k][i].kind = "inst"
    BY <2>3, OriginalFacts
  <2>6. ~InstHook(f, k, x)
    BY <2>4 DEF InstHook, HookKinds
  <2>7. k = 1 /\ EntryHook(x)
    BY <2>2, <2>4, <2>5, <2>6 DEF Placed
  <2> QED
    BY <2>7 DEF EntryHook, x, one
<1> HIDE DEF block
<1>8. ASSUME NEW i \in 1 .. w
      PROVE  e + i \in K /\ flat[e + i] = block[d + i]
  <2>1. d + i \in 1 .. Len(block) /\ block[d + i].kind = "arg"
    BY <1>6 DEF ArgLineOf
  <2>2. o[one] + (d + i) \in 1 .. Len(flat) /\ flat[o[one] + (d + i)] = block[d + i]
    BY <1>6, <2>1
  <2>3. o[one] + (d + i) = e + i
    BY <1>6
  <2>4. block[d + i].at = NoPlace
    BY <1>3, <1>7, <2>1 DEF block
  <2> HIDE DEF e, w, flat
  <2> QED
    BY <2>1, <2>2, <2>3, <2>4
<1>9. ASSUME NEW q \in K PROVE \E i \in 1 .. w : q = e + i
  <2>1. PICK k \in 1 .. n : \E j \in 1 .. Len(code[g][k]) : q = o[k] + j /\ flat[q] = code[g][k][j]
    BY <1>1, <1>9 DEF Spots
  <2>2. PICK j \in 1 .. Len(code[g][k]) : q = o[k] + j /\ flat[q] = code[g][k][j]
    BY <2>1
  <2>3. code[g][k][j].kind = "arg"
    BY <1>9, <2>2
  <2>4. k = one
    BY <1>7, <2>3
  <2>5. j \in 1 .. Len(block) /\ block[j].kind = "arg" /\ q = o[one] + j
    BY <2>2, <2>3, <2>4 DEF block
  <2>6. PICK i \in 1 .. w : j = d + i
    BY <1>6, <2>5
  <2>7. q = o[one] + (d + i)
    BY <2>5, <2>6
  <2>8. o[one] + (d + i) = e + i
    BY <1>6
  <2> QED
    BY <2>7, <2>8
<1>10. K \subseteq Int /\ e \in Nat
  BY <1>4, <1>6
<1> HIDE DEF K, flat, e, own, w
<1> DEFINE M == [i \in 1 .. w |-> e + i]
<1>11. IsSequence(M) /\ Len(M) = w /\ \A i \in 1 .. w : M[i] = e + i
  <2>1. M = [i \in 1 .. w |-> M[i]] /\ \A i \in 1 .. w : M[i] = e + i
    OBVIOUS
  <2> HIDE DEF M
  <2> QED
    BY <1>6, <2>1, MadeSeq
<1> HIDE DEF M
<1>12. Enumerates(M, K)
  <2>1. ToSet(M) = K
    <3>1. \A x \in ToSet(M) : x \in K
      BY <1>8, <1>11, SeqFacts
    <3>2. ASSUME NEW x \in K PROVE x \in ToSet(M)
      <4>1. PICK i \in 1 .. w : x = e + i
        BY <1>9
      <4>2. M[i] = x /\ M[i] \in ToSet(M)
        BY <1>11, <4>1, SeqFacts
      <4> QED
        BY <4>2
    <3> QED
      BY <3>1, <3>2
  <2>2. ASSUME NEW i \in 1 .. w, NEW j \in 1 .. w, i < j PROVE M[i] < M[j]
    <3>1. M[i] = e + i /\ M[j] = e + j
      BY <1>11
    <3>2. i \in Int /\ j \in Int /\ e \in Int
      BY <1>6, <1>10
    <3> QED
      BY ONLY <2>2, <3>1, <3>2
  <2> QED
    BY <1>11, <2>1, <2>2 DEF Enumerates
<1>13. Len(J) = Len(M) /\ \A i \in 1 .. Len(J) : J[i] = M[i]
  <2>1. Enumerates(J, K) /\ K \subseteq Int
    BY <1>5, <1>10
  <2> QED
    BY ONLY <1>12, <2>1, EnumSame
<1>14. \A i \in 1 .. w : own[i] = block[d + i]
  BY <1>5, <1>8, <1>11, <1>13
<1>15. \A i \in 1 .. w : ArgLineOf(f, own[i], N[i])
  BY <1>6, <1>14
<1>16. Len(own) = w /\ IsSequence(own)
  BY <1>5, <1>11, <1>13
<1> QED
  BY <1>2, <1>15, <1>16 DEF w, own, f

\* A call shows those operands for which the callee it names has argument lines.
LEMMA SamePrinted ==
  ASSUME module \in Modules, NEW g \in DOMAIN Functions, NEW b \in Blocks(g),
         NEW i \in 1 .. Len(Functions[g].blocks[b]), NEW callee \in DOMAIN Functions,
         InstAt(Functions[g], <<b, i>>).op = "call",
         InstAt(Functions[g], <<b, i>>).callee = Functions[callee].symbol
  PROVE  LET inst == InstAt(Functions[g], <<b, i>>)
             f == Functions[callee]
         IN  /\ Len(inst.operands) \in Nat /\ inst.more \in Nat
             /\ ShownOperands(inst) = PrintedArgs(f)
             /\ \A j \in ShownOperands(inst) : inst.operands[j].type = f.args[j].type
<1> DEFINE inst == InstAt(Functions[g], <<b, i>>)
           f == Functions[callee]
           n == Len(inst.operands)
           types == [j \in DOMAIN inst.operands |-> inst.operands[j].type]
<1>1. InstOK(module, Functions[g], b, i) /\ inst = Functions[g].blocks[b][i] /\ f \in ToSet(module.functions)
  BY FunctionFacts DEF InstAt, Functions
<1>2. /\ IsSequence(inst.operands) /\ inst.more \in Nat
      /\ \A o \in ToSet(inst.operands) : OperandOK(Functions[g], b, i, o)
      /\ [j \in DOMAIN f.args |-> f.args[j].type] = types
  BY <1>1 DEF InstOK
<1>3. /\ IsSequence(f.args)
      /\ \A j \in DOMAIN f.args : Supported(f.args[j].type) /\ f.args[j].type \notin {Void, LabelTy}
  BY <1>1, ModulesAssumption
<1> HIDE DEF f, inst
<1>4. DOMAIN f.args = DOMAIN inst.operands /\ \A j \in DOMAIN f.args : inst.operands[j].type = f.args[j].type
  BY <1>2
<1>5. DOMAIN f.args = 1 .. Len(f.args) /\ DOMAIN inst.operands = 1 .. n /\ n \in Nat
      /\ \A j \in 1 .. n : OperandOK(Functions[g], b, i, inst.operands[j])
  BY <1>2, <1>3, SeqFacts
<1>6. ASSUME NEW j \in 1 .. n
      PROVE  ShowsOperand(inst, j) <=> logFunction(f.args[j].type, TRUE, FALSE, FALSE) # "none"
  <2> DEFINE o == inst.operands[j]
             t == o.type
  <2>1. OperandOK(Functions[g], b, i, o) /\ t = f.args[j].type /\ t # LabelTy
    BY <1>3, <1>4, <1>5
  <2> HIDE DEF o
  <2>2. ShowsOperand(inst, j) <=>
          logFunction(t, Given(inst, o), o.kind \in StringKinds, ForIntrinsic(inst)) # "none"
    BY DEF ShowsOperand, o
  <2>3. Given(inst, o) = (o.kind \notin {"label", "function"})
    BY DEF Given, inst
  <2>4. CASE o.kind \in {"label", "function"}
    <3>1. t.id = "Pointer"
      BY <2>1, <2>4 DEF OperandOK, StringKinds
    <3>2. logFunction(t, TRUE, FALSE, FALSE) = "trace_logger_log_ptr"
      BY <3>1, PointerLog
    <3>3. Given(inst, o) = FALSE
      BY <2>3, <2>4
    <3>4. logFunction(t, Given(inst, o), o.kind \in StringKinds, ForIntrinsic(inst)) = "trace_logger_log_int"
      BY <3>3 DEF logFunction
    <3> QED
      BY <2>1, <2>2, <3>2, <3>4
  <2>5. CASE o.kind \notin {"label", "function"}
    <3>1. Given(inst, o) = TRUE
      BY <2>3, <2>5
    <3> HIDE DEF t
    <3>2. logFunction(t, TRUE, o.kind \in StringKinds, ForIntrinsic(inst)) # "none"
            <=> logFunction(t, TRUE, FALSE, FALSE) # "none"
      BY DEF logFunction
    <3> QED
      BY <2>1, <2>2, <3>1, <3>2
  <2> QED
    BY <2>4, <2>5
<1>7. ShownOperands(inst) = PrintedArgs(f)
  BY <1>4, <1>5, <1>6 DEF ShownOperands, PrintedArgs
<1>8. \A j \in ShownOperands(inst) : inst.operands[j].type = f.args[j].type
  BY <1>4, <1>5 DEF ShownOperands
<1> QED
  BY <1>2, <1>5, <1>7, <1>8 DEF inst, f

\* A call of a function of the module lists its arguments as the callee's own
\* argument lines do, in number, order and size (full_trace.cpp: "Every argument in
\* the function call will have two lines printed, reflecting the state of the
\* operand in the caller AND callee function").
THEOREM CallArgsCorrect == Spec => []CallArgsMatch
<1>1. PassInv /\ HookInv /\ OrderInv /\ ListInv /\ ArgumentsInv /\ ArgInv => CallArgsMatch
  <2> SUFFICES ASSUME PassInv, HookInv, OrderInv, ListInv, ArgumentsInv, ArgInv,
                      NEW g \in Written, NEW c \in OfKind(g, "callee"),
                      NEW callee \in DOMAIN Functions, c.id = Named(Functions[callee].symbol),
                      IsC(Functions[callee]), Functions[callee].symbol # MainFn
               PROVE  LET shown == Ordered(g, "param", c.at)
                          own == Ordered(callee, "arg", NoPlace)
                      IN  /\ Len(shown) = Len(own)
                          /\ \A i \in DOMAIN own :
                               /\ shown[i].size = own[i].size /\ shown[i].type = own[i].type
                               /\ own[i].num \in {shown[i].num, FORWARD_LINE} /\ shown[i].num < c.num
                               /\ i > 1 => shown[i - 1].num < shown[i].num
    BY DEF CallArgsMatch
  <2> DEFINE shown == Ordered(g, "param", c.at)
             own == Ordered(callee, "arg", NoPlace)
             f == Functions[callee]
             inst == InstAt(Functions[g], c.at)
             P == ShownOperands(inst)
  <2>1. /\ module \in Modules /\ g \in DOMAIN Functions /\ LayoutInv
        /\ fn \notin DOMAIN Functions /\ fn \in 1 .. Len(Functions) + 1
    BY DEF Written, PassInv, WalkInv
  <2>2. PICK b \in Blocks(g) : c \in ToSet(code[g][b])
    <3>1. DOMAIN Functions[g].blocks = Blocks(g)
      BY <2>1, ModuleFacts
    <3>2. code[g] = [d \in DOMAIN Functions[g].blocks |-> code[g][d]]
      BY <2>1 DEF LayoutInv
    <3>3. DOMAIN code[g] = Blocks(g)
      BY <3>1, <3>2
    <3> QED
      BY <3>3 DEF OfKind, Items
  <2>3. c.kind = "callee" /\ IsHook(c)
    BY DEF OfKind, IsHook
  <2>4. PICK i \in 1 .. Len(Functions[g].blocks[b]) : c.at = <<b, i>>
    BY <2>1, <2>2, <2>3, HookPlace
  <2>5. inst.op = "call" /\ inst.callee = f.symbol /\ c.num = Len(inst.operands) + inst.more + 1
    <3>1. Lists(Functions[g], c)
      BY <2>1, <2>2, <2>3 DEF ListInv
    <3>2. inst.op = "call" /\ c.id = Named(inst.callee) /\ c.num = Len(inst.operands) + inst.more + 1
      BY <2>3, <3>1 DEF Lists
    <3> HIDE DEF inst, f
    <3> QED
      BY <3>2 DEF Named, f
  <2>6. /\ Len(inst.operands) \in Nat /\ inst.more \in Nat
        /\ P = PrintedArgs(f) /\ \A j \in P : inst.operands[j].type = f.args[j].type
    BY <2>1, <2>2, <2>4, <2>5, SamePrinted
  <2>7. PICK N : /\ Enumerates(N, P) /\ Len(shown) = Len(N)
                 /\ \A k \in 1 .. Len(N) : ParamAt(code[g][b], c.at, shown[k], N[k])
    BY <2>1, <2>2, <2>3, ShownParams
  <2>8. ArgsOnce(f, code[callee])
    <3>1. callee < fn
      <4>1. callee \in 1 .. Len(Functions) /\ Len(Functions) \in Nat /\ fn \notin 1 .. Len(Functions)
        BY <2>1, FunctionFacts
      <4> QED
        BY <2>1, <4>1
    <3> QED
      BY <3>1 DEF ArgInv
  <2>9. PICK O : /\ Enumerates(O, P) /\ IsSequence(own) /\ Len(own) = Len(O)
                 /\ \A k \in 1 .. Len(O) : ArgLineOf(f, own[k], O[k])
    BY <2>1, <2>6, <2>8, OwnArgs
  <2>10. P \subseteq Int /\ \A j \in P : j \in 1 .. Len(inst.operands)
    BY <2>6 DEF ShownOperands
  <2>11. Len(N) = Len(O) /\ \A k \in 1 .. Len(N) : N[k] = O[k]
    BY <2>7, <2>9, <2>10, EnumSame
  <2>12. DOMAIN own = 1 .. Len(N) /\ Len(N) \in Nat
         /\ \A k \in 1 .. Len(N) : N[k] \in P
    BY <2>7, <2>9, <2>11, SeqFacts DEF Enumerates
  <2>13. \A h \in ToSet(code[g][b]) : h.kind = "param" =>
           Lists(Functions[g], h) /\ IsLine(Functions[g], h)
    BY <2>1, <2>2 DEF ListInv, HookInv, Carries, IsHook, LineKinds
  <2> HIDE DEF shown, own, f, P
  <2>14. \A k \in 1 .. Len(N) :
           /\ shown[k].num = N[k] /\ shown[k].type = f.args[N[k]].type
           /\ shown[k].size = getMemSize(shown[k].type)
    <3> TAKE k \in 1 .. Len(N)
    <3> DEFINE h == shown[k]
    <3>1. h \in ToSet(code[g][b]) /\ h.kind = "param" /\ h.at = c.at /\ h.num = N[k]
      BY <2>7 DEF ParamAt
    <3> HIDE DEF h
    <3>2. Lists(Functions[g], h) /\ h.size = getMemSize(h.type)
      BY <2>13, <3>1 DEF IsLine
    <3>3. h.type = inst.operands[N[k]].type
      BY <3>1, <3>2 DEF Lists
    <3> QED
      BY <2>6, <2>12, <3>1, <3>2, <3>3 DEF h
  <2>15. \A k \in 1 .. Len(N) :
           /\ own[k].type = f.args[N[k]].type /\ own[k].size = getMemSize(own[k].type)
           /\ own[k].num \in {N[k], FORWARD_LINE}
    BY <2>9, <2>11 DEF ArgLineOf
  <2>16. \A k \in 1 .. Len(N) : N[k] < c.num
    <3> HIDE DEF inst
    <3>1. c.num = Len(inst.operands) + inst.more + 1
      BY <2>5
    <3> QED
      BY <2>6, <2>10, <2>12, <3>1
  <2>17. \A k \in 1 .. Len(N) : k > 1 => N[k - 1] < N[k] /\ shown[k - 1].num = N[k - 1]
    <3> TAKE k \in 1 .. Len(N)
    <3>1. k > 1 => k - 1 \in 1 .. Len(N) /\ k - 1 < k
      BY <2>12
    <3>2. \A l, m \in 1 .. Len(N) : l < m => N[l] < N[m]
      BY <2>7 DEF Enumerates
    <3> QED
      BY <2>14, <3>1, <3>2
  <2>18. Len(shown) = Len(own)
    BY <2>7, <2>9, <2>11
  <2> QED
    BY <2>12, <2>14, <2>15, <2>16, <2>17, <2>18 DEF shown, own
<1> QED
  BY <1>1, PassInvariant, HookInvariant, OrderInvariant, ListInvariant, ArgumentsInvariant,
     ArgInvariant, PTL
=============================================================================
