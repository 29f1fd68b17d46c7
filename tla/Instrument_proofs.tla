-------------------------- MODULE Instrument_proofs --------------------------
(***************************************************************************)
(* What the instrumentation pass leaves where, for every module it may be  *)
(* run on.                                                                 *)
(***************************************************************************)
EXTENDS Insertion_proofs

----------------------------------------------------------------------------
(* The invariant.                                                          *)

Rewriting == pc \in {"block", "instruction"}

\* Where the pass is.
WalkInv ==
  /\ module \in Modules /\ fn \in 1 .. Len(Functions) + 1
  /\ pc \in {"init", "function", "block", "instruction", "done"}
  /\ pc = "init" => fn = 1
  /\ pc = "done" => fn \notin DOMAIN Functions
  /\ Rewriting => fn \in DOMAIN Functions /\ IsC(Function)
  /\ pc = "block" => \E b \in 1 .. Len(Function.blocks) + 1 : at = <<b, 0>>
  /\ pc = "instruction" =>
       /\ Visited(Function)
       /\ \E b \in Blocks(fn) : \E i \in 1 .. Len(Function.blocks[b]) :
            at = <<b, i>> /\ Function.blocks[b][i].op # "phi"

\* What stands in the blocks, and in which order.
LayoutInv ==
  /\ code = [g \in DOMAIN Functions |-> [b \in DOMAIN Functions[g].blocks |-> code[g][b]]]
  /\ \A g \in DOMAIN Functions : \A b \in Blocks(g) :
       /\ IsSequence(code[g][b]) /\ Sorted(Functions[g], code[g][b])
       /\ \A it \in ToSet(code[g][b]) : Placed(Functions[g], b, it)
       /\ ToSet(Original(Functions[g])[b]) \subseteq ToSet(code[g][b])

\* Where the pass has not been nothing is inserted, and there are no hooks of
\* instructions that it has yet to come to.
FreshInv ==
  /\ \A g \in DOMAIN Functions :
       g > fn \/ (g = fn /\ ~Rewriting) => code[g] = Original(Functions[g])
  /\ Rewriting => \A b \in Blocks(fn) :
       /\ b > at[1] \/ (b = at[1] /\ pc = "block") => code[fn][b] = Original(Function)[b]
       /\ \A it \in ToSet(code[fn][b]) : IsHook(it) =>
            /\ it.at # NoPlace
            /\ b < at[1] \/ (b = at[1] /\ it.at[2] < at[2])

\* What makes every path switch is there where the pass has been.
HasHook(s, kind, place) == \E it \in ToSet(s) : it.kind = kind /\ it.at = place
Switching(f) == IsC(f) /\ is_toplevel_mode /\ f.symbol \in tracked_functions
Entered(blocks) == HasHook(blocks[1], "status", NoPlace) /\ HasHook(blocks[1], "entry", NoPlace)
Returns(f, blocks, b) ==
  \A i \in 1 .. Len(f.blocks[b]) : f.blocks[b][i].op = "ret" =>
    HasHook(blocks[b], "header", <<b, i>>) /\ HasHook(blocks[b], "status", <<b, i>>)

SwitchInv ==
  \A g \in DOMAIN Functions : Switching(Functions[g]) =>
    /\ g < fn /\ Functions[g].symbol # MainFn => Entered(code[g])
    /\ Visited(Functions[g]) => \A b \in Blocks(g) :
         g < fn \/ (g = fn /\ Rewriting /\ b < at[1]) => Returns(Functions[g], code[g], b)

\* Buffers are allocated in the function that they belong to, one for each key.
BufferInv ==
  /\ IsSequence(vector_buffers) /\ OneBufferPerKey(vector_buffers)
  /\ Rewriting => \A x \in ToSet(vector_buffers) :
       x.fn = fn /\ Alloca(x) \in ToSet(code[fn][1])
  /\ \A g \in DOMAIN Functions : \A b \in Blocks(g) : \A h \in ToSet(code[g][b]) :
       IsHook(h) /\ h.fn = "trace_logger_log_vector" =>
         h.buffer.fn = g /\ Alloca(h.buffer) \in ToSet(code[g][1])

PassInv == WalkInv /\ LayoutInv /\ FreshInv /\ SwitchInv /\ BufferInv

----------------------------------------------------------------------------
(* What an insertion preserves.                                            *)

LEMMA AllocaSeq ==
  ASSUME NEW a, IsSequence(a)
  PROVE  /\ IsSequence([i \in DOMAIN a |-> Alloca(a[i])])
         /\ ToSet([i \in DOMAIN a |-> Alloca(a[i])]) = {Alloca(x) : x \in ToSet(a)}
<1> DEFINE n == Len(a)
           s == [i \in DOMAIN a |-> Alloca(a[i])]
<1>1. n \in Nat /\ DOMAIN a = 1 .. n
  BY SeqFacts
<1>2. DOMAIN s = 1 .. n /\ \A i \in 1 .. n : s[i] = Alloca(a[i])
  BY <1>1
<1>3. s = [i \in 1 .. n |-> s[i]]
  BY <1>1
<1> HIDE DEF s, n
<1>4. IsSequence(s)
  BY <1>1, <1>3, MadeSeq
<1>5. ToSet(s) = {Alloca(x) : x \in ToSet(a)}
  BY <1>1, <1>2 DEF ToSet
<1> QED
  BY <1>4, <1>5 DEF s

\* The items of a block, before and after: they stay, and what is new is a buffer in
\* the first block or one of these hooks in block b.
Leaving(b, before, after) ==
  /\ IsSequence(vector_buffers') /\ OneBufferPerKey(vector_buffers')
  /\ \A x \in ToSet(vector_buffers') : x.fn = fn /\ Alloca(x) \in ToSet(code'[fn][1])
  /\ \A g \in DOMAIN Functions : \A c \in Blocks(g) : \A h \in ToSet(code'[g][c]) :
       IsHook(h) /\ h.fn = "trace_logger_log_vector" =>
         h.buffer.fn = g /\ Alloca(h.buffer) \in ToSet(code'[g][1])
  /\ \A g \in DOMAIN Functions \ {fn} : code'[g] = code[g]
  /\ \A c \in Blocks(fn) :
       /\ c \notin {1, b} => code'[fn][c] = code[fn][c]
       /\ ToSet(code[fn][c]) \subseteq ToSet(code'[fn][c])
       /\ \A it \in ToSet(code'[fn][c]) : IsHook(it) =>
            \/ it \in ToSet(code[fn][c])
            \/ c = b /\ \E h \in ToSet(before) \cup ToSet(after) :
                          Passes(h, it, vector_buffers')
  /\ \A h \in ToSet(before) \cup ToSet(after) : \E it \in ToSet(code'[fn][b]) :
       Passes(h, it, vector_buffers')

LEMMA Inserted ==
  ASSUME WalkInv, LayoutInv, BufferInv, Rewriting, module' = module,
         NEW b \in Blocks(fn), NEW k \in 1 .. Len(code[fn][b]),
         NEW before, NEW after, IsSequence(before), IsSequence(after),
         Insert(b, k, before, after),
         \A h \in ToSet(before) \cup ToSet(after) : IsItem(h) /\ IsHook(h) /\ Placed(Function, b, h),
         Fits(Function, code[fn][b], k, before, after)
  PROVE  LayoutInv' /\ Leaving(b, before, after)
<1> DEFINE F == Function
           block == code[fn][b]
<1>1. /\ module \in Modules /\ fn \in DOMAIN Functions /\ F = Functions[fn]
      /\ Laid(F) /\ DOMAIN F.blocks = Blocks(fn) /\ 1 \in Blocks(fn)
  <2>1. module \in Modules /\ fn \in DOMAIN Functions /\ F = Functions[fn]
    BY DEF WalkInv, Function, Functions
  <2>2. Laid(F)
    BY <2>1, FunctionFacts
  <2> HIDE DEF F
  <2> QED
    BY <2>1, <2>2 DEF Laid, Blocks
<1>2. /\ code = [g \in DOMAIN Functions |-> [c \in DOMAIN Functions[g].blocks |-> code[g][c]]]
      /\ \A g \in DOMAIN Functions : \A c \in Blocks(g) :
           /\ IsSequence(code[g][c]) /\ Sorted(Functions[g], code[g][c])
           /\ \A it \in ToSet(code[g][c]) : Placed(Functions[g], c, it)
           /\ ToSet(Original(Functions[g])[c]) \subseteq ToSet(code[g][c])
  BY DEF LayoutInv
<1>3. /\ IsSequence(vector_buffers) /\ OneBufferPerKey(vector_buffers)
      /\ \A x \in ToSet(vector_buffers) : x.fn = fn /\ Alloca(x) \in ToSet(code[fn][1])
      /\ \A g \in DOMAIN Functions : \A c \in Blocks(g) : \A h \in ToSet(code[g][c]) :
           IsHook(h) /\ h.fn = "trace_logger_log_vector" =>
             h.buffer.fn = g /\ Alloca(h.buffer) \in ToSet(code[g][1])
  BY DEF BufferInv
<1>4. /\ code' = [g \in DOMAIN Functions |-> [c \in DOMAIN Functions[g].blocks |-> code'[g][c]]]
      /\ \A g \in DOMAIN Functions \ {fn} : code'[g] = code[g]
      /\ OneBufferPerKey(vector_buffers')
  BY <1>1, <1>2, <1>3, InsertFacts
<1>left. PICK a, s, t : Leaves(b, k, before, after, a, s, t)
  BY <1>1, <1>2, <1>3, InsertFacts
<1>5. /\ IsSequence(a) /\ ToSet(a) \subseteq BuffersFor(before \o after)
      /\ vector_buffers' = a \o vector_buffers
      /\ IsSequence(s) /\ Len(s) = Len(before)
      /\ \A i \in 1 .. Len(before) : Passes(before[i], s[i], vector_buffers')
      /\ IsSequence(t) /\ Len(t) = Len(after)
      /\ \A i \in 1 .. Len(after) : Passes(after[i], t[i], vector_buffers')
      /\ \A c \in DOMAIN Functions[fn].blocks :
           code'[fn][c] =
             (IF c = 1 THEN [i \in DOMAIN a |-> Alloca(a[i])] ELSE << >>)
             \o (IF c = b THEN Widened(code[fn][b], k, s, t) ELSE code[fn][c])
  BY <1>left DEF Leaves
<1> HIDE DEF F
<1> DEFINE new == Widened(block, k, s, t)
           front == [i \in DOMAIN a |-> Alloca(a[i])]
           pre(c) == IF c = 1 THEN front ELSE << >>
           body(c) == IF c = b THEN new ELSE code[fn][c]
<1>6. IsSequence(block) /\ Sorted(F, block) /\ \A it \in ToSet(block) : Placed(F, b, it)
  BY <1>1, <1>2
<1>7. /\ \A x \in ToSet(s) : \E h \in ToSet(before) : Passes(h, x, vector_buffers')
      /\ \A h \in ToSet(before) : \E x \in ToSet(s) : Passes(h, x, vector_buffers')
      /\ \A x \in ToSet(t) : \E h \in ToSet(after) : Passes(h, x, vector_buffers')
      /\ \A h \in ToSet(after) : \E x \in ToSet(t) : Passes(h, x, vector_buffers')
  BY <1>5, PassedSeq
<1>8. IsSequence(new) /\ ToSet(new) = ToSet(block) \cup ToSet(s) \cup ToSet(t)
  BY <1>5, <1>6, WidenedFacts
<1>9. Sorted(F, new)
  <2>1. Fits(F, block, k, before, after)
    BY DEF F
  <2>2. Fits(F, block, k, s, t)
    <3> HIDE DEF block
    <3> QED
      BY <1>5, <2>1, FitsPassed
  <2> QED
    BY <1>5, <1>6, <2>2, WidenedSorted
<1>10. ASSUME NEW x \in ToSet(s) \cup ToSet(t)
       PROVE  /\ \E h \in ToSet(before) \cup ToSet(after) : Passes(h, x, vector_buffers')
              /\ IsHook(x) /\ Placed(F, b, x)
  <2>1. PICK h \in ToSet(before) \cup ToSet(after) : Passes(h, x, vector_buffers')
    BY <1>7
  <2>2. IsItem(h) /\ IsHook(h) /\ Placed(F, b, h)
    BY DEF F
  <2>3. b \in 1 .. Len(F.blocks)
    BY <1>1 DEF Blocks
  <2>4. IsHook(x) /\ Placed(F, b, x)
    BY <1>1, <2>1, <2>2, <2>3, PlacedPassed
  <2> QED
    BY <2>1, <2>4
<1>11. IsSequence(front) /\ ToSet(front) = {Alloca(x) : x \in ToSet(a)}
  BY <1>5, AllocaSeq
<1> HIDE DEF new, front
<1>12. ASSUME NEW c \in Blocks(fn)
       PROVE  /\ IsSequence(body(c)) /\ Sorted(F, body(c))
              /\ \A it \in ToSet(body(c)) : Placed(F, c, it)
              /\ ToSet(code[fn][c]) \subseteq ToSet(body(c))
              /\ \A it \in ToSet(body(c)) :
                   \/ it \in ToSet(code[fn][c])
                   \/ c = b /\ \E h \in ToSet(before) \cup ToSet(after) :
                                 Passes(h, it, vector_buffers')
  <2>1. CASE c = b
    <3>1. body(c) = new /\ code[fn][c] = block
      BY <2>1
    <3> HIDE DEF body, block
    <3>2. \A it \in ToSet(new) : Placed(F, b, it)
      BY <1>6, <1>8, <1>10
    <3>3. \A it \in ToSet(new) :
            it \in ToSet(block) \/ \E h \in ToSet(before) \cup ToSet(after) :
                                     Passes(h, it, vector_buffers')
      BY <1>8, <1>10
    <3> QED
      BY <1>8, <1>9, <2>1, <3>1, <3>2, <3>3
  <2>2. CASE c # b
    <3>1. body(c) = code[fn][c]
      BY <2>2
    <3> HIDE DEF body
    <3> QED
      BY <1>1, <1>2, <3>1
  <2> QED
    BY <2>1, <2>2
<1>13. ASSUME NEW c \in Blocks(fn)
       PROVE  /\ IsSequence(pre(c)) /\ Sorted(F, pre(c))
              /\ \A it \in ToSet(pre(c)) : c = 1 /\ \E x \in ToSet(a) : it = Alloca(x)
  <2>1. CASE c = 1
    <3>1. pre(c) = front
      BY <2>1
    <3> HIDE DEF pre
    <3>2. \A it \in ToSet(front) : \E x \in ToSet(a) : it = Alloca(x)
      BY <1>11
    <3>3. \A it \in ToSet(front) : Key(F, it) = 0 /\ ~Single(it)
      BY <3>2, AllocaFacts, FrontKey
    <3>4. Sorted(F, front)
      BY <1>11, <3>3, SortedSame
    <3> QED
      BY <1>11, <2>1, <3>1, <3>2, <3>4
  <2>2. CASE c # 1
    <3>1. pre(c) = << >>
      BY <2>2
    <3> HIDE DEF pre
    <3> QED
      BY <3>1, EmptyFacts, SortedOne
  <2> QED
    BY <2>1, <2>2
<1>14. ASSUME NEW c \in Blocks(fn) PROVE code'[fn][c] = pre(c) \o body(c)
  BY <1>1, <1>5 DEF new, front
<1>15. /\ \A x \in ToSet(a) : Alloca(x) \in ToSet(pre(1))
  BY <1>11
<1> HIDE DEF pre, body
<1>16. ASSUME NEW c \in Blocks(fn)
       PROVE  /\ IsSequence(code'[fn][c]) /\ Sorted(F, code'[fn][c])
              /\ ToSet(code'[fn][c]) = ToSet(pre(c)) \cup ToSet(body(c))
  <2>1. AllPrecede(F, ToSet(pre(c)), ToSet(body(c)))
    <3> SUFFICES ASSUME NEW x \in ToSet(pre(c)), NEW y \in ToSet(body(c)) PROVE Precedes(F, x, y)
      BY DEF AllPrecede
    <3>1. c = 1 /\ \E z \in ToSet(a) : x = Alloca(z)
      BY <1>13
    <3>2. Placed(F, 1, y)
      BY <1>12, <3>1
    <3> QED
      BY <1>1, <3>1, <3>2, BuffersFirst
  <2>2. Sorted(F, pre(c) \o body(c))
    BY <1>12, <1>13, <2>1, SortedCat
  <2>3. /\ IsSequence(pre(c) \o body(c))
        /\ ToSet(pre(c) \o body(c)) = ToSet(pre(c)) \cup ToSet(body(c))
    BY <1>12, <1>13, CatFacts
  <2> QED
    BY <1>14, <2>2, <2>3
<1>22. ASSUME NEW c \in Blocks(fn), c \notin {1, b} PROVE code'[fn][c] = code[fn][c]
  <2>1. pre(c) = << >> /\ body(c) = code[fn][c]
    BY <1>22 DEF pre, body
  <2>2. code[fn][c] \in Seq(ToSet(code[fn][c]))
    BY <1>1, <1>2 DEF IsSequence
  <2>3. \A S : \A x \in Seq(S) : << >> \o x = x
    OBVIOUS
  <2> QED
    BY <1>14, <2>1, <2>2, <2>3
<1>17. ASSUME NEW c \in Blocks(fn)
       PROVE  /\ ToSet(code[fn][c]) \subseteq ToSet(code'[fn][c])
              /\ \A it \in ToSet(code'[fn][c]) :
                   /\ Placed(F, c, it)
                   /\ IsHook(it) =>
                        \/ it \in ToSet(code[fn][c])
                        \/ c = b /\ \E h \in ToSet(before) \cup ToSet(after) :
                                      Passes(h, it, vector_buffers')
  <2>1. ToSet(code[fn][c]) \subseteq ToSet(code'[fn][c])
    BY <1>12, <1>16
  <2>2. ASSUME NEW it \in ToSet(pre(c)) PROVE Placed(F, c, it) /\ ~IsHook(it)
    BY <1>13, AllocaFacts DEF Placed
  <2> QED
    BY <1>12, <1>16, <2>1, <2>2
<1>18. LayoutInv'
  <2>1. Functions' = Functions /\ \A g : Blocks(g)' = Blocks(g)
    BY DEF Functions, Blocks
  <2>2. ASSUME NEW g \in DOMAIN Functions, NEW c \in Blocks(g)
        PROVE  /\ IsSequence(code'[g][c]) /\ Sorted(Functions[g], code'[g][c])
               /\ \A it \in ToSet(code'[g][c]) : Placed(Functions[g], c, it)
               /\ ToSet(Original(Functions[g])[c]) \subseteq ToSet(code'[g][c])
    <3>1. CASE g = fn
      <4>1. ToSet(Original(F)[c]) \subseteq ToSet(code[fn][c])
        BY <1>1, <1>2, <3>1
      <4> QED
        BY <1>1, <1>16, <1>17, <3>1, <4>1
    <3>2. CASE g # fn
      BY <1>2, <1>4, <3>2
    <3> QED
      BY <3>1, <3>2
  <2> QED
    BY <1>4, <2>1, <2>2 DEF LayoutInv
<1>19. /\ IsSequence(vector_buffers')
       /\ \A x \in ToSet(vector_buffers') : x.fn = fn /\ Alloca(x) \in ToSet(code'[fn][1])
  <2>1. /\ IsSequence(vector_buffers')
        /\ ToSet(vector_buffers') = ToSet(a) \cup ToSet(vector_buffers)
    BY <1>3, <1>5, CatFacts
  <2>2. \A x \in ToSet(a) : x.fn = fn
    BY <1>5 DEF BuffersFor, BufferFor
  <2>3. \A x \in ToSet(a) : Alloca(x) \in ToSet(code'[fn][1])
    BY <1>1, <1>15, <1>16
  <2>4. \A x \in ToSet(vector_buffers) : Alloca(x) \in ToSet(code'[fn][1])
    BY <1>1, <1>3, <1>17
  <2> QED
    BY <1>3, <2>1, <2>2, <2>3, <2>4
<1>20. ASSUME NEW g \in DOMAIN Functions, NEW c \in Blocks(g), NEW h \in ToSet(code'[g][c]),
              IsHook(h), h.fn = "trace_logger_log_vector"
       PROVE  h.buffer.fn = g /\ Alloca(h.buffer) \in ToSet(code'[g][1])
  <2>1. CASE g # fn
    BY <1>3, <1>4, <1>20, <2>1
  <2>2. CASE g = fn /\ h \in ToSet(code[fn][c])
    <3>1. h.buffer.fn = g /\ Alloca(h.buffer) \in ToSet(code[fn][1])
      BY <1>3, <1>20, <2>2
    <3> QED
      BY <1>1, <1>17, <2>2, <3>1
  <2>3. CASE g = fn /\ h \notin ToSet(code[fn][c])
    <3>1. PICK h0 \in ToSet(before) \cup ToSet(after) : Passes(h0, h, vector_buffers')
      BY <1>17, <1>20, <2>3
    <3>2. h.buffer \in ToSet(vector_buffers')
      BY <1>20, <3>1, PassesFacts
    <3> QED
      BY <1>19, <2>3, <3>2
  <2> QED
    BY <2>1, <2>2, <2>3
<1>21. ASSUME NEW h \in ToSet(before) \cup ToSet(after)
       PROVE  \E it \in ToSet(code'[fn][b]) : Passes(h, it, vector_buffers')
  <2>1. PICK x \in ToSet(s) \cup ToSet(t) : Passes(h, x, vector_buffers')
    BY <1>7
  <2>2. x \in ToSet(body(b))
    BY <1>8, <2>1 DEF body
  <2> QED
    BY <1>16, <2>1, <2>2
<1> QED
  BY <1>4, <1>17, <1>18, <1>19, <1>20, <1>21, <1>22 DEF Leaving

----------------------------------------------------------------------------
(* The hooks of an instruction.                                            *)

IsPlace(b, i) == b \in Blocks(fn) /\ i \in 1 .. Len(Function.blocks[b])

ForIntrinsic(inst) == inst.op = "call" /\ isIntrinsic(inst.callee)

HeaderItem(place) ==
  [Item("header", place) EXCEPT !.id = getInstId(place), !.bbid = blockId(place[1]),
     !.opcode = opcode(Inst(place))]

CalleeLine(place) ==
  Line("callee", place, Len(Inst(place).operands) + Inst(place).more + 1,
       Named(Inst(place).callee), Pointer("function"), TRUE, FALSE, ForIntrinsic(Inst(place)))

ParamLine(place, i) ==
  LET inst == Inst(place)
      o == inst.operands[i]
  IN  [Line("param", place, i, operandName(o), o.type, Given(inst, o), o.kind \in StringKinds,
            ForIntrinsic(inst))
         EXCEPT !.operand = o, !.prev = IF inst.op = "phi" THEN blockId(inst.from[i]) ELSE NoId]

StatusItem(place) == [Item("status", place) EXCEPT !.opcode = opcode(Inst(place))]

ResultLine(place) ==
  Line("result", place, RESULT_LINE,
       IF Renames(place) THEN Named(getValueName(Inst(place).operands[1])) ELSE getInstId(place),
       Inst(place).type, TRUE, FALSE, FALSE)

LEMMA CalleeFields ==
  ASSUME NEW place
  PROVE  LET l == CalleeLine(place)
             intrinsic == ForIntrinsic(Inst(place))
         IN  /\ IsItem(l) /\ l.kind = "callee" /\ l.at = place /\ l.type = Pointer("function")
             /\ l.size = getMemSize(l.type) /\ l.given = passed(l.type, TRUE, intrinsic)
             /\ l.fn = logFunction(l.type, TRUE, FALSE, intrinsic) /\ l.operand = NoOperand
BY DEF CalleeLine, Line, Item, IsItem, ItemFields

LEMMA ResultFields ==
  ASSUME NEW place
  PROVE  LET l == ResultLine(place)
         IN  /\ IsItem(l) /\ l.kind = "result" /\ l.at = place /\ l.type = Inst(place).type
             /\ l.size = getMemSize(l.type) /\ l.given = passed(l.type, TRUE, FALSE)
             /\ l.fn = logFunction(l.type, TRUE, FALSE, FALSE) /\ l.operand = NoOperand
BY DEF ResultLine, Line, Item, IsItem, ItemFields

LEMMA ParamFields ==
  ASSUME NEW place, NEW i
  PROVE  LET l == ParamLine(place, i)
             inst == Inst(place)
             o == inst.operands[i]
         IN  /\ IsItem(l) /\ l.kind = "param" /\ l.at = place /\ l.type = o.type
             /\ l.size = getMemSize(o.type)
             /\ l.given = passed(o.type, Given(inst, o), ForIntrinsic(inst))
             /\ l.fn = logFunction(o.type, Given(inst, o), o.kind \in StringKinds, ForIntrinsic(inst))
             /\ l.operand = o
BY DEF ParamLine, Line, Item, IsItem, ItemFields

\* What a hook of the instruction at a place is.
HookOf(place, h) ==
  \/ h = HeaderItem(place)
  \/ h = CalleeLine(place) /\ Inst(place).op = "call"
  \/ \E i \in 1 .. Len(Inst(place).operands) : h = ParamLine(place, i) /\ h.fn # "none"
  \/ h = StatusItem(place) /\ Inst(place).op = "ret"
  \/ h = ResultLine(place) /\ h.fn # "none" /\ Inst(place).type # Void

LEMMA HookFields ==
  ASSUME NEW place, NEW h, HookOf(place, h)
  PROVE  /\ IsItem(h) /\ h.at = place /\ h.kind \in HookKinds /\ IsHook(h)
         /\ h.kind = "status" => Inst(place).op = "ret" /\ h.opcode = "ret"
         /\ h.kind = "result" => Inst(place).type # Void
<1>1. CASE h = HeaderItem(place)
  <2>1. IsItem(h) /\ h.kind = "header" /\ h.at = place
    BY <1>1 DEF HeaderItem, Item, IsItem, ItemFields
  <2> QED
    BY <2>1 DEF HookKinds, IsHook
<1>2. CASE h = CalleeLine(place)
  <2>1. IsItem(h) /\ h.kind = "callee" /\ h.at = place
    BY <1>2, CalleeFields
  <2> QED
    BY <2>1 DEF HookKinds, IsHook
<1>3. CASE \E i \in 1 .. Len(Inst(place).operands) : h = ParamLine(place, i)
  BY <1>3, ParamFields DEF HookKinds, IsHook
<1>4. CASE h = StatusItem(place) /\ Inst(place).op = "ret"
  <2>1. /\ IsItem(h) /\ h.kind = "status" /\ h.at = place
        /\ h.opcode = opcode(Inst(place))
    BY <1>4 DEF StatusItem, Item, IsItem, ItemFields
  <2>2. opcode(Inst(place)) = "ret"
    BY <1>4 DEF opcode, opcodeToFixedPoint, IntegerOp
  <2>3. Inst(place).op = "ret" /\ h.opcode = "ret"
    BY <1>4, <2>1, <2>2
  <2> QED
    BY <2>1, <2>3 DEF HookKinds, IsHook
<1>5. CASE h = ResultLine(place) /\ Inst(place).type # Void
  <2>1. IsItem(h) /\ h.kind = "result" /\ h.at = place
    BY <1>5, ResultFields
  <2> QED
    BY <1>5, <2>1 DEF HookKinds, IsHook
<1> QED
  BY <1>1, <1>2, <1>3, <1>4, <1>5 DEF HookOf

LEMMA PlaceFacts ==
  ASSUME module \in Modules, fn \in DOMAIN Functions, NEW b, NEW i, IsPlace(b, i)
  PROVE  /\ Function = Functions[fn] /\ Laid(Function) /\ b \in 1 .. Len(Function.blocks)
         /\ b \in Nat \ {0} /\ i \in Nat \ {0} /\ Len(Function.blocks[b]) \in Nat
         /\ Inst(<<b, i>>) = Function.blocks[b][i]
         /\ IsSequence(Inst(<<b, i>>).operands) /\ Len(Inst(<<b, i>>).operands) \in Nat
         /\ InstOK(module, Function, b, i)
<1>1. Function = Functions[fn]
  BY DEF Function, Functions
<1>2. /\ Laid(Function)
      /\ \A c \in Blocks(fn) : \A j \in 1 .. Len(Function.blocks[c]) : InstOK(module, Function, c, j)
  BY <1>1, FunctionFacts
<1>3. b \in 1 .. Len(Function.blocks) /\ i \in 1 .. Len(Function.blocks[b])
  BY <1>1 DEF IsPlace, Blocks
<1>4. b \in Nat \ {0} /\ Len(Function.blocks[b]) \in Nat /\ i \in Nat \ {0}
  BY <1>2, <1>3 DEF Laid
<1>5. Inst(<<b, i>>) = Function.blocks[b][i]
  BY DEF Inst
<1>6. InstOK(module, Function, b, i)
  BY <1>2 DEF IsPlace
<1>7. IsSequence(Inst(<<b, i>>).operands)
  BY <1>5, <1>6 DEF InstOK
<1> QED
  BY <1>1, <1>2, <1>3, <1>4, <1>5, <1>6, <1>7, SeqFacts

LEMMA HookSpot ==
  ASSUME module \in Modules, fn \in DOMAIN Functions, NEW b, NEW i, IsPlace(b, i),
         NEW h, HookOf(<<b, i>>, h)
  PROVE  /\ InstHook(Function, b, h) /\ Placed(Function, b, h) /\ IsItem(h) /\ IsHook(h)
         /\ ~Single(h) /\ Key(Function, h) \in Int
         /\ Function.blocks[b][i].op = "phi" => Key(Function, h) = 7
         /\ Function.blocks[b][i].op # "phi" =>
              Key(Function, h) = 7 * i + Rank[h.kind] /\ Rank[h.kind] \in {1, 2, 3, 4, 6}
<1> DEFINE F == Function
<1>1. /\ Laid(F) /\ b \in 1 .. Len(F.blocks) /\ i \in 1 .. Len(F.blocks[b])
      /\ b \in Nat \ {0} /\ Inst(<<b, i>>) = F.blocks[b][i]
  BY PlaceFacts DEF IsPlace
<1>2. /\ IsItem(h) /\ h.at = <<b, i>> /\ h.kind \in HookKinds /\ IsHook(h)
      /\ h.kind = "status" => Inst(<<b, i>>).op = "ret" /\ h.opcode = "ret"
      /\ h.kind = "result" => Inst(<<b, i>>).type # Void
  BY HookFields
<1> HIDE DEF F
<1>3. InstHook(F, b, h)
  BY <1>1, <1>2 DEF InstHook
<1>4. h.at[2] = i
  BY <1>1, <1>2, SomePlace
<1>5. Placed(F, b, h)
  BY <1>3 DEF Placed
<1>6. h.at # NoPlace /\ h.at[1] = b /\ i \in Nat
  BY <1>1, <1>2, SomePlace DEF Laid
<1>7. h.kind # "inst" /\ Rank[h.kind] \in {1, 2, 3, 4, 6}
  BY <1>2 DEF HookKinds, Rank
<1>8. Key(F, h) = IF F.blocks[b][i].op # "phi" THEN 7 * i + Rank[h.kind] ELSE 7
  BY <1>4, <1>6, <1>7 DEF Key
<1>9. ~Single(h)
  BY <1>6, <1>7 DEF Single
<1>10. Key(F, h) \in Int
  <2>1. \A r \in {1, 2, 3, 4, 6} : 7 * i + r \in Int
    BY <1>6
  <2> QED
    BY <1>7, <1>8, <2>1
<1> QED
  BY <1>2, <1>3, <1>5, <1>7, <1>8, <1>9, <1>10 DEF F

LEMMA RanksPrecede ==
  ASSUME module \in Modules, fn \in DOMAIN Functions, NEW b, NEW i, IsPlace(b, i),
         NEW x, HookOf(<<b, i>>, x), NEW y, HookOf(<<b, i>>, y), Rank[x.kind] <= Rank[y.kind]
  PROVE  Precedes(Function, x, y)
<1> DEFINE r == Rank[x.kind]
           s == Rank[y.kind]
           k == Key(Function, x)
           l == Key(Function, y)
<1>1. i \in Nat /\ ~Single(x)
  BY PlaceFacts, HookSpot
<1>2. CASE Function.blocks[b][i].op = "phi"
  <2>1. k = 7 /\ l = 7
    BY <1>2, HookSpot
  <2> QED
    BY <1>1, <2>1 DEF Precedes
<1>3. CASE Function.blocks[b][i].op # "phi"
  <2>1. k = 7 * i + r /\ l = 7 * i + s /\ r \in {1, 2, 3, 4, 6} /\ s \in {1, 2, 3, 4, 6}
    BY <1>3, HookSpot
  <2>2. r <= s
    OBVIOUS
  <2> HIDE DEF r, s, k, l
  <2>3. k < l \/ k = l
    BY <1>1, <2>1, <2>2
  <2> QED
    BY <1>1, <2>3 DEF Precedes, k, l
<1> QED
  BY <1>2, <1>3

\* Hooks of one kind are in order.
LEMMA KindSorted ==
  ASSUME module \in Modules, fn \in DOMAIN Functions, NEW b, NEW i, IsPlace(b, i),
         NEW s, IsSequence(s), NEW kind, \A h \in ToSet(s) : HookOf(<<b, i>>, h) /\ h.kind = kind
  PROVE  Sorted(Function, s)
<1> DEFINE k == IF Function.blocks[b][i].op = "phi" THEN 7 ELSE 7 * i + Rank[kind]
<1>1. \A h \in ToSet(s) : Key(Function, h) = k /\ ~Single(h)
  BY HookSpot
<1> HIDE DEF k
<1> QED
  BY <1>1, SortedSame

LEMMA ParamsFacts ==
  ASSUME module \in Modules, fn \in DOMAIN Functions, NEW b, NEW i, IsPlace(b, i)
  PROVE  /\ IsSequence(Params(<<b, i>>)) /\ Sorted(Function, Params(<<b, i>>))
         /\ \A h \in ToSet(Params(<<b, i>>)) :
              HookOf(<<b, i>>, h) /\ h.kind \in {"callee", "param"}
<1> DEFINE p == <<b, i>>
           inst == Inst(p)
           n == Len(inst.operands)
           lines == [j \in 1 .. n |-> ParamLine(p, j)]
           listed == Listed(inst, lines)
           first == IF inst.op = "call" THEN <<CalleeLine(p)>> ELSE << >>
           rest == Printable(listed)
<1>1. n \in Nat
  BY PlaceFacts
<1>2. Params(p) = first \o rest
  BY DEF Params, CalleeLine, ParamLine, ForIntrinsic
<1> HIDE DEF p
<1>3. IsSequence(lines) /\ \A h \in ToSet(lines) : \E j \in 1 .. n : h = ParamLine(p, j)
  <2>1. lines = [j \in 1 .. n |-> lines[j]] /\ DOMAIN lines = 1 .. n
        /\ \A j \in 1 .. n : lines[j] = ParamLine(p, j)
    OBVIOUS
  <2> HIDE DEF lines, n
  <2>2. IsSequence(lines)
    BY <1>1, <2>1, MadeSeq
  <2> QED
    BY <2>1, <2>2 DEF ToSet
<1> HIDE DEF lines
<1>4. IsSequence(listed) /\ ToSet(listed) = ToSet(lines)
  BY <1>3, ReverseFacts DEF Listed
<1> HIDE DEF listed
<1>5. IsSequence(rest) /\ \A h \in ToSet(rest) : h \in ToSet(lines) /\ h.fn # "none"
  BY <1>4, PrintableFacts
<1> HIDE DEF rest
<1>6. \A h \in ToSet(rest) : HookOf(p, h) /\ h.kind = "param"
  <2> TAKE h \in ToSet(rest)
  <2>1. PICK j \in 1 .. n : h = ParamLine(p, j)
    BY <1>3, <1>5
  <2>2. h.kind = "param"
    BY <2>1, ParamFields
  <2> QED
    BY <1>5, <2>1, <2>2 DEF HookOf
<1>7. IsSequence(first) /\ \A h \in ToSet(first) : HookOf(p, h) /\ h.kind = "callee"
  <2>1. CASE inst.op = "call"
    <3>1. first = <<CalleeLine(p)>>
      BY <2>1
    <3> HIDE DEF first
    <3>2. IsSequence(first) /\ ToSet(first) = {CalleeLine(p)}
      BY <3>1, OneFacts
    <3>3. HookOf(p, CalleeLine(p)) /\ CalleeLine(p).kind = "callee"
      BY <2>1, CalleeFields DEF HookOf
    <3> QED
      BY <3>2, <3>3
  <2>2. CASE inst.op # "call"
    <3>1. first = << >>
      BY <2>2
    <3> HIDE DEF first
    <3> QED
      BY <3>1, EmptyFacts
  <2> QED
    BY <2>1, <2>2
<1> HIDE DEF first
<1>8. Sorted(Function, first) /\ Sorted(Function, rest)
  <2>1. Sorted(Function, first)
    BY <1>7, KindSorted DEF p
  <2>2. Sorted(Function, rest)
    BY <1>5, <1>6, KindSorted DEF p
  <2> QED
    BY <2>1, <2>2
<1>9. AllPrecede(Function, ToSet(first), ToSet(rest))
  <2> SUFFICES ASSUME NEW x \in ToSet(first), NEW y \in ToSet(rest) PROVE Precedes(Function, x, y)
    BY DEF AllPrecede
  <2>1. Rank["callee"] <= Rank["param"]
    BY DEF Rank
  <2>2. HookOf(p, x) /\ HookOf(p, y) /\ Rank[x.kind] <= Rank[y.kind]
    BY <1>6, <1>7, <2>1
  <2> QED
    BY <2>2, RanksPrecede DEF p
<1>10. Sorted(Function, first \o rest)
  BY <1>5, <1>7, <1>8, <1>9, SortedCat
<1>11. IsSequence(first \o rest) /\ ToSet(first \o rest) = ToSet(first) \cup ToSet(rest)
  BY <1>5, <1>7, CatFacts
<1> QED
  BY <1>2, <1>6, <1>7, <1>10, <1>11 DEF p

LEMMA BeforeFacts ==
  ASSUME module \in Modules, fn \in DOMAIN Functions, NEW b, NEW i, IsPlace(b, i)
  PROVE  /\ IsSequence(Before(<<b, i>>)) /\ Sorted(Function, Before(<<b, i>>))
         /\ \A h \in ToSet(Before(<<b, i>>)) : HookOf(<<b, i>>, h) /\ h.kind # "result"
         /\ \E h \in ToSet(Before(<<b, i>>)) : h.kind = "header"
         /\ Inst(<<b, i>>).op = "ret" => \E h \in ToSet(Before(<<b, i>>)) : h.kind = "status"
<1> DEFINE p == <<b, i>>
           head == <<HeaderItem(p)>>
           mid == Params(p)
           last == IF Inst(p).op = "ret" THEN <<StatusItem(p)>> ELSE << >>
           R(h) == Rank[h.kind]
<1>1. Before(p) = (head \o mid) \o last
  BY DEF Before, HeaderItem, StatusItem
<1>2. /\ IsSequence(mid) /\ Sorted(Function, mid)
      /\ \A h \in ToSet(mid) : HookOf(p, h) /\ h.kind \in {"callee", "param"}
  BY ParamsFacts
<1> HIDE DEF p, mid
<1>3. HookOf(p, HeaderItem(p)) /\ HeaderItem(p).kind = "header"
  BY DEF HookOf, HeaderItem, Item
<1>4. /\ IsSequence(head) /\ ToSet(head) = {HeaderItem(p)} /\ Sorted(Function, head)
  BY OneFacts, SortedOne
<1> HIDE DEF head
<1>5. /\ IsSequence(last) /\ Sorted(Function, last)
      /\ \A h \in ToSet(last) : HookOf(p, h) /\ h.kind = "status"
      /\ Inst(p).op = "ret" => \E h \in ToSet(last) : h.kind = "status"
  <2>1. CASE Inst(p).op = "ret"
    <3>1. last = <<StatusItem(p)>>
      BY <2>1
    <3> HIDE DEF last
    <3>2. IsSequence(last) /\ ToSet(last) = {StatusItem(p)} /\ Sorted(Function, last)
      BY <3>1, OneFacts, SortedOne
    <3>3. HookOf(p, StatusItem(p)) /\ StatusItem(p).kind = "status"
      BY <2>1 DEF HookOf, StatusItem, Item
    <3> QED
      BY <3>2, <3>3
  <2>2. CASE Inst(p).op # "ret"
    <3>1. last = << >>
      BY <2>2
    <3> HIDE DEF last
    <3> QED
      BY <2>2, <3>1, EmptyFacts, SortedOne
  <2> QED
    BY <2>1, <2>2
<1> HIDE DEF last
<1>6. /\ \A h \in ToSet(head) : HookOf(p, h) /\ R(h) = 1
      /\ \A h \in ToSet(mid) : HookOf(p, h) /\ R(h) \in {2, 3}
      /\ \A h \in ToSet(last) : HookOf(p, h) /\ R(h) = 4
  BY <1>2, <1>3, <1>4, <1>5 DEF Rank
<1>7. ASSUME NEW S, NEW T, NEW r,
             \A h \in S : HookOf(p, h) /\ R(h) <= r, \A h \in T : HookOf(p, h) /\ r <= R(h),
             r \in Int, \A h \in S \cup T : R(h) \in Int
      PROVE  AllPrecede(Function, S, T)
  <2> SUFFICES ASSUME NEW x \in S, NEW y \in T PROVE Precedes(Function, x, y)
    BY DEF AllPrecede
  <2>1. HookOf(p, x) /\ HookOf(p, y) /\ R(x) <= R(y)
    BY <1>7
  <2> QED
    BY <2>1, RanksPrecede DEF p
<1>8. /\ IsSequence(head \o mid) /\ ToSet(head \o mid) = ToSet(head) \cup ToSet(mid)
      /\ Sorted(Function, head \o mid)
  <2>1. AllPrecede(Function, ToSet(head), ToSet(mid))
    <3>1. /\ \A h \in ToSet(head) : HookOf(p, h) /\ R(h) <= 1
          /\ \A h \in ToSet(mid) : HookOf(p, h) /\ 1 <= R(h)
          /\ \A h \in ToSet(head) \cup ToSet(mid) : R(h) \in Int
      BY <1>6
    <3> DEFINE S == ToSet(head)
               T == ToSet(mid)
               r == 1
    <3>2. /\ \A h \in S : HookOf(p, h) /\ R(h) <= r
          /\ \A h \in T : HookOf(p, h) /\ r <= R(h)
          /\ r \in Int /\ \A h \in S \cup T : R(h) \in Int
      BY <3>1
    <3> HIDE DEF R, S, T, r
    <3>3. AllPrecede(Function, S, T)
      BY <1>7, <3>2
    <3> QED
      BY <3>3 DEF S, T
  <2> QED
    BY <1>2, <1>4, <2>1, SortedCat, CatFacts
<1>9. /\ IsSequence((head \o mid) \o last)
      /\ ToSet((head \o mid) \o last) = ToSet(head) \cup ToSet(mid) \cup ToSet(last)
      /\ Sorted(Function, (head \o mid) \o last)
  <2>1. AllPrecede(Function, ToSet(head \o mid), ToSet(last))
    <3>1. /\ \A h \in ToSet(head \o mid) : HookOf(p, h) /\ R(h) <= 4
          /\ \A h \in ToSet(last) : HookOf(p, h) /\ 4 <= R(h)
          /\ \A h \in ToSet(head \o mid) \cup ToSet(last) : R(h) \in Int
      BY <1>6, <1>8
    <3> DEFINE S == ToSet(head \o mid)
               T == ToSet(last)
               r == 4
    <3>2. /\ \A h \in S : HookOf(p, h) /\ R(h) <= r
          /\ \A h \in T : HookOf(p, h) /\ r <= R(h)
          /\ r \in Int /\ \A h \in S \cup T : R(h) \in Int
      BY <3>1
    <3> HIDE DEF R, S, T, r
    <3>3. AllPrecede(Function, S, T)
      BY <1>7, <3>2
    <3> QED
      BY <3>3 DEF S, T
  <2>2. /\ IsSequence((head \o mid) \o last)
        /\ ToSet((head \o mid) \o last) = ToSet(head \o mid) \cup ToSet(last)
    BY <1>5, <1>8, CatFacts
  <2>3. Sorted(Function, (head \o mid) \o last)
    BY <1>5, <1>8, <2>1, SortedCat
  <2> QED
    BY <1>8, <2>2, <2>3
<1>10. \A h \in ToSet((head \o mid) \o last) : HookOf(p, h) /\ h.kind # "result"
  <2>1. \A h \in ToSet(head) : HookOf(p, h) /\ h.kind = "header"
    BY <1>3, <1>4
  <2> QED
    BY <1>2, <1>5, <1>9, <2>1
<1>11. \E h \in ToSet((head \o mid) \o last) : h.kind = "header"
  BY <1>3, <1>4, <1>9
<1>12. Inst(p).op = "ret" => \E h \in ToSet((head \o mid) \o last) : h.kind = "status"
  BY <1>5, <1>9
<1> QED
  BY <1>1, <1>9, <1>10, <1>11, <1>12 DEF p

LEMMA ResultFacts ==
  ASSUME module \in Modules, fn \in DOMAIN Functions, NEW b, NEW i, IsPlace(b, i)
  PROVE  /\ IsSequence(Result(<<b, i>>)) /\ Sorted(Function, Result(<<b, i>>))
         /\ \A h \in ToSet(Result(<<b, i>>)) : HookOf(<<b, i>>, h) /\ h.kind = "result"
<1> DEFINE p == <<b, i>>
           one == <<ResultLine(p)>>
<1>1. Result(p) = IF Inst(p).type = Void THEN << >> ELSE Printable(one)
  BY DEF Result, ResultLine
<1> HIDE DEF p
<1>2. CASE Inst(p).type = Void
  <2>1. Result(p) = << >>
    BY <1>1, <1>2
  <2> QED
    BY <2>1, EmptyFacts, SortedOne DEF p
<1>3. CASE Inst(p).type # Void
  <2>1. IsSequence(one) /\ ToSet(one) = {ResultLine(p)}
    BY OneFacts
  <2> HIDE DEF one
  <2>2. /\ IsSequence(Printable(one))
        /\ \A h \in ToSet(Printable(one)) : h = ResultLine(p) /\ h.fn # "none"
    BY <2>1, PrintableFacts
  <2>3. ASSUME NEW h \in ToSet(Printable(one)) PROVE HookOf(p, h) /\ h.kind = "result"
    <3>1. h = ResultLine(p) /\ h.fn # "none"
      BY <2>2
    <3>2. h.kind = "result"
      BY <3>1, ResultFields
    <3> QED
      BY <1>3, <3>1, <3>2 DEF HookOf
  <2>4. Sorted(Function, Printable(one))
    BY <2>2, <2>3, KindSorted DEF p
  <2> QED
    BY <1>1, <1>3, <2>2, <2>3, <2>4 DEF p
<1> QED
  BY <1>2, <1>3

\* The phi nodes of a block are its first instructions, and not all of them.
LEMMA PhisFacts ==
  ASSUME module \in Modules, fn \in DOMAIN Functions, NEW b \in Blocks(fn)
  PROVE  /\ Phis(b) \in Nat /\ Phis(b) < Len(Function.blocks[b])
         /\ \A i \in 1 .. Len(Function.blocks[b]) :
              Function.blocks[b][i].op = "phi" <=> i <= Phis(b)
<1> DEFINE blk == Function.blocks[b]
           N == Len(blk)
           P == {i \in 1 .. N : blk[i].op = "phi"}
<1>1. Laid(Function) /\ b \in 1 .. Len(Function.blocks)
  <2>1. Function = Functions[fn]
    BY DEF Function, Functions
  <2> QED
    BY <2>1, FunctionFacts DEF Blocks
<1>2. /\ N \in Nat \ {0} /\ DOMAIN blk = 1 .. N
      /\ \A i \in 1 .. N : blk[i].op = "phi" => i < N /\ \A k \in 1 .. i : blk[k].op = "phi"
  BY <1>1 DEF Laid
<1>3. Phis(b) = Cardinality(P)
  <2>1. \A i : Inst(<<b, i>>) = blk[i]
    BY DEF Inst
  <2>2. {i \in DOMAIN Function.blocks[b] : Inst(<<b, i>>).op = "phi"} = P
    BY <1>2, <2>1
  <2> QED
    BY <2>2 DEF Phis
<1> HIDE DEF blk
<1> DEFINE Q == (1 .. N) \ P
<1>4. N \in Q /\ Q \subseteq Nat
  BY <1>2
<1>5. PICK q \in Q : \A m \in Q : ~(m < q)
  <2> HIDE DEF Q
  <2> QED
    BY <1>4, LeastNumber
<1>6. P = 1 .. q - 1
  <2>1. ASSUME NEW i \in P PROVE i \in 1 .. q - 1
    <3>1. i \in 1 .. N /\ \A k \in 1 .. i : blk[k].op = "phi"
      BY <1>2
    <3>2. blk[q].op # "phi" /\ q \in 1 .. N
      OBVIOUS
    <3> QED
      BY <3>1, <3>2
  <2>2. ASSUME NEW i \in 1 .. q - 1 PROVE i \in P
    <3>1. i \in 1 .. N /\ i < q
      BY <1>2
    <3> QED
      BY <1>5, <3>1
  <2> QED
    BY <2>1, <2>2
<1>7. q \in 1 .. N
  OBVIOUS
<1>8. Cardinality(1 .. q - 1) = q - 1
  <2>1. q - 1 \in Int /\ 1 \in Int
    BY <1>7
  <2>2. Cardinality(1 .. q - 1) = IF 1 > q - 1 THEN 0 ELSE (q - 1) - 1 + 1
    BY <2>1, FS_Interval
  <2> QED
    BY <1>2, <1>7, <2>2
<1>9. Phis(b) = q - 1
  BY <1>3, <1>6, <1>8
<1>10. \A i \in 1 .. N : blk[i].op = "phi" <=> i \in P
  OBVIOUS
<1>11. \A i \in 1 .. N : blk[i].op = "phi" <=> i <= q - 1
  BY <1>2, <1>6, <1>7, <1>10
<1> QED
  BY <1>2, <1>7, <1>9, <1>11 DEF blk

LEMMA PhiHooksFacts ==
  ASSUME module \in Modules, fn \in DOMAIN Functions, NEW b \in Blocks(fn)
  PROVE  LET s == PhiHooks(b, Phis(b))
         IN  /\ IsSequence(s) /\ Sorted(Function, s)
             /\ \A h \in ToSet(s) : \E i \in 1 .. Phis(b) : IsPlace(b, i) /\ HookOf(<<b, i>>, h)
             /\ \A h \in ToSet(s) : Key(Function, h) = 7
<1> DEFINE n == Phis(b)
           one(i) == Before(<<b, i>>) \o Result(<<b, i>>)
           S == UNION {ToSet(one(i)) : i \in 1 .. n}
           ls == [i \in 1 .. n |-> one(i)]
           s == FlattenSeq(ls)
<1>1. n \in Nat /\ \A i \in 1 .. n : IsPlace(b, i) /\ Function.blocks[b][i].op = "phi"
  <2>1. /\ n \in Nat /\ n < Len(Function.blocks[b])
        /\ \A i \in 1 .. Len(Function.blocks[b]) : Function.blocks[b][i].op = "phi" <=> i <= n
    BY PhisFacts
  <2>2. Len(Function.blocks[b]) \in Nat
    <3>1. Laid(Function) /\ b \in 1 .. Len(Function.blocks)
      <4>1. Function = Functions[fn]
        BY DEF Function, Functions
      <4> QED
        BY <4>1, FunctionFacts DEF Blocks
    <3> QED
      BY <3>1 DEF Laid
  <2> HIDE DEF n
  <2>3. ASSUME NEW i \in 1 .. n PROVE i \in 1 .. Len(Function.blocks[b])
    BY <2>1, <2>2
  <2> QED
    BY <2>1, <2>3 DEF IsPlace
<1>2. PhiHooks(b, n) = s
  BY DEF PhiHooks
<1> HIDE DEF n
<1>3. ASSUME NEW i \in 1 .. n
      PROVE  one(i) \in Seq(S) /\ \A h \in ToSet(one(i)) : HookOf(<<b, i>>, h)
  <2>1. /\ IsSequence(Before(<<b, i>>)) /\ IsSequence(Result(<<b, i>>))
        /\ \A h \in ToSet(Before(<<b, i>>)) \cup ToSet(Result(<<b, i>>)) : HookOf(<<b, i>>, h)
    BY <1>1, BeforeFacts, ResultFacts
  <2>2. /\ IsSequence(one(i))
        /\ ToSet(one(i)) = ToSet(Before(<<b, i>>)) \cup ToSet(Result(<<b, i>>))
    BY <2>1, CatFacts
  <2> HIDE DEF one
  <2>3. ToSet(one(i)) \subseteq S
    OBVIOUS
  <2> HIDE DEF S
  <2>4. one(i) \in Seq(S)
    BY <2>2, <2>3, SeqMonotonic DEF IsSequence
  <2> QED
    BY <2>1, <2>2, <2>4
<1>4. \A h \in S : \E i \in 1 .. n : HookOf(<<b, i>>, h)
  BY <1>3
<1> HIDE DEF S, one
<1>5. ls \in Seq(Seq(S))
  <2> DEFINE D == Seq(S)
  <2>1. \A i \in 1 .. n : one(i) \in D
    BY <1>3
  <2> HIDE DEF D
  <2> QED
    BY <1>1, <2>1, IsASeq DEF D
<1> HIDE DEF ls
<1>6. s \in Seq(S)
  BY <1>5, FlattenFacts
<1> HIDE DEF s
<1>7. IsSequence(s) /\ ToSet(s) \subseteq S
  BY <1>6, SeqIntro
<1>8. ASSUME NEW h \in ToSet(s)
      PROVE  /\ \E i \in 1 .. n : IsPlace(b, i) /\ HookOf(<<b, i>>, h)
             /\ Key(Function, h) = 7 /\ ~Single(h)
  <2>1. PICK i \in 1 .. n : HookOf(<<b, i>>, h)
    BY <1>4, <1>7
  <2> QED
    BY <1>1, <2>1, HookSpot
<1>9. Sorted(Function, s)
  BY <1>7, <1>8, SortedSame
<1> QED
  BY <1>2, <1>7, <1>8, <1>9 DEF n

----------------------------------------------------------------------------
(* The hooks at the entry of a function.                                   *)

SwitchItem == [Item("status", NoPlace) EXCEPT !.opcode = "0"]
EntryItem == [Item("entry", NoPlace) EXCEPT !.num = Len(Function.args)]
ArgLine(j) ==
  LET o == Operand("arg", <<0, j>>, Function.args[j].type, NoName)
  IN  Line("arg", NoPlace, IF IsEntryBlock THEN j ELSE FORWARD_LINE, operandName(o),
           o.type, TRUE, FALSE, FALSE)

LEMMA ArgFields ==
  ASSUME NEW j
  PROVE  LET l == ArgLine(j)
             type == Function.args[j].type
         IN  /\ IsItem(l) /\ l.kind = "arg" /\ l.at = NoPlace /\ l.type = type
             /\ l.size = getMemSize(type) /\ l.given = passed(type, TRUE, FALSE)
             /\ l.fn = logFunction(type, TRUE, FALSE, FALSE) /\ l.operand = NoOperand
BY DEF ArgLine, Line, Operand, Item, IsItem, ItemFields

\* What a hook at the entry is.
HookAtEntry(h) ==
  \/ h \in {SwitchItem, EntryItem}
  \/ \E j \in DOMAIN Function.args : h = ArgLine(j) /\ h.fn # "none"

LEMMA EntryFields ==
  ASSUME NEW h, HookAtEntry(h)
  PROVE  EntryHook(h) /\ IsItem(h) /\ IsHook(h) /\ Placed(Function, 1, h)
<1>1. IsItem(h) /\ h.at = NoPlace /\ h.kind \in {"status", "entry", "arg"}
  <2>1. CASE h = SwitchItem
    BY <2>1 DEF SwitchItem, Item, IsItem, ItemFields
  <2>2. CASE h = EntryItem
    BY <2>2 DEF EntryItem, Item, IsItem, ItemFields
  <2>3. CASE \E j \in DOMAIN Function.args : h = ArgLine(j)
    BY <2>3, ArgFields
  <2> QED
    BY <2>1, <2>2, <2>3 DEF HookAtEntry
<1>2. IsHook(h)
  BY <1>1 DEF IsHook
<1>3. EntryHook(h)
  BY <1>1 DEF EntryHook
<1> QED
  BY <1>1, <1>2, <1>3 DEF Placed

LEMMA EntryHooksFacts ==
  ASSUME module \in Modules, fn \in DOMAIN Functions
  PROVE  /\ IsSequence(EntryHooks) /\ Sorted(Function, EntryHooks)
         /\ \A h \in ToSet(EntryHooks) : HookAtEntry(h) /\ Key(Function, h) \in 1 .. 3
         /\ IsEntryBlock => {SwitchItem, EntryItem} \subseteq ToSet(EntryHooks)
<1> DEFINE F == Function
           lines == [j \in DOMAIN F.args |-> ArgLine(j)]
           rest == Printable(lines)
           two == <<SwitchItem, EntryItem>>
           first == IF IsEntryBlock THEN two ELSE << >>
           n == Len(F.args)
<1>1. n \in Nat /\ DOMAIN F.args = 1 .. n
  <2>1. F = Functions[fn]
    BY DEF Function, Functions
  <2>2. IsSequence(F.args)
    BY <2>1, FunctionFacts
  <2> QED
    BY <2>2, SeqFacts
<1>2. EntryHooks = first \o rest
  BY DEF EntryHooks, SwitchItem, EntryItem, ArgLine
<1> HIDE DEF F
<1>3. IsSequence(lines) /\ \A h \in ToSet(lines) : \E j \in DOMAIN F.args : h = ArgLine(j)
  <2>1. lines = [j \in 1 .. n |-> lines[j]] /\ DOMAIN lines = 1 .. n
        /\ \A j \in 1 .. n : lines[j] = ArgLine(j)
    BY <1>1
  <2> HIDE DEF lines, n
  <2>2. IsSequence(lines)
    BY <1>1, <2>1, MadeSeq
  <2> QED
    BY <1>1, <2>1, <2>2 DEF ToSet
<1> HIDE DEF lines, n
<1>4. IsSequence(rest) /\ \A h \in ToSet(rest) : h \in ToSet(lines) /\ h.fn # "none"
  BY <1>3, PrintableFacts
<1> HIDE DEF rest
<1>5. \A h \in ToSet(rest) : HookAtEntry(h) /\ Key(F, h) = 3 /\ ~Single(h)
  <2> TAKE h \in ToSet(rest)
  <2>1. PICK j \in DOMAIN F.args : h = ArgLine(j)
    BY <1>3, <1>4
  <2>2. HookAtEntry(h)
    BY <1>4, <2>1 DEF HookAtEntry, F
  <2>3. h.at = NoPlace /\ h.kind = "arg"
    BY <2>1, ArgFields
  <2>4. Key(F, h) = 3 /\ ~Single(h)
    BY <2>3 DEF Key, EntryRank, Single
  <2> QED
    BY <2>2, <2>4
<1>6. Sorted(F, rest)
  BY <1>4, <1>5, SortedSame
<1>7. /\ HookAtEntry(SwitchItem) /\ Key(F, SwitchItem) = 1
      /\ HookAtEntry(EntryItem) /\ Key(F, EntryItem) = 2
  <2>1. SwitchItem.at = NoPlace /\ SwitchItem.kind = "status"
    BY DEF SwitchItem, Item
  <2>2. EntryItem.at = NoPlace /\ EntryItem.kind = "entry"
    BY DEF EntryItem, Item
  <2>3. Key(F, SwitchItem) = 1
    BY <2>1 DEF Key, EntryRank
  <2>4. Key(F, EntryItem) = 2
    BY <2>2 DEF Key, EntryRank
  <2> QED
    BY <2>3, <2>4 DEF HookAtEntry
<1>8. IsSequence(two) /\ ToSet(two) = {SwitchItem, EntryItem} /\ Sorted(F, two)
  <2> DEFINE x == SwitchItem
             y == EntryItem
             S == {x, y}
             t == <<x, y>>
  <2>1. Key(F, x) < Key(F, y)
    BY <1>7
  <2> HIDE DEF x, y
  <2>2. t \in Seq(S) /\ Len(t) = 2 /\ t[1] = x /\ t[2] = y
    OBVIOUS
  <2> HIDE DEF t
  <2>3. IsSequence(t) /\ ToSet(t) \subseteq S
    <3> HIDE DEF S
    <3> QED
      BY <2>2, SeqIntro
  <2>4. 1 \in 1 .. Len(t) /\ 2 \in 1 .. Len(t)
    BY <2>2
  <2>5. ToSet(t) = S
    BY <2>2, <2>3, <2>4, SeqFacts
  <2>6. \A i, j \in 1 .. Len(t) : i < j => t[i] = x /\ t[j] = y
    BY <2>2
  <2>7. Sorted(F, t)
    BY <2>1, <2>6 DEF Sorted, Precedes
  <2> QED
    BY <2>3, <2>5, <2>7 DEF t, x, y
<1> HIDE DEF two
<1>9. /\ IsSequence(first) /\ Sorted(F, first)
      /\ \A h \in ToSet(first) : HookAtEntry(h) /\ Key(F, h) \in 1 .. 2
      /\ IsEntryBlock => ToSet(first) = {SwitchItem, EntryItem}
  <2>1. CASE IsEntryBlock
    <3>1. first = two
      BY <2>1
    <3> HIDE DEF first
    <3> QED
      BY <1>7, <1>8, <3>1
  <2>2. CASE ~IsEntryBlock
    <3>1. first = << >>
      BY <2>2
    <3> HIDE DEF first
    <3> QED
      BY <2>2, <3>1, EmptyFacts, SortedOne
  <2> QED
    BY <2>1, <2>2
<1> HIDE DEF first
<1>10. AllPrecede(F, ToSet(first), ToSet(rest))
  <2> SUFFICES ASSUME NEW x \in ToSet(first), NEW y \in ToSet(rest) PROVE Precedes(F, x, y)
    BY DEF AllPrecede
  <2>1. Key(F, x) < Key(F, y)
    BY <1>5, <1>9
  <2> QED
    BY <2>1 DEF Precedes
<1>11. Sorted(F, first \o rest)
  BY <1>4, <1>6, <1>9, <1>10, SortedCat
<1>12. IsSequence(first \o rest) /\ ToSet(first \o rest) = ToSet(first) \cup ToSet(rest)
  BY <1>4, <1>9, CatFacts
<1> QED
  BY <1>2, <1>5, <1>9, <1>11, <1>12 DEF F

----------------------------------------------------------------------------
(* Where hooks are inserted.                                               *)

LEMMA LeastOf ==
  ASSUME NEW I, I \subseteq Nat, I # {}
  PROVE  Min(I) \in I /\ \A j \in I : Min(I) <= j
<1>1. PICK n \in I : \A m \in I : ~(m < n)
  BY LeastNumber
<1>2. n \in I /\ \A m \in I : n <= m
  BY <1>1
<1> QED
  BY <1>2 DEF Min

LEMMA BlockFacts ==
  ASSUME WalkInv, LayoutInv, fn \in DOMAIN Functions, NEW b \in Blocks(fn)
  PROVE  /\ module \in Modules /\ Function = Functions[fn] /\ Laid(Function)
         /\ b \in 1 .. Len(Function.blocks) /\ b \in Nat \ {0}
         /\ IsSequence(code[fn][b]) /\ Sorted(Function, code[fn][b])
         /\ Len(code[fn][b]) \in Nat
         /\ \A m \in 1 .. Len(code[fn][b]) :
              code[fn][b][m] \in ToSet(code[fn][b]) /\ Placed(Function, b, code[fn][b][m])
         /\ \A i \in 1 .. Len(Function.blocks[b]) :
              \E m \in 1 .. Len(code[fn][b]) : code[fn][b][m] = Original(Function)[b][i]
<1>1. module \in Modules /\ Function = Functions[fn]
  BY DEF WalkInv, Function, Functions
<1>2. Laid(Function) /\ b \in 1 .. Len(Function.blocks)
  BY <1>1, FunctionFacts DEF Blocks
<1>3. /\ IsSequence(code[fn][b]) /\ Sorted(Function, code[fn][b])
      /\ \A it \in ToSet(code[fn][b]) : Placed(Function, b, it)
      /\ ToSet(Original(Function)[b]) \subseteq ToSet(code[fn][b])
  BY <1>1 DEF LayoutInv
<1>4. /\ Len(code[fn][b]) \in Nat
      /\ \A m \in 1 .. Len(code[fn][b]) : code[fn][b][m] \in ToSet(code[fn][b])
      /\ \A x \in ToSet(code[fn][b]) : \E m \in 1 .. Len(code[fn][b]) : x = code[fn][b][m]
  BY <1>3, SeqFacts
<1>5. ASSUME NEW i \in 1 .. Len(Function.blocks[b])
      PROVE  \E m \in 1 .. Len(code[fn][b]) : code[fn][b][m] = Original(Function)[b][i]
  <2>1. IsSequence(Original(Function)[b]) /\ i \in 1 .. Len(Original(Function)[b])
    BY <1>2, OriginalFacts
  <2>2. Original(Function)[b][i] \in ToSet(code[fn][b])
    BY <1>3, <2>1, SeqFacts
  <2> QED
    BY <1>4, <2>2
<1>6. b \in Nat \ {0}
  BY <1>2 DEF Laid
<1> QED
  BY <1>1, <1>2, <1>3, <1>4, <1>5, <1>6

LEMMA PositionFacts ==
  ASSUME WalkInv, LayoutInv, fn \in DOMAIN Functions, NEW b, NEW i, IsPlace(b, i)
  PROVE  /\ Position(<<b, i>>) \in 1 .. Len(code[fn][b])
         /\ code[fn][b][Position(<<b, i>>)] = Original(Function)[b][i]
<1> DEFINE p == <<b, i>>
           block == code[fn][b]
           I == {j \in 1 .. Len(block) : block[j].kind = "inst" /\ block[j].at = p}
           k == Position(p)
<1>1. b \in Blocks(fn) /\ i \in 1 .. Len(Function.blocks[b]) /\ p[1] = b
  BY DEF IsPlace
<1>2. /\ Laid(Function) /\ b \in 1 .. Len(Function.blocks) /\ Len(block) \in Nat
      /\ \A m \in 1 .. Len(block) : Placed(Function, b, block[m])
      /\ \E m \in 1 .. Len(block) : block[m] = Original(Function)[b][i]
  BY <1>1, BlockFacts
<1>3. \A j \in 1 .. Len(Function.blocks[b]) :
        Original(Function)[b][j].kind = "inst" /\ Original(Function)[b][j].at = <<b, j>>
  BY <1>2, OriginalFacts
<1>4. I # {} /\ I \subseteq Nat
  <2>1. PICK m \in 1 .. Len(block) : block[m] = Original(Function)[b][i]
    BY <1>2
  <2>2. block[m].kind = "inst" /\ block[m].at = p
    BY <1>1, <1>3, <2>1
  <2>3. m \in I
    BY <2>2
  <2> QED
    BY <1>2, <2>3
<1>5. k = IF I # {} THEN Min(I) ELSE 0
  BY <1>1 DEF Position, SelectInSeq
<1>6. k \in I
  <2> HIDE DEF I, k
  <2> QED
    BY <1>4, <1>5, LeastOf
<1> HIDE DEF k, block
<1>7. k \in 1 .. Len(block) /\ block[k].kind = "inst" /\ block[k].at = <<b, i>>
  BY <1>6
<1>8. Placed(Function, b, block[k])
  BY <1>2, <1>7
<1>9. ~InstHook(Function, b, block[k])
  BY <1>7 DEF InstHook, HookKinds
<1>10. ~EntryHook(block[k])
  BY <1>7 DEF EntryHook
<1>11. PICK j \in 1 .. Len(Function.blocks[b]) : block[k] = Original(Function)[b][j]
  BY <1>7, <1>8, <1>9, <1>10 DEF Placed
<1>12. <<b, j>> = <<b, i>>
  BY <1>3, <1>7, <1>11
<1>13. j = i
  BY <1>12
<1> QED
  BY <1>7, <1>11, <1>13 DEF k, block

LEMMA InsertionPointFacts ==
  ASSUME WalkInv, LayoutInv, fn \in DOMAIN Functions
  PROVE  LET k == insertionPoint
             block == code[fn][1]
         IN  /\ 1 \in Blocks(fn) /\ k \in 1 .. Len(block) /\ block[k].kind # "buffer"
             /\ \A m \in 1 .. Len(block) : m < k => block[m].kind = "buffer"
<1> DEFINE block == code[fn][1]
           I == {j \in 1 .. Len(block) : block[j].kind # "buffer"}
           k == insertionPoint
<1>1. 1 \in Blocks(fn) /\ 1 \in 1 .. Len(Function.blocks[1])
  <2>1. module \in Modules /\ Function = Functions[fn]
    BY DEF WalkInv, Function, Functions
  <2>2. Laid(Function)
    BY <2>1, FunctionFacts
  <2>3. Len(Function.blocks) \in Nat \ {0}
    BY <2>2 DEF Laid
  <2>4. 1 \in 1 .. Len(Function.blocks)
    BY <2>3
  <2>5. Len(Function.blocks[1]) \in Nat \ {0}
    BY <2>2, <2>4 DEF Laid
  <2> QED
    BY <2>1, <2>4, <2>5 DEF Blocks
<1>2. /\ Laid(Function) /\ 1 \in 1 .. Len(Function.blocks) /\ Len(block) \in Nat
      /\ \E m \in 1 .. Len(block) : block[m] = Original(Function)[1][1]
  BY <1>1, BlockFacts
<1>3. Original(Function)[1][1].kind = "inst"
  <2> DEFINE b == 1
  <2>1. b \in 1 .. Len(Function.blocks) /\ b \in 1 .. Len(Function.blocks[b])
    BY <1>1, <1>2
  <2> HIDE DEF b
  <2>2. \A i \in 1 .. Len(Function.blocks[b]) :
          Original(Function)[b][i].kind = "inst" /\ Original(Function)[b][i].at = <<b, i>>
    <3>1. Laid(Function)
      BY <1>2
    <3> QED
      BY <2>1, <3>1, OriginalFacts
  <2>3. Original(Function)[b][b].kind = "inst"
    BY <2>1, <2>2
  <2> QED
    BY <2>3 DEF b
<1>4. I # {} /\ I \subseteq Nat
  BY <1>2, <1>3
<1>5. k = IF I # {} THEN Min(I) ELSE 0
  BY DEF insertionPoint, SelectInSeq
<1>6. k \in I /\ \A j \in I : k <= j
  <2> HIDE DEF I, k
  <2> QED
    BY <1>4, <1>5, LeastOf
<1> HIDE DEF k, block
<1>7. ASSUME NEW m \in 1 .. Len(block), m < k PROVE block[m].kind = "buffer"
  <2>1. m \notin I
    BY <1>2, <1>6, <1>7
  <2> QED
    BY <2>1
<1> QED
  BY <1>1, <1>6, <1>7 DEF k, block

\* Hooks fit when their keys lie between those of the items before and after them.
LEMMA FitsBefore ==
  ASSUME NEW f, NEW block, Len(block) \in Nat, NEW k \in 1 .. Len(block),
         NEW s, IsSequence(s), Sorted(f, s), NEW lo \in Int, NEW hi \in Int,
         \A m \in 1 .. Len(block) :
           /\ Key(f, block[m]) \in Int
           /\ m < k => Key(f, block[m]) < lo
           /\ m >= k => hi < Key(f, block[m]),
         \A x \in ToSet(s) : Key(f, x) \in lo .. hi
  PROVE  Fits(f, block, k, s, << >>)
<1>1. ToSet(<< >>) = {} /\ Sorted(f, << >>)
  BY EmptyFacts, SortedOne
<1>2. ASSUME NEW m \in 1 .. Len(block), m < k PROVE AllPrecede(f, {block[m]}, ToSet(s))
  <2>1. \A x \in ToSet(s) : Key(f, block[m]) < Key(f, x)
    BY <1>2
  <2> QED
    BY <2>1 DEF AllPrecede, Precedes
<1>3. ASSUME NEW m \in 1 .. Len(block), m >= k PROVE AllPrecede(f, ToSet(s), {block[m]})
  <2>1. \A x \in ToSet(s) : Key(f, x) < Key(f, block[m])
    BY <1>3
  <2> QED
    BY <2>1 DEF AllPrecede, Precedes
<1>4. \A S : AllPrecede(f, S, {}) /\ AllPrecede(f, {}, S)
  BY DEF AllPrecede
<1> QED
  BY <1>1, <1>2, <1>3, <1>4 DEF Fits

LEMMA FitsAround ==
  ASSUME NEW f, NEW block, Len(block) \in Nat, NEW k \in 1 .. Len(block),
         NEW s, IsSequence(s), Sorted(f, s), NEW t, IsSequence(t), Sorted(f, t),
         NEW lo \in Int, NEW c \in Int, NEW hi \in Int, lo <= c, c <= hi,
         Key(f, block[k]) = c,
         \A m \in 1 .. Len(block) :
           /\ Key(f, block[m]) \in Int
           /\ m < k => Key(f, block[m]) < lo
           /\ m > k => hi < Key(f, block[m]),
         \A x \in ToSet(s) : Key(f, x) \in Int /\ lo <= Key(f, x) /\ Key(f, x) < c,
         \A x \in ToSet(t) : Key(f, x) \in Int /\ c < Key(f, x) /\ Key(f, x) <= hi
  PROVE  Fits(f, block, k, s, t)
<1>1. AllPrecede(f, ToSet(s), ToSet(t))
  <2>1. \A x \in ToSet(s), y \in ToSet(t) : Key(f, x) < Key(f, y)
    OBVIOUS
  <2> QED
    BY <2>1 DEF AllPrecede, Precedes
<1>2. ASSUME NEW m \in 1 .. Len(block), m < k
      PROVE AllPrecede(f, {block[m]}, ToSet(s)) /\ AllPrecede(f, {block[m]}, ToSet(t))
  <2>1. \A x \in ToSet(s) \cup ToSet(t) : Key(f, block[m]) < Key(f, x)
    BY <1>2
  <2> QED
    BY <2>1 DEF AllPrecede, Precedes
<1>3. ASSUME NEW m \in 1 .. Len(block), m > k
      PROVE AllPrecede(f, ToSet(s), {block[m]}) /\ AllPrecede(f, ToSet(t), {block[m]})
  <2>1. \A x \in ToSet(s) \cup ToSet(t) : Key(f, x) < Key(f, block[m])
    BY <1>3
  <2> QED
    BY <2>1 DEF AllPrecede, Precedes
<1>4. AllPrecede(f, ToSet(s), {block[k]}) /\ AllPrecede(f, {block[k]}, ToSet(t))
  <2>1. \A x \in ToSet(s) : Key(f, x) < Key(f, block[k])
    OBVIOUS
  <2>2. \A x \in ToSet(t) : Key(f, block[k]) < Key(f, x)
    OBVIOUS
  <2> QED
    BY <2>1, <2>2 DEF AllPrecede, Precedes
<1>5. ASSUME NEW m \in 1 .. Len(block)
      PROVE  /\ m < k => AllPrecede(f, {block[m]}, ToSet(s))
             /\ m >= k => AllPrecede(f, ToSet(s), {block[m]})
             /\ m <= k => AllPrecede(f, {block[m]}, ToSet(t))
             /\ m > k => AllPrecede(f, ToSet(t), {block[m]})
  <2>1. m < k \/ m = k \/ m > k
    OBVIOUS
  <2>2. CASE m < k
    BY <1>2, <2>2
  <2>3. CASE m = k
    BY <1>4, <2>3
  <2>4. CASE m > k
    BY <1>3, <2>4
  <2> QED
    BY <2>1, <2>2, <2>3, <2>4
<1> QED
  BY <1>1, <1>5 DEF Fits

\* Items of the block that the pass is in: below the hooks of the next instruction
\* to trace, or instructions from there on.
LEMMA KeyBound ==
  ASSUME WalkInv, LayoutInv, FreshInv, Rewriting, fn \in DOMAIN Functions,
         NEW b \in Blocks(fn), NEW i \in Nat, at = <<b, i>>,
         NEW m \in 1 .. Len(code[fn][b])
  PROVE  LET it == code[fn][b][m]
         IN  /\ Key(Function, it) \in Int
             /\ \/ ~Single(it) /\ Key(Function, it) < 7 * i + 1
                \/ \E j \in 1 .. Len(Function.blocks[b]) :
                     /\ it = Original(Function)[b][j] /\ Single(it)
                     /\ Function.blocks[b][j].op = "phi" => Key(Function, it) < 0
                     /\ Function.blocks[b][j].op # "phi" => Key(Function, it) = 7 * j + 5
<1> DEFINE F == Function
           it == code[fn][b][m]
<1>1. /\ Laid(F) /\ b \in 1 .. Len(F.blocks) /\ b \in Nat \ {0}
      /\ it \in ToSet(code[fn][b]) /\ Placed(F, b, it)
  BY BlockFacts
<1>2. at[1] = b /\ at[2] = i
  OBVIOUS
<1>3. ~(b < b)
  BY <1>1
<1>4. IsHook(it) => it.at # NoPlace /\ it.at[2] < i
  BY <1>1, <1>2, <1>3 DEF FreshInv
<1> HIDE DEF F, it
<1>5. CASE \E j \in 1 .. Len(F.blocks[b]) : it = Original(F)[b][j]
  <2>1. PICK j \in 1 .. Len(F.blocks[b]) : it = Original(F)[b][j]
    BY <1>5
  <2>2. /\ Single(it) /\ Key(F, it) \in Int
        /\ F.blocks[b][j].op = "phi" => Key(F, it) < 0
        /\ F.blocks[b][j].op # "phi" => Key(F, it) = 7 * j + 5
    BY <1>1, <2>1, InstKey
  <2> QED
    BY <2>1, <2>2 DEF F, it
<1>6. CASE InstHook(F, b, it)
  <2>1. /\ it.at[2] \in 1 .. Len(F.blocks[b]) /\ IsHook(it) /\ ~Single(it) /\ Key(F, it) \in Int
        /\ F.blocks[b][it.at[2]].op = "phi" => Key(F, it) = 7
        /\ F.blocks[b][it.at[2]].op # "phi" =>
             Key(F, it) = 7 * it.at[2] + Rank[it.kind] /\ Rank[it.kind] \in {1, 2, 3, 4, 6}
    <3>1. PICK j \in 1 .. Len(F.blocks[b]) : it.at = <<b, j>>
      BY <1>6 DEF InstHook
    <3>2. /\ it.kind \in {"header", "callee", "param", "status", "result"}
          /\ Rank[it.kind] \in {1, 2, 3, 4, 6} /\ it.kind # "inst"
      BY <1>6 DEF InstHook, HookKinds, Rank
    <3>3. it.at # NoPlace /\ it.at[1] = b /\ it.at[2] = j
      BY <1>1, <3>1, SomePlace
    <3>4. Key(F, it) = IF F.blocks[b][j].op # "phi" THEN 7 * j + Rank[it.kind] ELSE 7
      BY <3>2, <3>3 DEF Key
    <3>5. ~Single(it) /\ Key(F, it) \in Int /\ IsHook(it)
      BY <1>1, <1>6, HookKey
    <3> QED
      BY <3>2, <3>3, <3>4, <3>5
  <2> DEFINE j == it.at[2]
             r == Rank[it.kind]
  <2>2. j \in Nat \ {0} /\ j < i
    BY <1>4, <2>1
  <2>3. Key(F, it) = 7 \/ (Key(F, it) = 7 * j + r /\ r \in {1, 2, 3, 4, 6})
    BY <2>1
  <2> HIDE DEF j, r
  <2>4. Key(F, it) < 7 * i + 1
    BY <2>2, <2>3
  <2> QED
    BY <2>1, <2>4 DEF F, it
<1>7. CASE EntryHook(it)
  <2>1. IsHook(it) /\ it.at = NoPlace
    BY <1>7 DEF EntryHook, IsHook
  <2> QED
    BY <1>4, <2>1
<1>8. CASE it.kind = "buffer" /\ it.at = NoPlace
  <2>1. Key(F, it) = 0 /\ ~Single(it)
    BY <1>8, FrontKey
  <2> QED
    BY <2>1 DEF F, it
<1> QED
  BY <1>1, <1>5, <1>6, <1>7, <1>8 DEF Placed

LEMMA TraceFits ==
  ASSUME WalkInv, LayoutInv, FreshInv, Rewriting, fn \in DOMAIN Functions,
         NEW b, NEW i, IsPlace(b, i), at = <<b, i>>, Function.blocks[b][i].op # "phi"
  PROVE  Fits(Function, code[fn][b], Position(at), Before(at), Result(at))
<1> DEFINE F == Function
           block == code[fn][b]
           k == Position(at)
           s == Before(at)
           t == Result(at)
           lo == 7 * i + 1
           c == 7 * i + 5
           hi == 7 * i + 6
           key(m) == Key(F, block[m])
<1>1. /\ module \in Modules /\ Laid(F) /\ b \in Blocks(fn) /\ i \in 1 .. Len(F.blocks[b])
      /\ b \in 1 .. Len(F.blocks) /\ i \in Nat /\ Len(block) \in Nat /\ Sorted(F, block)
  BY PlaceFacts, BlockFacts DEF IsPlace
<1>2. k \in 1 .. Len(block) /\ block[k] = Original(F)[b][i]
  BY PositionFacts
<1>3. key(k) = c /\ Single(block[k])
  <2> DEFINE it == Original(F)[b][i]
  <2>1. F.blocks[b][i].op # "phi"
    OBVIOUS
  <2> HIDE DEF F
  <2>2. Key(F, it) = 7 * i + 5 /\ Single(it)
    BY <1>1, <2>1, InstKey
  <2> QED
    BY <1>2, <2>2
<1>4. /\ IsSequence(s) /\ Sorted(F, s) /\ \A h \in ToSet(s) : HookOf(at, h) /\ h.kind # "result"
      /\ IsSequence(t) /\ Sorted(F, t) /\ \A h \in ToSet(t) : HookOf(at, h) /\ h.kind = "result"
  BY <1>1, BeforeFacts, ResultFacts
<1>5. ASSUME NEW h, HookOf(at, h)
      PROVE  /\ Key(F, h) = 7 * i + Rank[h.kind] /\ h.kind \in HookKinds
  BY <1>1, <1>5, HookSpot, HookFields
<1>6. \A h \in ToSet(s) : Key(F, h) \in Int /\ lo <= Key(F, h) /\ Key(F, h) < c
  <2> TAKE h \in ToSet(s)
  <2>1. Key(F, h) = 7 * i + Rank[h.kind] /\ h.kind \in {"header", "callee", "param", "status"}
    BY <1>4, <1>5 DEF HookKinds
  <2>2. Rank[h.kind] \in 1 .. 4
    BY <2>1 DEF Rank
  <2> QED
    BY <1>1, <2>1, <2>2
<1>7. \A h \in ToSet(t) : Key(F, h) \in Int /\ c < Key(F, h) /\ Key(F, h) <= hi
  <2> TAKE h \in ToSet(t)
  <2>1. Key(F, h) = 7 * i + Rank[h.kind] /\ h.kind = "result"
    BY <1>4, <1>5
  <2>2. Rank[h.kind] = 6
    BY <2>1 DEF Rank
  <2> QED
    BY <1>1, <2>1, <2>2
<1>8. ASSUME NEW m \in 1 .. Len(block)
      PROVE  /\ key(m) \in Int
             /\ \/ ~Single(block[m]) /\ key(m) < lo
                \/ \E j \in 1 .. Len(F.blocks[b]) : Single(block[m]) /\ (key(m) < 0 \/ key(m) = 7 * j + 5)
  BY <1>1, KeyBound
<1>9. ASSUME NEW m \in 1 .. Len(block), m < k PROVE key(m) < lo
  <2>1. Precedes(F, block[m], block[k])
    BY <1>1, <1>2, <1>9 DEF Sorted
  <2>2. key(m) < c \/ (key(m) = c /\ ~Single(block[m]))
    BY <1>3, <2>1 DEF Precedes
  <2>3. CASE Single(block[m])
    <3>1. PICK j \in 1 .. Len(F.blocks[b]) : key(m) < 0 \/ key(m) = 7 * j + 5
      BY <1>8, <2>3
    <3>2. j \in Nat /\ key(m) < c
      BY <1>1, <2>2, <2>3
    <3>3. key(m) \in Int
      BY <1>8
    <3> HIDE DEF key
    <3> QED
      BY <1>1, <3>1, <3>2, <3>3
  <2>4. CASE ~Single(block[m])
    BY <1>8, <2>4
  <2> QED
    BY <2>3, <2>4
<1>10. ASSUME NEW m \in 1 .. Len(block), m > k PROVE hi < key(m)
  <2>1. Precedes(F, block[k], block[m])
    BY <1>1, <1>2, <1>10 DEF Sorted
  <2>2. c < key(m)
    BY <1>3, <2>1 DEF Precedes
  <2>3. PICK j \in 1 .. Len(F.blocks[b]) : key(m) < 0 \/ key(m) = 7 * j + 5
    <3>1. ~(key(m) < lo)
      <4> HIDE DEF key
      <4> QED
        BY <1>1, <1>8, <2>2
    <3> QED
      BY <1>8, <3>1
  <2> HIDE DEF key
  <2>4. j \in Nat
    BY <1>1
  <2> QED
    BY <1>1, <1>8, <2>2, <2>3, <2>4
<1>11. lo \in Int /\ c \in Int /\ hi \in Int /\ lo <= c /\ c <= hi
  BY <1>1
<1>12. \A m \in 1 .. Len(block) :
         /\ Key(F, block[m]) \in Int
         /\ m < k => Key(F, block[m]) < lo
         /\ m > k => hi < Key(F, block[m])
  BY <1>8, <1>9, <1>10
<1>13. Key(F, block[k]) = c
  BY <1>3
<1> HIDE DEF F, block, k, s, t, lo, c, hi
<1>14. Fits(F, block, k, s, t)
  BY <1>1, <1>2, <1>4, <1>6, <1>7, <1>11, <1>12, <1>13, FitsAround
<1> QED
  BY <1>14 DEF F, block, k, s, t

LEMMA PhiFits ==
  ASSUME WalkInv, LayoutInv, FreshInv, pc = "block", fn \in DOMAIN Functions,
         NEW b \in Blocks(fn), at = <<b, 0>>
  PROVE  /\ Phis(b) + 1 \in 1 .. Len(code[fn][b])
         /\ Fits(Function, code[fn][b], Phis(b) + 1, PhiHooks(b, Phis(b)), << >>)
<1> DEFINE F == Function
           block == code[fn][b]
           n == Phis(b)
           k == n + 1
           s == PhiHooks(b, n)
           lo == 7
           hi == 7
<1>1. /\ module \in Modules /\ Laid(F) /\ b \in 1 .. Len(F.blocks) /\ Len(block) \in Nat
  BY BlockFacts
<1>2. block = Original(F)[b]
  BY DEF FreshInv, Rewriting
<1>3. /\ Len(block) = Len(F.blocks[b])
  BY <1>1, <1>2, OriginalFacts
<1>4. /\ n \in Nat /\ n < Len(F.blocks[b])
      /\ \A i \in 1 .. Len(F.blocks[b]) : F.blocks[b][i].op = "phi" <=> i <= n
  BY <1>1, PhisFacts
<1>5. /\ IsSequence(s) /\ Sorted(F, s) /\ \A h \in ToSet(s) : Key(F, h) = 7
  BY <1>1, PhiHooksFacts
<1> HIDE DEF F, block, n, s
<1>6. k \in 1 .. Len(block)
  BY <1>1, <1>3, <1>4
<1>7. ASSUME NEW m \in 1 .. Len(block)
      PROVE  /\ Key(F, block[m]) \in Int
             /\ m < k => Key(F, block[m]) < lo
             /\ m >= k => hi < Key(F, block[m])
  <2>1. m \in 1 .. Len(F.blocks[b]) /\ m \in Nat \ {0}
    BY <1>3
  <2>2. /\ Key(F, block[m]) \in Int
        /\ F.blocks[b][m].op = "phi" => Key(F, block[m]) < 0
        /\ F.blocks[b][m].op # "phi" => Key(F, block[m]) = 7 * m + 5
    BY <1>1, <1>2, <2>1, InstKey
  <2>3. m < k => Key(F, block[m]) < lo
    BY <1>4, <2>1, <2>2
  <2>4. m >= k => hi < Key(F, block[m])
    BY <1>4, <2>1, <2>2
  <2> QED
    BY <2>2, <2>3, <2>4
<1>8. \A h \in ToSet(s) : Key(F, h) \in lo .. hi
  BY <1>5
<1>9. Fits(F, block, k, s, << >>)
  <2>1. lo \in Int /\ hi \in Int
    OBVIOUS
  <2> HIDE DEF k, lo, hi
  <2> QED
    BY <1>1, <1>5, <1>6, <1>7, <1>8, <2>1, FitsBefore
<1> QED
  BY <1>6, <1>9 DEF F, block, n, s

LEMMA EntryFits ==
  ASSUME WalkInv, LayoutInv, FreshInv, Rewriting, fn \in DOMAIN Functions
  PROVE  Fits(Function, code[fn][1], insertionPoint, EntryHooks, << >>)
<1> DEFINE F == Function
           block == code[fn][1]
           k == insertionPoint
           s == EntryHooks
           lo == 1
           hi == 3
           one == 1
<1>1. /\ one \in Blocks(fn) /\ k \in 1 .. Len(block) /\ block[k].kind # "buffer"
      /\ \A m \in 1 .. Len(block) : m < k => block[m].kind = "buffer"
  BY InsertionPointFacts
<1>2. /\ module \in Modules /\ Laid(F) /\ one \in 1 .. Len(F.blocks) /\ Len(block) \in Nat
      /\ Sorted(F, block)
      /\ \A m \in 1 .. Len(block) : block[m] \in ToSet(block) /\ Placed(F, one, block[m])
  BY <1>1, BlockFacts
<1>3. \A m \in 1 .. Len(block) : IsHook(block[m]) => block[m].at # NoPlace
  BY <1>1, <1>2 DEF FreshInv
<1>4. /\ IsSequence(s) /\ Sorted(F, s) /\ \A h \in ToSet(s) : Key(F, h) \in lo .. hi
  BY <1>2, EntryHooksFacts
<1> HIDE DEF F, block, k, s
<1>5. ASSUME NEW m \in 1 .. Len(block)
      PROVE  /\ Key(F, block[m]) \in Int
             /\ block[m].kind # "buffer" => Key(F, block[m]) > hi
             /\ block[m].kind = "buffer" => Key(F, block[m]) = 0
  <2> DEFINE it == block[m]
  <2>1. Placed(F, one, it) /\ (IsHook(it) => it.at # NoPlace)
    BY <1>2, <1>3
  <2> HIDE DEF it, one
  <2>2. CASE \E i \in 1 .. Len(F.blocks[one]) : it = Original(F)[one][i]
    <3>1. PICK i \in 1 .. Len(F.blocks[one]) : it = Original(F)[one][i]
      BY <2>2
    <3>2. i \in Nat \ {0}
      BY <1>2 DEF Laid
    <3>3. F.blocks[one][i].op # "phi"
      BY <1>2 DEF Laid, one
    <3>4. Key(F, it) = 7 * i + 5
      BY <1>2, <3>1, <3>3, InstKey
    <3>5. it.kind = "inst"
      BY <1>2, <3>1, OriginalFacts
    <3> QED
      BY <3>2, <3>4, <3>5 DEF it
  <2>3. CASE InstHook(F, one, it)
    <3>1. PICK i \in 1 .. Len(F.blocks[one]) : it.at = <<one, i>>
      BY <2>3 DEF InstHook
    <3>2. it.kind # "inst" /\ it.kind # "buffer" /\ Rank[it.kind] \in {1, 2, 3, 4, 6}
      BY <2>3 DEF InstHook, HookKinds, Rank
    <3>3. i \in Nat \ {0} /\ one \in Nat \ {0}
      BY <1>2 DEF Laid
    <3>4. it.at # NoPlace /\ it.at[1] = one /\ it.at[2] = i
      BY <3>1, <3>3, SomePlace
    <3>5. F.blocks[one][i].op # "phi"
      BY <1>2 DEF Laid, one
    <3>6. Key(F, it) = 7 * i + Rank[it.kind]
      BY <3>2, <3>4, <3>5 DEF Key
    <3> QED
      BY <3>2, <3>3, <3>6 DEF it
  <2>4. CASE EntryHook(it)
    <3>1. IsHook(it) /\ it.at = NoPlace
      BY <2>4 DEF EntryHook, IsHook
    <3> QED
      BY <2>1, <3>1
  <2>5. CASE it.kind = "buffer" /\ it.at = NoPlace
    <3>1. Key(F, it) = 0
      BY <2>5, FrontKey
    <3> QED
      BY <2>5, <3>1 DEF it
  <2> QED
    BY <2>1, <2>2, <2>3, <2>4, <2>5 DEF Placed
<1>6. ASSUME NEW m \in 1 .. Len(block)
      PROVE  /\ Key(F, block[m]) \in Int
             /\ m < k => Key(F, block[m]) < lo
             /\ m >= k => hi < Key(F, block[m])
  <2>1. m < k => Key(F, block[m]) < lo
    BY <1>1, <1>5
  <2>2. ASSUME m >= k PROVE hi < Key(F, block[m])
    <3>1. Key(F, block[k]) > hi /\ Key(F, block[k]) \in Int
      BY <1>1, <1>5
    <3>2. m = k \/ m > k
      BY <1>1, <2>2
    <3>3. CASE m > k
      <4>1. Precedes(F, block[k], block[m])
        BY <1>1, <1>2, <3>3 DEF Sorted
      <4>2. Key(F, block[k]) <= Key(F, block[m])
        BY <1>5, <3>1, <4>1 DEF Precedes
      <4> QED
        BY <1>5, <3>1, <4>2
    <3> QED
      BY <3>1, <3>2, <3>3
  <2> QED
    BY <1>5, <2>1, <2>2
<1>7. Fits(F, block, k, s, << >>)
  <2>1. lo \in Int /\ hi \in Int
    OBVIOUS
  <2> HIDE DEF lo, hi
  <2> QED
    BY <1>1, <1>2, <1>4, <1>6, <2>1, FitsBefore
<1> QED
  BY <1>7 DEF F, block, k, s

----------------------------------------------------------------------------
(* The invariant holds in every state.                                     *)

LEMMA ModuleFacts ==
  ASSUME module \in Modules
  PROVE  /\ IsSequence(Functions) /\ Len(Functions) \in Nat
         /\ DOMAIN Functions = 1 .. Len(Functions)
         /\ \A g \in DOMAIN Functions :
              /\ Laid(Functions[g]) /\ Blocks(g) = 1 .. Len(Functions[g].blocks)
              /\ DOMAIN Functions[g].blocks = Blocks(g)
              /\ \A b \in Blocks(g) : b \in Nat \ {0} /\ Len(Functions[g].blocks[b]) \in Nat \ {0}
<1>1. IsSequence(Functions)
  BY ModulesAssumption DEF Functions
<1>2. Len(Functions) \in Nat /\ DOMAIN Functions = 1 .. Len(Functions)
  BY <1>1, SeqFacts
<1>3. ASSUME NEW g \in DOMAIN Functions
      PROVE  /\ Laid(Functions[g]) /\ Blocks(g) = 1 .. Len(Functions[g].blocks)
             /\ DOMAIN Functions[g].blocks = Blocks(g)
             /\ \A b \in Blocks(g) : b \in Nat \ {0} /\ Len(Functions[g].blocks[b]) \in Nat \ {0}
  <2> DEFINE f == Functions[g]
  <2>1. Laid(f) /\ Blocks(g) = 1 .. Len(f.blocks)
    BY FunctionFacts DEF Blocks
  <2> HIDE DEF f
  <2>2. Len(f.blocks) \in Nat /\ DOMAIN f.blocks = Blocks(g)
    BY <2>1 DEF Laid
  <2>3. \A b \in Blocks(g) : b \in Nat \ {0} /\ Len(f.blocks[b]) \in Nat \ {0}
    BY <2>1, <2>2 DEF Laid
  <2> QED
    BY <2>1, <2>2, <2>3 DEF f
<1> QED
  BY <1>1, <1>2, <1>3

LEMMA NoHooks ==
  ASSUME NEW f, Laid(f), NEW b \in 1 .. Len(f.blocks), NEW it \in ToSet(Original(f)[b])
  PROVE  it.kind = "inst" /\ ~IsHook(it) /\ Placed(f, b, it)
<1>1. PICK i \in 1 .. Len(f.blocks[b]) : it = Original(f)[b][i]
  <2> DEFINE s == Original(f)[b]
  <2>1. IsSequence(s) /\ Len(s) = Len(f.blocks[b])
    BY OriginalFacts
  <2> HIDE DEF s
  <2>2. \E i \in 1 .. Len(s) : it = s[i]
    BY <2>1, SeqFacts DEF s
  <2> QED
    BY <2>1, <2>2 DEF s
<1>2. it.kind = "inst"
  BY <1>1, OriginalFacts
<1> QED
  BY <1>1, <1>2 DEF IsHook, Placed

LEMMA OriginalSorted ==
  ASSUME NEW f, Laid(f), NEW b \in 1 .. Len(f.blocks)
  PROVE  Sorted(f, Original(f)[b])
<1> DEFINE s == Original(f)[b]
           N == Len(f.blocks[b])
           op(i) == f.blocks[b][i].op
<1>1. Len(s) = N /\ N \in Nat
  BY OriginalFacts DEF Laid
<1>2. ASSUME NEW i \in 1 .. N
      PROVE  /\ op(i) = "phi" => Key(f, s[i]) = i - N /\ Key(f, s[i]) < 0
             /\ op(i) # "phi" => Key(f, s[i]) = 7 * i + 5
  BY InstKey
<1>3. \A i, j \in 1 .. N : i < j /\ op(j) = "phi" => op(i) = "phi"
  BY <1>1 DEF Laid
<1> HIDE DEF s, N, op
<1>4. ASSUME NEW i \in 1 .. N, NEW j \in 1 .. N, i < j PROVE Key(f, s[i]) < Key(f, s[j])
  <2>1. CASE op(j) = "phi"
    <3>1. Key(f, s[i]) = i - N /\ Key(f, s[j]) = j - N
      BY <1>2, <1>3, <1>4, <2>1
    <3> QED
      BY <1>1, <1>4, <3>1
  <2>2. CASE op(i) = "phi" /\ op(j) # "phi"
    <3>1. Key(f, s[i]) = i - N /\ Key(f, s[i]) < 0 /\ Key(f, s[j]) = 7 * j + 5
      BY <1>2, <2>2
    <3> QED
      BY <1>1, <3>1
  <2>3. CASE op(i) # "phi" /\ op(j) # "phi"
    <3>1. Key(f, s[i]) = 7 * i + 5 /\ Key(f, s[j]) = 7 * j + 5
      BY <1>2, <2>3
    <3> QED
      BY <1>1, <1>4, <3>1
  <2> QED
    BY <2>1, <2>2, <2>3
<1> QED
  BY <1>1, <1>4 DEF Sorted, Precedes, s

LEMMA InitInv ==
  ASSUME Init
  PROVE  PassInv
<1>1. /\ module \in Modules /\ fn = 1 /\ pc = "init"
      /\ code = [g \in DOMAIN Functions |-> Original(Functions[g])]
      /\ vector_buffers = << >>
  BY DEF Init, Functions
<1>2. /\ Len(Functions) \in Nat /\ DOMAIN Functions = 1 .. Len(Functions)
      /\ \A g \in DOMAIN Functions :
           Laid(Functions[g]) /\ Blocks(g) = 1 .. Len(Functions[g].blocks)
  BY <1>1, ModuleFacts
<1>3. ~Rewriting
  BY <1>1 DEF Rewriting
<1>4. WalkInv
  BY <1>1, <1>2, <1>3 DEF WalkInv
<1>5. \A g \in DOMAIN Functions : code[g] = Original(Functions[g])
  BY <1>1
<1>6. LayoutInv
  <2>1. code = [g \in DOMAIN Functions |-> [b \in DOMAIN Functions[g].blocks |-> code[g][b]]]
    BY <1>1 DEF Original
  <2>2. ASSUME NEW g \in DOMAIN Functions, NEW b \in Blocks(g)
        PROVE  /\ IsSequence(code[g][b]) /\ Sorted(Functions[g], code[g][b])
               /\ \A it \in ToSet(code[g][b]) : Placed(Functions[g], b, it)
               /\ ToSet(Original(Functions[g])[b]) \subseteq ToSet(code[g][b])
    BY <1>2, <1>5, OriginalFacts, OriginalSorted, NoHooks
  <2> QED
    BY <2>1, <2>2 DEF LayoutInv
<1>7. FreshInv
  BY <1>3, <1>5 DEF FreshInv
<1>8. SwitchInv
  BY <1>1, <1>2, <1>3 DEF SwitchInv
<1>9. BufferInv
  <2>1. IsSequence(vector_buffers) /\ OneBufferPerKey(vector_buffers)
    BY <1>1, EmptyFacts DEF OneBufferPerKey
  <2>2. \A g \in DOMAIN Functions : \A b \in Blocks(g) : \A h \in ToSet(code[g][b]) : ~IsHook(h)
    BY <1>2, <1>5, NoHooks
  <2> QED
    BY <1>3, <2>1, <2>2 DEF BufferInv
<1> QED
  BY <1>4, <1>6, <1>7, <1>8, <1>9 DEF PassInv

\* What a step that leaves the module alone keeps, and one that inserts nothing.
LEMMA SameModule ==
  ASSUME unchangedModule
  PROVE  /\ Functions' = Functions /\ module' = module
         /\ \A g : Blocks(g)' = Blocks(g)
         /\ \A f : /\ IsC(f)' <=> IsC(f)
                   /\ Visited(f)' <=> Visited(f)
                   /\ Switching(f)' <=> Switching(f)
BY DEF unchangedModule, Functions, Blocks, IsC, Visited, isTrackedFunction, Switching

LEMMA SameCode ==
  ASSUME PassInv, module' = module, code' = code
  PROVE  /\ LayoutInv'
         /\ Functions' = Functions /\ \A g : Blocks(g)' = Blocks(g)
         /\ \A g \in DOMAIN Functions : \A b \in Blocks(g) : \A h \in ToSet(code'[g][b]) :
              IsHook(h) /\ h.fn = "trace_logger_log_vector" =>
                h.buffer.fn = g /\ Alloca(h.buffer) \in ToSet(code'[g][1])
<1>1. Functions' = Functions /\ \A g : Blocks(g)' = Blocks(g)
  BY DEF Functions, Blocks
<1>2. LayoutInv'
  BY <1>1 DEF PassInv, LayoutInv
<1> QED
  BY <1>1, <1>2 DEF PassInv, BufferInv

LEMMA DoInitializationInv ==
  ASSUME PassInv, DoInitialization
  PROVE  PassInv'
<1>1. /\ pc = "init" /\ pc' = "function" /\ fn = 1 /\ fn' = 1 /\ module' = module /\ code' = code
      /\ vector_buffers' = vector_buffers
  BY DEF DoInitialization, PassInv, WalkInv
<1>2. ~Rewriting /\ ~Rewriting'
  BY <1>1 DEF Rewriting
<1>3. /\ LayoutInv' /\ Functions' = Functions /\ \A g : Blocks(g)' = Blocks(g)
      /\ \A g \in DOMAIN Functions : \A b \in Blocks(g) : \A h \in ToSet(code'[g][b]) :
           IsHook(h) /\ h.fn = "trace_logger_log_vector" =>
             h.buffer.fn = g /\ Alloca(h.buffer) \in ToSet(code'[g][1])
  BY <1>1, SameCode
<1>4. WalkInv'
  BY <1>1, <1>2, <1>3 DEF PassInv, WalkInv
<1>5. FreshInv'
  BY <1>1, <1>2, <1>3 DEF PassInv, FreshInv
<1>6. SwitchInv'
  <2>1. \A g \in DOMAIN Functions : ~(g < 1)
    BY ModuleFacts DEF PassInv, WalkInv
  <2> QED
    BY <1>1, <1>2, <1>3, <2>1 DEF SwitchInv
<1>7. BufferInv'
  BY <1>1, <1>2, <1>3 DEF PassInv, BufferInv
<1> QED
  BY <1>3, <1>4, <1>5, <1>6, <1>7 DEF PassInv

LEMMA RunOnFunctionInv ==
  ASSUME PassInv, RunOnFunction
  PROVE  PassInv'
<1>1. /\ pc = "function" /\ fn \in DOMAIN Functions /\ unchangedModule /\ code' = code
      /\ Function = Functions[fn]
  BY DEF RunOnFunction, Functions, Function
<1>2. /\ WalkInv /\ FreshInv /\ SwitchInv /\ BufferInv /\ module \in Modules /\ ~Rewriting
  BY <1>1 DEF PassInv, WalkInv, Rewriting
<1>3. /\ Functions' = Functions /\ module' = module
      /\ \A g : Blocks(g)' = Blocks(g)
      /\ \A f : /\ IsC(f)' <=> IsC(f)
                /\ Visited(f)' <=> Visited(f)
                /\ Switching(f)' <=> Switching(f)
  BY <1>1, SameModule
<1>4. /\ LayoutInv'
      /\ \A g \in DOMAIN Functions : \A b \in Blocks(g) : \A h \in ToSet(code'[g][b]) :
           IsHook(h) /\ h.fn = "trace_logger_log_vector" =>
             h.buffer.fn = g /\ Alloca(h.buffer) \in ToSet(code'[g][1])
  BY <1>1, <1>3, SameCode
<1>5. /\ Len(Functions) \in Nat /\ DOMAIN Functions = 1 .. Len(Functions)
      /\ \A g \in DOMAIN Functions :
           /\ Laid(Functions[g]) /\ Blocks(g) = 1 .. Len(Functions[g].blocks)
           /\ \A b \in Blocks(g) : b \in Nat \ {0}
  BY <1>2, ModuleFacts
<1>6. CASE IsC(Function)
  <2>1. /\ pc' = "block" /\ at' = <<1, 0>> /\ vector_buffers' = << >> /\ fn' = fn
    BY <1>6 DEF RunOnFunction
  <2>2. Rewriting' /\ Function' = Function
    BY <1>3, <2>1 DEF Rewriting, Function
  <2>3. Len(Function.blocks) \in Nat \ {0}
    BY <1>1, <1>5 DEF Laid
  <2>4. WalkInv'
    <3>1. \E b \in 1 .. Len(Function.blocks) + 1 : at' = <<b, 0>>
      BY <2>1, <2>3
    <3>2. pc' # "init" /\ pc' # "done" /\ pc' # "instruction"
      BY <2>1
    <3> QED
      BY <1>1, <1>2, <1>3, <1>6, <2>1, <2>2, <3>1, <3>2 DEF WalkInv
  <2>5. code'[fn] = Original(Function)
    BY <1>1, <1>2 DEF FreshInv
  <2>6. FreshInv'
    <3>1. \A g \in DOMAIN Functions : g > fn => code'[g] = Original(Functions[g])
      BY <1>1, <1>2 DEF FreshInv
    <3>2. \A b \in Blocks(fn) : \A it \in ToSet(code'[fn][b]) : ~IsHook(it)
      BY <1>1, <1>5, <2>5, NoHooks
    <3> QED
      BY <1>3, <2>1, <2>2, <2>5, <3>1, <3>2 DEF FreshInv
  <2>7. SwitchInv'
    <3>1. \A b \in Blocks(fn) : ~(b < 1)
      BY <1>1, <1>5
    <3>2. at'[1] = 1
      BY <2>1
    <3> QED
      BY <1>1, <1>2, <1>3, <2>1, <3>1, <3>2 DEF SwitchInv
  <2>8. BufferInv'
    <3>1. IsSequence(vector_buffers') /\ OneBufferPerKey(vector_buffers') /\ ToSet(vector_buffers') = {}
      BY <2>1, EmptyFacts DEF OneBufferPerKey
    <3> QED
      BY <1>3, <1>4, <3>1 DEF BufferInv
  <2> QED
    BY <1>4, <2>4, <2>6, <2>7, <2>8 DEF PassInv
<1>7. CASE ~IsC(Function)
  <2>1. fn' = fn + 1 /\ pc' = pc /\ vector_buffers' = vector_buffers
    BY <1>7 DEF RunOnFunction
  <2>2. ~Rewriting'
    BY <1>1, <2>1 DEF Rewriting
  <2>3. WalkInv'
    BY <1>1, <1>2, <1>3, <1>5, <2>1, <2>2 DEF WalkInv
  <2>4. FreshInv'
    <3>1. \A g \in DOMAIN Functions : g > fn + 1 \/ g = fn + 1 => g > fn
      BY <1>1, <1>5
    <3> QED
      BY <1>1, <1>2, <1>3, <2>1, <2>2, <3>1 DEF FreshInv
  <2>5. SwitchInv'
    <3>1. \A g \in DOMAIN Functions : g < fn + 1 => g < fn \/ g = fn
      BY <1>1, <1>5
    <3>2. ~Switching(Functions[fn])
      BY <1>1, <1>7 DEF Switching
    <3> QED
      BY <1>1, <1>2, <1>3, <2>1, <2>2, <3>1, <3>2 DEF SwitchInv
  <2>6. BufferInv'
    BY <1>2, <1>3, <1>4, <2>1, <2>2 DEF BufferInv
  <2> QED
    BY <1>4, <2>3, <2>4, <2>5, <2>6 DEF PassInv
<1> QED
  BY <1>6, <1>7

\* Where the pass is in a function.
LEMMA AtBlock ==
  ASSUME WalkInv, pc = "block"
  PROVE  /\ module \in Modules /\ fn \in DOMAIN Functions /\ Function = Functions[fn]
         /\ IsC(Function) /\ Rewriting /\ Laid(Function)
         /\ Blocks(fn) = 1 .. Len(Function.blocks) /\ DOMAIN Function.blocks = Blocks(fn)
         /\ Len(Function.blocks) \in Nat
         /\ \E b \in 1 .. Len(Function.blocks) + 1 : at = <<b, 0>>
<1>1. module \in Modules /\ Rewriting /\ fn \in DOMAIN Functions /\ IsC(Function)
      /\ Function = Functions[fn] /\ \E b \in 1 .. Len(Function.blocks) + 1 : at = <<b, 0>>
  BY DEF WalkInv, Rewriting, Function, Functions
<1>2. Laid(Function) /\ Blocks(fn) = 1 .. Len(Function.blocks) /\ DOMAIN Function.blocks = Blocks(fn)
  BY <1>1, ModuleFacts
<1> QED
  BY <1>1, <1>2 DEF Laid

LEMMA AtInstruction ==
  ASSUME WalkInv, pc = "instruction"
  PROVE  /\ module \in Modules /\ fn \in DOMAIN Functions /\ Function = Functions[fn]
         /\ IsC(Function) /\ Rewriting /\ Visited(Function) /\ Laid(Function)
         /\ Blocks(fn) = 1 .. Len(Function.blocks) /\ DOMAIN Function.blocks = Blocks(fn)
         /\ Len(Function.blocks) \in Nat
         /\ \E b, i : /\ at = <<b, i>> /\ IsPlace(b, i) /\ Inst(at) = Function.blocks[b][i]
                      /\ b \in Nat \ {0} /\ i \in Nat \ {0}
                      /\ Len(Function.blocks[b]) \in Nat \ {0}
                      /\ Function.blocks[b][i].op # "phi"
<1>1. /\ module \in Modules /\ Rewriting /\ fn \in DOMAIN Functions /\ IsC(Function)
      /\ Visited(Function) /\ Function = Functions[fn]
  BY DEF WalkInv, Rewriting, Function, Functions
<1>2. Laid(Function) /\ Blocks(fn) = 1 .. Len(Function.blocks) /\ DOMAIN Function.blocks = Blocks(fn)
  BY <1>1, ModuleFacts
<1>3. PICK b \in Blocks(fn) : \E i \in 1 .. Len(Function.blocks[b]) :
        at = <<b, i>> /\ Function.blocks[b][i].op # "phi"
  BY DEF WalkInv
<1>31. PICK i \in 1 .. Len(Function.blocks[b]) :
        at = <<b, i>> /\ Function.blocks[b][i].op # "phi"
  BY <1>3
<1>4. b \in Nat \ {0} /\ i \in Nat \ {0} /\ Len(Function.blocks[b]) \in Nat \ {0}
  BY <1>2 DEF Laid
<1>5. IsPlace(b, i) /\ Inst(at) = Function.blocks[b][i]
  BY <1>31 DEF IsPlace, Inst
<1> QED
  BY <1>1, <1>2, <1>31, <1>4, <1>5 DEF Laid

LEMMA SkipBlockInv ==
  ASSUME PassInv, SkipBlock
  PROVE  PassInv'
<1>1. /\ pc = "block" /\ at[1] \in DOMAIN Function.blocks /\ ~Visited(Function)
      /\ pc' = "block" /\ at' = <<at[1] + 1, 0>> /\ fn' = fn /\ code' = code
      /\ vector_buffers' = vector_buffers /\ unchangedModule
  BY DEF SkipBlock, NextBlock
<1>2. WalkInv /\ FreshInv /\ SwitchInv /\ BufferInv
  BY DEF PassInv
<1>3. /\ Functions' = Functions /\ module' = module
      /\ \A g : Blocks(g)' = Blocks(g)
      /\ \A f : /\ IsC(f)' <=> IsC(f)
                /\ Visited(f)' <=> Visited(f)
                /\ Switching(f)' <=> Switching(f)
  BY <1>1, SameModule
<1>4. /\ LayoutInv'
      /\ \A g \in DOMAIN Functions : \A b \in Blocks(g) : \A h \in ToSet(code'[g][b]) :
           IsHook(h) /\ h.fn = "trace_logger_log_vector" =>
             h.buffer.fn = g /\ Alloca(h.buffer) \in ToSet(code'[g][1])
  BY <1>1, <1>3, SameCode
<1>5. /\ module \in Modules /\ fn \in DOMAIN Functions /\ Function = Functions[fn]
      /\ IsC(Function) /\ Rewriting
      /\ Blocks(fn) = 1 .. Len(Function.blocks) /\ DOMAIN Function.blocks = Blocks(fn)
      /\ Len(Function.blocks) \in Nat
  BY <1>1, <1>2, AtBlock
<1>6. Rewriting' /\ Function' = Function
  BY <1>1, <1>3 DEF Rewriting, Function
<1>7. PICK b \in Blocks(fn) : at = <<b, 0>> /\ at[1] = b /\ at[2] = 0
  <2>1. PICK b \in 1 .. Len(Function.blocks) + 1 : at = <<b, 0>>
    BY <1>1, <1>2, AtBlock
  <2>2. at[1] = b /\ at[2] = 0
    BY <2>1
  <2> QED
    BY <1>1, <1>5, <2>1, <2>2
<1>8. at' = <<b + 1, 0>> /\ at'[1] = b + 1 /\ at'[2] = 0 /\ b + 1 \in 1 .. Len(Function.blocks) + 1
  BY <1>1, <1>5, <1>7
<1>9. WalkInv'
  <2>1. \E c \in 1 .. Len(Function.blocks) + 1 : at' = <<c, 0>>
    BY <1>8
  <2>2. pc' # "init" /\ pc' # "done" /\ pc' # "instruction"
    BY <1>1
  <2> QED
    BY <1>1, <1>2, <1>3, <1>5, <1>6, <2>1, <2>2 DEF WalkInv
<1>10. FreshInv'
  <2>1. ASSUME NEW c \in Blocks(fn)
        PROVE  /\ c > b + 1 \/ c = b + 1 => c > b
               /\ c < b \/ c = b => c < b + 1
    BY <1>5, <1>7
  <2>2. ASSUME NEW c \in Blocks(fn), c > b + 1 \/ c = b + 1
        PROVE  code'[fn][c] = Original(Function)[c]
    BY <1>1, <1>2, <1>5, <1>7, <2>1, <2>2 DEF FreshInv
  <2>3. ASSUME NEW c \in Blocks(fn), NEW it \in ToSet(code'[fn][c]), IsHook(it)
        PROVE  it.at # NoPlace /\ c < b + 1
    BY <1>1, <1>2, <1>5, <1>7, <2>1, <2>3 DEF FreshInv
  <2>4. \A g \in DOMAIN Functions : g > fn => code'[g] = Original(Functions[g])
    BY <1>1, <1>2 DEF FreshInv
  <2> QED
    BY <1>1, <1>3, <1>6, <1>8, <2>2, <2>3, <2>4 DEF FreshInv
<1>11. SwitchInv'
  BY <1>1, <1>2, <1>3, <1>5 DEF SwitchInv
<1>12. BufferInv'
  BY <1>1, <1>2, <1>3, <1>4, <1>5 DEF BufferInv
<1> QED
  BY <1>4, <1>9, <1>10, <1>11, <1>12 DEF PassInv

LEMMA DoneInv ==
  ASSUME PassInv, Done
  PROVE  PassInv'
<1>1. /\ pc = "function" /\ pc' = "done" /\ fn \notin DOMAIN Functions /\ fn' = fn
      /\ code' = code /\ vector_buffers' = vector_buffers /\ unchangedModule
  BY DEF Done, Functions
<1>2. /\ WalkInv /\ FreshInv /\ SwitchInv /\ BufferInv /\ ~Rewriting /\ ~Rewriting'
  BY <1>1 DEF PassInv, Rewriting
<1>3. /\ Functions' = Functions /\ module' = module
      /\ \A g : Blocks(g)' = Blocks(g)
      /\ \A f : /\ IsC(f)' <=> IsC(f)
                /\ Visited(f)' <=> Visited(f)
                /\ Switching(f)' <=> Switching(f)
  BY <1>1, SameModule
<1>4. /\ LayoutInv'
      /\ \A g \in DOMAIN Functions : \A b \in Blocks(g) : \A h \in ToSet(code'[g][b]) :
           IsHook(h) /\ h.fn = "trace_logger_log_vector" =>
             h.buffer.fn = g /\ Alloca(h.buffer) \in ToSet(code'[g][1])
  BY <1>1, <1>3, SameCode
<1>5. WalkInv'
  BY <1>1, <1>2, <1>3 DEF WalkInv
<1>6. FreshInv'
  BY <1>1, <1>2, <1>3 DEF FreshInv
<1>7. SwitchInv'
  BY <1>1, <1>2, <1>3 DEF SwitchInv
<1>8. BufferInv'
  BY <1>1, <1>2, <1>3, <1>4 DEF BufferInv
<1> QED
  BY <1>4, <1>5, <1>6, <1>7, <1>8 DEF PassInv

\* Hooks that are there stay there.
LEMMA Grown ==
  ASSUME NEW s, NEW t, NEW b, ToSet(s[b]) \subseteq ToSet(t[b])
  PROVE  /\ \A f : Returns(f, s, b) => Returns(f, t, b)
         /\ b = 1 /\ Entered(s) => Entered(t)
<1>1. \A kind, place : HasHook(s[b], kind, place) => HasHook(t[b], kind, place)
  BY DEF HasHook
<1> QED
  BY <1>1 DEF Returns, Entered

LEMMA RunOnBasicBlockInv ==
  ASSUME PassInv, RunOnBasicBlock
  PROVE  PassInv'
<1> DEFINE c == at[1]
           n == Phis(c)
           before == PhiHooks(c, n)
<1>1. /\ pc = "block" /\ c \in DOMAIN Function.blocks /\ Visited(Function)
      /\ Insert(c, n + 1, before, << >>)
      /\ pc' = "instruction" /\ at' = <<c, n + 1>> /\ fn' = fn /\ unchangedModule
  BY DEF RunOnBasicBlock
<1>2. WalkInv /\ LayoutInv /\ FreshInv /\ SwitchInv /\ BufferInv
  BY DEF PassInv
<1>3. /\ Functions' = Functions /\ module' = module
      /\ \A g : Blocks(g)' = Blocks(g)
      /\ \A f : /\ IsC(f)' <=> IsC(f)
                /\ Visited(f)' <=> Visited(f)
                /\ Switching(f)' <=> Switching(f)
  BY <1>1, SameModule
<1>4. /\ module \in Modules /\ fn \in DOMAIN Functions /\ Function = Functions[fn]
      /\ IsC(Function) /\ Rewriting /\ Laid(Function)
      /\ Blocks(fn) = 1 .. Len(Function.blocks) /\ DOMAIN Function.blocks = Blocks(fn)
      /\ Len(Function.blocks) \in Nat
  BY <1>1, <1>2, AtBlock
<1>5. c \in Blocks(fn) /\ c \in Nat \ {0} /\ at = <<c, 0>>
  <2>1. PICK b \in 1 .. Len(Function.blocks) + 1 : at = <<b, 0>>
    BY <1>1, <1>2, AtBlock
  <2>2. c = b
    BY <2>1
  <2> QED
    BY <1>1, <1>4, <2>1, <2>2
<1> HIDE DEF c
<1>6. /\ n \in Nat /\ n < Len(Function.blocks[c])
      /\ \A i \in 1 .. Len(Function.blocks[c]) : Function.blocks[c][i].op = "phi" <=> i <= n
  BY <1>4, <1>5, PhisFacts
<1>7. /\ IsSequence(before)
      /\ \A h \in ToSet(before) : \E i \in 1 .. n : IsPlace(c, i) /\ HookOf(<<c, i>>, h)
  BY <1>4, <1>5, PhiHooksFacts
<1>8. n + 1 \in 1 .. Len(code[fn][c]) /\ Fits(Function, code[fn][c], n + 1, before, << >>)
  BY <1>1, <1>2, <1>4, <1>5, PhiFits
<1>9. IsSequence(<< >>) /\ ToSet(<< >>) = {}
  BY EmptyFacts
<1> HIDE DEF n, before
<1>10. ASSUME NEW h \in ToSet(before)
       PROVE  /\ IsItem(h) /\ IsHook(h) /\ Placed(Function, c, h)
              /\ h.at # NoPlace /\ \E i \in 1 .. n : h.at = <<c, i>>
  <2>1. PICK i \in 1 .. n : IsPlace(c, i) /\ HookOf(<<c, i>>, h)
    BY <1>7
  <2>2. IsItem(h) /\ IsHook(h) /\ Placed(Function, c, h)
    BY <1>4, <2>1, HookSpot
  <2>3. h.at = <<c, i>>
    BY <2>1, HookFields
  <2> QED
    BY <1>5, <2>2, <2>3, SomePlace
<1>11. LayoutInv' /\ Leaving(c, before, << >>)
  <2> DEFINE k == n + 1
             after == << >>
  <2>1. k \in 1 .. Len(code[fn][c]) /\ IsSequence(after)
    BY <1>8, <1>9
  <2>2. Insert(c, k, before, after) /\ Fits(Function, code[fn][c], k, before, after)
    BY <1>1, <1>8
  <2>3. \A h \in ToSet(before) \cup ToSet(after) :
          IsItem(h) /\ IsHook(h) /\ Placed(Function, c, h)
    BY <1>9, <1>10
  <2>4. IsSequence(before)
    BY <1>7
  <2> HIDE DEF k, after
  <2>5. LayoutInv' /\ Leaving(c, before, after)
    BY <1>2, <1>3, <1>4, <1>5, <2>1, <2>2, <2>3, <2>4, Inserted
  <2> QED
    BY <2>5 DEF after
<1>12. Rewriting' /\ Function' = Function
  BY <1>1, <1>3 DEF Rewriting, Function
<1>13. at'[1] = c /\ at'[2] = n + 1 /\ at[1] = c /\ at[2] = 0
  BY <1>1, <1>5
<1>14. WalkInv'
  <2>1. n + 1 \in 1 .. Len(Function.blocks[c]) /\ Function.blocks[c][n + 1].op # "phi"
    <3>1. Len(Function.blocks[c]) \in Nat
      BY <1>4, <1>5 DEF Laid
    <3>2. n + 1 \in 1 .. Len(Function.blocks[c]) /\ ~(n + 1 <= n)
      BY <1>6, <3>1
    <3> QED
      BY <1>6, <3>2
  <2>2. \E b \in Blocks(fn) : \E i \in 1 .. Len(Function.blocks[b]) :
          at' = <<b, i>> /\ Function.blocks[b][i].op # "phi"
    BY <1>1, <1>5, <2>1
  <2>3. pc' # "init" /\ pc' # "done" /\ pc' # "block"
    BY <1>1
  <2> QED
    BY <1>1, <1>2, <1>3, <1>4, <1>12, <2>2, <2>3 DEF WalkInv
<1>15. FreshInv'
  <2>1. \A g \in DOMAIN Functions : g > fn => g # fn /\ code'[g] = Original(Functions[g])
    <3>1. \A g \in DOMAIN Functions : g > fn => g # fn
      BY <1>4, ModuleFacts
    <3> QED
      BY <1>2, <1>11, <3>1 DEF FreshInv, Leaving
  <2>2. ASSUME NEW b \in Blocks(fn), b > c
        PROVE  code'[fn][b] = Original(Function)[b]
    <3>1. b \notin {1, c}
      BY <1>4, <1>5, <2>2
    <3> QED
      BY <1>2, <1>4, <1>11, <1>13, <2>2, <3>1 DEF FreshInv, Leaving
  <2>3. ASSUME NEW b \in Blocks(fn), NEW it \in ToSet(code'[fn][b]), IsHook(it)
        PROVE  it.at # NoPlace /\ (b < c \/ (b = c /\ it.at[2] < n + 1))
    <3>1. CASE it \in ToSet(code[fn][b])
      <4>1. it.at # NoPlace /\ (b < c \/ b = c)
        BY <1>2, <1>4, <1>13, <2>3, <3>1 DEF FreshInv
      <4>2. CASE b = c
        <5>1. code[fn][c] = Original(Function)[c]
          BY <1>1, <1>2, <1>4, <1>5, <1>13 DEF FreshInv
        <5>2. it \in ToSet(Original(Function)[c])
          BY <3>1, <4>2, <5>1
        <5> QED
          BY <1>4, <1>5, <2>3, <5>2, NoHooks
      <4> QED
        BY <4>1, <4>2
    <3>2. CASE it \notin ToSet(code[fn][b])
      <4>1. PICK h \in ToSet(before) : Passes(h, it, vector_buffers')
        BY <1>9, <1>11, <2>3, <3>2 DEF Leaving
      <4>2. PICK i \in 1 .. n : h.at = <<c, i>>
        BY <1>10
      <4>3. b = c /\ it.at = <<c, i>> /\ it.at # NoPlace
        BY <1>10, <1>11, <2>3, <3>2, <4>1, <4>2, PassesFacts DEF Leaving
      <4>4. it.at[2] = i
        BY <4>3
      <4> QED
        BY <1>6, <4>3, <4>4
    <3> QED
      BY <3>1, <3>2
  <2> QED
    BY <1>1, <1>3, <1>4, <1>12, <1>13, <2>1, <2>2, <2>3 DEF FreshInv
<1>16. SwitchInv'
  <2> SUFFICES ASSUME NEW g \in DOMAIN Functions, Switching(Functions[g])
               PROVE  /\ g < fn /\ Functions[g].symbol # MainFn => Entered(code'[g])
                      /\ Visited(Functions[g]) => \A b \in Blocks(g) :
                           g < fn \/ (g = fn /\ b < c) => Returns(Functions[g], code'[g], b)
    BY <1>1, <1>3, <1>12, <1>13 DEF SwitchInv
  <2>1. CASE g = fn
    <3>1. ~(g < fn)
      BY <1>4, <2>1, ModuleFacts
    <3>2. ASSUME NEW b \in Blocks(fn), b < c, Visited(Functions[fn])
          PROVE  Returns(Functions[fn], code'[fn], b)
      <4>1. Returns(Functions[fn], code[fn], b)
        BY <1>2, <1>4, <1>13, <2>1, <3>2 DEF SwitchInv
      <4>2. ToSet(code[fn][b]) \subseteq ToSet(code'[fn][b])
        BY <1>11 DEF Leaving
      <4> QED
        BY <4>1, <4>2, Grown
    <3> QED
      BY <2>1, <3>1, <3>2
  <2>2. CASE g # fn
    <3>1. code'[g] = code[g]
      BY <1>11, <2>2 DEF Leaving
    <3> QED
      BY <1>2, <2>2, <3>1 DEF SwitchInv
  <2> QED
    BY <2>1, <2>2
<1>17. BufferInv'
  BY <1>1, <1>3, <1>11 DEF BufferInv, Leaving
<1> QED
  BY <1>11, <1>14, <1>15, <1>16, <1>17 DEF PassInv

\* The hooks in place, the pass goes on to the next instruction or block.
LEMMA GoOnInv ==
  ASSUME PassInv, pc = "instruction", GoOn, unchangedModule, fn' = fn, LayoutInv',
         NEW before, NEW after, Leaving(at[1], before, after),
         \A h \in ToSet(before) \cup ToSet(after) : IsItem(h) /\ h.at = at,
         Inst(at).op = "ret" =>
           /\ HasHook(code'[fn][at[1]], "header", at)
           /\ HasHook(code'[fn][at[1]], "status", at)
  PROVE  PassInv'
<1>1. WalkInv /\ FreshInv /\ SwitchInv /\ BufferInv
  BY DEF PassInv
<1>2. /\ Functions' = Functions /\ module' = module
      /\ \A g : Blocks(g)' = Blocks(g)
      /\ \A f : /\ IsC(f)' <=> IsC(f)
                /\ Visited(f)' <=> Visited(f)
                /\ Switching(f)' <=> Switching(f)
  BY SameModule
<1>3. /\ module \in Modules /\ fn \in DOMAIN Functions /\ Function = Functions[fn]
      /\ IsC(Function) /\ Rewriting /\ Visited(Function) /\ Laid(Function)
      /\ Blocks(fn) = 1 .. Len(Function.blocks) /\ DOMAIN Function.blocks = Blocks(fn)
      /\ Len(Function.blocks) \in Nat
  BY <1>1, AtInstruction
<1>4. PICK c, i : /\ at = <<c, i>> /\ IsPlace(c, i) /\ Inst(at) = Function.blocks[c][i]
                  /\ c \in Nat \ {0} /\ i \in Nat \ {0}
                  /\ Len(Function.blocks[c]) \in Nat \ {0}
                  /\ Function.blocks[c][i].op # "phi"
  BY <1>1, AtInstruction
<1> DEFINE N == Len(Function.blocks[c])
<1>5. at[1] = c /\ at[2] = i /\ c \in Blocks(fn) /\ i \in 1 .. N /\ at # NoPlace
  BY <1>4, SomePlace DEF IsPlace
<1> HIDE DEF N
<1>7. /\ i = N => pc' = "block" /\ at' = <<c + 1, 0>> /\ at'[1] = c + 1 /\ at'[2] = 0
      /\ i # N => pc' = "instruction" /\ at' = <<c, i + 1>> /\ at'[1] = c /\ at'[2] = i + 1
  BY <1>5 DEF GoOn, NextBlock, N
<1>8. Rewriting' /\ Function' = Function
  BY <1>2, <1>7 DEF Rewriting, Function
<1>9. WalkInv'
  <2>1. CASE i = N
    <3>1. \E b \in 1 .. Len(Function.blocks) + 1 : at' = <<b, 0>>
      BY <1>3, <1>5, <1>7, <2>1
    <3>2. pc' = "block"
      BY <1>7, <2>1
    <3> QED
      BY <1>1, <1>2, <1>3, <1>8, <3>1, <3>2 DEF WalkInv
  <2>2. CASE i # N
    <3>1. i + 1 \in 1 .. Len(Function.blocks[c]) /\ i \in 1 .. i + 1
      BY <1>4, <1>5, <2>2 DEF N
    <3>2. Function.blocks[c][i + 1].op # "phi"
      BY <1>3, <1>4, <1>5, <3>1 DEF Laid
    <3>3. \E b \in Blocks(fn) : \E j \in 1 .. Len(Function.blocks[b]) :
            at' = <<b, j>> /\ Function.blocks[b][j].op # "phi"
      BY <1>5, <1>7, <2>2, <3>1, <3>2
    <3>4. pc' = "instruction"
      BY <1>7, <2>2
    <3> QED
      BY <1>1, <1>2, <1>3, <1>8, <3>3, <3>4 DEF WalkInv
  <2> QED
    BY <2>1, <2>2
<1>10. \A g \in DOMAIN Functions : g > fn => g # fn
  BY <1>3, ModuleFacts
<1>11. FreshInv'
  <2>1. \A g \in DOMAIN Functions : g > fn => code'[g] = Original(Functions[g])
    BY <1>1, <1>10 DEF FreshInv, Leaving
  <2>2. ASSUME NEW b \in Blocks(fn), b > c
        PROVE  code'[fn][b] = Original(Function)[b]
    <3>1. b \notin {1, c}
      BY <1>3, <1>4, <2>2
    <3> QED
      BY <1>1, <1>3, <1>5, <2>2, <3>1 DEF FreshInv, Leaving
  <2>3. ASSUME NEW b \in Blocks(fn), NEW it \in ToSet(code'[fn][b]), IsHook(it)
        PROVE  it.at # NoPlace /\ (b < c \/ (b = c /\ it.at[2] < i) \/ (b = c /\ it.at[2] = i))
    <3>1. CASE it \in ToSet(code[fn][b])
      BY <1>1, <1>3, <1>5, <2>3, <3>1 DEF FreshInv
    <3>2. CASE it \notin ToSet(code[fn][b])
      <4>1. PICK h \in ToSet(before) \cup ToSet(after) : Passes(h, it, vector_buffers')
        BY <2>3, <3>2 DEF Leaving
      <4>2. b = c /\ it.at = at
        BY <1>5, <2>3, <3>2, <4>1, PassesFacts DEF Leaving
      <4> QED
        BY <1>5, <4>2
    <3> QED
      BY <3>1, <3>2
  <2>4. CASE i = N
    <3>1. ASSUME NEW b \in Blocks(fn)
          PROVE  /\ b > at'[1] \/ b = at'[1] => b > c
                 /\ b < c \/ b = c => b < at'[1]
      BY <1>3, <1>4, <1>7, <2>4
    <3> QED
      BY <1>2, <1>3, <1>8, <2>1, <2>2, <2>3, <3>1 DEF FreshInv
  <2>5. CASE i # N
    <3>1. ASSUME NEW b \in Blocks(fn), NEW it \in ToSet(code'[fn][b]), IsHook(it)
          PROVE  it.at # NoPlace /\ (b < c \/ (b = c /\ it.at[2] < i + 1))
      <4>1. CASE b < c
        BY <2>3, <3>1, <4>1
      <4>2. CASE b = c /\ it.at[2] = i
        BY <1>4, <2>3, <3>1, <4>2
      <4>3. CASE b = c /\ it.at[2] < i
        <5>1. it.at[2] \in Nat
          <6>1. Placed(Function, c, it)
            BY <1>2, <1>3, <1>5, <3>1, <4>3 DEF LayoutInv
          <6>2. it.at # NoPlace
            BY <2>3, <3>1
          <6>3. CASE InstHook(Function, c, it)
            <7>1. it.at[2] \in 1 .. Len(Function.blocks[c])
              BY <1>3, <1>5, <6>3, HookKey
            <7> QED
              BY <1>4, <7>1
          <6>4. CASE ~InstHook(Function, c, it)
            <7>1. PICK j \in 1 .. Len(Function.blocks[c]) : it = Original(Function)[c][j]
              BY <6>1, <6>2, <6>4 DEF Placed, EntryHook
            <7>2. Laid(Function) /\ c \in 1 .. Len(Function.blocks)
              BY <1>3, <1>5
            <7>3. Original(Function)[c][j].kind = "inst"
              BY <7>2, OriginalFacts
            <7> QED
              BY <3>1, <7>1, <7>3 DEF IsHook
          <6> QED
            BY <6>3, <6>4
        <5> QED
          BY <1>4, <2>3, <3>1, <4>3, <5>1
      <4> QED
        BY <2>3, <3>1, <4>1, <4>2, <4>3
    <3>2. pc' = "instruction" /\ at'[1] = c /\ at'[2] = i + 1
      BY <1>7, <2>5
    <3> QED
      BY <1>2, <1>3, <1>8, <2>1, <2>2, <3>1, <3>2 DEF FreshInv
  <2> QED
    BY <2>4, <2>5
<1>12. SwitchInv'
  <2> SUFFICES ASSUME NEW g \in DOMAIN Functions, Switching(Functions[g])
               PROVE  /\ g < fn /\ Functions[g].symbol # MainFn => Entered(code'[g])
                      /\ Visited(Functions[g]) => \A b \in Blocks(g) :
                           g < fn \/ (g = fn /\ b < at'[1]) => Returns(Functions[g], code'[g], b)
    BY <1>2, <1>8 DEF SwitchInv
  <2>1. CASE g = fn
    <3>1. ~(g < fn)
      BY <1>3, <2>1, ModuleFacts
    <3>2. ASSUME NEW b \in Blocks(fn), b < c, Visited(Functions[fn])
          PROVE  Returns(Functions[fn], code'[fn], b)
      <4>1. Returns(Functions[fn], code[fn], b)
        BY <1>1, <1>3, <1>5, <2>1, <3>2 DEF SwitchInv
      <4>2. ToSet(code[fn][b]) \subseteq ToSet(code'[fn][b])
        BY DEF Leaving
      <4> QED
        BY <4>1, <4>2, Grown
    <3>3. ASSUME i = N PROVE Returns(Functions[fn], code'[fn], c)
      <4> SUFFICES ASSUME NEW j \in 1 .. Len(Function.blocks[c]), Function.blocks[c][j].op = "ret"
                   PROVE  /\ HasHook(code'[fn][c], "header", <<c, j>>)
                          /\ HasHook(code'[fn][c], "status", <<c, j>>)
        BY <1>3 DEF Returns
      <4>1. j = N
        BY <1>3, <1>5 DEF Laid, N
      <4>2. at = <<c, j>> /\ Inst(at).op = "ret"
        BY <1>4, <3>3, <4>1
      <4> QED
        BY <1>5, <4>2
    <3>4. ASSUME NEW b \in Blocks(fn), b < at'[1]
          PROVE  b < c \/ (b = c /\ i = N)
      BY <1>3, <1>4, <1>7, <3>4
    <3> QED
      BY <2>1, <3>1, <3>2, <3>3, <3>4
  <2>2. CASE g # fn
    <3>1. code'[g] = code[g]
      BY <2>2 DEF Leaving
    <3> QED
      BY <1>1, <2>2, <3>1 DEF SwitchInv
  <2> QED
    BY <2>1, <2>2
<1>13. BufferInv'
  BY <1>2 DEF BufferInv, Leaving
<1> QED
  BY <1>9, <1>11, <1>12, <1>13 DEF PassInv

LEMMA SkipInstructionInv ==
  ASSUME PassInv, SkipInstruction
  PROVE  PassInv'
<1> DEFINE none == << >>
<1>1. /\ pc = "instruction" /\ ~Traced(Inst(at)) /\ GoOn /\ unchangedModule
      /\ fn' = fn /\ code' = code /\ vector_buffers' = vector_buffers
  BY DEF SkipInstruction
<1>2. WalkInv /\ BufferInv /\ module' = module
  BY <1>1, SameModule DEF PassInv
<1>3. LayoutInv'
  BY <1>1, <1>2, SameCode
<1>4. IsSequence(none) /\ ToSet(none) = {}
  BY EmptyFacts
<1> HIDE DEF none
<1>5. Leaving(at[1], none, none)
  <2>1. Rewriting
    BY <1>1 DEF Rewriting
  <2> QED
    BY <1>1, <1>2, <1>4, <2>1 DEF Leaving, BufferInv
<1>6. Inst(at).op # "ret"
  BY <1>1 DEF Traced
<1>7. \A h \in ToSet(none) \cup ToSet(none) : IsItem(h) /\ h.at = at
  BY <1>4
<1> QED
  BY <1>1, <1>3, <1>5, <1>6, <1>7, GoOnInv

LEMMA TraceInstructionInv ==
  ASSUME PassInv, TraceInstruction
  PROVE  PassInv'
<1>1. /\ pc = "instruction" /\ GoOn /\ unchangedModule /\ fn' = fn
      /\ Insert(at[1], Position(at), Before(at), Result(at))
  BY DEF TraceInstruction
<1>2. WalkInv /\ LayoutInv /\ FreshInv /\ BufferInv /\ module' = module
  BY <1>1, SameModule DEF PassInv
<1>3. /\ module \in Modules /\ fn \in DOMAIN Functions /\ Function = Functions[fn]
      /\ Rewriting /\ Laid(Function)
  BY <1>1, <1>2, AtInstruction
<1>4. PICK c, i : /\ at = <<c, i>> /\ IsPlace(c, i) /\ Inst(at) = Function.blocks[c][i]
                  /\ c \in Nat \ {0} /\ i \in Nat \ {0}
                  /\ Function.blocks[c][i].op # "phi"
  BY <1>1, <1>2, AtInstruction
<1>5. at[1] = c /\ c \in Blocks(fn)
  BY <1>4 DEF IsPlace
<1> DEFINE k == Position(at)
           before == Before(at)
           after == Result(at)
<1>6. /\ IsSequence(before)
      /\ \A h \in ToSet(before) : HookOf(at, h)
      /\ \E h \in ToSet(before) : h.kind = "header"
      /\ Inst(at).op = "ret" => \E h \in ToSet(before) : h.kind = "status"
  BY <1>3, <1>4, BeforeFacts
<1>7. IsSequence(after) /\ \A h \in ToSet(after) : HookOf(at, h)
  BY <1>3, <1>4, ResultFacts
<1>8. k \in 1 .. Len(code[fn][c])
  BY <1>2, <1>3, <1>4, PositionFacts
<1>9. Fits(Function, code[fn][c], k, before, after)
  BY <1>2, <1>3, <1>4, TraceFits
<1>10. Insert(c, k, before, after)
  BY <1>1, <1>5
<1> HIDE DEF k, before, after
<1>11. \A h \in ToSet(before) \cup ToSet(after) :
         IsItem(h) /\ IsHook(h) /\ Placed(Function, c, h) /\ h.at = at
  BY <1>3, <1>4, <1>6, <1>7, HookSpot, HookFields
<1>12. LayoutInv' /\ Leaving(c, before, after)
  BY <1>2, <1>3, <1>5, <1>6, <1>7, <1>8, <1>9, <1>10, <1>11, Inserted
<1>13. ASSUME NEW h \in ToSet(before) PROVE HasHook(code'[fn][c], h.kind, at)
  <2>1. PICK it \in ToSet(code'[fn][c]) : Passes(h, it, vector_buffers')
    BY <1>12 DEF Leaving
  <2>2. it.kind = h.kind /\ it.at = at
    BY <1>11, <2>1, PassesFacts
  <2> QED
    BY <2>2 DEF HasHook
<1>14. Inst(at).op = "ret" =>
         HasHook(code'[fn][at[1]], "header", at) /\ HasHook(code'[fn][at[1]], "status", at)
  BY <1>5, <1>6, <1>13
<1>15. Leaving(at[1], before, after) /\ LayoutInv'
  BY <1>5, <1>12
<1>16. \A h \in ToSet(before) \cup ToSet(after) : IsItem(h) /\ h.at = at
  BY <1>11
<1> QED
  BY <1>1, <1>14, <1>15, <1>16, GoOnInv

LEMMA RunOnFunctionEntryInv ==
  ASSUME PassInv, RunOnFunctionEntry
  PROVE  PassInv'
<1>1. /\ pc = "block" /\ at[1] \notin DOMAIN Function.blocks /\ unchangedModule
      /\ pc' = "function" /\ fn' = fn + 1 /\ at' = NoPlace
  BY DEF RunOnFunctionEntry
<1>2. WalkInv /\ LayoutInv /\ FreshInv /\ SwitchInv /\ BufferInv
  BY DEF PassInv
<1>3. /\ Functions' = Functions /\ module' = module
      /\ \A g : Blocks(g)' = Blocks(g)
      /\ \A f : /\ IsC(f)' <=> IsC(f)
                /\ Visited(f)' <=> Visited(f)
                /\ Switching(f)' <=> Switching(f)
  BY <1>1, SameModule
<1>4. /\ module \in Modules /\ fn \in DOMAIN Functions /\ Function = Functions[fn]
      /\ Rewriting /\ Laid(Function)
      /\ Blocks(fn) = 1 .. Len(Function.blocks) /\ DOMAIN Function.blocks = Blocks(fn)
      /\ Len(Function.blocks) \in Nat
  BY <1>1, <1>2, AtBlock
<1>5. /\ at[1] = Len(Function.blocks) + 1 /\ 1 \in Blocks(fn)
      /\ \A b \in Blocks(fn) : b < at[1]
  <2>1. PICK b \in 1 .. Len(Function.blocks) + 1 : at = <<b, 0>>
    BY <1>1, <1>2, AtBlock
  <2>2. at[1] = b
    BY <2>1
  <2>3. b = Len(Function.blocks) + 1
    BY <1>1, <1>4, <2>1, <2>2
  <2>4. 1 \in Blocks(fn)
    BY <1>4 DEF Laid
  <2> QED
    BY <1>4, <2>2, <2>3, <2>4
<1>6. /\ Len(Functions) \in Nat /\ DOMAIN Functions = 1 .. Len(Functions)
      /\ \A g \in DOMAIN Functions : g > fn => g # fn
      /\ \A g \in DOMAIN Functions : g > fn + 1 \/ g = fn + 1 => g > fn
      /\ \A g \in DOMAIN Functions : g < fn + 1 => g < fn \/ g = fn
  <2>1. Len(Functions) \in Nat /\ DOMAIN Functions = 1 .. Len(Functions)
    BY <1>4, ModuleFacts
  <2> QED
    BY <1>4, <2>1
<1>7. ~Rewriting'
  BY <1>1 DEF Rewriting
<1>8. WalkInv'
  <2>1. fn' \in 1 .. Len(Functions) + 1
    BY <1>1, <1>4, <1>6
  <2> QED
    BY <1>1, <1>2, <1>3, <1>7, <2>1 DEF WalkInv
\* What main keeps, and the hooks that begin any other function.
<1>9. /\ LayoutInv'
      /\ \A g \in DOMAIN Functions \ {fn} : code'[g] = code[g]
      /\ \A b \in Blocks(fn) : ToSet(code[fn][b]) \subseteq ToSet(code'[fn][b])
      /\ IsSequence(vector_buffers') /\ OneBufferPerKey(vector_buffers')
      /\ \A g \in DOMAIN Functions : \A b \in Blocks(g) : \A h \in ToSet(code'[g][b]) :
           IsHook(h) /\ h.fn = "trace_logger_log_vector" =>
             h.buffer.fn = g /\ Alloca(h.buffer) \in ToSet(code'[g][1])
      /\ Switching(Function) /\ Function.symbol # MainFn => Entered(code'[fn])
  <2>1. CASE Function.symbol = MainFn
    <3>1. code' = code /\ vector_buffers' = vector_buffers
      BY <2>1 DEF RunOnFunctionEntry
    <3>2. LayoutInv'
      BY <1>3, <3>1, SameCode
    <3> QED
      BY <1>2, <2>1, <3>1, <3>2 DEF BufferInv
  <2>2. CASE Function.symbol # MainFn
    <3> DEFINE one == 1
               k == insertionPoint
               before == EntryHooks
               after == << >>
    <3>1. Insert(one, k, before, after)
      BY <2>2 DEF RunOnFunctionEntry
    <3>2. k \in 1 .. Len(code[fn][one])
      BY <1>2, <1>4, InsertionPointFacts
    <3>3. Fits(Function, code[fn][one], k, before, after)
      BY <1>2, <1>4, EntryFits
    <3>4. /\ IsSequence(before)
          /\ \A h \in ToSet(before) : HookAtEntry(h)
          /\ IsEntryBlock => {SwitchItem, EntryItem} \subseteq ToSet(before)
      BY <1>4, EntryHooksFacts
    <3>5. IsSequence(after) /\ ToSet(after) = {}
      BY EmptyFacts
    <3>6. one \in Blocks(fn) /\ one = 1
      BY <1>5
    <3> HIDE DEF one, k, before, after
    <3>7. \A h \in ToSet(before) \cup ToSet(after) :
            IsItem(h) /\ IsHook(h) /\ Placed(Function, one, h)
      BY <3>4, <3>5, <3>6, EntryFields
    <3>8. LayoutInv' /\ Leaving(one, before, after)
      BY <1>2, <1>3, <1>4, <3>1, <3>2, <3>3, <3>4, <3>5, <3>6, <3>7, Inserted
    <3>9. ASSUME NEW h \in ToSet(before) PROVE HasHook(code'[fn][1], h.kind, h.at)
      <4>1. PICK it \in ToSet(code'[fn][1]) : Passes(h, it, vector_buffers')
        BY <3>6, <3>8 DEF Leaving
      <4>2. it.kind = h.kind /\ it.at = h.at
        BY <3>7, <4>1, PassesFacts
      <4> QED
        BY <4>2 DEF HasHook
    <3>10. Switching(Function) => Entered(code'[fn])
      <4> SUFFICES ASSUME Switching(Function) PROVE Entered(code'[fn])
        OBVIOUS
      <4>1. IsEntryBlock
        BY DEF Switching, IsEntryBlock
      <4>2. /\ SwitchItem.kind = "status" /\ SwitchItem.at = NoPlace
            /\ EntryItem.kind = "entry" /\ EntryItem.at = NoPlace
        BY DEF SwitchItem, EntryItem, Item
      <4>3. SwitchItem \in ToSet(before) /\ EntryItem \in ToSet(before)
        BY <3>4, <4>1
      <4>4. HasHook(code'[fn][1], SwitchItem.kind, SwitchItem.at)
        BY <3>9, <4>3
      <4>5. HasHook(code'[fn][1], EntryItem.kind, EntryItem.at)
        BY <3>9, <4>3
      <4> QED
        BY <4>2, <4>4, <4>5 DEF Entered
    <3> QED
      BY <3>8, <3>10 DEF Leaving
  <2> QED
    BY <2>1, <2>2
<1>10. FreshInv'
  <2>1. \A g \in DOMAIN Functions : g > fn => code'[g] = Original(Functions[g])
    BY <1>2, <1>6, <1>9 DEF FreshInv
  <2> QED
    BY <1>1, <1>3, <1>6, <1>7, <2>1 DEF FreshInv
<1>11. SwitchInv'
  <2> SUFFICES ASSUME NEW g \in DOMAIN Functions, Switching(Functions[g]), g < fn \/ g = fn
               PROVE  /\ Functions[g].symbol # MainFn => Entered(code'[g])
                      /\ Visited(Functions[g]) =>
                           \A b \in Blocks(g) : Returns(Functions[g], code'[g], b)
    BY <1>1, <1>3, <1>6, <1>7 DEF SwitchInv
  <2>1. CASE g = fn
    <3>1. ASSUME NEW b \in Blocks(fn), Visited(Functions[fn])
          PROVE  Returns(Functions[fn], code'[fn], b)
      <4>1. Returns(Functions[fn], code[fn], b)
        BY <1>2, <1>4, <1>5, <2>1, <3>1 DEF SwitchInv
      <4> QED
        BY <1>9, <4>1, Grown
    <3> QED
      BY <1>4, <1>9, <2>1, <3>1
  <2>2. CASE g # fn
    <3>1. code'[g] = code[g]
      BY <1>9, <2>2
    <3> QED
      BY <1>2, <2>2, <3>1 DEF SwitchInv
  <2> QED
    BY <2>1, <2>2
<1>12. BufferInv'
  BY <1>3, <1>7, <1>9 DEF BufferInv
<1> QED
  BY <1>8, <1>9, <1>10, <1>11, <1>12 DEF PassInv

LEMMA StoppedInv ==
  ASSUME PassInv, UNCHANGED vars
  PROVE  PassInv'
<1>1. /\ unchangedModule /\ fn' = fn /\ at' = at /\ pc' = pc /\ code' = code
      /\ vector_buffers' = vector_buffers
  BY DEF vars, unchangedModule
<1>2. WalkInv /\ FreshInv /\ SwitchInv /\ BufferInv
  BY DEF PassInv
<1>3. /\ Functions' = Functions /\ module' = module
      /\ \A g : Blocks(g)' = Blocks(g)
      /\ \A f : /\ IsC(f)' <=> IsC(f)
                /\ Visited(f)' <=> Visited(f)
                /\ Switching(f)' <=> Switching(f)
  BY <1>1, SameModule
<1>4. LayoutInv'
  BY <1>1, <1>3, SameCode
<1>5. (Rewriting' <=> Rewriting) /\ Function' = Function
  BY <1>1, <1>3 DEF Rewriting, Function
<1>6. WalkInv'
  BY <1>1, <1>2, <1>3, <1>5 DEF WalkInv
<1>7. FreshInv'
  BY <1>1, <1>2, <1>3, <1>5 DEF FreshInv
<1>8. SwitchInv'
  BY <1>1, <1>2, <1>3, <1>5 DEF SwitchInv
<1>9. BufferInv'
  BY <1>1, <1>2, <1>3, <1>5 DEF BufferInv
<1> QED
  BY <1>4, <1>6, <1>7, <1>8, <1>9 DEF PassInv

\* At any time in the pass, what stands in the blocks of the program is in order: the
\* program itself, and the hooks of what the pass has been to.
THEOREM PassInvariant == Spec => []PassInv
<1>1. Init => PassInv
  BY InitInv
<1>2. PassInv /\ [Next]_vars => PassInv'
  <2> SUFFICES ASSUME PassInv, [Next]_vars PROVE PassInv'
    OBVIOUS
  <2>1. CASE DoInitialization
    BY <2>1, DoInitializationInv
  <2>2. CASE RunOnFunction
    BY <2>2, RunOnFunctionInv
  <2>3. CASE SkipBlock
    BY <2>3, SkipBlockInv
  <2>4. CASE RunOnBasicBlock
    BY <2>4, RunOnBasicBlockInv
  <2>5. CASE SkipInstruction
    BY <2>5, SkipInstructionInv
  <2>6. CASE TraceInstruction
    BY <2>6, TraceInstructionInv
  <2>7. CASE RunOnFunctionEntry
    BY <2>7, RunOnFunctionEntryInv
  <2>8. CASE Done
    BY <2>8, DoneInv
  <2>9. CASE UNCHANGED vars
    BY <2>9, StoppedInv
  <2> QED
    BY <2>1, <2>2, <2>3, <2>4, <2>5, <2>6, <2>7, <2>8, <2>9 DEF Next, Stopped
<1> QED
  BY <1>1, <1>2, PTL DEF Spec

----------------------------------------------------------------------------
(* What follows from it about the functions that are written.              *)

\* An item's place and kind, by its key.
Spot(f, b, it, i) ==
  /\ it.at = <<b, i>> /\ it.at[1] = b /\ it.at[2] = i
  /\ IF it.kind = "inst" THEN it = Original(f)[b][i] ELSE InstHook(f, b, it)
  /\ f.blocks[b][i].op = "phi" =>
       Key(f, it) = IF it.kind = "inst" THEN i - Len(f.blocks[b]) ELSE 7
  /\ f.blocks[b][i].op # "phi" => Key(f, it) = 7 * i + Rank[it.kind] /\ Rank[it.kind] \in 1 .. 6

LEMMA SpotFacts ==
  ASSUME NEW f, Laid(f), NEW b \in 1 .. Len(f.blocks), NEW it, Placed(f, b, it)
  PROVE  /\ Key(f, it) \in Int
         /\ it.at = NoPlace => /\ b = 1 /\ it.kind \in {"buffer", "status", "entry", "arg"}
                               /\ Key(f, it) = EntryRank[it.kind] /\ Key(f, it) \in 0 .. 3
         /\ it.at # NoPlace => \E i \in 1 .. Len(f.blocks[b]) : Spot(f, b, it, i)
<1>1. b \in Nat \ {0} /\ Len(f.blocks[b]) \in Nat \ {0}
  BY DEF Laid
<1>2. CASE InstHook(f, b, it)
  <2>1. PICK i \in 1 .. Len(f.blocks[b]) : it.at = <<b, i>>
    BY <1>2 DEF InstHook
  <2>2. it.at # NoPlace /\ it.at[1] = b /\ it.at[2] = i
    BY <1>1, <2>1, SomePlace
  <2>3. /\ it.kind # "inst" /\ it.kind # "buffer" /\ it.kind \in HookKinds
        /\ Rank[it.kind] \in 1 .. 6
    BY <1>2 DEF InstHook, HookKinds, Rank
  <2>4. Key(f, it) = IF f.blocks[b][i].op # "phi" THEN 7 * i + Rank[it.kind] ELSE 7
    BY <2>2, <2>3 DEF Key
  <2>5. Key(f, it) \in Int
    BY <1>1, <2>3, <2>4
  <2>6. Spot(f, b, it, i)
    BY <1>2, <2>1, <2>2, <2>3, <2>4 DEF Spot
  <2> QED
    BY <2>2, <2>5, <2>6
<1>3. CASE it.at = NoPlace
  <2>1. b = 1 /\ it.kind \in {"buffer", "status", "entry", "arg"}
    <3>1. ASSUME NEW i \in 1 .. Len(f.blocks[b]) PROVE Original(f)[b][i].at # NoPlace
      <4>1. Original(f)[b][i].at = <<b, i>>
        BY OriginalFacts
      <4> QED
        BY <1>1, <4>1, SomePlace
    <3>2. ~InstHook(f, b, it)
      BY <1>3, HookKey
    <3> QED
      BY <1>3, <3>1, <3>2 DEF Placed, EntryHook
  <2> QED
    BY <1>3, <2>1, FrontKey
<1>4. CASE it.at # NoPlace /\ ~InstHook(f, b, it)
  <2>1. PICK i \in 1 .. Len(f.blocks[b]) : it = Original(f)[b][i]
    BY <1>4 DEF Placed, EntryHook
  <2>2. it.kind = "inst" /\ it.at = <<b, i>>
    BY <2>1, OriginalFacts
  <2>3. /\ f.blocks[b][i].op = "phi" => Key(f, it) = i - Len(f.blocks[b])
        /\ f.blocks[b][i].op # "phi" => Key(f, it) = 7 * i + 5
        /\ Key(f, it) \in Int
    BY <2>1, InstKey
  <2>4. Rank[it.kind] = 5
    BY <2>2 DEF Rank
  <2>5. it.at[1] = b /\ it.at[2] = i
    BY <2>2
  <2>6. Spot(f, b, it, i)
    BY <2>1, <2>2, <2>3, <2>4, <2>5 DEF Spot
  <2> QED
    BY <1>4, <2>3, <2>6
<1> QED
  BY <1>2, <1>3, <1>4

\* The blocks of a function that is written.
LEMMA WrittenFacts ==
  ASSUME PassInv, NEW g \in Written, NEW b \in DOMAIN Functions[g].blocks
  PROVE  /\ g \in DOMAIN Functions /\ g < fn /\ Laid(Functions[g]) /\ b \in Blocks(g)
         /\ b \in 1 .. Len(Functions[g].blocks) /\ b \in Nat \ {0} /\ 1 \in Blocks(g)
         /\ \A c \in Blocks(g) :
              /\ Len(code[g][c]) \in Nat /\ DOMAIN code[g][c] = 1 .. Len(code[g][c])
              /\ Sorted(Functions[g], code[g][c])
              /\ \A m \in 1 .. Len(code[g][c]) : Placed(Functions[g], c, code[g][c][m])
              /\ \A it \in ToSet(code[g][c]) : \E m \in 1 .. Len(code[g][c]) : it = code[g][c][m]
              /\ \A m \in 1 .. Len(code[g][c]) : code[g][c][m] \in ToSet(code[g][c])
<1>1. pc = "done" /\ g \in DOMAIN Functions
  BY DEF Written
<1>2. WalkInv /\ LayoutInv
  BY DEF PassInv
<1>3. /\ module \in Modules /\ fn \in 1 .. Len(Functions) + 1 /\ fn \notin DOMAIN Functions
  BY <1>1, <1>2 DEF WalkInv
<1>4. /\ Len(Functions) \in Nat /\ DOMAIN Functions = 1 .. Len(Functions)
      /\ Laid(Functions[g]) /\ DOMAIN Functions[g].blocks = Blocks(g)
      /\ Blocks(g) = 1 .. Len(Functions[g].blocks)
  BY <1>1, <1>3, ModuleFacts
<1>5. g < fn
  BY <1>1, <1>3, <1>4
<1>6. 1 \in Blocks(g) /\ b \in Nat \ {0}
  BY <1>4 DEF Laid
<1>7. ASSUME NEW c \in Blocks(g)
      PROVE  /\ Len(code[g][c]) \in Nat /\ DOMAIN code[g][c] = 1 .. Len(code[g][c])
             /\ Sorted(Functions[g], code[g][c])
             /\ \A m \in 1 .. Len(code[g][c]) : Placed(Functions[g], c, code[g][c][m])
             /\ \A it \in ToSet(code[g][c]) : \E m \in 1 .. Len(code[g][c]) : it = code[g][c][m]
             /\ \A m \in 1 .. Len(code[g][c]) : code[g][c][m] \in ToSet(code[g][c])
  <2> DEFINE s == code[g][c]
  <2>1. /\ IsSequence(s) /\ Sorted(Functions[g], s)
        /\ \A it \in ToSet(s) : Placed(Functions[g], c, it)
    BY <1>1, <1>2 DEF LayoutInv
  <2> HIDE DEF s
  <2>2. Len(s) \in Nat /\ DOMAIN s = 1 .. Len(s)
    BY <2>1, SeqFacts
  <2>3. /\ \A it \in ToSet(s) : \E m \in 1 .. Len(s) : it = s[m]
        /\ \A m \in 1 .. Len(s) : s[m] \in ToSet(s)
    BY <2>2 DEF ToSet
  <2> QED
    BY <2>1, <2>2, <2>3 DEF s
<1> QED
  BY <1>1, <1>4, <1>5, <1>6, <1>7

\* A hook that passes a vector finds its buffer allocated, on every path: in the
\* entry block of the same function, ahead of the hook.
THEOREM DominateCorrect == Spec => []BuffersDominate
<1>1. PassInv => BuffersDominate
  <2> SUFFICES ASSUME PassInv, NEW g \in Written, NEW b \in DOMAIN Functions[g].blocks,
                      NEW k \in DOMAIN code[g][b],
                      IsHook(code[g][b][k]), code[g][b][k].fn = "trace_logger_log_vector"
               PROVE  \E j \in DOMAIN code[g][1] :
                        /\ code[g][1][j] = Alloca(code[g][b][k].buffer)
                        /\ code[g][b][k].buffer.fn = g
                        /\ b = 1 => j < k
    BY DEF BuffersDominate
  <2> DEFINE h == code[g][b][k]
             f == Functions[g]
  <2>1. /\ g \in DOMAIN Functions /\ Laid(f) /\ b \in Blocks(g) /\ 1 \in Blocks(g)
        /\ b \in 1 .. Len(f.blocks) /\ b \in Nat \ {0}
    BY WrittenFacts
  <2>2. /\ Len(code[g][b]) \in Nat /\ DOMAIN code[g][b] = 1 .. Len(code[g][b])
        /\ Sorted(f, code[g][b]) /\ Placed(f, b, h) /\ h \in ToSet(code[g][b])
    BY <2>1, WrittenFacts
  <2>3. h.buffer.fn = g /\ Alloca(h.buffer) \in ToSet(code[g][1])
    BY <2>1, <2>2 DEF PassInv, BufferInv
  <2> DEFINE one == 1
  <2>front. /\ Len(code[g][one]) \in Nat /\ DOMAIN code[g][one] = 1 .. Len(code[g][one])
            /\ \A it \in ToSet(code[g][one]) : \E m \in 1 .. Len(code[g][one]) : it = code[g][one][m]
    <3>1. one \in Blocks(g)
      BY <2>1
    <3> HIDE DEF one
    <3> QED
      BY <3>1, WrittenFacts
  <2>4. PICK j \in 1 .. Len(code[g][1]) : code[g][1][j] = Alloca(h.buffer)
    BY <2>3, <2>front
  <2>5. j \in DOMAIN code[g][1] /\ j \in Nat
    BY <2>4, <2>front
  <2>6. ASSUME b = 1 PROVE j < k
    <3>1. /\ Alloca(h.buffer).kind = "buffer" /\ Key(f, Alloca(h.buffer)) = 0
      BY AllocaFacts, FrontKey
    <3>2. h.kind # "buffer" /\ h.kind # "inst"
      BY DEF IsHook
    <3> HIDE DEF h, f
    <3>3. Key(f, h) \in Int /\ Key(f, h) > 0
      <4>1. CASE h.at = NoPlace
        <5>1. h.kind \in {"buffer", "status", "entry", "arg"}
          BY <2>1, <2>2, <4>1, SpotFacts
        <5>2. Key(f, h) \in 0 .. 3 /\ Key(f, h) # 0
          BY <3>2, <4>1, <5>1, FrontKey
        <5> QED
          BY <5>2
      <4>2. CASE h.at # NoPlace
        <5>1. PICK i \in 1 .. Len(f.blocks[b]) : Spot(f, b, h, i)
          BY <2>1, <2>2, <4>2, SpotFacts
        <5>2. i \in Nat
          BY <2>1 DEF Laid
        <5>3. /\ f.blocks[b][i].op = "phi" => Key(f, h) = 7
              /\ f.blocks[b][i].op # "phi" =>
                   Key(f, h) = 7 * i + Rank[h.kind] /\ Rank[h.kind] \in 1 .. 6
          BY <3>2, <5>1 DEF Spot
        <5> QED
          BY <5>2, <5>3
      <4> QED
        BY <4>1, <4>2
    <3>4. ~(k < j)
      <4>1. k < j => Precedes(f, code[g][b][k], code[g][b][j])
        BY <2>2, <2>4, <2>6 DEF Sorted
      <4>2. k < j => Precedes(f, h, Alloca(h.buffer))
        BY <2>4, <2>6, <4>1 DEF h
      <4> QED
        BY <3>1, <3>3, <4>2 DEF Precedes
    <3>5. j # k
      BY <2>4, <2>6, <3>1, <3>2 DEF h
    <3>6. k \in Nat
      BY <2>2
    <3> QED
      BY <2>5, <3>4, <3>5, <3>6
  <2> QED
    BY <2>3, <2>4, <2>5, <2>6
<1> QED
  BY <1>1, PassInvariant, PTL

LEMMA KeyArithmetic == \A i \in Nat \ {0} : \A q \in 1 .. 6 : 7 * i + q \in Int /\ 7 * i + q > 7
OBVIOUS

\* The beginning of the entry block.
LEMMA EnteredFacts ==
  ASSUME NEW f, Laid(f), NEW s, Len(s) \in Nat, Sorted(f, s),
         \A m \in 1 .. Len(s) : Placed(f, 1, s[m]),
         NEW j \in 1 .. Len(s), s[j].kind = "status", s[j].at = NoPlace,
         NEW e \in 1 .. Len(s), s[e].kind = "entry", s[e].at = NoPlace
  PROVE  /\ j \in 1 .. Len(s) - 1 /\ e = j + 1
         /\ \A i \in 1 .. j - 1 : s[i].kind = "buffer"
<1> DEFINE key(m) == Key(f, s[m])
           one == 1
<1>1. key(j) = 1 /\ key(e) = 2 /\ Single(s[j]) /\ Single(s[e])
  BY FrontKey DEF Single
<1>2. one \in 1 .. Len(f.blocks) /\ one = 1
  BY DEF Laid
<1> HIDE DEF one
<1>3. ASSUME NEW m \in 1 .. Len(s)
      PROVE  /\ key(m) \in Int
             /\ s[m].at = NoPlace => s[m].kind \in {"buffer", "status", "entry", "arg"}
             /\ s[m].at # NoPlace => key(m) > 3
  <2>1. Placed(f, one, s[m])
    BY <1>2
  <2>2. /\ key(m) \in Int
        /\ s[m].at = NoPlace => s[m].kind \in {"buffer", "status", "entry", "arg"}
        /\ s[m].at # NoPlace => \E i \in 1 .. Len(f.blocks[one]) : Spot(f, one, s[m], i)
    BY <1>2, <2>1, SpotFacts
  <2>3. ASSUME s[m].at # NoPlace PROVE key(m) > 3
    <3>1. PICK i \in 1 .. Len(f.blocks[one]) : Spot(f, one, s[m], i)
      BY <2>2, <2>3
    <3>2. f.blocks[one][i].op # "phi" /\ i \in Nat \ {0}
      BY <1>2 DEF Laid
    <3> DEFINE q == Rank[s[m].kind]
    <3>3. key(m) = 7 * i + q /\ q \in 1 .. 6
      BY <3>1, <3>2 DEF Spot
    <3> HIDE DEF q, key
    <3>4. 7 * i + q \in Int /\ 7 * i + q > 7
      BY <3>2, <3>3, KeyArithmetic
    <3> QED
      BY <3>3, <3>4
  <2> QED
    BY <2>2, <2>3
<1>4. ASSUME NEW m \in 1 .. Len(s), key(m) <= 2, key(m) >= 0
      PROVE  s[m].kind = "buffer" \/ Single(s[m])
  <2>1. s[m].at = NoPlace
    BY <1>3, <1>4
  <2>2. s[m].kind \in {"buffer", "status", "entry", "arg"}
    BY <1>3, <2>1
  <2>3. s[m].kind # "arg"
    <3>1. s[m].kind = "arg" => key(m) = 3
      BY <2>1, FrontKey DEF EntryRank
    <3> QED
      BY <1>4, <3>1
  <2> QED
    BY <2>1, <2>2, <2>3 DEF Single
<1>5. ASSUME NEW m \in 1 .. Len(s)
      PROVE  /\ key(m) >= 0
             /\ s[m].kind = "buffer" /\ s[m].at = NoPlace <=> key(m) = 0
  BY <1>3, FrontKey
<1>6. j < e
  <2>1. e < j => Precedes(f, s[e], s[j])
    BY DEF Sorted
  <2>2. e # j
    OBVIOUS
  <2> QED
    BY <1>1, <2>1, <2>2 DEF Precedes
<1>7. e = j + 1
  <2> SUFFICES ASSUME j + 1 < e PROVE FALSE
    BY <1>6
  <2>1. j + 1 \in 1 .. Len(s) /\ j < j + 1
    OBVIOUS
  <2> DEFINE m == j + 1
  <2>2. m \in 1 .. Len(s) /\ j < m /\ m < e
    BY <2>1
  <2> HIDE DEF m
  <2>3. Precedes(f, s[j], s[m]) /\ Precedes(f, s[m], s[e])
    BY <2>2 DEF Sorted
  <2>4. key(m) \in Int /\ key(m) > 1 /\ (key(m) < 2 \/ (key(m) = 2 /\ ~Single(s[m])))
    BY <1>1, <1>3, <2>2, <2>3 DEF Precedes
  <2>5. key(m) = 2 /\ ~Single(s[m])
    BY <2>4
  <2>6. s[m].kind = "buffer" \/ Single(s[m])
    BY <1>4, <2>2, <2>5
  <2>7. s[m].at = NoPlace
    BY <1>3, <2>2, <2>5
  <2> QED
    BY <1>5, <2>2, <2>5, <2>6, <2>7
<1>8. ASSUME NEW i \in 1 .. j - 1 PROVE s[i].kind = "buffer"
  <2>1. i \in 1 .. Len(s) /\ i < j
    OBVIOUS
  <2>2. Precedes(f, s[i], s[j])
    BY <2>1 DEF Sorted
  <2>3. key(i) \in Int /\ (key(i) < 1 \/ (key(i) = 1 /\ ~Single(s[i])))
    BY <1>1, <1>3, <2>1, <2>2 DEF Precedes
  <2> QED
    BY <1>4, <1>5, <2>1, <2>3
<1> QED
  BY <1>6, <1>7, <1>8

\* The keys of a block that returns: the greatest is that of its last instruction.
Top(f, b, i, top) ==
  /\ Key(f, Original(f)[b][i]) = top
  /\ \A it : Placed(f, b, it) =>
       /\ Key(f, it) \in Int /\ Key(f, it) <= top
       /\ Key(f, it) = top => Single(it)
       /\ Key(f, it) = top - 1 => it.kind = "status" /\ it.at = <<b, i>> /\ it.opcode = "ret"
  /\ \A it : it.at = <<b, i>> =>
       /\ it.kind = "status" => Key(f, it) = top - 1 /\ ~Single(it)
       /\ it.kind = "header" => Key(f, it) = top - 4

LEMMA TopFacts ==
  ASSUME NEW f, Laid(f), NEW b \in 1 .. Len(f.blocks),
         NEW i \in 1 .. Len(f.blocks[b]), f.blocks[b][i].op = "ret"
  PROVE  \E top \in Int : Top(f, b, i, top)
<1> DEFINE N == Len(f.blocks[b])
           top == 7 * i + 5
<1>1. /\ b \in Nat \ {0} /\ N \in Nat \ {0} /\ i = N /\ i \in Nat \ {0}
      /\ f.blocks[b][i].op # "phi" /\ f.blocks[b][i].type = Void
  BY DEF Laid
<1>2. <<b, i>> # NoPlace /\ <<b, i>>[1] = b /\ <<b, i>>[2] = i
  BY <1>1, SomePlace
<1>3. Key(f, Original(f)[b][i]) = top
  <2>1. Original(f)[b][i].kind = "inst" /\ Original(f)[b][i].at = <<b, i>>
    BY OriginalFacts
  <2> QED
    BY <1>1, <1>2, <2>1 DEF Key, Rank
<1>4. ASSUME NEW it, it.at = <<b, i>>
      PROVE  /\ it.kind = "status" => Key(f, it) = top - 1 /\ ~Single(it)
             /\ it.kind = "header" => Key(f, it) = top - 4
  <2>1. ASSUME it.kind = "status" PROVE Key(f, it) = top - 1 /\ ~Single(it)
    <3>1. Key(f, it) = 7 * i + 4 /\ ~Single(it)
      BY <1>1, <1>2, <1>4, <2>1 DEF Key, Rank, Single
    <3> QED
      BY <1>1, <3>1
  <2>2. ASSUME it.kind = "header" PROVE Key(f, it) = top - 4
    <3>1. Key(f, it) = 7 * i + 1
      BY <1>1, <1>2, <1>4, <2>2 DEF Key, Rank
    <3> QED
      BY <1>1, <3>1
  <2> QED
    BY <2>1, <2>2
<1>5. ASSUME NEW it, Placed(f, b, it)
      PROVE  /\ Key(f, it) \in Int /\ Key(f, it) <= top
             /\ Key(f, it) = top => Single(it)
             /\ Key(f, it) = top - 1 => it.kind = "status" /\ it.at = <<b, i>> /\ it.opcode = "ret"
  <2> DEFINE key == Key(f, it)
             q == Rank[it.kind]
  <2>1. /\ key \in Int
        /\ it.at = NoPlace => key \in 0 .. 3
        /\ it.at # NoPlace => \E j \in 1 .. N : Spot(f, b, it, j)
    BY <1>5, SpotFacts
  <2>2. ASSUME NEW j \in 1 .. N, Spot(f, b, it, j)
        PROVE  /\ it.at = <<b, j>>
               /\ it.kind = "inst" \/ InstHook(f, b, it)
               /\ f.blocks[b][j].op = "phi" => key = j - N \/ key = 7
               /\ f.blocks[b][j].op # "phi" => key = 7 * j + q /\ q \in 1 .. 6
    BY <2>2 DEF Spot
  <2>3. q = 5 /\ it.at # NoPlace => Single(it)
    <3>1. q = 5 /\ InstHook(f, b, it) => FALSE
      BY DEF InstHook, HookKinds, Rank
    <3>2. it.at # NoPlace /\ ~InstHook(f, b, it) => it.kind = "inst"
      BY <2>1, <2>2
    <3> QED
      BY <3>1, <3>2 DEF Single
  <2>4. q = 4 /\ it.at # NoPlace => it.kind = "status" /\ it.opcode = "ret"
    <3>1. q = 4 /\ InstHook(f, b, it) => it.kind = "status"
      BY DEF InstHook, HookKinds, Rank
    <3>2. it.at # NoPlace /\ ~InstHook(f, b, it) => it.kind = "inst"
      BY <2>1, <2>2
    <3>3. it.kind = "inst" => q # 4
      BY DEF Rank
    <3>4. InstHook(f, b, it) /\ it.kind = "status" => it.opcode = "ret"
      BY DEF InstHook
    <3> QED
      BY <3>1, <3>2, <3>3, <3>4
  <2>5. it.at = <<b, i>> => q # 6
    <3> SUFFICES ASSUME it.at = <<b, i>>, q = 6 PROVE FALSE
      OBVIOUS
    <3>1. it.at # NoPlace /\ it.kind # "inst"
      BY <1>2 DEF Rank
    <3>2. InstHook(f, b, it)
      BY <2>1, <2>2, <3>1
    <3>3. it.kind = "result"
      BY <3>2 DEF InstHook, HookKinds, Rank
    <3>4. PICK k \in 1 .. N : it.at = <<b, k>> /\ f.blocks[b][k].type # Void
      BY <3>2, <3>3 DEF InstHook
    <3>5. k = i
      BY <3>4
    <3> QED
      BY <1>1, <3>4, <3>5
  <2> HIDE DEF key, q, N, top
  <2>6. CASE it.at = NoPlace
    <3>1. key \in Int /\ key < top - 1
      BY <1>1, <2>1, <2>6 DEF top
    <3>2. top \in Int
      BY <1>1 DEF top
    <3>3. key <= top /\ key # top /\ key # top - 1
      BY <3>1, <3>2
    <3> QED
      BY <3>1, <3>3 DEF key
  <2>7. CASE it.at # NoPlace
    <3>1. PICK j \in 1 .. N : Spot(f, b, it, j)
      BY <2>1, <2>7
    <3>2. j \in Nat \ {0} /\ j <= i
      BY <1>1
    <3>3. top \in Int /\ key \in Int
      BY <1>1, <2>1 DEF top
    <3>4. CASE f.blocks[b][j].op = "phi"
      <4>1. key = j - N \/ key = 7
        BY <2>2, <3>1, <3>4
      <4>2. key < top - 1
        BY <1>1, <3>2, <4>1 DEF top
      <4>3. key <= top /\ key # top /\ key # top - 1
        BY <3>3, <4>2
      <4> QED
        BY <3>3, <4>3 DEF key
    <3>5. CASE f.blocks[b][j].op # "phi" /\ j # i
      <4>1. key = 7 * j + q /\ q \in 1 .. 6 /\ j < i
        BY <1>1, <2>2, <3>1, <3>2, <3>5
      <4>2. key < top - 1
        BY <1>1, <3>2, <4>1 DEF top
      <4>3. key <= top /\ key # top /\ key # top - 1
        BY <3>3, <4>2
      <4> QED
        BY <3>3, <4>3 DEF key
    <3>6. CASE f.blocks[b][j].op # "phi" /\ j = i
      <4>1. key = 7 * i + q /\ q \in 1 .. 6 /\ it.at = <<b, i>>
        BY <2>2, <3>1, <3>6
      <4>2. q \in 1 .. 5
        BY <2>5, <4>1
      <4>3. key <= top /\ (key = top => q = 5) /\ (key = top - 1 => q = 4)
        BY <1>1, <4>1, <4>2 DEF top
      <4> QED
        BY <2>3, <2>4, <2>7, <3>3, <4>1, <4>3 DEF key
    <3> QED
      BY <3>4, <3>5, <3>6
  <2> QED
    BY <2>6, <2>7
<1>6. top \in Int
  BY <1>1
<1> HIDE DEF top
<1>7. Top(f, b, i, top)
  BY <1>3, <1>4, <1>5 DEF Top
<1> QED
  BY <1>6, <1>7

\* The end of a block that returns.
EndsWith(s, place) ==
  /\ Len(s) >= 3 /\ s[Len(s)].kind = "inst" /\ s[Len(s)].at = place
  /\ s[Len(s) - 1].kind = "status" /\ s[Len(s) - 1].at = place /\ s[Len(s) - 1].opcode = "ret"
  /\ \E h \in 1 .. Len(s) - 2 : s[h].kind = "header" /\ s[h].at = place

LEMMA ReturnFacts ==
  ASSUME NEW f, NEW b, NEW i, NEW top \in Int, Top(f, b, i, top),
         Original(f)[b][i].kind = "inst", Original(f)[b][i].at = <<b, i>>,
         NEW s, Len(s) \in Nat, Sorted(f, s), \A m \in 1 .. Len(s) : Placed(f, b, s[m]),
         \E n \in 1 .. Len(s) : s[n] = Original(f)[b][i],
         \E u \in 1 .. Len(s) : s[u].kind = "status" /\ s[u].at = <<b, i>>,
         \E h \in 1 .. Len(s) : s[h].kind = "header" /\ s[h].at = <<b, i>>
  PROVE  EndsWith(s, <<b, i>>)
<1> DEFINE key(m) == Key(f, s[m])
           L == Len(s)
<1>1. PICK n \in 1 .. L : s[n] = Original(f)[b][i]
  OBVIOUS
<1>2. PICK u \in 1 .. L : s[u].kind = "status" /\ s[u].at = <<b, i>>
  OBVIOUS
<1>3. PICK h \in 1 .. L : s[h].kind = "header" /\ s[h].at = <<b, i>>
  OBVIOUS
<1>4. key(n) = top /\ key(u) = top - 1 /\ ~Single(s[u]) /\ key(h) = top - 4
  BY <1>1, <1>2, <1>3 DEF Top
<1>5. \A m \in 1 .. L : /\ key(m) \in Int /\ key(m) <= top
                        /\ key(m) = top => Single(s[m])
                        /\ key(m) = top - 1 =>
                             s[m].kind = "status" /\ s[m].at = <<b, i>> /\ s[m].opcode = "ret"
  BY DEF Top
<1>6. \A x, y \in 1 .. L : x < y =>
         key(x) < key(y) \/ (key(x) = key(y) /\ ~Single(s[x]))
  BY DEF Sorted, Precedes
<1>7. L \in Nat
  OBVIOUS
<1> HIDE DEF key, L
<1>8. n = L
  <2> SUFFICES ASSUME n < L PROVE FALSE
    BY <1>7
  <2>1. L \in 1 .. L
    BY <1>7
  <2>2. key(n) < key(L) \/ (key(n) = key(L) /\ ~Single(s[n]))
    BY <1>6, <2>1
  <2>3. key(L) \in Int /\ key(L) <= top /\ (key(n) = top => Single(s[n]))
    BY <1>5, <2>1
  <2> QED
    BY <1>4, <2>2, <2>3
<1>9. h < u
  <2>1. u < h => key(u) < key(h) \/ key(u) = key(h)
    BY <1>6
  <2>2. ~(u < h) /\ u # h
    BY <1>4, <2>1
  <2> QED
    BY <1>7, <2>2
<1>10. u < n
  <2>1. n < u => key(n) < key(u) \/ key(n) = key(u)
    BY <1>6
  <2>2. ~(n < u) /\ u # n
    BY <1>4, <2>1
  <2> QED
    BY <1>7, <2>2
<1>11. /\ L >= 3 /\ h \in 1 .. L - 2 /\ L - 1 \in 1 .. L /\ L \in 1 .. L /\ L - 1 < L
       /\ u # L - 1 => u < L - 1
  BY <1>7, <1>8, <1>9, <1>10
<1> DEFINE m == L - 1
<1>12. m \in 1 .. L /\ m < L
  BY <1>11
<1> HIDE DEF m
<1>13. key(m) = top - 1
  <2>1. CASE u = m
    BY <1>4, <2>1
  <2>2. CASE u # m
    <3>1. key(u) < key(m) \/ key(u) = key(m)
      BY <1>6, <1>11, <1>12, <2>2 DEF m
    <3>2. key(m) < key(L) \/ (key(m) = key(L) /\ ~Single(s[m]))
      BY <1>6, <1>11, <1>12
    <3>3. key(m) \in Int /\ (key(m) = top => Single(s[m]))
      BY <1>5, <1>12
    <3> QED
      BY <1>4, <1>8, <3>1, <3>2, <3>3
  <2> QED
    BY <2>1, <2>2
<1>14. s[m].kind = "status" /\ s[m].at = <<b, i>> /\ s[m].opcode = "ret"
  BY <1>5, <1>12, <1>13
<1> QED
  BY <1>1, <1>3, <1>8, <1>11, <1>14 DEF m, L, EndsWith

\* In top-level mode every function of the workload except main begins by switching
\* the tracer on, and updates it last of all before every return.
THEOREM SwitchCorrect == Spec => []EveryPathSwitches
<1>1. PassInv => EveryPathSwitches
  <2> SUFFICES ASSUME PassInv, NEW g \in Written, IsC(Functions[g]), is_toplevel_mode,
                      Functions[g].symbol \in tracked_functions \ DOMAIN Special
               PROVE  /\ Functions[g].symbol # MainFn =>
                           \E j \in 1 .. Len(code[g][1]) - 1 :
                             /\ \A i \in 1 .. j - 1 : code[g][1][i].kind = "buffer"
                             /\ code[g][1][j].kind = "status" /\ code[g][1][j].at = NoPlace
                             /\ code[g][1][j + 1].kind = "entry"
                      /\ \A b \in DOMAIN Functions[g].blocks : \A i \in DOMAIN Functions[g].blocks[b] :
                           Functions[g].blocks[b][i].op = "ret" =>
                             LET block == code[g][b]
                                 n == Len(block)
                             IN  /\ n >= 3 /\ block[n].kind = "inst" /\ block[n].at = <<b, i>>
                                 /\ block[n - 1].kind = "status" /\ block[n - 1].at = <<b, i>>
                                 /\ block[n - 1].opcode = "ret"
                                 /\ \E h \in 1 .. n - 2 :
                                      block[h].kind = "header" /\ block[h].at = <<b, i>>
    BY DEF EveryPathSwitches
  <2> DEFINE f == Functions[g]
             one == 1
  <2>1. Switching(f) /\ Visited(f)
    BY DEF Switching, Visited
  <2>2. g \in DOMAIN Functions /\ module \in Modules
    BY DEF Written, PassInv, WalkInv
  <2>3. one \in DOMAIN f.blocks /\ one = 1 /\ Laid(f) /\ DOMAIN f.blocks = Blocks(g)
        /\ Blocks(g) = 1 .. Len(f.blocks)
    <3>1. Laid(f) /\ DOMAIN f.blocks = Blocks(g) /\ Blocks(g) = 1 .. Len(f.blocks)
      BY <2>2, ModuleFacts
    <3> QED
      BY <3>1 DEF Laid
  <2> HIDE DEF one
  <2>4. g < fn
    BY <2>3, WrittenFacts
  <2>5. f.symbol # MainFn => Entered(code[g])
    BY <2>1, <2>2, <2>4 DEF PassInv, SwitchInv
  <2>6. \A b \in Blocks(g) : Returns(f, code[g], b)
    BY <2>1, <2>2, <2>4 DEF PassInv, SwitchInv
  <2>7. ASSUME NEW b \in DOMAIN f.blocks
        PROVE  /\ Len(code[g][b]) \in Nat /\ Sorted(f, code[g][b])
               /\ \A m \in 1 .. Len(code[g][b]) : Placed(f, b, code[g][b][m])
               /\ \A it \in ToSet(code[g][b]) : \E m \in 1 .. Len(code[g][b]) : it = code[g][b][m]
               /\ ToSet(Original(f)[b]) \subseteq ToSet(code[g][b])
    <3>1. ToSet(Original(f)[b]) \subseteq ToSet(code[g][b])
      BY <2>2, <2>3 DEF PassInv, LayoutInv
    <3> QED
      BY <2>3, <3>1, WrittenFacts
  <2>8. ASSUME f.symbol # MainFn
        PROVE  \E j \in 1 .. Len(code[g][1]) - 1 :
                 /\ \A i \in 1 .. j - 1 : code[g][1][i].kind = "buffer"
                 /\ code[g][1][j].kind = "status" /\ code[g][1][j].at = NoPlace
                 /\ code[g][1][j + 1].kind = "entry"
    <3> DEFINE s == code[g][1]
    <3>1. /\ Len(s) \in Nat /\ Sorted(f, s) /\ \A m \in 1 .. Len(s) : Placed(f, 1, s[m])
          /\ \A it \in ToSet(s) : \E m \in 1 .. Len(s) : it = s[m]
      BY <2>3, <2>7
    <3>2. /\ \E x \in ToSet(s) : x.kind = "status" /\ x.at = NoPlace
          /\ \E x \in ToSet(s) : x.kind = "entry" /\ x.at = NoPlace
      BY <2>5, <2>8 DEF Entered, HasHook
    <3> HIDE DEF s
    <3>3. PICK j \in 1 .. Len(s) : s[j].kind = "status" /\ s[j].at = NoPlace
      BY <3>1, <3>2
    <3>4. PICK e \in 1 .. Len(s) : s[e].kind = "entry" /\ s[e].at = NoPlace
      BY <3>1, <3>2
    <3> HIDE DEF f
    <3>5. j \in 1 .. Len(s) - 1 /\ e = j + 1 /\ \A i \in 1 .. j - 1 : s[i].kind = "buffer"
      BY <2>3, <3>1, <3>3, <3>4, EnteredFacts
    <3> QED
      BY <3>3, <3>4, <3>5 DEF s
  <2>9. ASSUME NEW b \in DOMAIN f.blocks, NEW i \in DOMAIN f.blocks[b], f.blocks[b][i].op = "ret"
        PROVE  LET block == code[g][b]
                   n == Len(block)
               IN  /\ n >= 3 /\ block[n].kind = "inst" /\ block[n].at = <<b, i>>
                   /\ block[n - 1].kind = "status" /\ block[n - 1].at = <<b, i>>
                   /\ block[n - 1].opcode = "ret"
                   /\ \E h \in 1 .. n - 2 : block[h].kind = "header" /\ block[h].at = <<b, i>>
    <3> DEFINE s == code[g][b]
    <3>1. /\ Len(s) \in Nat /\ Sorted(f, s) /\ \A m \in 1 .. Len(s) : Placed(f, b, s[m])
          /\ \A it \in ToSet(s) : \E m \in 1 .. Len(s) : it = s[m]
          /\ ToSet(Original(f)[b]) \subseteq ToSet(s)
      BY <2>7
    <3>2. b \in 1 .. Len(f.blocks) /\ b \in Blocks(g) /\ i \in 1 .. Len(f.blocks[b])
      BY <2>3 DEF Laid
    <3>3. /\ \E x \in ToSet(s) : x.kind = "header" /\ x.at = <<b, i>>
          /\ \E x \in ToSet(s) : x.kind = "status" /\ x.at = <<b, i>>
      BY <2>6, <2>9, <3>2 DEF Returns, HasHook
    <3> HIDE DEF s, f
    <3>4. Original(f)[b][i] \in ToSet(Original(f)[b])
      <4> DEFINE o == Original(f)[b]
      <4>1. IsSequence(o) /\ Len(o) = Len(f.blocks[b])
        BY <2>3, <3>2, OriginalFacts
      <4> HIDE DEF o
      <4>2. o[i] \in ToSet(o)
        BY <3>2, <4>1, SeqFacts
      <4> QED
        BY <4>2 DEF o
    <3>5. /\ \E n \in 1 .. Len(s) : s[n] = Original(f)[b][i]
          /\ \E u \in 1 .. Len(s) : s[u].kind = "status" /\ s[u].at = <<b, i>>
          /\ \E h \in 1 .. Len(s) : s[h].kind = "header" /\ s[h].at = <<b, i>>
      BY <3>1, <3>3, <3>4
    <3>6. f.blocks[b][i].op = "ret"
      BY <2>9
    <3>7. EndsWith(s, <<b, i>>)
      <4>1. PICK top \in Int : Top(f, b, i, top)
        BY <2>3, <3>2, <3>6, TopFacts
      <4>2. Original(f)[b][i].kind = "inst" /\ Original(f)[b][i].at = <<b, i>>
        BY <2>3, <3>2, OriginalFacts
      <4>3. Len(s) \in Nat /\ Sorted(f, s) /\ \A m \in 1 .. Len(s) : Placed(f, b, s[m])
        BY <3>1
      <4> QED
        BY <3>5, <4>1, <4>2, <4>3, ReturnFacts
    <3> QED
      BY <3>7 DEF s, EndsWith
  <2> QED
    BY <2>8, <2>9
<1> QED
  BY <1>1, PassInvariant, PTL

\* Instructions stand in the order of their keys.
LEMMA InstOrder ==
  ASSUME NEW f, Laid(f), NEW b \in 1 .. Len(f.blocks),
         NEW x, Placed(f, b, x), x.kind = "inst", NEW y, Placed(f, b, y), y.kind = "inst",
         Key(f, x) < Key(f, y)
  PROVE  x.at[2] < y.at[2]
<1> DEFINE N == Len(f.blocks[b])
           phi(j) == f.blocks[b][j].op = "phi"
<1>1. /\ N \in Nat \ {0}
      /\ \A j \in 1 .. N : phi(j) => \A k \in 1 .. j : phi(k)
  BY DEF Laid
<1>2. ASSUME NEW it, Placed(f, b, it), it.kind = "inst"
      PROVE  \E j \in 1 .. N : /\ it.at[2] = j
                               /\ phi(j) => Key(f, it) = j - N
                               /\ ~phi(j) => Key(f, it) = 7 * j + 5
  <2>1. it.at # NoPlace
    BY <1>2, SpotFacts
  <2>2. PICK j \in 1 .. N : Spot(f, b, it, j)
    BY <1>2, <2>1, SpotFacts
  <2>3. Rank[it.kind] = 5
    BY <1>2 DEF Rank
  <2> QED
    BY <1>2, <2>2, <2>3 DEF Spot
<1>3. PICK i \in 1 .. N : /\ x.at[2] = i
                          /\ phi(i) => Key(f, x) = i - N
                          /\ ~phi(i) => Key(f, x) = 7 * i + 5
  BY <1>2
<1>4. PICK j \in 1 .. N : /\ y.at[2] = j
                          /\ phi(j) => Key(f, y) = j - N
                          /\ ~phi(j) => Key(f, y) = 7 * j + 5
  BY <1>2
<1> DEFINE p == Key(f, x)
           q == Key(f, y)
<1>5. /\ p < q
      /\ phi(i) => p = i - N
      /\ ~phi(i) => p = 7 * i + 5
      /\ phi(j) => q = j - N
      /\ ~phi(j) => q = 7 * j + 5
  BY <1>3, <1>4
<1> HIDE DEF N, phi, p, q
<1>6. i < j
  <2> SUFFICES ASSUME j <= i PROVE FALSE
    BY <1>1, <1>3, <1>4
  <2>1. i \in Nat \ {0} /\ j \in Nat \ {0} /\ i <= N /\ j <= N /\ j \in 1 .. i
    BY <1>1
  <2>2. phi(i) => phi(j)
    BY <1>1, <2>1
  <2>3. CASE phi(j) /\ ~phi(i)
    BY <1>1, <1>5, <2>1, <2>3
  <2>4. CASE phi(j) /\ phi(i)
    BY <1>1, <1>5, <2>1, <2>4
  <2>5. CASE ~phi(j)
    BY <1>1, <1>5, <2>1, <2>2, <2>5
  <2> QED
    BY <2>3, <2>4, <2>5
<1> QED
  BY <1>3, <1>4, <1>6

\* Nothing but phi nodes precedes a phi node.
LEMMA PhiFirst ==
  ASSUME NEW f, Laid(f), NEW b \in 1 .. Len(f.blocks),
         NEW x, Placed(f, b, x), NEW y, Placed(f, b, y), y.kind = "inst",
         f.blocks[y.at[1]][y.at[2]].op = "phi", Key(f, x) <= Key(f, y)
  PROVE  x.kind = "inst"
<1> DEFINE N == Len(f.blocks[b])
           p == Key(f, x)
           q == Rank[x.kind]
<1>1. N \in Nat \ {0} /\ p \in Int
  BY SpotFacts DEF Laid
<1>2. p < 0
  <2>1. y.at # NoPlace
    BY SpotFacts
  <2>2. PICK j \in 1 .. N : Spot(f, b, y, j)
    BY <2>1, SpotFacts
  <2>3. y.at[1] = b /\ y.at[2] = j
    BY <2>2 DEF Spot
  <2>4. f.blocks[b][j].op = "phi"
    BY <2>3
  <2>5. j < N
    BY <2>4 DEF Laid
  <2>6. Key(f, y) = j - N
    BY <2>2, <2>4 DEF Spot
  <2>7. p <= j - N
    BY <2>6
  <2> HIDE DEF N, p
  <2> QED
    BY <1>1, <2>5, <2>7
<1>3. /\ x.at = NoPlace => p \in 0 .. 3
      /\ x.at # NoPlace => \E j \in 1 .. N : Spot(f, b, x, j)
  BY SpotFacts
<1>4. ASSUME NEW j \in 1 .. N, Spot(f, b, x, j), x.kind # "inst"
      PROVE  p = 7 \/ (p = 7 * j + q /\ q \in 1 .. 6)
  BY <1>4 DEF Spot
<1> HIDE DEF N, p, q
<1> SUFFICES ASSUME x.kind # "inst" PROVE FALSE
  OBVIOUS
<1>5. x.at # NoPlace
  BY <1>2, <1>3
<1>6. PICK j \in 1 .. N : p = 7 \/ (p = 7 * j + q /\ q \in 1 .. 6)
  BY <1>3, <1>4, <1>5
<1>7. j \in Nat
  BY <1>1
<1> QED
  BY <1>2, <1>6, <1>7

\* What stands between two items of an instruction belongs to it.
LEMMA Together ==
  ASSUME NEW f, Laid(f), NEW b \in 1 .. Len(f.blocks),
         NEW x, Placed(f, b, x), NEW y, Placed(f, b, y), NEW z, Placed(f, b, z),
         x.at # NoPlace, f.blocks[x.at[1]][x.at[2]].op # "phi", z.at = x.at,
         Key(f, x) <= Key(f, y), Key(f, y) <= Key(f, z)
  PROVE  y.at = x.at /\ Rank[x.kind] <= Rank[y.kind]
<1> DEFINE N == Len(f.blocks[b])
           p == Key(f, x)
           q == Key(f, y)
           o == Key(f, z)
           r == Rank[x.kind]
           t == Rank[y.kind]
           u == Rank[z.kind]
<1>1. N \in Nat \ {0} /\ p \in Int /\ q \in Int /\ o \in Int /\ p <= q /\ q <= o
  BY SpotFacts DEF Laid
<1>2. PICK i \in 1 .. N : Spot(f, b, x, i)
  BY SpotFacts
<1>3. x.at = <<b, i>> /\ f.blocks[b][i].op # "phi"
  BY <1>2 DEF Spot
<1>4. p = 7 * i + r /\ r \in 1 .. 6
  BY <1>2, <1>3 DEF Spot
<1>5. o = 7 * i + u /\ u \in 1 .. 6
  <2>1. PICK k \in 1 .. N : Spot(f, b, z, k)
    BY SpotFacts
  <2>2. k = i
    BY <1>2, <2>1 DEF Spot
  <2> QED
    BY <1>3, <2>1, <2>2 DEF Spot
<1>6. /\ y.at = NoPlace => q \in 0 .. 3
      /\ y.at # NoPlace => \E j \in 1 .. N : Spot(f, b, y, j)
  BY SpotFacts
<1>7. ASSUME NEW j \in 1 .. N, Spot(f, b, y, j)
      PROVE  /\ y.at = <<b, j>>
             /\ q = j - N \/ q = 7 \/ (q = 7 * j + t /\ t \in 1 .. 6)
  BY <1>7 DEF Spot
<1> HIDE DEF N, p, q, o, r, t, u
<1>8. i \in Nat \ {0} /\ q > 7
  BY <1>1, <1>4
<1>9. PICK j \in 1 .. N : Spot(f, b, y, j)
  BY <1>6, <1>8
<1>10. j \in Nat \ {0} /\ j - N <= 0
  BY <1>1
<1>11. q = 7 * j + t /\ t \in 1 .. 6
  BY <1>1, <1>7, <1>8, <1>9, <1>10
<1>12. i = j /\ r <= t
  BY <1>1, <1>4, <1>5, <1>8, <1>10, <1>11
<1> QED
  BY <1>3, <1>7, <1>9, <1>12 DEF r, t

\* The items of one block.
AroundIn(f, b, s) ==
  LET insts == {j \in DOMAIN s : s[j].kind = "inst"}
      phi(it) == it.at # NoPlace /\ f.blocks[it.at[1]][it.at[2]].op = "phi"
  IN  /\ {s[j] : j \in insts} = ToSet(Original(f)[b])
      /\ \A i, j \in insts : i < j => s[i].at[2] < s[j].at[2]
      /\ \A j \in DOMAIN s :
           IF phi(s[j]) THEN s[j].kind = "inst" => \A i \in 1 .. j : i \in insts
           ELSE s[j].at # NoPlace /\ j < Len(s) =>
                  \/ s[j + 1].at = s[j].at /\ Rank[s[j].kind] <= Rank[s[j + 1].kind]
                  \/ \A k \in j + 1 .. Len(s) : s[k].at # s[j].at

LEMMA BlockAround ==
  ASSUME NEW f, Laid(f), NEW b \in 1 .. Len(f.blocks), NEW s, Len(s) \in Nat, DOMAIN s = 1 .. Len(s),
         Sorted(f, s), \A m \in 1 .. Len(s) : Placed(f, b, s[m]),
         \A it \in ToSet(s) : \E m \in 1 .. Len(s) : it = s[m],
         ToSet(Original(f)[b]) \subseteq ToSet(s)
  PROVE  AroundIn(f, b, s)
<1> DEFINE insts == {j \in 1 .. Len(s) : s[j].kind = "inst"}
           phi(it) == it.at # NoPlace /\ f.blocks[it.at[1]][it.at[2]].op = "phi"
           L == Len(s)
<1>1. /\ L \in Nat /\ \A m \in 1 .. L : Placed(f, b, s[m])
      /\ \A x, y \in 1 .. L : x < y =>
           Key(f, s[x]) < Key(f, s[y]) \/ (Key(f, s[x]) = Key(f, s[y]) /\ ~Single(s[x]))
  BY DEF Sorted, Precedes
<1>2. \A m \in 1 .. L : Key(f, s[m]) \in Int
  BY <1>1, SpotFacts
<1>3. \A x, y \in 1 .. L : x <= y => Key(f, s[x]) <= Key(f, s[y])
  <2> SUFFICES ASSUME NEW x \in 1 .. L, NEW y \in 1 .. L, x <= y
               PROVE  Key(f, s[x]) <= Key(f, s[y])
    OBVIOUS
  <2> DEFINE p == Key(f, s[x])
             q == Key(f, s[y])
  <2>1. p \in Int /\ q \in Int /\ (x < y => p < q \/ p = q) /\ (x = y => p = q)
    BY <1>1, <1>2
  <2> HIDE DEF p, q
  <2>2. p <= q
    BY <1>1, <2>1
  <2> QED
    BY <2>2 DEF p, q
<1>4. {s[j] : j \in insts} = ToSet(Original(f)[b])
  <2>1. ASSUME NEW j \in insts PROVE s[j] \in ToSet(Original(f)[b])
    <3>1. j \in 1 .. L /\ s[j].kind = "inst"
      OBVIOUS
    <3>2. s[j].at # NoPlace
      BY <1>1, <3>1, SpotFacts
    <3>3. PICK i \in 1 .. Len(f.blocks[b]) : Spot(f, b, s[j], i)
      BY <1>1, <3>1, <3>2, SpotFacts
    <3>4. s[j] = Original(f)[b][i]
      BY <3>1, <3>3 DEF Spot
    <3> DEFINE o == Original(f)[b]
    <3>5. IsSequence(o) /\ Len(o) = Len(f.blocks[b])
      BY OriginalFacts
    <3> HIDE DEF o
    <3>6. o[i] \in ToSet(o)
      BY <3>5, SeqFacts
    <3> QED
      BY <3>4, <3>6 DEF o
  <2>2. ASSUME NEW it \in ToSet(Original(f)[b]) PROVE \E j \in insts : it = s[j]
    <3>1. PICK m \in 1 .. L : it = s[m]
      OBVIOUS
    <3>2. it.kind = "inst"
      BY NoHooks
    <3> QED
      BY <3>1, <3>2
  <2> QED
    BY <2>1, <2>2
<1>5. ASSUME NEW i \in insts, NEW j \in insts, i < j PROVE s[i].at[2] < s[j].at[2]
  <2>1. i \in 1 .. L /\ j \in 1 .. L /\ s[i].kind = "inst" /\ s[j].kind = "inst"
    OBVIOUS
  <2>2. Single(s[i])
    BY <2>1 DEF Single
  <2>3. Key(f, s[i]) < Key(f, s[j])
    BY <1>1, <1>5, <2>1, <2>2
  <2> DEFINE x == s[i]
             y == s[j]
  <2>4. /\ Placed(f, b, x) /\ x.kind = "inst" /\ Placed(f, b, y) /\ y.kind = "inst"
        /\ Key(f, x) < Key(f, y)
    BY <1>1, <2>1, <2>3
  <2> HIDE DEF x, y
  <2>5. x.at[2] < y.at[2]
    BY <2>4, InstOrder
  <2> QED
    BY <2>5 DEF x, y
<1>6. ASSUME NEW j \in 1 .. L, phi(s[j]), s[j].kind = "inst", NEW i \in 1 .. j PROVE i \in insts
  <2>1. i \in 1 .. L /\ i <= j
    BY <1>1
  <2> DEFINE x == s[i]
             y == s[j]
  <2>2. /\ Placed(f, b, x) /\ Placed(f, b, y) /\ y.kind = "inst" /\ Key(f, x) <= Key(f, y)
        /\ f.blocks[y.at[1]][y.at[2]].op = "phi"
    BY <1>1, <1>3, <1>6, <2>1
  <2> HIDE DEF x, y
  <2>3. x.kind = "inst"
    BY <2>2, PhiFirst
  <2> QED
    BY <2>1, <2>3 DEF x
<1>7. ASSUME NEW j \in 1 .. L, ~phi(s[j]), s[j].at # NoPlace, j < L,
             NEW k \in j + 1 .. L, s[k].at = s[j].at
      PROVE  s[j + 1].at = s[j].at /\ Rank[s[j].kind] <= Rank[s[j + 1].kind]
  <2>1. /\ j + 1 \in 1 .. L /\ j <= j + 1 /\ k \in 1 .. L /\ j + 1 <= k
    BY <1>1, <1>7
  <2> DEFINE x == s[j]
             y == s[j + 1]
             z == s[k]
  <2>2. /\ Placed(f, b, x) /\ Placed(f, b, y) /\ Placed(f, b, z)
    BY <1>1, <2>1
  <2>3. Key(f, x) <= Key(f, y) /\ Key(f, y) <= Key(f, z)
    BY <1>3, <2>1
  <2>4. x.at # NoPlace /\ f.blocks[x.at[1]][x.at[2]].op # "phi" /\ z.at = x.at
    BY <1>7
  <2> HIDE DEF x, y, z
  <2>5. y.at = x.at /\ Rank[x.kind] <= Rank[y.kind]
    BY <2>2, <2>3, <2>4, Together
  <2> QED
    BY <2>5 DEF x, y
<1> HIDE DEF phi, insts
<1>8. \A j \in 1 .. L :
        IF phi(s[j]) THEN s[j].kind = "inst" => \A i \in 1 .. j : i \in insts
        ELSE s[j].at # NoPlace /\ j < L =>
               \/ s[j + 1].at = s[j].at /\ Rank[s[j].kind] <= Rank[s[j + 1].kind]
               \/ \A k \in j + 1 .. L : s[k].at # s[j].at
  BY <1>6, <1>7
<1>9. \A i, j \in insts : i < j => s[i].at[2] < s[j].at[2]
  BY <1>5
<1>10. DOMAIN s = 1 .. L
  OBVIOUS
<1> QED
  BY <1>4, <1>8, <1>9, <1>10 DEF AroundIn, insts, phi

\* The program is still there, in order, and the hooks of an instruction come together
\* around it, those of the phi nodes of a block behind all of its phi nodes.
THEOREM AroundCorrect == Spec => []HooksAround
<1>1. PassInv => HooksAround
  <2> SUFFICES ASSUME PassInv PROVE HooksAround
    OBVIOUS
  <2>1. ASSUME NEW g \in Written, NEW b \in DOMAIN Functions[g].blocks
        PROVE  AroundIn(Functions[g], b, code[g][b])
    <3> DEFINE f == Functions[g]
               s == code[g][b]
    <3>1. /\ g \in DOMAIN Functions /\ b \in Blocks(g)
          /\ Laid(f) /\ b \in 1 .. Len(f.blocks)
      BY WrittenFacts
    <3>2. /\ Len(s) \in Nat /\ DOMAIN s = 1 .. Len(s) /\ Sorted(f, s)
          /\ \A m \in 1 .. Len(s) : Placed(f, b, s[m])
          /\ \A it \in ToSet(s) : \E m \in 1 .. Len(s) : it = s[m]
      BY <3>1, WrittenFacts
    <3>3. ToSet(Original(f)[b]) \subseteq ToSet(s)
      BY <3>1 DEF PassInv, LayoutInv
    <3> HIDE DEF f, s
    <3>4. AroundIn(f, b, s)
      BY <3>1, <3>2, <3>3, BlockAround
    <3> QED
      BY <3>4 DEF f, s
  <2>2. \A g \in Written : \A b \in DOMAIN Functions[g].blocks : AroundIn(Functions[g], b, code[g][b])
    BY <2>1
  <2> QED
    BY ONLY <2>2, Zenon DEF HooksAround, AroundIn, IsPhi, InstOf
<1> QED
  BY <1>1, PassInvariant, PTL
----------------------------------------------------------------------------
(* What is in a hook.                                                      *)

\* The opcode that the header of an instruction of function f shows.
opcodeIn(f, inst) ==
  LET op == IF inst.op = "call" THEN callOpcode(inst.callee) ELSE inst.op
  IN  IF f.fxp # "none" THEN opcodeToFixedPoint(op) ELSE op

\* What a line of function f was made from: a value that can be passed, a string
\* constant, an operand of an intrinsic.
GivenIn(f, h) == h.kind = "param" => Given(f.blocks[h.at[1]][h.at[2]], h.operand)
LiteralIn(h) == h.kind = "param" /\ h.operand.kind \in StringKinds
IntrinsicIn(f, h) ==
  h.kind \in {"callee", "param"} /\ ForIntrinsic(f.blocks[h.at[1]][h.at[2]])

IsLine(f, h) ==
  /\ Supported(h.type) /\ h.size = getMemSize(h.type)
  /\ h.given = passed(h.type, GivenIn(f, h), IntrinsicIn(f, h))
  /\ h.fn = logFunction(h.type, GivenIn(f, h), LiteralIn(h), IntrinsicIn(f, h))
  /\ h.fn # "none"
  /\ LiteralIn(h) => h.type.id = "Pointer"
  /\ h.kind # "param" => h.operand = NoOperand

Carries(f, h) ==
  /\ h.kind = "header" => h.opcode = opcodeIn(f, f.blocks[h.at[1]][h.at[2]])
  /\ IF h.kind \in LineKinds THEN IsLine(f, h) ELSE h.fn = "none"

\* A vector, and the buffer it is passed in.
Storable(type) == IsVector(type) /\ Supported(type)
Stored(h) ==
  h.fn = "trace_logger_log_vector" =>
    /\ Storable(h.type) /\ Storable(h.buffer.type)
    /\ createVecBufKey(h.buffer.type) = createVecBufKey(h.type)

\* Every hook is what its instruction and the types of its operands call for.
HookInv ==
  /\ \A x \in ToSet(vector_buffers) : Storable(x.type)
  /\ \A g \in DOMAIN Functions : \A b \in Blocks(g) : \A h \in ToSet(code[g][b]) :
       IsHook(h) => Carries(Functions[g], h) /\ Stored(h)

LEMMA PointerLog ==
  ASSUME NEW type, type.id = "Pointer", NEW intrinsic
  PROVE  logFunction(type, TRUE, FALSE, intrinsic) = "trace_logger_log_ptr"
<1>1. type.id # "Integer" /\ type.id \notin FloatingPoint
  BY DEF FloatingPoint
<1> QED
  BY <1>1 DEF logFunction, IsVector

LEMMA HookCarries ==
  ASSUME module \in Modules, fn \in DOMAIN Functions, NEW b, NEW i, IsPlace(b, i),
         NEW h, HookOf(<<b, i>>, h)
  PROVE  Carries(Function, h)
<1> DEFINE f == Function
           p == <<b, i>>
           inst == Inst(p)
<1>1. /\ b \in Nat \ {0} /\ p[1] = b /\ p[2] = i /\ inst = f.blocks[b][i]
      /\ IsSequence(inst.operands) /\ InstOK(module, f, b, i)
  BY PlaceFacts, SomePlace
<1>2. /\ Supported(inst.type)
      /\ \A j \in 1 .. Len(inst.operands) :
           /\ Supported(inst.operands[j].type)
           /\ inst.operands[j].kind \in StringKinds => inst.operands[j].type.id = "Pointer"
  <2>1. Supported(inst.type) /\ \A o \in ToSet(inst.operands) : OperandOK(f, b, i, o)
    BY <1>1 DEF InstOK
  <2>2. \A j \in 1 .. Len(inst.operands) : OperandOK(f, b, i, inst.operands[j])
    BY <1>1, <2>1, SeqFacts
  <2>3. ASSUME NEW o, OperandOK(f, b, i, o)
        PROVE  Supported(o.type) /\ (o.kind \in StringKinds => o.type.id = "Pointer")
    BY <2>3 DEF OperandOK
  <2> QED
    BY <2>1, <2>2, <2>3
<1>3. CASE h = HeaderItem(p)
  <2>1. h.kind = "header" /\ h.at = p /\ h.opcode = opcode(inst) /\ h.fn = "none"
    BY <1>3 DEF HeaderItem, Item
  <2>2. opcode(inst) = opcodeIn(f, inst)
    BY DEF opcode, opcodeIn
  <2> HIDE DEF p
  <2> QED
    BY <1>1, <2>1, <2>2 DEF Carries, LineKinds
<1>4. CASE h = StatusItem(p)
  <2>1. h.kind = "status" /\ h.fn = "none"
    BY <1>4 DEF StatusItem, Item
  <2> QED
    BY <2>1 DEF Carries, LineKinds
<1>5. CASE h = CalleeLine(p)
  <2>1. /\ h.kind = "callee" /\ h.at = p /\ h.type = Pointer("function")
        /\ h.size = getMemSize(h.type) /\ h.given = passed(h.type, TRUE, ForIntrinsic(inst))
        /\ h.fn = logFunction(h.type, TRUE, FALSE, ForIntrinsic(inst)) /\ h.operand = NoOperand
    BY <1>5, CalleeFields
  <2>2. Supported(h.type) /\ h.type.id = "Pointer"
    <3> DEFINE t == Pointer("function")
    <3>1. t.id = "Pointer" /\ t.to = "function"
      BY DEF Pointer
    <3>2. t = Pointer(t.to)
      BY <3>1
    <3> HIDE DEF t
    <3>3. Supported(t)
      BY <3>1, <3>2 DEF Supported, IsMember, IsScalar
    <3> QED
      BY <2>1, <3>1, <3>3 DEF t
  <2>3. h.fn = "trace_logger_log_ptr"
    BY <2>1, <2>2, PointerLog
  <2>4. GivenIn(f, h) = TRUE /\ LiteralIn(h) = FALSE
    BY <2>1 DEF GivenIn, LiteralIn
  <2> HIDE DEF p
  <2>5. IntrinsicIn(f, h) = ForIntrinsic(inst)
    BY <1>1, <2>1 DEF IntrinsicIn, ForIntrinsic
  <2>6. IsLine(f, h)
    BY <2>1, <2>2, <2>3, <2>4, <2>5 DEF IsLine
  <2> QED
    BY <2>1, <2>6 DEF Carries, LineKinds
<1>6. CASE \E j \in 1 .. Len(inst.operands) : h = ParamLine(p, j) /\ h.fn # "none"
  <2>1. PICK j \in 1 .. Len(inst.operands) : h = ParamLine(p, j) /\ h.fn # "none"
    BY <1>6
  <2> DEFINE o == inst.operands[j]
  <2>2. /\ h.kind = "param" /\ h.at = p /\ h.type = o.type /\ h.size = getMemSize(o.type)
        /\ h.given = passed(o.type, Given(inst, o), ForIntrinsic(inst))
        /\ h.fn = logFunction(o.type, Given(inst, o), o.kind \in StringKinds, ForIntrinsic(inst))
        /\ h.operand = o
    BY <2>1, ParamFields
  <2>3. Supported(o.type) /\ (o.kind \in StringKinds => o.type.id = "Pointer")
    BY <1>2
  <2> HIDE DEF p, o
  <2>4. GivenIn(f, h) = Given(inst, o) /\ LiteralIn(h) = (o.kind \in StringKinds)
    BY <1>1, <2>2 DEF GivenIn, LiteralIn, Given
  <2>5. IntrinsicIn(f, h) = ForIntrinsic(inst)
    BY <1>1, <2>2 DEF IntrinsicIn, ForIntrinsic
  <2>6. IsLine(f, h)
    BY <2>1, <2>2, <2>3, <2>4, <2>5 DEF IsLine
  <2> QED
    BY <2>2, <2>6 DEF Carries, LineKinds
<1>7. CASE h = ResultLine(p) /\ h.fn # "none"
  <2>1. /\ h.kind = "result" /\ h.at = p /\ h.type = inst.type
        /\ h.size = getMemSize(h.type) /\ h.given = passed(h.type, TRUE, FALSE)
        /\ h.fn = logFunction(h.type, TRUE, FALSE, FALSE) /\ h.operand = NoOperand
    BY <1>7, ResultFields
  <2>2. GivenIn(f, h) = TRUE /\ LiteralIn(h) = FALSE /\ IntrinsicIn(f, h) = FALSE
    BY <2>1 DEF GivenIn, LiteralIn, IntrinsicIn
  <2>3. Supported(h.type)
    BY <1>2, <2>1
  <2>4. IsLine(f, h)
    BY <1>7, <2>1, <2>2, <2>3 DEF IsLine
  <2> QED
    BY <2>1, <2>4 DEF Carries, LineKinds
<1> HIDE DEF f
<1> QED
  BY <1>3, <1>4, <1>5, <1>6, <1>7 DEF HookOf, f

LEMMA EntryCarries ==
  ASSUME module \in Modules, fn \in DOMAIN Functions, NEW h, HookAtEntry(h)
  PROVE  Carries(Function, h)
<1>1. CASE h \in {SwitchItem, EntryItem}
  <2>1. h.kind \in {"status", "entry"} /\ h.fn = "none"
    BY <1>1 DEF SwitchItem, EntryItem, Item
  <2> QED
    BY <2>1 DEF Carries, LineKinds
<1>2. CASE \E j \in DOMAIN Function.args : h = ArgLine(j) /\ h.fn # "none"
  <2>1. PICK j \in DOMAIN Function.args : h = ArgLine(j) /\ h.fn # "none"
    BY <1>2
  <2>2. /\ h.kind = "arg" /\ h.type = Function.args[j].type
        /\ h.size = getMemSize(h.type) /\ h.given = passed(h.type, TRUE, FALSE)
        /\ h.fn = logFunction(h.type, TRUE, FALSE, FALSE) /\ h.operand = NoOperand
    BY <2>1, ArgFields
  <2>3. GivenIn(Function, h) = TRUE /\ LiteralIn(h) = FALSE /\ IntrinsicIn(Function, h) = FALSE
    BY <2>2 DEF GivenIn, LiteralIn, IntrinsicIn
  <2>4. Supported(h.type)
    <3>1. Function = Functions[fn]
      BY DEF Function, Functions
    <3> QED
      BY <2>1, <2>2, <3>1, FunctionFacts
  <2>5. IsLine(Function, h)
    BY <2>1, <2>2, <2>3, <2>4 DEF IsLine
  <2> QED
    BY <2>2, <2>5 DEF Carries, LineKinds
<1> QED
  BY <1>1, <1>2 DEF HookAtEntry

\* A hook that uses a buffer passes a vector.
LEMMA VectorLine ==
  ASSUME NEW f, NEW h, Carries(f, h), h.fn = "trace_logger_log_vector"
  PROVE  Storable(h.type)
<1>1. IsLine(f, h)
  BY DEF Carries
<1>2. h.fn = logFunction(h.type, GivenIn(f, h), LiteralIn(h), IntrinsicIn(f, h)) /\ Supported(h.type)
  BY <1>1 DEF IsLine
<1> QED
  BY <1>2 DEF logFunction, Storable

LEMMA PassedCarries ==
  ASSUME NEW f, NEW h, NEW x, NEW buffers, IsItem(h), Passes(h, x, buffers), Carries(f, h),
         \A z \in ToSet(buffers) : Storable(z.type)
  PROVE  Carries(f, x) /\ Stored(x)
<1>1. /\ x.kind = h.kind /\ x.at = h.at /\ x.opcode = h.opcode /\ x.fn = h.fn
      /\ x.type = h.type /\ x.size = h.size /\ x.given = h.given /\ x.operand = h.operand
      /\ x.fn = "trace_logger_log_vector" =>
           x.buffer \in ToSet(buffers)
           /\ createVecBufKey(x.buffer.type) = createVecBufKey(x.type)
  BY PassesFacts
<1>2. /\ GivenIn(f, x) <=> GivenIn(f, h)
      /\ LiteralIn(x) <=> LiteralIn(h)
      /\ IntrinsicIn(f, x) <=> IntrinsicIn(f, h)
  BY <1>1 DEF GivenIn, LiteralIn, IntrinsicIn
<1>3. IsLine(f, h) => IsLine(f, x)
  <2>1. /\ GivenIn(f, x) = GivenIn(f, h)
        /\ LiteralIn(x) = LiteralIn(h)
        /\ IntrinsicIn(f, x) = IntrinsicIn(f, h)
    BY <1>2 DEF GivenIn, LiteralIn, IntrinsicIn
  <2> QED
    BY <1>1, <2>1 DEF IsLine
<1>4. Carries(f, x)
  BY <1>1, <1>3 DEF Carries
<1> QED
  BY <1>1, <1>4, VectorLine DEF Stored

LEMMA InsertedHooks ==
  ASSUME WalkInv, LayoutInv, BufferInv, HookInv, Rewriting, module' = module,
         NEW b \in Blocks(fn), NEW k \in 1 .. Len(code[fn][b]),
         NEW before, NEW after, IsSequence(before), IsSequence(after),
         Insert(b, k, before, after),
         \A h \in ToSet(before) \cup ToSet(after) : IsItem(h) /\ Carries(Function, h)
  PROVE  HookInv'
<1> DEFINE F == Function
           block == code[fn][b]
<1>1. /\ module \in Modules /\ fn \in DOMAIN Functions /\ F = Functions[fn]
      /\ DOMAIN F.blocks = Blocks(fn)
  <2>1. module \in Modules /\ fn \in DOMAIN Functions /\ F = Functions[fn]
    BY DEF WalkInv, Function, Functions
  <2> QED
    BY <2>1, ModuleFacts
<1>2. /\ code = [g \in DOMAIN Functions |-> [c \in DOMAIN Functions[g].blocks |-> code[g][c]]]
      /\ \A g \in DOMAIN Functions : \A c \in Blocks(g) : IsSequence(code[g][c])
  BY DEF LayoutInv
<1>3. IsSequence(vector_buffers)
  BY DEF BufferInv
<1>4. \A g \in DOMAIN Functions \ {fn} : code'[g] = code[g]
  BY <1>1, <1>2, <1>3, InsertFacts
<1>left. PICK a, s, t : Leaves(b, k, before, after, a, s, t)
  BY <1>1, <1>2, <1>3, InsertFacts
<1>5. /\ IsSequence(a) /\ ToSet(a) \subseteq BuffersFor(before \o after)
      /\ vector_buffers' = a \o vector_buffers
      /\ IsSequence(s) /\ Len(s) = Len(before)
      /\ \A i \in 1 .. Len(before) : Passes(before[i], s[i], vector_buffers')
      /\ IsSequence(t) /\ Len(t) = Len(after)
      /\ \A i \in 1 .. Len(after) : Passes(after[i], t[i], vector_buffers')
      /\ \A c \in DOMAIN Functions[fn].blocks :
           code'[fn][c] =
             (IF c = 1 THEN [i \in DOMAIN a |-> Alloca(a[i])] ELSE << >>)
             \o (IF c = b THEN Widened(code[fn][b], k, s, t) ELSE code[fn][c])
  BY <1>left DEF Leaves
<1>hook. /\ \A h \in ToSet(before) : IsItem(h) /\ Carries(F, h)
         /\ \A h \in ToSet(after) : IsItem(h) /\ Carries(F, h)
  OBVIOUS
<1> HIDE DEF F
<1> DEFINE new == Widened(block, k, s, t)
           front == [i \in DOMAIN a |-> Alloca(a[i])]
           pre(c) == IF c = 1 THEN front ELSE << >>
           body(c) == IF c = b THEN new ELSE code[fn][c]
<1>6. \A x \in ToSet(vector_buffers') : Storable(x.type)
  <2>1. ToSet(vector_buffers') = ToSet(a) \cup ToSet(vector_buffers)
    BY <1>3, <1>5, CatFacts
  <2>2. ToSet(before \o after) = ToSet(before) \cup ToSet(after)
    BY CatFacts
  <2>3. ASSUME NEW x \in ToSet(a) PROVE Storable(x.type)
    <3>1. PICK h \in ToSet(before \o after) : h.fn = "trace_logger_log_vector" /\ x = BufferFor(h)
      BY <1>5 DEF BuffersFor
    <3>2. Carries(F, h)
      BY <1>hook, <2>2
    <3>3. Storable(h.type)
      BY <3>1, <3>2, VectorLine
    <3> QED
      BY <3>1, <3>3 DEF BufferFor
  <2> QED
    BY <2>1, <2>3 DEF HookInv
<1>7. /\ \A x \in ToSet(s) : \E h \in ToSet(before) : Passes(h, x, vector_buffers')
      /\ \A x \in ToSet(t) : \E h \in ToSet(after) : Passes(h, x, vector_buffers')
  BY <1>5, <1>hook, PassedSeq
<1>8. \A x \in ToSet(s) \cup ToSet(t) : Carries(F, x) /\ Stored(x)
  BY <1>6, <1>7, <1>hook, PassedCarries
<1>9. IsSequence(new) /\ ToSet(new) = ToSet(block) \cup ToSet(s) \cup ToSet(t)
  <2>1. IsSequence(block) /\ k \in 1 .. Len(block)
    BY <1>1, <1>2
  <2> HIDE DEF block
  <2> QED
    BY <1>5, <2>1, WidenedFacts
<1>10. IsSequence(front) /\ ToSet(front) = {Alloca(x) : x \in ToSet(a)}
  BY <1>5, AllocaSeq
<1> HIDE DEF new, front
<1>11. ASSUME NEW c \in Blocks(fn)
       PROVE  /\ IsSequence(pre(c)) /\ \A it \in ToSet(pre(c)) : ~IsHook(it)
              /\ IsSequence(body(c))
              /\ \A it \in ToSet(body(c)) :
                   it \in ToSet(code[fn][c]) \/ (Carries(F, it) /\ Stored(it))
  <2>1. IsSequence(pre(c)) /\ \A it \in ToSet(pre(c)) : ~IsHook(it)
    <3>1. \A it \in ToSet(front) : ~IsHook(it)
      BY <1>10, AllocaFacts
    <3>2. IsSequence(<< >>) /\ ToSet(<< >>) = {}
      BY EmptyFacts
    <3> QED
      BY <1>10, <3>1, <3>2
  <2>2. IsSequence(code[fn][c])
    BY <1>1, <1>2
  <2>3. CASE c = b
    <3>1. body(c) = new /\ code[fn][c] = block
      BY <2>3
    <3> HIDE DEF body, block
    <3> QED
      BY <1>8, <1>9, <2>1, <3>1
  <2>4. CASE c # b
    <3>1. body(c) = code[fn][c]
      BY <2>4
    <3> QED
      BY <2>1, <2>2, <3>1
  <2> QED
    BY <2>3, <2>4
<1>12. ASSUME NEW c \in Blocks(fn) PROVE code'[fn][c] = pre(c) \o body(c)
  BY <1>1, <1>5 DEF new, front
<1> HIDE DEF pre, body
<1>13. ASSUME NEW c \in Blocks(fn), NEW h \in ToSet(code'[fn][c]), IsHook(h)
       PROVE  h \in ToSet(code[fn][c]) \/ (Carries(F, h) /\ Stored(h))
  <2>1. ToSet(pre(c) \o body(c)) = ToSet(pre(c)) \cup ToSet(body(c))
    BY <1>11, CatFacts
  <2> QED
    BY <1>11, <1>12, <1>13, <2>1
<1>14. ASSUME NEW g \in DOMAIN Functions, NEW c \in Blocks(g), NEW h \in ToSet(code'[g][c]),
              IsHook(h)
       PROVE  Carries(Functions[g], h) /\ Stored(h)
  <2>1. CASE g = fn
    BY <1>1, <1>13, <1>14, <2>1 DEF HookInv
  <2>2. CASE g # fn
    BY <1>4, <1>14, <2>2 DEF HookInv
  <2> QED
    BY <2>1, <2>2
<1>15. Functions' = Functions /\ \A g : Blocks(g)' = Blocks(g)
  BY DEF Functions, Blocks
<1> QED
  BY <1>6, <1>14, <1>15 DEF HookInv

LEMMA SameHooks ==
  ASSUME HookInv, module' = module, code' = code,
         ToSet(vector_buffers') \subseteq ToSet(vector_buffers)
  PROVE  HookInv'
<1>1. Functions' = Functions /\ \A g : Blocks(g)' = Blocks(g)
  BY DEF Functions, Blocks
<1> QED
  BY <1>1 DEF HookInv

LEMMA InitHooks ==
  ASSUME Init
  PROVE  HookInv
<1>1. module \in Modules /\ vector_buffers = << >>
      /\ code = [g \in DOMAIN Functions |-> Original(Functions[g])]
  BY DEF Init, Functions
<1>2. ToSet(vector_buffers) = {}
  BY <1>1, EmptyFacts
<1>3. ASSUME NEW g \in DOMAIN Functions, NEW b \in Blocks(g), NEW h \in ToSet(code[g][b])
      PROVE  ~IsHook(h)
  <2>1. Laid(Functions[g]) /\ b \in 1 .. Len(Functions[g].blocks)
    BY <1>1, ModuleFacts
  <2>2. h \in ToSet(Original(Functions[g])[b])
    BY <1>1
  <2> QED
    BY <2>1, <2>2, NoHooks
<1> QED
  BY <1>2, <1>3 DEF HookInv

LEMMA RunOnBasicBlockHooks ==
  ASSUME PassInv, HookInv, RunOnBasicBlock
  PROVE  HookInv'
<1> DEFINE c == at[1]
           n == Phis(c)
           before == PhiHooks(c, n)
           after == << >>
           k == n + 1
<1>1. /\ pc = "block" /\ c \in DOMAIN Function.blocks
      /\ Insert(c, k, before, after) /\ module' = module /\ Visited(Function)
  BY DEF RunOnBasicBlock, unchangedModule
<1>2. WalkInv /\ LayoutInv /\ FreshInv /\ BufferInv
  BY DEF PassInv
<1>3. /\ module \in Modules /\ fn \in DOMAIN Functions /\ Rewriting /\ c \in Blocks(fn)
  BY <1>1, <1>2, AtBlock
<1>at. at = <<c, 0>>
  <2>1. PICK m \in 1 .. Len(Function.blocks) + 1 : at = <<m, 0>>
    BY <1>1, <1>2, AtBlock
  <2>2. c = m
    BY <2>1
  <2> QED
    BY <2>1, <2>2
<1> HIDE DEF c
<1>4. /\ IsSequence(before)
      /\ \A h \in ToSet(before) : \E i \in 1 .. n : IsPlace(c, i) /\ HookOf(<<c, i>>, h)
  BY <1>3, PhiHooksFacts
<1>5. k \in 1 .. Len(code[fn][c])
  BY <1>1, <1>2, <1>3, <1>at, PhiFits
<1>6. IsSequence(after) /\ ToSet(after) = {}
  BY EmptyFacts
<1> HIDE DEF n, before, after, k
<1>7. \A h \in ToSet(before) \cup ToSet(after) : IsItem(h) /\ Carries(Function, h)
  BY <1>3, <1>4, <1>6, HookFields, HookCarries
<1> QED
  BY <1>1, <1>2, <1>3, <1>4, <1>5, <1>6, <1>7, InsertedHooks

LEMMA TraceInstructionHooks ==
  ASSUME PassInv, HookInv, TraceInstruction
  PROVE  HookInv'
<1>1. /\ pc = "instruction" /\ module' = module
      /\ Insert(at[1], Position(at), Before(at), Result(at))
  BY DEF TraceInstruction, unchangedModule
<1>2. WalkInv /\ LayoutInv /\ FreshInv /\ BufferInv
  BY DEF PassInv
<1>3. /\ module \in Modules /\ fn \in DOMAIN Functions /\ Rewriting
  BY <1>1, <1>2, AtInstruction
<1>4. PICK c, i : at = <<c, i>> /\ IsPlace(c, i) /\ c \in Nat \ {0}
  BY <1>1, <1>2, AtInstruction
<1>5. at[1] = c /\ c \in Blocks(fn)
  BY <1>4 DEF IsPlace
<1> DEFINE k == Position(at)
           before == Before(at)
           after == Result(at)
<1>6. IsSequence(before) /\ \A h \in ToSet(before) : HookOf(at, h)
  BY <1>3, <1>4, BeforeFacts
<1>7. IsSequence(after) /\ \A h \in ToSet(after) : HookOf(at, h)
  BY <1>3, <1>4, ResultFacts
<1>8. k \in 1 .. Len(code[fn][c])
  BY <1>2, <1>3, <1>4, PositionFacts
<1>9. Insert(c, k, before, after)
  BY <1>1, <1>5
<1> HIDE DEF k, before, after
<1>10. \A h \in ToSet(before) \cup ToSet(after) : IsItem(h) /\ Carries(Function, h)
  BY <1>3, <1>4, <1>6, <1>7, HookFields, HookCarries
<1> QED
  BY <1>1, <1>2, <1>3, <1>5, <1>6, <1>7, <1>8, <1>9, <1>10, InsertedHooks

LEMMA RunOnFunctionEntryHooks ==
  ASSUME PassInv, HookInv, RunOnFunctionEntry
  PROVE  HookInv'
<1>1. pc = "block" /\ module' = module
  BY DEF RunOnFunctionEntry, unchangedModule
<1>2. WalkInv /\ LayoutInv /\ FreshInv /\ BufferInv
  BY DEF PassInv
<1>3. /\ module \in Modules /\ fn \in DOMAIN Functions /\ Function = Functions[fn]
      /\ Rewriting /\ Laid(Function) /\ Blocks(fn) = 1 .. Len(Function.blocks)
  BY <1>1, <1>2, AtBlock
<1>4. CASE Function.symbol = MainFn
  BY <1>1, <1>4, SameHooks DEF RunOnFunctionEntry
<1>5. CASE Function.symbol # MainFn
  <2> DEFINE one == 1
             k == insertionPoint
             before == EntryHooks
             after == << >>
  <2>1. Insert(one, k, before, after)
    BY <1>5 DEF RunOnFunctionEntry
  <2>2. k \in 1 .. Len(code[fn][one])
    BY <1>2, <1>3, InsertionPointFacts
  <2>3. IsSequence(before) /\ \A h \in ToSet(before) : HookAtEntry(h)
    BY <1>3, EntryHooksFacts
  <2>4. IsSequence(after) /\ ToSet(after) = {}
    BY EmptyFacts
  <2>5. one \in Blocks(fn)
    BY <1>3 DEF Laid
  <2> HIDE DEF one, k, before, after
  <2>6. \A h \in ToSet(before) \cup ToSet(after) : IsItem(h) /\ Carries(Function, h)
    BY <1>3, <2>3, <2>4, EntryFields, EntryCarries
  <2> QED
    BY <1>1, <1>2, <1>3, <2>1, <2>2, <2>3, <2>4, <2>5, <2>6, InsertedHooks
<1> QED
  BY <1>4, <1>5

\* Every hook, at any time, is what its instruction and the types of its operands call
\* for: opcode, type, size and logging function; and a vector's buffer has the vector's key.
THEOREM HookInvariant == Spec => []HookInv
<1>1. Init => HookInv
  BY InitHooks
<1>2. PassInv /\ HookInv /\ [Next]_vars => HookInv'
  <2> SUFFICES ASSUME PassInv, HookInv, [Next]_vars PROVE HookInv'
    OBVIOUS
  <2>1. CASE DoInitialization
    BY <2>1, SameHooks DEF DoInitialization
  <2>2. CASE RunOnFunction
    <3>1. ToSet(<< >>) = {}
      BY EmptyFacts
    <3>2. module' = module /\ code' = code
          /\ (vector_buffers' = << >> \/ vector_buffers' = vector_buffers)
      BY <2>2 DEF RunOnFunction, unchangedModule
    <3> QED
      BY <3>1, <3>2, SameHooks
  <2>3. CASE SkipBlock
    BY <2>3, SameHooks DEF SkipBlock, unchangedModule
  <2>4. CASE RunOnBasicBlock
    BY <2>4, RunOnBasicBlockHooks
  <2>5. CASE SkipInstruction
    BY <2>5, SameHooks DEF SkipInstruction, unchangedModule
  <2>6. CASE TraceInstruction
    BY <2>6, TraceInstructionHooks
  <2>7. CASE RunOnFunctionEntry
    BY <2>7, RunOnFunctionEntryHooks
  <2>8. CASE Done
    BY <2>8, SameHooks DEF Done, unchangedModule
  <2>9. CASE UNCHANGED vars
    BY <2>9, SameHooks DEF vars
  <2> QED
    BY <2>1, <2>2, <2>3, <2>4, <2>5, <2>6, <2>7, <2>8, <2>9 DEF Next, Stopped
<1> QED
  BY <1>1, <1>2, PassInvariant, PTL DEF Spec

\* What is in the hooks of a function that is written.
LEMMA WrittenHooks ==
  ASSUME PassInv, HookInv, NEW g \in Written, NEW h \in Items(g), IsHook(h)
  PROVE  Carries(Functions[g], h) /\ Stored(h)
<1>1. g \in DOMAIN Functions /\ module \in Modules
  BY DEF Written, PassInv, WalkInv
<1>2. DOMAIN Functions[g].blocks = Blocks(g)
  BY <1>1, ModuleFacts
<1>3. DOMAIN code[g] = Blocks(g)
  <2>1. code[g] = [b \in DOMAIN Functions[g].blocks |-> code[g][b]]
    BY <1>1 DEF PassInv, LayoutInv
  <2> QED
    BY <1>2, <2>1
<1>4. PICK b \in Blocks(g) : h \in ToSet(code[g][b])
  BY <1>3 DEF Items
<1> QED
  BY <1>1, <1>4 DEF HookInv

LEMMA WrittenLine ==
  ASSUME PassInv, HookInv, NEW g \in Written, NEW h \in Lines(g)
  PROVE  IsLine(Functions[g], h) /\ Stored(h)
<1>1. h \in Items(g) /\ h.kind \in LineKinds /\ IsHook(h)
  BY DEF Lines, LineKinds, IsHook
<1> QED
  BY <1>1, WrittenHooks DEF Carries

----------------------------------------------------------------------------
(* Sizes of types.                                                         *)

LEMMA ScalarFacts ==
  ASSUME NEW t, IsScalar(t)
  PROVE  /\ t.id \in {"Integer", "Pointer"} \cup FloatingPoint
         /\ t.bits \in Nat \ {0}
         /\ t.id = "Pointer" => t.bits = 64
<1>1. CASE t.id = "Integer" /\ t = IntegerTy(t.bits) /\ t.bits \in Nat \ {0}
  BY <1>1
<1>2. CASE t \in {Half, Float, Double}
  <2>1. t.id \in FloatingPoint /\ t.bits \in {16, 32, 64} /\ t.id # "Pointer"
    BY <1>2 DEF Half, Float, Double, Scalar, FloatingPoint
  <2> QED
    BY <2>1
<1>3. CASE t.id = "Pointer" /\ t = Pointer(t.to)
  <2>1. Pointer(t.to).bits = 64
    BY DEF Pointer
  <2> QED
    BY <1>3, <2>1
<1> QED
  BY <1>1, <1>2, <1>3 DEF IsScalar

\* What is neither a pointer nor an aggregate has the size that LLVM says.
LEMMA PrimitiveSize ==
  ASSUME NEW t, IsScalar(t), t.id # "Pointer"
  PROVE  getPrimitiveSizeInBits(t) = t.bits
BY ScalarFacts DEF getPrimitiveSizeInBits

----------------------------------------------------------------------------
(* Vectors.                                                                *)

LEMMA StorableFacts ==
  ASSUME NEW t, Storable(t)
  PROVE  /\ t = Vector(t.n, t.elem) /\ t.n \in Nat /\ IsScalar(t.elem)
         /\ t.bits = t.n * t.elem.bits
<1>1. t.id = "Vector" /\ Supported(t)
  BY DEF Storable, IsVector
<1>2. t \notin {Void, LabelTy, Half, Float, Double}
  BY <1>1 DEF Void, LabelTy, Half, Float, Double, Scalar
<1>3. t = Vector(t.n, t.elem) /\ t.n \in Nat /\ IsScalar(t.elem)
  BY <1>1, <1>2 DEF Supported, IsMember, IsScalar
<1>4. Vector(t.n, t.elem).bits = t.n * t.elem.bits
  BY DEF Vector
<1> QED
  BY <1>3, <1>4

\* The size of a vector is its width, unless it holds pointers.
LEMMA VectorSize ==
  ASSUME NEW t, Storable(t), t.elem.id # "Pointer"
  PROVE  getMemSize(t) = t.bits
<1>1. t.id = "Vector"
  BY DEF Storable, IsVector
<1>2. getPrimitiveSizeInBits(t) = t.bits
  BY <1>1 DEF getPrimitiveSizeInBits, FloatingPoint, IsVector
<1> QED
  BY <1>1, <1>2 DEF getMemSize, memberMemSize, FloatingPoint

\* Scalars of whole bytes and of the same kind and number of bytes are the same type.
LEMMA SameScalar ==
  ASSUME NEW t, NEW u, IsScalar(t), IsScalar(u), t.id = u.id, t.id # "Pointer",
         t.bits % 8 = 0, u.bits % 8 = 0, t.bits \div 8 = u.bits \div 8
  PROVE  t = u
<1>1. CASE t.id = "Integer"
  <2>1. t \notin {Half, Float, Double} /\ u \notin {Half, Float, Double}
    <3>1. Half.id # "Integer" /\ Float.id # "Integer" /\ Double.id # "Integer"
      BY DEF Half, Float, Double, Scalar
    <3>2. t.id = "Integer" /\ u.id = "Integer"
      BY <1>1
    <3> QED
      BY <3>1, <3>2
  <2>2. /\ t = IntegerTy(t.bits) /\ t.bits \in Nat
        /\ u = IntegerTy(u.bits) /\ u.bits \in Nat
    BY <1>1, <2>1 DEF IsScalar
  <2>3. \A m, n \in Nat : m % 8 = 0 /\ n % 8 = 0 /\ m \div 8 = n \div 8 => m = n
    OBVIOUS
  <2>4. t.bits = u.bits
    BY <2>2, <2>3
  <2> QED
    BY <2>2, <2>4
<1>2. CASE t.id # "Integer"
  <2>1. t \in {Half, Float, Double} /\ u \in {Half, Float, Double}
    BY <1>2 DEF IsScalar
  <2> QED
    BY <2>1 DEF Half, Float, Double, Scalar
<1> QED
  BY <1>1, <1>2

LEMMA SameKey ==
  ASSUME NEW t, NEW u, Storable(t), Storable(u), ~Blurred(t), ~Blurred(u),
         createVecBufKey(t) = createVecBufKey(u)
  PROVE  t = u
<1>1. /\ t = Vector(t.n, t.elem) /\ IsScalar(t.elem)
      /\ u = Vector(u.n, u.elem) /\ IsScalar(u.elem)
  BY StorableFacts
<1>2. /\ t.n = u.n /\ t.elem.id = u.elem.id
      /\ getPrimitiveSizeInBits(t.elem) \div 8 = getPrimitiveSizeInBits(u.elem) \div 8
  BY DEF createVecBufKey
<1>3. /\ t.elem.id # "Pointer" /\ u.elem.id # "Pointer"
      /\ ~(t.elem.bits % 8 # 0) /\ ~(u.elem.bits % 8 # 0)
  BY DEF Blurred
<1>4. t.elem.bits \div 8 = u.elem.bits \div 8
  BY <1>1, <1>2, <1>3, PrimitiveSize
<1>5. t.elem = u.elem
  BY <1>1, <1>2, <1>3, <1>4, SameScalar
<1> QED
  BY <1>1, <1>2, <1>5

\* A vector is stored in a buffer of its own type, unless its key is blurred.
THEOREM BuffersCorrect == Spec => []BuffersFit
<1>1. PassInv /\ HookInv => BuffersFit
  <2> SUFFICES ASSUME PassInv, HookInv, NEW g \in Written, NEW b \in DOMAIN Functions[g].blocks,
                      NEW k \in DOMAIN code[g][b],
                      IsHook(code[g][b][k]), code[g][b][k].fn = "trace_logger_log_vector"
               PROVE  LET h == code[g][b][k]
                      IN  \/ h.buffer.type = h.type
                          \/ Blurred(h.buffer.type) \/ Blurred(h.type)
    BY DEF BuffersFit
  <2> DEFINE h == code[g][b][k]
  <2>1. g \in DOMAIN Functions /\ b \in Blocks(g) /\ h \in ToSet(code[g][b])
    <3>1. /\ g \in DOMAIN Functions /\ b \in Blocks(g)
          /\ \A c \in Blocks(g) : DOMAIN code[g][c] = 1 .. Len(code[g][c])
          /\ \A c \in Blocks(g) : \A m \in 1 .. Len(code[g][c]) : code[g][c][m] \in ToSet(code[g][c])
      BY WrittenFacts
    <3> QED
      BY <3>1
  <2> HIDE DEF h
  <2>2. Stored(h)
    BY <2>1 DEF HookInv, h
  <2>3. /\ Storable(h.type) /\ Storable(h.buffer.type)
        /\ createVecBufKey(h.buffer.type) = createVecBufKey(h.type)
    BY <2>2 DEF Stored, h
  <2>4. ~Blurred(h.buffer.type) /\ ~Blurred(h.type) => h.buffer.type = h.type
    BY <2>3, SameKey
  <2> QED
    BY <2>4 DEF h
<1> QED
  BY <1>1, PassInvariant, HookInvariant, PTL

----------------------------------------------------------------------------
(* Types, and names.                                                       *)

TrackerFields == {"TheFunction", "FunctionProcessed", "fMap"}

\* What is kept for a name counts as one, and numbers are within their bounds.
NameInv ==
  /\ tracked_functions \subseteq {linkageName(f) : f \in ToSet(Functions)}
  /\ is_toplevel_mode \in BOOLEAN /\ instc \in Nat
  /\ DOMAIN st = TrackerFields /\ st.TheFunction \in 0 .. Len(Functions)
  /\ \A v \in DOMAIN valueDebugName : valueDebugName[v] # NoName
  /\ \A s \in DOMAIN slotToVarName : slotToVarName[s] # NoName

\* The instructions of a function, in one sequence.
LEMMA InstsFacts ==
  ASSUME module \in Modules, NEW g \in DOMAIN Functions
  PROVE  LET insts == FlattenSeq(Functions[g].blocks)
         IN  /\ IsSequence(insts)
             /\ \A b \in Blocks(g) : \A i \in 1 .. Len(Functions[g].blocks[b]) :
                  Functions[g].blocks[b][i] \in ToSet(insts)
<1> DEFINE f == Functions[g]
           S == UNION {ToSet(f.blocks[b]) : b \in DOMAIN f.blocks}
           T == Seq(S)
<1>1. /\ IsSequence(f.blocks) /\ \A b \in DOMAIN f.blocks : IsSequence(f.blocks[b])
      /\ Blocks(g) = DOMAIN f.blocks
  <2>1. f \in ToSet(module.functions) /\ Blocks(g) = 1 .. Len(f.blocks)
    BY FunctionFacts DEF Functions, Blocks
  <2> HIDE DEF f
  <2>2. IsSequence(f.blocks) /\ \A b \in DOMAIN f.blocks : IsSequence(f.blocks[b])
    BY <2>1, ModulesAssumption
  <2> QED
    BY <2>1, <2>2, SeqFacts
<1> HIDE DEF f
<1>2. ASSUME NEW b \in DOMAIN f.blocks PROVE f.blocks[b] \in T
  <2>1. IsSequence(f.blocks[b]) /\ ToSet(f.blocks[b]) \subseteq S
    BY <1>1
  <2> HIDE DEF S
  <2> QED
    BY <2>1, SeqMonotonic DEF IsSequence
<1> HIDE DEF S
<1>3. ToSet(f.blocks) \subseteq T
  BY <1>2 DEF ToSet
<1> HIDE DEF T
<1>4. f.blocks \in Seq(T)
  BY <1>1, <1>3, SeqMonotonic DEF IsSequence
<1>5. /\ FlattenSeq(f.blocks) \in Seq(S)
      /\ \A b \in 1 .. Len(f.blocks) : ToSet(f.blocks[b]) \subseteq ToSet(FlattenSeq(f.blocks))
  BY <1>4, FlattenFacts DEF T
<1>6. IsSequence(FlattenSeq(f.blocks))
  BY <1>5, SeqIntro
<1>7. ASSUME NEW b \in Blocks(g), NEW i \in 1 .. Len(f.blocks[b])
      PROVE  f.blocks[b][i] \in ToSet(FlattenSeq(f.blocks))
  <2>1. b \in 1 .. Len(f.blocks) /\ f.blocks[b][i] \in ToSet(f.blocks[b])
    BY <1>1, SeqFacts
  <2> QED
    BY <1>5, <2>1
<1> QED
  BY <1>6, <1>7 DEF f

\* What debug information gives counts as a name, and it gives none to a cast.
LEMMA DebugNames ==
  ASSUME module \in Modules, NEW g \in DOMAIN Functions
  PROVE  \A v \in DOMAIN collectDebugInfo(Functions[g]) :
           /\ collectDebugInfo(Functions[g])[v] # NoName
           /\ ~IsBitcast(Functions[g], v)
<1> DEFINE f == Functions[g]
           insts == FlattenSeq(f.blocks)
           n == Len(insts)
           empty == [v \in {} |-> NoName]
           none(F, i) == \/ insts[i].var = NoName \/ IsBitcast(f, insts[i].operands[1])
                         \/ insts[i].operands[1] \in DOMAIN F
           next(F, i) == IF none(F, i) THEN F
                         ELSE Put(F, insts[i].operands[1], insts[i].var)
           Upto(h) == h = [i \in 0 .. n |->
                             IF i = 0 THEN empty
                             ELSE IF insts[i].var = NoName \/ IsBitcast(f, insts[i].operands[1])
                                     \/ insts[i].operands[1] \in DOMAIN h[i - 1]
                             THEN h[i - 1]
                             ELSE Put(h[i - 1], insts[i].operands[1], insts[i].var)]
           K == {o \in {insts[i].operands[1] : i \in 1 .. n} : ~IsBitcast(f, o)}
           V == {insts[i].var : i \in 1 .. n} \ {NoName}
           D == UNION {[S -> V] : S \in SUBSET K}
           step == [i \in 1 .. n |-> [F \in D |-> next(F, i)]]
           h == CHOOSE x : Upto(x)
<1>1. n \in Nat
  <2>1. IsSequence(insts)
    BY InstsFacts
  <2> HIDE DEF insts
  <2> QED
    BY <2>1, SeqFacts
<1>2. collectDebugInfo(f) = h[n]
  BY DEF collectDebugInfo
<1> HIDE DEF f, insts, n
<1>3. empty \in D
  <2>1. empty \in [{} -> V] /\ {} \in SUBSET K
    OBVIOUS
  <2> HIDE DEF empty, V, K
  <2> QED
    BY <2>1
<1>4. ASSUME NEW i \in 1 .. n, NEW F \in D PROVE next(F, i) \in D
  <2>1. CASE none(F, i)
    BY <2>1
  <2>2. CASE ~none(F, i)
    <3> DEFINE o == insts[i].operands[1]
               w == insts[i].var
    <3>1. o \in K /\ w \in V
      BY <2>2
    <3>2. PICK S \in SUBSET K : F \in [S -> V]
      BY <1>4
    <3>3. next(F, i) = Put(F, o, w)
      BY <2>2
    <3> HIDE DEF o, w, next, none, K, V
    <3>4. Put(F, o, w) \in [S \cup {o} -> V]
      BY <3>1, <3>2 DEF Put
    <3>5. S \cup {o} \in SUBSET K
      BY <3>1, <3>2
    <3> QED
      BY <3>3, <3>4, <3>5
  <2> QED
    BY <2>1, <2>2
<1>5. \A F \in D : \A v \in DOMAIN F : F[v] # NoName /\ ~IsBitcast(f, v)
  OBVIOUS
<1> HIDE DEF D, empty
<1>6. step \in [1 .. n -> [D -> D]] /\ \A i \in 1 .. n : \A F \in D : step[i][F] = next(F, i)
  <2> HIDE DEF next
  <2> QED
    BY <1>4
<1> HIDE DEF step
<1>7. PICK r : Recurs(r, n, D, empty, step)
  BY <1>1, <1>3, <1>6, RecursionExists
<1>8. Upto(r)
  <2>1. r \in [0 .. n -> D] /\ r = [i \in 0 .. n |-> r[i]]
    BY <1>7 DEF Recurs
  <2>2. ASSUME NEW i \in 0 .. n
        PROVE  r[i] = IF i = 0 THEN empty
                      ELSE IF insts[i].var = NoName \/ IsBitcast(f, insts[i].operands[1])
                              \/ insts[i].operands[1] \in DOMAIN r[i - 1]
                      THEN r[i - 1]
                      ELSE Put(r[i - 1], insts[i].operands[1], insts[i].var)
    <3>1. CASE i = 0
      BY <1>7, <3>1 DEF Recurs
    <3>2. CASE i # 0
      <4>1. i \in 1 .. n /\ i - 1 \in 0 .. n
        BY <1>1, <3>2
      <4>2. r[i] = step[i][r[i - 1]] /\ r[i - 1] \in D
        BY <1>7, <2>1, <4>1 DEF Recurs
      <4>3. r[i] = next(r[i - 1], i)
        BY <1>6, <4>1, <4>2
      <4> QED
        BY <3>2, <4>3
    <3> QED
      BY <3>1, <3>2
  <2> QED
    BY <2>1, <2>2
<1>9. Upto(h)
  BY <1>8
<1> HIDE DEF h
<1>10. h[0] = empty /\ \A i \in 1 .. n : h[i] = next(h[i - 1], i)
  <2>1. \A i \in 0 .. n :
          h[i] = IF i = 0 THEN empty
                 ELSE IF insts[i].var = NoName \/ IsBitcast(f, insts[i].operands[1])
                         \/ insts[i].operands[1] \in DOMAIN h[i - 1]
                 THEN h[i - 1]
                 ELSE Put(h[i - 1], insts[i].operands[1], insts[i].var)
    BY <1>9
  <2>2. 0 \in 0 .. n /\ \A i \in 1 .. n : i \in 0 .. n /\ i # 0
    BY <1>1
  <2> QED
    BY <2>1, <2>2
<1> HIDE DEF next
<1> DEFINE T == {i \in 0 .. n : h[i] \in D}
<1>11. 0 \in T /\ \A i \in 1 .. n : i - 1 \in T => i \in T
  BY <1>1, <1>3, <1>4, <1>10
<1>12. 0 .. n \subseteq T
  <2> HIDE DEF T
  <2> QED
    BY <1>1, <1>11, UpTo
<1>13. h[n] \in D
  BY <1>1, <1>12
<1>14. \A v \in DOMAIN collectDebugInfo(f) :
         collectDebugInfo(f)[v] # NoName /\ ~IsBitcast(f, v)
  BY <1>2, <1>5, <1>13
<1> QED
  BY <1>14 DEF f

LEMMA TrackerFacts ==
  ASSUME DOMAIN st = TrackerFields, NEW values
  PROVE  LET x == initialize(st, values)
         IN  DOMAIN x = TrackerFields /\ x.TheFunction = st.TheFunction
BY DEF initialize, TrackerFields

LEMMA RenamedFacts ==
  ASSUME \A s \in DOMAIN slotToVarName : slotToVarName[s] # NoName, NEW place
  PROVE  \A s \in DOMAIN Renamed(place) : Renamed(place)[s] # NoName
<1>1. CASE Renames(place)
  <2> DEFINE n == getValueName(Inst(place).operands[1])
             t == Slot(place)
  <2>1. n # NoName
    BY <1>1 DEF Renames
  <2>2. Renamed(place) = Put(slotToVarName, t, n)
    BY <1>1 DEF Renamed
  <2> HIDE DEF n, t
  <2> QED
    BY <2>1, <2>2 DEF Put
<1>2. CASE ~Renames(place)
  BY <1>2 DEF Renamed
<1> QED
  BY <1>1, <1>2

LEMMA CountFacts ==
  ASSUME NameInv, Count, Functions' = Functions
  PROVE  instc' \in Nat /\ DOMAIN st' = TrackerFields /\ st'.TheFunction \in 0 .. Len(Functions)
<1>1. DOMAIN Tracker = TrackerFields /\ Tracker.TheFunction = st.TheFunction
  BY TrackerFacts DEF NameInv, Tracker
<1>2. st' = st \/ st' = Tracker
  BY DEF Count
<1>3. instc' \in Nat
  <2>1. instc' = instc + 1 \/ instc' = instc + 0
    BY DEF Count
  <2> QED
    BY <2>1 DEF NameInv
<1> QED
  BY <1>1, <1>2, <1>3 DEF NameInv

\* The names and numbers that the pass keeps, at any time in it.
THEOREM NameInvariant == Spec => []NameInv
<1> USE DEF unchangedNames
<1>1. Init => NameInv
  <2> SUFFICES ASSUME Init PROVE NameInv
    OBVIOUS
  <2>1. Len(Functions) \in Nat
    BY ModuleFacts DEF Init
  <2>2. DOMAIN st = TrackerFields /\ st.TheFunction = 0
    BY DEF Init, newTracker, NoFunction, TrackerFields
  <2> QED
    BY <2>1, <2>2 DEF Init, NameInv
<1>2. PassInv /\ NameInv /\ [Next]_vars => NameInv'
  <2> SUFFICES ASSUME PassInv, NameInv, [Next]_vars PROVE NameInv'
    OBVIOUS
  <2>0. module \in Modules
    BY DEF PassInv, WalkInv
  <2>1. CASE DoInitialization
    <3>1. /\ UNCHANGED <<module, st, instc>> /\ UNCHANGED <<valueDebugName, slotToVarName>>
          /\ \/ UNCHANGED <<tracked_functions, is_toplevel_mode>>
             \/ /\ is_toplevel_mode' = (Cardinality(module.workload) = 1 \/ module.allCallees)
                /\ tracked_functions' = tracked(module)
      BY <2>1 DEF DoInitialization
    <3>2. (Cardinality(module.workload) = 1 \/ module.allCallees) \in BOOLEAN
      OBVIOUS
    <3>3. tracked(module) \subseteq {linkageName(f) : f \in ToSet(Functions)}
      BY DEF tracked, Functions
    <3>4. is_toplevel_mode' \in BOOLEAN
      BY <3>1, <3>2 DEF NameInv
    <3>5. tracked_functions' \subseteq {linkageName(f) : f \in ToSet(Functions)}
      BY <3>1, <3>3 DEF NameInv
    <3>6. Functions' = Functions
      BY <3>1 DEF Functions
    <3> QED
      BY <3>1, <3>4, <3>5, <3>6 DEF NameInv, linkageName
  <2>2. ASSUME unchangedModule, instc' \in Nat, DOMAIN st' = TrackerFields,
               st'.TheFunction \in 0 .. Len(Functions),
               \A v \in DOMAIN valueDebugName' : valueDebugName'[v] # NoName,
               \A s \in DOMAIN slotToVarName' : slotToVarName'[s] # NoName
        PROVE  NameInv'
    <3>1. Functions' = Functions
      BY <2>2, SameModule
    <3>2. /\ tracked_functions' = tracked_functions
          /\ is_toplevel_mode' = is_toplevel_mode
      BY <2>2 DEF unchangedModule
    <3>3. tracked_functions' \subseteq {linkageName(f) : f \in ToSet(Functions)}
      BY <3>2 DEF NameInv
    <3>4. is_toplevel_mode' \in BOOLEAN
      BY <3>2 DEF NameInv
    <3> QED
      BY <2>2, <3>1, <3>3, <3>4 DEF NameInv
  <2>3. CASE RunOnFunction
    <3>1. unchangedModule /\ instc' = instc
      BY <2>3 DEF RunOnFunction
    <3>2. CASE IsC(Function)
      <4>1. /\ fn \in DOMAIN Functions /\ Function = Functions[fn]
            /\ st' = incorporateFunction(newTracker, fn)
            /\ valueDebugName' = collectDebugInfo(Function)
            /\ slotToVarName' = [s \in {} |-> NoName]
        BY <2>3, <3>2 DEF RunOnFunction, Function, Functions
      <4>2. DOMAIN st' = TrackerFields /\ st'.TheFunction = fn
        BY <4>1 DEF incorporateFunction, newTracker, TrackerFields
      <4>3. fn \in 0 .. Len(Functions)
        <5>1. Len(Functions) \in Nat /\ fn \in 1 .. Len(Functions)
          BY <2>0, <4>1, ModuleFacts
        <5> QED
          BY <5>1
      <4>4. \A v \in DOMAIN valueDebugName' : valueDebugName'[v] # NoName
        BY <2>0, <4>1, DebugNames
      <4>5. \A s \in DOMAIN slotToVarName' : slotToVarName'[s] # NoName
        BY <4>1
      <4> QED
        BY <2>2, <3>1, <4>2, <4>3, <4>4, <4>5 DEF NameInv
    <3>3. CASE ~IsC(Function)
      <4>1. UNCHANGED <<st, valueDebugName, slotToVarName>>
        BY <2>3, <3>3 DEF RunOnFunction
      <4> QED
        BY <2>2, <3>1, <4>1 DEF NameInv
    <3> QED
      BY <3>2, <3>3
  <2>4. CASE SkipBlock
    BY <2>2, <2>4 DEF SkipBlock, NameInv
  <2>5. CASE RunOnBasicBlock
    <3>1. /\ unchangedModule /\ instc' = 0 /\ UNCHANGED <<valueDebugName, slotToVarName>>
          /\ (st' = Tracker \/ st' = st)
      BY <2>5 DEF RunOnBasicBlock
    <3>2. DOMAIN Tracker = TrackerFields /\ Tracker.TheFunction = st.TheFunction
      BY TrackerFacts DEF NameInv, Tracker
    <3> QED
      BY <2>2, <3>1, <3>2 DEF NameInv
  <2>6. CASE SkipInstruction
    <3>1. unchangedModule /\ Count /\ UNCHANGED <<valueDebugName, slotToVarName>>
      BY <2>6 DEF SkipInstruction
    <3> QED
      BY <2>2, <3>1, CountFacts, SameModule DEF NameInv
  <2>7. CASE TraceInstruction
    <3>1. unchangedModule /\ Count /\ slotToVarName' = Renamed(at) /\ valueDebugName' = valueDebugName
      BY <2>7 DEF TraceInstruction
    <3>2. \A s \in DOMAIN slotToVarName' : slotToVarName'[s] # NoName
      BY <3>1, RenamedFacts DEF NameInv
    <3> QED
      BY <2>2, <3>1, <3>2, CountFacts, SameModule DEF NameInv
  <2>8. CASE RunOnFunctionEntry
    <3>1. /\ unchangedModule /\ UNCHANGED <<st, slotToVarName, instc>>
          /\ valueDebugName' = [v \in {} |-> NoName]
      BY <2>8 DEF RunOnFunctionEntry
    <3> QED
      BY <2>2, <3>1 DEF NameInv
  <2>9. CASE Done
    BY <2>2, <2>9 DEF Done, NameInv
  <2>10. CASE UNCHANGED vars
    BY <2>2, <2>10 DEF vars, NameInv, unchangedModule
  <2> QED
    BY <2>1, <2>3, <2>4, <2>5, <2>6, <2>7, <2>8, <2>9, <2>10 DEF Next, Stopped
<1> QED
  BY <1>1, <1>2, PassInvariant, PTL DEF Spec

\* The variables of the pass have their types, and vectors share one buffer per key
\* however many hooks pass one.
THEOREM TypeCorrect == Spec => []TypeOK
<1>1. PassInv /\ NameInv => TypeOK
  BY DEF PassInv, WalkInv, BufferInv, OneBufferPerKey, NameInv, TypeOK
<1> QED
  BY <1>1, PassInvariant, NameInvariant, PTL
----------------------------------------------------------------------------
(* What a line shows.                                                      *)

LEMMA BytesSeq ==
  ASSUME NEW m \in Nat, NEW v \in [1 .. m -> Nat]
  PROVE  v \in Seq(Nat) /\ Len(v) = m /\ SubSeq(v, 1, m) = v
<1>1. v = [i \in 1 .. m |-> v[i]] /\ \A i \in 1 .. m : v[i] \in Nat
  OBVIOUS
<1>2. [i \in 1 .. m |-> v[i]] \in Seq(Nat)
  BY <1>1, IsASeq
<1>3. v \in Seq(Nat) /\ DOMAIN v = 1 .. m
  BY <1>1, <1>2
<1>4. Len(v) \in Nat /\ DOMAIN v = 1 .. Len(v)
  BY <1>3
<1>5. Len(v) = m
  BY <1>3, <1>4
<1>6. SubSeq(v, 1, m) = v
  BY <1>3, <1>5
<1> QED
  BY <1>3, <1>5, <1>6

\* Samples of a type that is not a floating-point type are sequences of bytes.
LEMMA ByteSamples ==
  ASSUME NEW t, t.bits \in Nat, t.id \notin FloatingPoint
  PROVE  /\ (t.bits + 7) \div 8 \in Nat
         /\ Samples(t) # {}
         /\ \A v \in Samples(t) : v \in [1 .. (t.bits + 7) \div 8 -> Nat]
<1> DEFINE m == (t.bits + 7) \div 8
           zero == [i \in 1 .. m |-> 0]
<1>1. m \in Nat
  OBVIOUS
<1>2. Samples(t) = {zero} \cup {[zero EXCEPT ![i] = 1] : i \in 1 .. m}
  BY SMT DEF Samples
<1> HIDE DEF m
<1>3. zero \in [1 .. m -> Nat] /\ \A i \in 1 .. m : [zero EXCEPT ![i] = 1] \in [1 .. m -> Nat]
  OBVIOUS
<1> HIDE DEF zero
<1>4. \A v \in Samples(t) : v \in [1 .. m -> Nat]
  BY <1>2, <1>3
<1>5. zero \in Samples(t)
  BY <1>2
<1> QED
  BY <1>1, <1>4, <1>5 DEF m

\* Different sequences of at most eight bytes are different numbers.
LEMMA Int64Facts ==
  ASSUME NEW m \in 0 .. 8, NEW v \in [1 .. m -> Nat], NEW w \in [1 .. m -> Nat],
         int64(v) = int64(w)
  PROVE  v = w
<1>1. Len(v) = m /\ Len(w) = m
  BY BytesSeq
<1>2. \A i \in 1 .. m : int64(v)[i] = v[i] /\ int64(w)[i] = w[i]
  BY <1>1 DEF int64
<1> QED
  BY <1>2

\* A line shows a value of type t.
Shows(fn_, size, t) ==
  /\ \A v, w \in Samples(t) : printed(fn_, size, v) = printed(fn_, size, w) => v = w
  /\ fn_ = "trace_logger_log_vector" =>
       3 + 2 * Len(printed(fn_, size, CHOOSE v \in Samples(t) : TRUE)) <= value_str(size)

LEMMA ShowsInteger ==
  ASSUME NEW name \in {"trace_logger_log_int", "trace_logger_log_ptr"}, NEW size,
         NEW t, t.bits \in 0 .. 64, t.id \notin FloatingPoint
  PROVE  Shows(name, size, t)
<1> DEFINE m == (t.bits + 7) \div 8
<1>1. t.bits \in Nat /\ m \in 0 .. 8
  OBVIOUS
<1>2. \A v : printed(name, size, v) = int64(v)
  BY DEF printed
<1>3. \A v \in Samples(t) : v \in [1 .. m -> Nat]
  BY <1>1, ByteSamples
<1>4. name # "trace_logger_log_vector"
  OBVIOUS
<1> HIDE DEF m
<1>5. ASSUME NEW v \in Samples(t), NEW w \in Samples(t),
             printed(name, size, v) = printed(name, size, w)
      PROVE  v = w
  <2>1. int64(v) = int64(w)
    BY <1>2, <1>5
  <2>2. v \in [1 .. m -> Nat] /\ w \in [1 .. m -> Nat]
    BY <1>3
  <2> QED
    BY <1>1, <2>1, <2>2, Int64Facts
<1> QED
  BY <1>4, <1>5 DEF Shows

LEMMA ShowsDouble ==
  ASSUME NEW size, NEW t, t.id \in FloatingPoint
  PROVE  Shows("trace_logger_log_double", size, t)
<1> DEFINE name == "trace_logger_log_double"
           sample == Samples(t)
<1>1. \A v : printed(name, size, v) = (v + 5) \div 10
  BY DEF printed
<1>2. sample = {0, 10, 20, 10000000}
  BY SMT DEF Samples
<1> HIDE DEF sample
<1>3. \A v, w \in sample : (v + 5) \div 10 = (w + 5) \div 10 => v = w
  BY <1>2, SMT
<1>4. name # "trace_logger_log_vector"
  OBVIOUS
<1> HIDE DEF name
<1>5. \A v, w \in sample : printed(name, size, v) = printed(name, size, w) => v = w
  BY <1>1, <1>3, Zenon
<1>6. Shows(name, size, t)
  BY <1>4, <1>5 DEF Shows, sample
<1> QED
  BY <1>6 DEF name

LEMMA WholeBytes ==
  ASSUME NEW n \in Nat, NEW k \in Nat, k % 8 = 0
  PROVE  n * k \in Nat /\ (n * k) % 8 = 0
<1> DEFINE q == k \div 8
           r == n * q
<1>1. q \in Nat /\ k = 8 * q
  OBVIOUS
<1> HIDE DEF q
<1>2. r \in Nat /\ n * k = 8 * r
  BY <1>1
<1> HIDE DEF r
<1> QED
  BY <1>2

LEMMA ShowsVector ==
  ASSUME NEW t, Storable(t), ~Blurred(t)
  PROVE  Shows("trace_logger_log_vector", t.bits, t)
<1> DEFINE name == "trace_logger_log_vector"
           m == (t.bits + 7) \div 8
<1>1. t.id = "Vector" /\ t.id \notin FloatingPoint
  BY DEF Storable, IsVector, FloatingPoint
<1>2. t.bits \in Nat /\ t.bits % 8 = 0
  <2>1. t.n \in Nat /\ t.bits = t.n * t.elem.bits /\ t.elem.bits \in Nat
    BY StorableFacts, ScalarFacts
  <2>2. t.elem.bits % 8 = 0
    BY DEF Blurred
  <2> DEFINE e == t.elem.bits
  <2> HIDE DEF e
  <2>3. t.n * e \in Nat /\ (t.n * e) % 8 = 0
    BY <2>1, <2>2, WholeBytes DEF e
  <2> QED
    BY <2>1, <2>3 DEF e
<1>3. /\ m \in Nat /\ m = hexBytes(t.bits)
      /\ 3 + 2 * m <= value_str(t.bits)
  BY <1>2 DEF hexBytes, value_str
<1>4. \A v : printed(name, t.bits, v) = SubSeq(v, 1, hexBytes(t.bits))
  BY DEF printed
<1>5. Samples(t) # {} /\ \A v \in Samples(t) : v \in [1 .. m -> Nat]
  BY <1>1, <1>2, ByteSamples
<1> HIDE DEF m
<1>6. \A v \in Samples(t) : printed(name, t.bits, v) = v /\ Len(v) = m
  BY <1>3, <1>4, <1>5, BytesSeq
<1> DEFINE one == CHOOSE v \in Samples(t) : TRUE
<1>7. one \in Samples(t)
  BY <1>5
<1> HIDE DEF one, name
<1>8. 3 + 2 * Len(printed(name, t.bits, one)) <= value_str(t.bits)
  BY <1>3, <1>6, <1>7
<1>9. \A v, w \in Samples(t) : printed(name, t.bits, v) = printed(name, t.bits, w) => v = w
  BY <1>6
<1> QED
  BY <1>8, <1>9 DEF Shows, one, name

LEMMA IntegerLog ==
  ASSUME NEW type, type.id = "Integer", NEW literal, NEW intrinsic
  PROVE  logFunction(type, TRUE, literal, intrinsic) = "trace_logger_log_int"
<1>1. type.id # "Pointer" /\ type.id \notin FloatingPoint /\ type.id # "Vector"
  BY DEF FloatingPoint
<1> QED
  BY <1>1 DEF logFunction, IsVector

LEMMA FloatLog ==
  ASSUME NEW type, type.id \in FloatingPoint, NEW literal, NEW intrinsic
  PROVE  logFunction(type, TRUE, literal, intrinsic) = "trace_logger_log_double"
<1>1. type.id # "Integer" /\ type.id # "Pointer" /\ type.id # "Vector"
  BY DEF FloatingPoint
<1> QED
  BY <1>1 DEF logFunction, IsVector

\* What is not hidden is given, and shown.
LEMMA LineShows ==
  ASSUME NEW g, NEW h, IsLine(Functions[g], h), ~Hidden(g, h), h.kind \in LineKinds
  PROVE  h.given = TRUE /\ Shows(h.fn, h.size, h.type)
<1> DEFINE f == Functions[g]
           t == h.type
           literal == LiteralIn(h)
           intrinsic == IntrinsicIn(f, h)
<1>1. /\ Supported(t) /\ h.size = getMemSize(t)
      /\ h.given = passed(t, GivenIn(f, h), intrinsic)
      /\ h.fn = logFunction(t, GivenIn(f, h), literal, intrinsic) /\ h.fn # "none"
      /\ literal => t.id = "Pointer"
      /\ h.kind # "param" => h.operand = NoOperand
  BY DEF IsLine
<1>2. GivenIn(f, h) = TRUE
  BY DEF GivenIn, Hidden, InstOf, Given
<1>3. ~(intrinsic /\ t.id = "Pointer")
  BY DEF IntrinsicIn, ForIntrinsic, Hidden, InstOf
<1>5. h.given = TRUE
  BY <1>1, <1>2, <1>3 DEF passed
<1>6. h.fn = logFunction(t, TRUE, literal, intrinsic)
  BY <1>1, <1>2
<1>7. literal \in BOOLEAN /\ (literal => t.id = "Pointer")
  BY <1>1 DEF LiteralIn
<1>8. ~(IsVector(t) /\ Blurred(t)) /\ h.fn # "trace_logger_log_string"
  BY DEF Hidden
<1> HIDE DEF f, t, literal, intrinsic
<1>9. Shows(h.fn, h.size, t)
  <2>1. CASE t.id = "Integer"
    <3>0. literal = FALSE
      BY <1>7, <2>1
    <3>1. h.fn = "trace_logger_log_int" /\ literal = FALSE
      BY <1>6, <2>1, <3>0, IntegerLog
    <3>2. t.bits \in 0 .. 64
      <4>1. t.bits <= 64
        BY <1>1, <2>1 DEF Supported
      <4>2. IsScalar(t)
        <5>1. t \notin {Void, LabelTy}
          BY <2>1 DEF Void, LabelTy, Scalar
        <5> QED
          BY <1>1, <2>1, <5>1 DEF Supported, IsMember, IsVector
      <4>3. t.bits \in Nat
        BY <4>2, ScalarFacts
      <4> QED
        BY <4>1, <4>3
    <3>3. t.id \notin FloatingPoint
      BY <2>1 DEF FloatingPoint
    <3> QED
      BY <3>1, <3>2, <3>3, ShowsInteger
  <2>2. CASE t.id \in FloatingPoint
    <3>1. t.id # "Pointer" /\ t.id # "Integer"
      BY <2>2 DEF FloatingPoint
    <3>2. literal = FALSE
      BY <1>7, <3>1
    <3>3. h.fn = "trace_logger_log_double"
      BY <1>6, <2>2, FloatLog
    <3> QED
      BY <2>2, <3>2, <3>3, ShowsDouble
  <2>3. CASE t.id = "Pointer" /\ literal
    <3>1. h.fn = "trace_logger_log_string" /\ literal = TRUE
      BY <1>3, <1>6, <1>7, <2>3 DEF logFunction, FloatingPoint, IsVector
    <3> QED
      BY <1>8, <3>1
  <2>4. CASE t.id = "Pointer" /\ ~literal
    <3>1. literal = FALSE
      BY <1>7, <2>4
    <3>2. h.fn = "trace_logger_log_ptr"
      BY <1>6, <2>4, <3>1, PointerLog
    <3>3. t.bits \in 0 .. 64 /\ t.id \notin FloatingPoint
      <4>1. IsScalar(t)
        <5>1. t \notin {Void, LabelTy}
          BY <2>4 DEF Void, LabelTy, Scalar
        <5> QED
          BY <1>1, <2>4, <5>1 DEF Supported, IsMember, IsVector
      <4>2. t.bits = 64
        BY <2>4, <4>1, ScalarFacts
      <4> QED
        BY <2>4, <4>2 DEF FloatingPoint
    <3> QED
      BY <3>1, <3>2, <3>3, ShowsInteger
  <2>5. CASE IsVector(t)
    <3>1. t.id \notin {"Integer", "Pointer"} \cup FloatingPoint
      BY <2>5 DEF IsVector, FloatingPoint
    <3>2. h.fn = "trace_logger_log_vector" /\ literal = FALSE
      BY <1>6, <1>7, <2>5, <3>1 DEF logFunction
    <3>3. Storable(t) /\ ~Blurred(t)
      BY <1>1, <1>8, <2>5 DEF Storable
    <3>4. h.size = t.bits
      BY <1>1, <3>3, VectorSize DEF Blurred
    <3> QED
      BY <3>2, <3>3, <3>4, ShowsVector
  <2>6. CASE t.id \notin {"Integer", "Pointer"} \cup FloatingPoint /\ ~IsVector(t)
    <3>1. h.fn = "none"
      BY <1>6, <2>6 DEF logFunction
    <3> QED
      BY <1>1, <3>1
  <2> QED
    BY <2>1, <2>2, <2>3, <2>4, <2>5, <2>6
<1> QED
  BY <1>5, <1>9 DEF t

\* Different values make different lines, unless a line cannot show its value, and the
\* text of a vector does not outgrow its buffer on the stack.
THEOREM ValuesCorrect == Spec => []ValuesShown
<1>1. PassInv /\ HookInv => ValuesShown
  <2> SUFFICES ASSUME PassInv, HookInv PROVE ValuesShown
    OBVIOUS
  <2>1. ASSUME NEW g \in Written,
               NEW line \in {<<h.type, h.fn, h.size, h.given>> :
                               h \in {l \in Lines(g) : ~Hidden(g, l)}}
        PROVE  line[4] /\ Shows(line[2], line[3], line[1])
    <3>1. PICK h \in Lines(g) : /\ ~Hidden(g, h)
                                /\ line = <<h.type, h.fn, h.size, h.given>>
      OBVIOUS
    <3>2. h.kind \in LineKinds /\ IsLine(Functions[g], h)
      BY WrittenLine DEF Lines
    <3>3. h.given = TRUE /\ Shows(h.fn, h.size, h.type)
      BY <3>1, <3>2, LineShows
    <3> QED
      BY <3>1, <3>3
  <2> QED
    BY <2>1 DEF ValuesShown, Shows
<1> QED
  BY <1>1, PassInvariant, HookInvariant, PTL
=============================================================================
