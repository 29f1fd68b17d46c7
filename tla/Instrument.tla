----------------------------- MODULE Instrument -----------------------------
(***************************************************************************)
(* The instrumentation pass itself, full-trace/full_trace.cpp: how opt     *)
(* walks the functions of a module and where the pass inserts calls of the *)
(* runtime library, under which names, with which opcodes, sizes and       *)
(* numbers, and through which buffers it passes vectors.  Module           *)
(* TracedProgram takes up what the inserted calls do.                      *)
(*                                                                         *)
(* A function is a sequence of blocks, a block a sequence of instructions; *)
(* code holds the blocks as they are rewritten, a sequence of items that   *)
(* are instructions of the program or inserted ones.  A value has a place  *)
(* in the original function: <<b, i>> is instruction i of block b, <<b, 0>> *)
(* the block and <<0, j>> argument j.  Source line numbers are left out.   *)
(***************************************************************************)
EXTENDS Values, SlotTracker, FiniteSets

CONSTANTS
  NoName,       \* no name
  Empty,        \* the name of a variable without one: empty, and yet a name
  MainFn,       \* main
  Recorded,     \* the intrinsics that represent work, the list intrinsics
  Ignored,      \* the remaining intrinsics
  Special,      \* opcode of each dma and host function and setSamplingFactor
  SpecialMath,  \* the list special_math_ops
  Modules       \* the modules to instrument, see ModulesAssumption

VARIABLES
  module,           \* the module
  tracked_functions,
  is_toplevel_mode,
  mangledNameMap,   \* pairs <<linkage name, name>>
  fn,               \* index of curr_function
  at,               \* block and index of the instruction pc is about
  pc,               \* what the pass does next
  code,             \* blocks of each function, as rewritten
  st,               \* slot tracker of the current function
  valueDebugName,   \* value -> name, from debug information
  slotToVarName,    \* slot -> name
  vector_buffers,   \* buffers allocated in the current function, newest first
  instc             \* instructions of the block that were given a number

vars == <<module, tracked_functions, is_toplevel_mode, mangledNameMap, fn, at, pc,
          code, st, valueDebugName, slotToVarName, vector_buffers, instc>>

IsSequence(s) == s \in Seq(ToSet(s))

\* A map with key k set to x.
Put(map, k, x) == [j \in DOMAIN map \cup {k} |-> IF j = k THEN x ELSE map[j]]

NoPlace == <<0, 0>>
NoBuffer == [fn |-> 0, type |-> Void]

\* An operand: what kind of value, its place in the function if it has one, and
\* the name of a global or a function.
Operand(kind, place, type, name) == [kind |-> kind, at |-> place, type |-> type, name |-> name]
NoOperand == Operand("none", NoPlace, Void, NoName)

\* Operands that printParamLine takes for strings: constant expressions whose first
\* operand is a global initialized with a string.  They are its address as an i8*, the
\* address of a character further on, and either where the program may write to it; for
\* all of them it passes the text of the initializer, found at compile time.
StringKinds == {"string", "substring", "variable"}

\* Names of values in a trace: a name, a slot number, or block id and number.
Named(name) == <<"name", name, 0>>
Numbered(slot) == <<"slot", slot, 0>>
Artificial(bbid, n) == <<"inst", bbid, n>>
NoId == Named(NoName)

\* An instruction of the program or an inserted one, with all it may pass.
Item(kind, place) ==
  [kind |-> kind, at |-> place, id |-> NoId, bbid |-> NoId, opcode |-> "none", num |-> 0,
   type |-> Void, size |-> 0, given |-> FALSE, fn |-> "none", prev |-> NoId,
   buffer |-> NoBuffer, operand |-> NoOperand]

\* printParamLine: the call that prints one value.
Line(kind, place, num, id, type, given, literal, intrinsic) ==
  [Item(kind, place) EXCEPT
     !.num = num, !.id = id, !.type = type, !.size = getMemSize(type),
     !.given = passed(type, given, intrinsic),
     !.fn = logFunction(type, given, literal, intrinsic)]

\* What is numbered in function f when its blocks hold these items: arguments,
\* blocks, instructions, and the buffers that were added.
Countable(f, blocks) ==
  LET value(place, name, void) == [at |-> place, named |-> name # NoName, void |-> void]
      item(it) == IF it.kind = "inst"
                  THEN value(it.at, f.blocks[it.at[1]][it.at[2]].name, it.type = Void)
                  ELSE value(NoPlace, NoName, it.kind # "buffer")
  IN  [j \in DOMAIN f.args |-> value(<<0, j>>, f.args[j].name, FALSE)] \o
      FlattenSeq([b \in DOMAIN blocks |->
        <<value(<<b, 0>>, f.labels[b], FALSE)>> \o [i \in DOMAIN blocks[b] |-> item(blocks[b][i])]])

Terminators == {"ret", "br", "switch", "invoke"}

\* A module: its functions in order, the workload and -trace-all-callees.  No two
\* values of a function have the same name.
ASSUME NamesAssumption ==
  \A m \in Modules : \A f \in ToSet(m.functions) :
    LET insts == FlattenSeq(f.blocks)
        names == f.labels \o [i \in DOMAIN insts |-> insts[i].name]
                   \o [j \in DOMAIN f.args |-> f.args[j].name]
    IN  \A i, j \in DOMAIN names : names[i] = names[j] => i = j \/ names[i] = NoName

\* An operand of instruction i of block b of function f.
OperandOK(f, b, i, o) ==
  /\ Supported(o.type) /\ o.type # Void
  /\ CASE o.kind = "inst" ->
            /\ o.at[1] \in DOMAIN f.blocks /\ o.at[2] \in DOMAIN f.blocks[o.at[1]]
            /\ o.at = <<o.at[1], o.at[2]>>
            /\ o.type = f.blocks[o.at[1]][o.at[2]].type
            /\ \/ f.blocks[b][i].op = "phi" \/ o.at[1] < b
               \/ o.at[1] = b /\ o.at[2] < i
       [] o.kind = "arg" -> /\ o.at \in {<<0, j>> : j \in DOMAIN f.args}
                            /\ o.type = f.args[o.at[2]].type
       [] o.kind = "label" -> o.at \in {<<c, 0>> : c \in DOMAIN f.blocks} /\ o.type = LabelTy
       [] o.kind \in StringKinds -> o.at = NoPlace /\ o.type.id = "Pointer"
       [] OTHER -> /\ o.at = NoPlace
                   /\ o.kind = "const" => o.name = NoName
                   /\ o.kind = "function" => o.type.id = "Pointer"

InstOK(m, f, b, i) ==
  LET inst == f.blocks[b][i]
  IN  /\ inst.op = "phi" =>
           /\ b > 1 /\ \A k \in 1 .. i : f.blocks[b][k].op = "phi"
           /\ Len(inst.from) = Len(inst.operands)
           /\ IsSequence(inst.from) /\ ToSet(inst.from) \subseteq DOMAIN f.blocks
      /\ IsSequence(inst.operands)
      /\ \A o \in ToSet(inst.operands) : OperandOK(f, b, i, o)
      /\ inst.op \in Terminators <=> i = Len(f.blocks[b])
      /\ inst.op \in {"ret", "br", "switch", "store"} => inst.type = Void
      /\ inst.op \in {"phi", "bitcast"} => inst.type # Void
      /\ inst.type = Void => inst.name = NoName
      /\ inst.more \in Nat
      /\ Supported(inst.type)
      /\ \A g \in ToSet(m.functions) : inst.callee = g.symbol =>
           [j \in DOMAIN g.args |-> g.args[j].type]
             = [j \in DOMAIN inst.operands |-> inst.operands[j].type]

ASSUME ModulesAssumption ==
  \A m \in Modules :
    /\ IsSequence(m.functions)
    /\ \A f \in ToSet(m.functions) :
         /\ IsSequence(f.blocks) /\ f.blocks # << >>
         /\ IsSequence(f.labels) /\ Len(f.labels) = Len(f.blocks)
         /\ IsSequence(f.depth) /\ Len(f.depth) = Len(f.blocks) /\ ToSet(f.depth) \subseteq Nat
         /\ IsSequence(f.args)
         /\ \A j \in DOMAIN f.args :
              Supported(f.args[j].type) /\ f.args[j].type \notin {Void, LabelTy}
         /\ f.fxp \in {"none", "middle", "end"}
         /\ \A b \in DOMAIN f.blocks :
              /\ IsSequence(f.blocks[b]) /\ f.blocks[b] # << >>
              /\ \A i \in DOMAIN f.blocks[b] : InstOK(m, f, b, i)

Function == module.functions[fn]
Inst(place) == Function.blocks[place[1]][place[2]]

----------------------------------------------------------------------------
(* Which functions, and which of their instructions.                       *)

linkageName(f) == IF f.linkage THEN f.symbol ELSE f.name

\* doInitialization, from the debug information of the module.  Between two commas
\* WORKLOAD has an item without a name, which is that of no linkage name, too.
tracked(m) ==
  {linkageName(f) : f \in {g \in ToSet(m.functions) :
     g.name # NoName /\ m.workload \cap {g.name, IF g.linkage THEN g.symbol ELSE NoName} # {}}}

\* runOnFunction skips what has no debug information or a mangled name.
IsC(f) == <<f.symbol, f.symbol>> \in mangledNameMap

isTrackedFunction(f) == f \in tracked_functions

\* runOnBasicBlock: blocks that are left alone.
Visited(f) ==
  /\ is_toplevel_mode \/ isTrackedFunction(f.symbol)
  /\ f.symbol \notin DOMAIN Special

\* runOnBasicBlock: instructions that are left alone.
Traced(inst) ==
  /\ inst.op # "invoke"
  /\ inst.op = "call" =>
       /\ inst.callee # NoName
       /\ \/ inst.callee \in Recorded \cup DOMAIN Special
          \/ ~is_toplevel_mode /\ isTrackedFunction(inst.callee)
          \/ is_toplevel_mode /\ inst.callee \notin Ignored

----------------------------------------------------------------------------
(* Names.  The name of a value is its own or the one its debug information *)
(* gives.  A value has a slot if it has no name of its own.                *)

IsBitcast(f, o) == o.kind = "inst" /\ f.blocks[o.at[1]][o.at[2]].op = "bitcast"

\* collectDebugInfo, for all debug intrinsics of a function in their order: the
\* first one that describes a value names it, be the name Empty, and casts are never
\* named.  An instruction that is no debug intrinsic has NoName as var.
collectDebugInfo(f) ==
  LET insts == FlattenSeq(f.blocks)
      upTo[i \in 0 .. Len(insts)] ==
        IF i = 0 THEN [v \in {} |-> NoName]
        ELSE IF insts[i].var = NoName \/ IsBitcast(f, insts[i].operands[1])
                \/ insts[i].operands[1] \in DOMAIN upTo[i - 1]
        THEN upTo[i - 1]
        ELSE Put(upTo[i - 1], insts[i].operands[1], insts[i].var)
  IN  upTo[Len(insts)]

ownName(f, o) ==
  CASE o.kind = "inst" -> f.blocks[o.at[1]][o.at[2]].name
    [] o.kind = "arg" -> f.args[o.at[2]].name
    [] OTHER -> o.name

nameIn(f, debugNames, o) ==
  IF ownName(f, o) = NoName /\ o \in DOMAIN debugNames THEN debugNames[o] ELSE ownName(f, o)

getValueName(o) == nameIn(Function, valueDebugName, o)

asOperand(place) == Operand("inst", place, Inst(place).type, NoName)

\* The tracker once a number has been asked for.
Tracker == initialize(st, Countable(Function, code[fn]))

Slot(place) == getLocalSlot(Tracker, place)

\* getInstId for an instruction that is used as an operand.
operandId(place) ==
  LET name == getValueName(asOperand(place))
  IN  IF name # NoName THEN Named(name)
      ELSE IF Slot(place) \in DOMAIN slotToVarName THEN Named(slotToVarName[Slot(place)])
      ELSE Numbered(Slot(place))

\* makeValueId of block b.
blockId(b) ==
  IF Function.labels[b] # NoName THEN namedId(Function.labels[b], Function.depth[b])
  ELSE slotId(Slot(<<b, 0>>), Function.depth[b])

\* getInstId needs an artificial name.
IsArtificial(place) == operandId(place) = Numbered(-1)

\* Mutant of getInstId: instc is not part of the name.
getInstId_by_block(place) ==
  IF IsArtificial(place) THEN Artificial(blockId(place[1]), 0) ELSE operandId(place)

getInstId(place) ==
  IF IsArtificial(place) THEN Artificial(blockId(place[1]), instc) ELSE operandId(place)

\* handleInstructionResult: a cast of a named pointer goes by the pointer's name.
Renames(place) ==
  LET o == Inst(place).operands[1]
  IN  /\ Inst(place).op = "bitcast"
      /\ Slot(place) \notin DOMAIN slotToVarName
      /\ o.type.id = "Pointer"
      /\ getValueName(o) # NoName

\* Mutant of Renamed: the name is printed, and not recorded for later uses.
Renamed_once(place) == slotToVarName

Renamed(place) ==
  IF Renames(place)
  THEN Put(slotToVarName, Slot(place), getValueName(Inst(place).operands[1]))
  ELSE slotToVarName

----------------------------------------------------------------------------
(* Opcodes.                                                                *)

IntegerOp ==
  [fadd |-> "add", fsub |-> "sub", fmul |-> "mul", fdiv |-> "sdiv", frem |-> "srem",
   fptrunc |-> "trunc", fpext |-> "sext", fcmp |-> "icmp"]

opcodeToFixedPoint(op) == IF op \in DOMAIN IntegerOp THEN IntegerOp[op] ELSE op

isIntrinsic(f) == f \in Recorded \cup Ignored

callOpcode(f) ==
  IF f \in DOMAIN Special THEN Special[f]
  ELSE IF f \in SpecialMath THEN "SPECIAL_MATH_OP"
  ELSE IF isIntrinsic(f) THEN "INTRINSIC" ELSE "call"

\* The opcode of a line.  The test for the suffix _fxp finds it anywhere in a name.
opcode(inst) ==
  LET op == IF inst.op = "call" THEN callOpcode(inst.callee) ELSE inst.op
  IN  IF Function.fxp # "none" THEN opcodeToFixedPoint(op) ELSE op

----------------------------------------------------------------------------
(* The hooks of one instruction.                                           *)

\* printParamLine inserts nothing for a value it cannot print.
Printable(hooks) ==
  LET upTo[i \in 0 .. Len(hooks)] ==
        IF i = 0 THEN << >>
        ELSE IF hooks[i].fn = "none" THEN upTo[i - 1]
        ELSE Append(upTo[i - 1], hooks[i])
  IN  upTo[Len(hooks)]

\* Labels and functions are not values to pass, nor is what a phi may have taken
\* from another instruction.
Given(inst, o) == IF inst.op = "phi" THEN o.kind # "inst" ELSE o.kind \notin {"label", "function"}

operandName(o) ==
  CASE o.kind = "inst" -> operandId(o.at)
    [] o.kind = "label" -> blockId(o.at[1])
    [] OTHER -> Named(getValueName(o))

\* Mutant of Listed: calls are not told from other instructions.
Listed_reversed(inst, lines) == Reverse(lines)

\* The arguments of a call come in order, other operands from the last to the first.
Listed(inst, lines) == IF inst.op = "call" THEN lines ELSE Reverse(lines)

\* A call names its callee first; more is the number of its variadic arguments,
\* which are not printed.
Params(place) ==
  LET inst == Inst(place)
      n == Len(inst.operands)
      intrinsic == inst.op = "call" /\ isIntrinsic(inst.callee)
      line(i, o) ==
        [Line("param", place, i, operandName(o), o.type, Given(inst, o), o.kind \in StringKinds,
             intrinsic)
           EXCEPT !.operand = o, !.prev = IF inst.op = "phi" THEN blockId(inst.from[i]) ELSE NoId]
      callee == Line("callee", place, n + inst.more + 1, Named(inst.callee), Pointer("function"),
                     TRUE, FALSE, intrinsic)
  IN  (IF inst.op = "call" THEN <<callee>> ELSE << >>) \o
      Printable(Listed(inst, [i \in 1 .. n |-> line(i, inst.operands[i])]))

\* printFirstLine, operands, and updateTracerStatus for a return.
Before(place) ==
  <<[Item("header", place) EXCEPT !.id = getInstId(place), !.bbid = blockId(place[1]),
       !.opcode = opcode(Inst(place))]>>
  \o Params(place)
  \o (IF Inst(place).op = "ret" THEN <<[Item("status", place) EXCEPT !.opcode = opcode(Inst(place))]>>
      ELSE << >>)

Result(place) ==
  IF Inst(place).type = Void THEN << >>
  ELSE Printable(<<Line("result", place, RESULT_LINE,
         IF Renames(place) THEN Named(getValueName(Inst(place).operands[1])) ELSE getInstId(place),
         Inst(place).type, TRUE, FALSE, FALSE)>>)

\* handlePhiNodes: all hooks of the phi nodes of block b, whose number is n.
PhiHooks(b, n) ==
  FlattenSeq([i \in 1 .. n |-> Before(<<b, i>>) \o Result(<<b, i>>)])

----------------------------------------------------------------------------
(* Vectors are passed through buffers, allocated at the very beginning of  *)
(* the function and shared by vectors with the same key.                   *)

\* Mutant of createVecBufKey: without the type of the elements.
createVecBufKey_untyped(type) == <<type.n, getPrimitiveSizeInBits(type.elem) \div 8>>

createVecBufKey(type) == <<type.n, getPrimitiveSizeInBits(type.elem) \div 8, type.elem.id>>

\* Mutant of createVectorArg: buffers are not looked up.
createVectorArg_anew(so_far, h) ==
  LET new == [fn |-> fn, type |-> h.type]
  IN  IF h.fn # "trace_logger_log_vector" THEN <<so_far[1], Append(so_far[2], h)>>
      ELSE <<<<new>> \o so_far[1], Append(so_far[2], [h EXCEPT !.buffer = new])>>

\* createVectorArg, for the hook h in a state <<buffers, hooks so far>>.
createVectorArg(so_far, h) ==
  LET new   == [fn |-> fn, type |-> h.type]
      found == {b \in ToSet(so_far[1]) :
                  createVecBufKey(b.type) = createVecBufKey(h.type)}
      with(b) == Append(so_far[2], [h EXCEPT !.buffer = b])
  IN  IF h.fn # "trace_logger_log_vector" THEN <<so_far[1], Append(so_far[2], h)>>
      ELSE IF found = {} THEN <<<<new>> \o so_far[1], with(new)>>
      ELSE <<so_far[1], with(CHOOSE b \in found : TRUE)>>

\* ... and for these hooks, one after the other.
createVectorArgs(hooks) ==
  LET upTo[i \in 0 .. Len(hooks)] ==
        IF i = 0 THEN <<vector_buffers, << >>>> ELSE createVectorArg(upTo[i - 1], hooks[i])
  IN  upTo[Len(hooks)]

Alloca(b) == [Item("buffer", NoPlace) EXCEPT !.buffer = b]

\* Mutant of Around: the result is inserted before its instruction.
Around_early(before, item, after) == before \o after \o <<item>>

Around(before, item, after) == before \o <<item>> \o after

\* Put hooks around the k-th item of block b, and the buffers they need first.
Insert(b, k, before, after) ==
  LET done  == createVectorArgs(before \o after)
      hooks == done[2]
      block == code[fn][b]
      new   == SubSeq(block, 1, k - 1)
               \o Around(SubSeq(hooks, 1, Len(before)), block[k],
                         SubSeq(hooks, Len(before) + 1, Len(hooks)))
               \o SubSeq(block, k + 1, Len(block))
      added == SubSeq(done[1], 1, Len(done[1]) - Len(vector_buffers))
      front == [i \in DOMAIN added |-> Alloca(added[i])]
  IN  /\ vector_buffers' = done[1]
      /\ code' = [code EXCEPT ![fn] = [c \in DOMAIN @ |->
           (IF c = 1 THEN front ELSE << >>) \o (IF c = b THEN new ELSE @[c])]]

Position(place) ==
  SelectInSeq(code[fn][place[1]], LAMBDA it : it.kind = "inst" /\ it.at = place)

\* Mutants of insertionPoint: no buffer is skipped; the first instruction of the
\* function, which the hooks of that instruction precede by now.
insertionPoint_front == 1
insertionPoint_first == Position(<<1, 1>>)

\* runOnFunctionEntry fast forwards past the buffers.
insertionPoint == SelectInSeq(code[fn][1], LAMBDA it : it.kind # "buffer")

----------------------------------------------------------------------------
(* The walk.                                                               *)

Original(f) ==
  [b \in DOMAIN f.blocks |->
     [i \in DOMAIN f.blocks[b] |-> [Item("inst", <<b, i>>) EXCEPT !.type = f.blocks[b][i].type]]]

Init ==
  /\ module \in Modules
  /\ tracked_functions = {} /\ mangledNameMap = {}
  /\ is_toplevel_mode \in BOOLEAN  \* not initialised
  /\ fn = 1 /\ at = NoPlace /\ pc = "init"
  /\ code = [g \in DOMAIN module.functions |-> Original(module.functions[g])]
  /\ st = newTracker /\ valueDebugName = [v \in {} |-> NoName]
  /\ slotToVarName = [s \in {} |-> NoName] /\ vector_buffers = << >> /\ instc = 0

unchangedNames == UNCHANGED <<valueDebugName, slotToVarName>>
unchangedModule == UNCHANGED <<module, tracked_functions, is_toplevel_mode, mangledNameMap>>

\* Without a workload nothing is set up, and runOnFunction skips every function.
DoInitialization ==
  /\ pc = "init"
  /\ pc' = "function"
  /\ IF module.workload = {}
     THEN UNCHANGED <<tracked_functions, is_toplevel_mode, mangledNameMap>>
     ELSE /\ is_toplevel_mode' = (Cardinality(module.workload) = 1 \/ module.allCallees)
          /\ tracked_functions' = tracked(module)
          /\ mangledNameMap' =
               {<<linkageName(f), f.name>> : f \in
                  {g \in ToSet(module.functions) : g.name # NoName}}
  /\ UNCHANGED <<module, fn, at, code, st, vector_buffers, instc>> /\ unchangedNames

\* A new slot tracker, which numbers nothing yet.
RunOnFunction ==
  /\ pc = "function" /\ fn \in DOMAIN module.functions
  /\ IF IsC(Function)
     THEN /\ pc' = "block" /\ at' = <<1, 0>>
          /\ st' = incorporateFunction(newTracker, fn)
          /\ valueDebugName' = collectDebugInfo(Function)
          /\ slotToVarName' = [s \in {} |-> NoName] /\ vector_buffers' = << >>
          /\ UNCHANGED fn
     ELSE /\ fn' = fn + 1
          /\ UNCHANGED <<pc, at, st, vector_buffers>> /\ unchangedNames
  /\ UNCHANGED <<code, instc>> /\ unchangedModule

Phis(b) == Cardinality({i \in DOMAIN Function.blocks[b] : Inst(<<b, i>>).op = "phi"})

NextBlock == pc' = "block" /\ at' = <<at[1] + 1, 0>>

SkipBlock ==
  /\ pc = "block" /\ at[1] \in DOMAIN Function.blocks /\ ~Visited(Function)
  /\ NextBlock
  /\ UNCHANGED <<fn, code, st, vector_buffers, instc>> /\ unchangedNames /\ unchangedModule

\* makeValueId asks for a number of the block of a phi node.
RunOnBasicBlock ==
  LET b == at[1]
  IN  /\ pc = "block" /\ b \in DOMAIN Function.blocks /\ Visited(Function)
      /\ instc' = 0
      /\ Insert(b, Phis(b) + 1, PhiHooks(b, Phis(b)), << >>)
      /\ pc' = "instruction" /\ at' = <<b, Phis(b) + 1>>
      /\ st' = IF Phis(b) > 0 THEN Tracker ELSE st
      /\ UNCHANGED fn /\ unchangedNames /\ unchangedModule

\* makeValueId and getInstId come before it is known whether an instruction is
\* traced: the function is numbered, and the instruction counted.
Count ==
  /\ st' = IF Inst(at).op = "invoke" THEN st ELSE Tracker
  /\ instc' = instc + (IF Inst(at).op # "invoke" /\ IsArtificial(at) THEN 1 ELSE 0)

GoOn ==
  IF at[2] = Len(Function.blocks[at[1]]) THEN NextBlock
  ELSE pc' = pc /\ at' = <<at[1], at[2] + 1>>

SkipInstruction ==
  /\ pc = "instruction" /\ ~Traced(Inst(at))
  /\ Count /\ GoOn
  /\ UNCHANGED <<fn, code, vector_buffers>> /\ unchangedNames /\ unchangedModule

\* handleCallInstruction or handleNonPhiNonCallInstruction, and
\* handleInstructionResult.
TraceInstruction ==
  /\ pc = "instruction" /\ Traced(Inst(at))
  /\ Insert(at[1], Position(at), Before(at), Result(at))
  /\ slotToVarName' = Renamed(at)
  /\ Count /\ GoOn
  /\ UNCHANGED <<fn, valueDebugName>> /\ unchangedModule

IsEntryBlock == Function.symbol \in tracked_functions /\ is_toplevel_mode

\* Arguments are numbered in an entry block and forwarded by other functions.
EntryHooks ==
  (IF IsEntryBlock
   THEN <<[Item("status", NoPlace) EXCEPT !.opcode = "0"],
          [Item("entry", NoPlace) EXCEPT !.num = Len(Function.args)]>>
   ELSE << >>)
  \o Printable([j \in DOMAIN Function.args |->
       LET o == Operand("arg", <<0, j>>, Function.args[j].type, NoName)
       IN  Line("arg", NoPlace, IF IsEntryBlock THEN j ELSE FORWARD_LINE, operandName(o),
                o.type, TRUE, FALSE, FALSE)])

\* The last thing about a function, with which purgeDebugInfo comes.
RunOnFunctionEntry ==
  /\ pc = "block" /\ at[1] \notin DOMAIN Function.blocks
  /\ IF Function.symbol = MainFn THEN UNCHANGED <<code, vector_buffers>>
     ELSE Insert(1, insertionPoint, EntryHooks, << >>)
  /\ pc' = "function" /\ fn' = fn + 1 /\ at' = NoPlace
  /\ valueDebugName' = [v \in {} |-> NoName]
  /\ UNCHANGED <<st, slotToVarName, instc>> /\ unchangedModule

Done ==
  /\ pc = "function" /\ fn \notin DOMAIN module.functions
  /\ pc' = "done"
  /\ UNCHANGED <<fn, at, code, st, vector_buffers, instc>> /\ unchangedNames /\ unchangedModule

Stopped == pc = "done" /\ UNCHANGED vars

Next ==
  \/ DoInitialization \/ RunOnFunction \/ SkipBlock \/ RunOnBasicBlock
  \/ SkipInstruction \/ TraceInstruction \/ RunOnFunctionEntry \/ Done \/ Stopped

Spec == Init /\ [][Next]_vars

----------------------------------------------------------------------------
(* Properties.                                                             *)

Functions == module.functions

\* The functions opt writes out, once the pass is through.
Written == IF pc = "done" THEN DOMAIN Functions ELSE {}

InstOf(g, place) == Functions[g].blocks[place[1]][place[2]]

\* The items of function g, all of them and those of one kind.
Items(g) == UNION {ToSet(code[g][b]) : b \in DOMAIN code[g]}
OfKind(g, kind) == {it \in Items(g) : it.kind = kind}

\* The items of one kind about one place, in their order.
Select(items, kind, place) ==
  LET upTo[i \in 0 .. Len(items)] ==
        IF i = 0 THEN << >>
        ELSE IF items[i].kind = kind /\ items[i].at = place THEN Append(upTo[i - 1], items[i])
        ELSE upTo[i - 1]
  IN  upTo[Len(items)]

Ordered(g, kind, place) == Select(FlattenSeq(code[g]), kind, place)

IsHook(it) == it.kind \notin {"inst", "buffer"}

\* Types, and the pass keeps one buffer per key.
TypeOK ==
  /\ tracked_functions \subseteq {linkageName(f) : f \in ToSet(Functions)}
  /\ is_toplevel_mode \in BOOLEAN
  /\ fn \in 1 .. Len(Functions) + 1
  /\ pc \in {"init", "function", "block", "instruction", "done"}
  /\ instc \in Nat
  /\ st.TheFunction \in 0 .. Len(Functions)
  /\ \A i, j \in DOMAIN vector_buffers :
       createVecBufKey(vector_buffers[i].type) = createVecBufKey(vector_buffers[j].type) => i = j

\* In which order the hooks of an instruction run.
Rank == [header |-> 1, callee |-> 2, param |-> 3, status |-> 4, inst |-> 5, result |-> 6]

IsPhi(g, it) == it.at # NoPlace /\ InstOf(g, it.at).op = "phi"

\* The program is still there, in order, and whatever a thread executes next,
\* the hooks of an instruction come together: its header and operands before it,
\* its result right after it and before the header of the next one.  Those of
\* the phi nodes of a block follow all of its phi nodes.
HooksAround ==
  \A g \in Written : \A b \in DOMAIN Functions[g].blocks :
    LET block == code[g][b]
        insts == {j \in DOMAIN block : block[j].kind = "inst"}
    IN  /\ {block[j] : j \in insts} = ToSet(Original(Functions[g])[b])
        /\ \A i, j \in insts : i < j => block[i].at[2] < block[j].at[2]
        /\ \A j \in DOMAIN block :
             IF IsPhi(g, block[j])
             THEN block[j].kind = "inst" => \A i \in 1 .. j : i \in insts
             ELSE block[j].at # NoPlace /\ j < Len(block) =>
                    \/ /\ block[j + 1].at = block[j].at
                       /\ Rank[block[j].kind] <= Rank[block[j + 1].kind]
                    \/ \A k \in j + 1 .. Len(block) : block[k].at # block[j].at

\* In top-level mode every function of the workload except main begins by switching
\* the tracer on, before any instruction or other hook of it, and updates it last of
\* all before every return, with the opcode that the logger takes for a return.
EveryPathSwitches ==
  \A g \in Written :
    LET f == Functions[g]
    IN  IsC(f) /\ is_toplevel_mode /\ f.symbol \in tracked_functions \ DOMAIN Special =>
          /\ f.symbol # MainFn =>
               \E j \in 1 .. Len(code[g][1]) - 1 :
                 /\ \A i \in 1 .. j - 1 : code[g][1][i].kind = "buffer"
                 /\ code[g][1][j].kind = "status" /\ code[g][1][j].at = NoPlace
                 /\ code[g][1][j + 1].kind = "entry"
          /\ \A b \in DOMAIN f.blocks : \A i \in DOMAIN f.blocks[b] :
               f.blocks[b][i].op = "ret" =>
                 LET block == code[g][b]
                     n == Len(block)
                 IN  /\ n >= 3 /\ block[n].kind = "inst" /\ block[n].at = <<b, i>>
                     /\ block[n - 1].kind = "status" /\ block[n - 1].at = <<b, i>>
                     /\ block[n - 1].opcode = "ret"
                     /\ \E h \in 1 .. n - 2 :
                          block[h].kind = "header" /\ block[h].at = <<b, i>>

\* A hook that passes a vector finds its buffer allocated, on every path: in the
\* entry block of the same function, ahead of the hook.
BuffersDominate ==
  \A g \in Written : \A b \in DOMAIN Functions[g].blocks :
    \A k \in DOMAIN code[g][b] :
      LET h == code[g][b][k]
      IN  IsHook(h) /\ h.fn = "trace_logger_log_vector" =>
            \E j \in DOMAIN code[g][1] :
              /\ code[g][1][j] = Alloca(h.buffer) /\ h.buffer.fn = g
              /\ b = 1 => j < k

\* Bits below a byte and pointers do not show in a key.
Blurred(type) == type.elem.id = "Pointer" \/ type.elem.bits % 8 # 0

\* A vector is stored in a buffer of its own type (full_trace.h: "Three
\* attributes are required in order to distinguish equally sized vectors of
\* floating point elements from integral elements"), unless its key is blurred.
BuffersFit ==
  \A g \in Written : \A b \in DOMAIN Functions[g].blocks :
    \A k \in DOMAIN code[g][b] :
      LET h == code[g][b][k]
      IN  IsHook(h) /\ h.fn = "trace_logger_log_vector" =>
            \/ h.buffer.type = h.type
            \/ Blurred(h.buffer.type) \/ Blurred(h.type)

\* The function casts a named pointer and names the result.
NamedCast(f) ==
  \E inst \in ToSet(FlattenSeq(f.blocks)) :
    /\ inst.op = "bitcast" /\ inst.name # NoName
    /\ inst.operands[1].type.id = "Pointer"
    /\ nameIn(f, collectDebugInfo(f), inst.operands[1]) # NoName

\* Instructions that produce no value get names made of their block and a number
\* (full_trace.h, getInstId: "If the instruction does not produce a value, an
\* artificial ID is constructed").
ArtificialIds ==
  \A g \in Written : \A h \in OfKind(g, "header") :
    InstOf(g, h.at).type = Void => h.id[1] = "inst" /\ h.id[2] = h.bbid

\* Unless a cast of a named pointer is itself named, the headers of a function's
\* instructions tell those apart that neither their own name nor debug
\* information names.
IdsUnique ==
  \A g \in Written : ~NamedCast(Functions[g]) =>
    LET names == collectDebugInfo(Functions[g])
        Unnamed(p) ==
          nameIn(Functions[g], names, Operand("inst", p, InstOf(g, p).type, NoName)) = NoName
        header(b, i) == code[g][b][i].kind = "header"
    IN  \A b, c \in DOMAIN code[g] :
          \A i \in {k \in DOMAIN code[g][b] : header(b, k)},
             j \in {k \in DOMAIN code[g][c] : header(c, k)} :
            code[g][b][i].id = code[g][c][j].id /\ Unnamed(code[g][b][i].at) => b = c /\ i = j

Before_in_layout(p, q) == p[1] < q[1] \/ (p[1] = q[1] /\ p[2] < q[2])

\* Unless a cast of a named pointer is itself named, an operand has the name that
\* the result line of the instruction that produced it shows; only a phi may show
\* the number of a cast that comes after it in the layout.  A constant has no name,
\* unless debug information describes that constant as a variable.
OperandsAgree ==
  \A g \in Written : ~NamedCast(Functions[g]) =>
    LET results == OfKind(g, "result")
    IN  \A p \in OfKind(g, "param") :
          /\ \A r \in results :
               p.operand.kind = "inst" /\ p.operand.at = r.at =>
                 \/ p.id = r.id
                 \/ /\ InstOf(g, p.at).op = "phi" /\ InstOf(g, r.at).op = "bitcast"
                    /\ ~Before_in_layout(r.at, p.at)
          /\ p.operand.kind = "const" /\ p.operand \notin DOMAIN collectDebugInfo(Functions[g]) =>
               p.id = NoId

\* The numbers in a trace are those of the function as it was before the pass
\* (what opt -S shows of the program): inserting buffers, and the hooks of other
\* functions, does not shift them.
SlotsOfSource ==
  \A g \in Written :
    LET source == processFunction(Countable(Functions[g], Original(Functions[g])))
        Right(id, place) == id[1] = "slot" => place \in DOMAIN source /\ id[2] = source[place]
    IN  \A it \in Items(g) :
          /\ it.kind \in {"header", "result"} => Right(it.id, it.at)
          /\ it.kind = "param" => Right(it.id, it.operand.at)
          /\ it.kind = "header" /\ Functions[g].labels[it.at[1]] = NoName =>
               it.bbid[2] = source[<<it.at[1], 0>>]

\* No function has more than a million values: the id of a block has room for six digits
\* of its number.
FewValues ==
  \A m \in Modules : \A f \in ToSet(m.functions) : Len(Countable(f, Original(f))) <= 1000000

\* The depth of a block fits in its id: two digits behind a name, six characters
\* with the colon behind a number (full_trace.cpp: "10^3 - 1 is the maximum loop
\* depth" holds of neither).
DepthFits(f, b, id) ==
  IF f.labels[b] # NoName THEN f.depth[b] <= 99
  ELSE Digits(id[2]) + 1 + Digits(f.depth[b]) <= 6

\* A block goes by the same id wherever a trace speaks of it, in the headers of its
\* instructions, as a label of a branch or as the block a phi was entered from; no
\* other block has that id; and the id shows the loop depth if it fits.
BlocksNamed ==
  \A g \in Written :
    LET f == Functions[g]
        params == OfKind(g, "param")
        ids == {<<h.at[1], h.bbid>> : h \in OfKind(g, "header")}
          \cup {<<p.operand.at[1], p.id>> : p \in {q \in params : q.operand.kind = "label"}}
          \cup {<<InstOf(g, p.at).from[p.num], p.prev>> :
                  p \in {q \in params : InstOf(g, q.at).op = "phi"}}
    IN  /\ \A x, y \in ids : x[1] = y[1] <=> x[2] = y[2]
        /\ \A x \in ids : DepthFits(f, x[1], x[2]) => x[2][3] = f.depth[x[1]]

\* A call of a function of the module lists its arguments as the callee's own
\* argument lines do, in number, order and size (full_trace.cpp: "Every argument in
\* the function call will have two lines printed, reflecting the state of the
\* operand in the caller AND callee function").
CallArgsMatch ==
  \A g \in Written : \A c \in OfKind(g, "callee") :
    \A callee \in DOMAIN Functions :
      LET f == Functions[callee]
          shown == Ordered(g, "param", c.at)
          own == Ordered(callee, "arg", NoPlace)
      IN  c.id = Named(f.symbol) /\ IsC(f) /\ f.symbol # MainFn =>
            /\ Len(shown) = Len(own)
            /\ \A i \in DOMAIN own :
                 /\ shown[i].size = own[i].size /\ shown[i].type = own[i].type
                 /\ own[i].num \in {shown[i].num, FORWARD_LINE} /\ shown[i].num < c.num
                 /\ i > 1 => shown[i - 1].num < shown[i].num

LineKinds == {"callee", "param", "result", "arg"}
Lines(g) == {it \in Items(g) : it.kind \in LineKinds}

\* Values that differ in one byte, or floating-point ones by a millionth or more.
Samples(type) ==
  LET bytes == (type.bits + 7) \div 8
      zero == [i \in 1 .. bytes |-> 0]
  IN  IF type.id \in FloatingPoint THEN {0, 10, 20, 10000000}
      ELSE {zero} \cup {[zero EXCEPT ![i] = 1] : i \in 1 .. bytes}

\* What a line cannot show: the value of a phi's operand, labels and functions, and
\* pointers for an intrinsic; vectors of pointers or of less than bytes; and what is
\* taken for a string, whose line holds the text its global was initialized with.
Hidden(g, h) ==
  \/ h.kind = "param" /\ ~Given(InstOf(g, h.at), h.operand)
  \/ h.kind \in {"callee", "param"} /\ h.type.id = "Pointer"
     /\ isIntrinsic(InstOf(g, h.at).callee)
  \/ IsVector(h.type) /\ Blurred(h.type)
  \/ h.fn = "trace_logger_log_string"

\* Different values make different lines, unless a line cannot show its value, and the
\* text of a vector does not outgrow its buffer on the stack.
ValuesShown ==
  \A g \in Written :
    \A line \in {<<h.type, h.fn, h.size, h.given>> :
                   h \in {l \in Lines(g) : ~Hidden(g, l)}} :
      /\ line[4]
      /\ \A v, w \in Samples(line[1]) :
           printed(line[2], line[3], v) = printed(line[2], line[3], w) => v = w
      /\ line[2] = "trace_logger_log_vector" =>
           3 + 2 * Len(printed(line[2], line[3], CHOOSE v \in Samples(line[1]) : TRUE))
             <= value_str(line[3])
=============================================================================
