---------------------------- MODULE MCInstrument ----------------------------
(* Modules for TLC: one of a C program compiled with names (a workload      *)
(* function with a loop over vectors, a helper, main, a C++ function and a  *)
(* host function), one whose names survive in debug information only, with  *)
(* values of every type, and a deep nest of loops.                          *)
EXTENDS Instrument

CONSTANTS main, kernel, helper, cxx, mangled, hostLoad, memcpy, dbg, sin, a, v, w, x, y,
          cast, exit, body

P == Pointer("float")
I == IntegerTy(32)
S == Struct(<<IntegerTy(32), Pointer("i8")>>)

Vectors == {Vector(4, Float), Vector(4, IntegerTy(32)), Vector(4, IntegerTy(1)),
            Vector(4, IntegerTy(4)), Vector(4, Pointer("i8")), Vector(4, P)}

Value(b, i, type) == Operand("inst", <<b, i>>, type, NoName)
Arg(j, type) == Operand("arg", <<0, j>>, type, NoName)
Label(b) == Operand("label", <<b, 0>>, LabelTy, NoName)
Const(type) == Operand("const", NoPlace, type, NoName)
Global(name) == Operand("global", NoPlace, P, name)

I_(op, type, name, operands) ==
  [op |-> op, type |-> type, name |-> name, operands |-> operands, callee |-> NoName,
   from |-> << >>, more |-> 0, var |-> NoName]
CallOf(f, type, operands) == [I_("call", type, NoName, operands) EXCEPT !.callee = f]
Phi(type, name, operands, from) == [I_("phi", type, name, operands) EXCEPT !.from = from]
Dbg(value, name) == [CallOf(dbg, Void, <<value>>) EXCEPT !.var = name]

Fn(symbol, name, linkage, args, blocks) ==
  [symbol |-> symbol, name |-> name, linkage |-> linkage, args |-> args, blocks |-> blocks,
   labels |-> [b \in DOMAIN blocks |-> NoName], depth |-> [b \in DOMAIN blocks |-> 0],
   fxp |-> "none"]
A_(type, name) == [type |-> type, name |-> name]
Ret == << << I_("ret", Void, NoName, << >>) >> >>

\* A loop: two casts of an argument, loads and sums of vectors of two types.
KernelBody(t, u, name) == <<
  << I_("bitcast", P, name, <<Arg(1, P)>>),
     I_("bitcast", P, NoName, <<Value(1, 1, P)>>),
     I_("load", t, NoName, <<Value(1, 1, P)>>),
     I_("store", Void, NoName, <<Value(1, 3, t), Value(1, 2, P)>>),
     I_("br", Void, NoName, <<Label(2)>>) >>,
  << Phi(t, NoName, <<Value(1, 3, t), Value(2, 4, t)>>, <<1, 2>>),
     Phi(I, w, <<Const(I), Const(I)>>, <<1, 2>>),
     Dbg(Value(2, 1, t), x),
     I_("add", t, NoName, <<Value(2, 1, t), Const(t)>>),
     I_("cmp", u, NoName, <<Const(u), Value(2, 4, t)>>),
     CallOf(helper, S, <<Value(2, 5, u), Value(1, 1, P)>>),
     CallOf(NoName, Void, <<Value(1, 2, P)>>),
     I_("br", Void, NoName, <<Const(I), Label(3), Label(2)>>) >>,
  << CallOf(memcpy, Void, <<Value(1, 2, P), Arg(1, P)>>),
     CallOf(hostLoad, Void, <<Value(2, 4, t)>>),
     I_("ret", Void, NoName, << >>) >> >>

FunctionsOf(t, u, name) == <<
  [Fn(kernel, kernel, FALSE, <<A_(P, a), A_(t, v)>>, KernelBody(t, u, name))
     EXCEPT !.labels = <<NoName, body, exit>>, !.depth = <<0, 1, 0>>],
  Fn(mangled, cxx, TRUE, << >>, Ret),
  Fn(helper, helper, FALSE, <<A_(u, v), A_(P, a)>>,
     << << I_("add", u, NoName, <<Arg(1, u), Const(u)>>),
           I_("store", Void, NoName, <<Value(1, 1, u), Arg(2, P)>>),
           I_("store", Void, NoName, <<Const(I), Arg(2, P)>>),
           I_("ret", Void, NoName, <<Const(S)>>) >> >>),
  Fn(hostLoad, hostLoad, FALSE, <<A_(t, v)>>, Ret),
  Fn(main, main, FALSE, << >>,
     << << I_("store", Void, NoName, <<Const(I), Const(P)>>), I_("invoke", Void, NoName, << >>) >>,
        << CallOf(kernel, Void, <<Const(P), Const(t)>>), I_("ret", Void, NoName, <<Const(I)>>) >> >>) >>

\* Without names: an alloca and the arguments are described by debug intrinsics, and
\* so is a constant; the pointer that is cast may be one without a name.  Phis of an
\* aggregate and of a pointer that is cast later on; strings of all kinds.
Str == Pointer("i8")
LateBody(Agg, named) == <<
  << I_("alloca", P, NoName, <<Const(I)>>),
     Dbg(Value(1, 1, P), x), Dbg(Arg(1, IntegerTy(1)), y), Dbg(Const(I), w),
     Dbg(Arg(3, P), named),
     I_("bitcast", P, NoName, <<Value(1, 1, P)>>),
     Dbg(Value(1, 6, P), a),
     I_("load", Agg, NoName, <<Global(a)>>),
     I_("load", IntegerTy(64), NoName, <<Value(1, 6, P)>>),
     I_("br", Void, NoName, <<Label(2)>>) >>,
  << Phi(Agg, NoName, <<Value(1, 8, Agg), Value(2, 4, Agg)>>, <<1, 3>>),
     Phi(P, NoName, <<Value(1, 6, P), Value(3, 1, P)>>, <<1, 3>>),
     I_("fadd", Double, NoName, <<Const(Double), Arg(2, Half)>>),
     I_("load", Agg, NoName, <<Value(2, 2, P)>>),
     I_("fcmp", IntegerTy(1), NoName, <<Value(2, 3, Double), Const(Double)>>),
     CallOf(sin, Double, <<Value(2, 3, Double)>>),
     CallOf(memcpy, Void, <<Global(a), Operand("string", NoPlace, Str, NoName)>>),
     [CallOf(helper, IntegerTy(16), <<Operand("string", NoPlace, Str, NoName), Const(IntegerTy(8)),
        Operand("function", NoPlace, Pointer("function"), cxx), Const(S), Value(1, 9, IntegerTy(64))>>)
        EXCEPT !.more = 2],
     I_("store", Void, NoName, <<Operand("substring", NoPlace, Str, NoName), Global(a)>>),
     I_("store", Void, NoName, <<Operand("variable", NoPlace, Str, NoName), Global(a)>>),
     I_("br", Void, NoName, <<Value(2, 5, IntegerTy(1)), Label(4), Label(3)>>) >>,
  << I_("bitcast", P, NoName, <<Arg(3, P)>>), I_("br", Void, NoName, <<Label(2)>>) >>,
  << I_("ret", Void, NoName, << >>) >> >>

Aggregate(fxp) ==
  IF fxp = "middle" THEN Struct(<<IntegerTy(64), Array(3, IntegerTy(16))>>)
  ELSE Array(3, IntegerTy(16))

Late(fxp) == <<
  [Fn(kernel, kernel, FALSE, <<A_(IntegerTy(1), NoName), A_(Half, NoName), A_(P, NoName)>>,
      LateBody(Aggregate(fxp), IF fxp = "middle" THEN Empty ELSE v))
     EXCEPT !.fxp = fxp, !.depth = <<0, 1, 1, 0>>],
  Fn(helper, helper, FALSE, <<A_(Str, NoName), A_(IntegerTy(8), NoName), A_(Pointer("function"), v),
       A_(S, NoName), A_(IntegerTy(64), NoName)>>,
     << << I_("fptrunc", Float, NoName, <<Const(Double)>>),
           I_("ret", Void, NoName, <<Const(IntegerTy(16))>>) >> >>) >>

\* n loops nested into one another, whose only latch is the body of the innermost.
Nest(n, name(_)) == <<
  [Fn(kernel, kernel, FALSE, << >>,
      [b \in 1 .. n + 2 |->
         IF b = n + 2 THEN << I_("ret", Void, NoName, << >>) >>
         ELSE IF b = n + 1
         THEN << I_("switch", Void, NoName, <<Const(I)>> \o
                   [k \in 1 .. 2 * n + 1 |-> IF k % 2 = 0 THEN Const(I)
                                             ELSE Label(IF k = 1 THEN n + 2 ELSE k \div 2 + 1)]) >>
         ELSE << I_("br", Void, NoName, <<Label(b + 1)>>) >>])
     EXCEPT !.labels = [b \in 1 .. n + 2 |-> name(b)],
            !.depth = [b \in 1 .. n + 2 |-> IF b = n + 2 THEN 0 ELSE b - 1]] >>

Depth == 100
NoLabels(b) == NoName
Labels(b) == <<"for.body", b>>

\* No workload, one function, several of them, and -trace-all-callees; "," has one item,
\* which is empty, and so has the first place of ",kernel".
Workloads == { <<{}, FALSE>>, <<{kernel}, FALSE>>, <<{cxx}, FALSE>>, <<{main}, FALSE>>,
               <<{kernel, helper}, FALSE>>, <<{kernel, helper}, TRUE>>,
               <<{NoName}, FALSE>>, <<{kernel, NoName}, FALSE>> }

HostLoad == hostLoad :> "HOST_LOAD"

Programs ==
  {[workload |-> wl[1], allCallees |-> wl[2], functions |-> fs] :
     wl \in Workloads,
     fs \in {FunctionsOf(t, u, name) : t \in Vectors, u \in Vectors, name \in {NoName, cast}}
              \cup {Late(fxp) : fxp \in {"none", "middle", "end"}}}
  \cup {[workload |-> {kernel}, allCallees |-> FALSE, functions |-> fs] :
          fs \in {Nest(Depth, NoLabels), Nest(Depth, Labels)}}

\* None of these functions has values whose numbers would be cut off.
ASSUME FewValues
=============================================================================
