------------------------------- MODULE Values -------------------------------
(***************************************************************************)
(* Values in a trace line: the size the pass computes for a type           *)
(* (getMemSize), the logging function it chooses for a value               *)
(* (printParamLine), and what that function prints when the program runs   *)
(* (trace_logger_log_int, _ptr, _string, _double and _vector).  Pure       *)
(* definitions; module Instrument uses them for every hook it inserts.     *)
(*                                                                         *)
(* A type is built from the bottom up and carries its width and alignment  *)
(* in memory, as a target of 64 bits lays it out, in bits; the code's own  *)
(* size is computed beside it.  The value a program holds is the bytes a   *)
(* store of it would write, lowest first; a floating-point value is a      *)
(* number of 10^-7.                                                        *)
(***************************************************************************)
EXTENDS Naturals, Sequences, SequencesExt

RESULT_LINE == 19134
FORWARD_LINE == 24601

----------------------------------------------------------------------------
(* Types of LLVM.                                                          *)

\* The least power of two that is no smaller, from a byte on and up to a cache line.
Natural(bits) ==
  LET room == {n \in {8, 16, 32, 64, 128, 256} : n >= bits}
  IN  IF room = {} THEN 512 ELSE CHOOSE n \in room : \A m \in room : n <= m

\* Padded to a multiple of an alignment.
Padded(bits, align) == ((bits + align - 1) \div align) * align

Scalar(id, bits) == [id |-> id, bits |-> bits, align |-> Natural(bits)]
IntegerTy(w) == Scalar("Integer", w)
Half == Scalar("Half", 16)
Float == Scalar("Float", 32)
Double == Scalar("Double", 64)
Void == Scalar("Void", 0)
LabelTy == Scalar("Label", 0)
Pointer(to) == [id |-> "Pointer", bits |-> 64, align |-> 64, to |-> to]
Vector(n, elem) ==
  [id |-> "Vector", bits |-> n * elem.bits, align |-> Natural(n * elem.bits), n |-> n, elem |-> elem]
Array(n, elem) ==
  [id |-> "Array", bits |-> n * Padded(elem.bits, elem.align), align |-> elem.align,
   n |-> n, elem |-> elem]

Total(numbers) == FoldLeft(LAMBDA x, y : x + y, 0, numbers)

\* Members of a struct within a struct are its members.  Each begins at a multiple of
\* its alignment, and so would the next struct.
Struct(members) ==
  LET align == FoldLeft(LAMBDA x, m : IF m.align > x THEN m.align ELSE x, 8, members)
      end == FoldLeft(LAMBDA x, m : Padded(x, m.align) + Padded(m.bits, m.align), 0, members)
  IN  [id |-> "Struct", members |-> members, bits |-> Padded(end, align), align |-> align]

FloatingPoint == {"Half", "Float", "Double"}
IsVector(type) == type.id = "Vector"

\* The types there are.  Elements of an array may be of any type of some width.
IsScalar(type) ==
  \/ type.id = "Integer" /\ type = IntegerTy(type.bits) /\ type.bits \in Nat \ {0}
  \/ type \in {Half, Float, Double}
  \/ type.id = "Pointer" /\ type = Pointer(type.to)

IsMember(type) ==
  \/ IsScalar(type)
  \/ IsVector(type) /\ type = Vector(type.n, type.elem) /\ type.n \in Nat /\ IsScalar(type.elem)
  \/ type.id = "Array" /\ type = Array(type.n, type.elem) /\ type.n \in Nat /\ type.elem.bits \in Nat

\* Those the pass can convert for a line; for wider integers it builds an invalid cast.
Supported(type) ==
  /\ \/ IsMember(type) \/ type \in {Void, LabelTy}
     \/ /\ type.id = "Struct" /\ type = Struct(type.members)
        /\ \A i \in DOMAIN type.members : IsMember(type.members[i])
  /\ type.id = "Integer" => type.bits <= 64

\* LLVM's own measure: 0 for pointers, and for vectors of them, and aggregates.
getPrimitiveSizeInBits(type) ==
  IF type.id = "Integer" \/ type.id \in FloatingPoint THEN type.bits
  ELSE IF IsVector(type) /\ type.elem.id # "Pointer" THEN type.bits ELSE 0

\* The cases of getMemSize that are no struct.
memberMemSize(type) ==
  CASE type.id = "Pointer" -> 8 * 8
    [] type.id \in {"Integer", "Vector"} \cup FloatingPoint -> getPrimitiveSizeInBits(type)
    [] type.id = "Array" -> type.n * getPrimitiveSizeInBits(type.elem)
    [] type.id \in {"Function", "Label", "Void"} -> 0

getMemSize(type) ==
  IF type.id # "Struct" THEN memberMemSize(type)
  ELSE Total([i \in DOMAIN type.members |-> memberMemSize(type.members[i])])

----------------------------------------------------------------------------
(* From a value to a line.                                                 *)

\* printParamLine: the function it calls, "none" after a warning.  Given says
\* whether there is a value to pass, literal whether it is a constant expression on a
\* global that is initialized with a string, see Instrument's StringKinds.
logFunction(type, given, literal, intrinsic) ==
  IF ~given THEN "trace_logger_log_int"
  ELSE CASE type.id = "Integer" -> "trace_logger_log_int"
         [] type.id \in FloatingPoint -> "trace_logger_log_double"
         [] type.id = "Pointer" ->
              IF literal /\ ~intrinsic THEN "trace_logger_log_string" ELSE "trace_logger_log_ptr"
         [] IsVector(type) -> "trace_logger_log_vector"
         [] OTHER -> "none"

\* Mutant of int64: the format %d takes the lower half of an argument.
int64_halved(bytes) == [i \in 1 .. 8 |-> IF i <= Len(bytes) /\ i <= 4 THEN bytes[i] ELSE 0]

\* IRBuilder::CreateZExt and CreatePtrToInt to 64 bits, printed by %ld and %#llx.
int64(bytes) == [i \in 1 .. 8 |-> IF i <= Len(bytes) THEN bytes[i] ELSE 0]

\* Bytes of the vector trace_logger_log_vector has converted, and the characters
\* of value_str, two of them taken by "0x" and one by the end of the string.
hexBytes(size) == size \div 8
value_str(size) == size \div 4 + 3

\* Pointers for an intrinsic are passed as 0.
passed(type, given, intrinsic) == given /\ ~(intrinsic /\ type.id = "Pointer")

\* The text of value v in the line that function fn prints; "%f" has six decimals.  A
\* line of trace_logger_log_string does not depend on the value.
printed(fn, size, v) ==
  CASE fn \in {"trace_logger_log_int", "trace_logger_log_ptr"} -> int64(v)
    [] fn = "trace_logger_log_double" -> (v + 5) \div 10
    [] fn = "trace_logger_log_vector" -> SubSeq(v, 1, hexBytes(size))

----------------------------------------------------------------------------
(* Block ids.                                                              *)

TenTo == <<10, 100, 1000, 10000, 100000, 1000000, 10000000, 100000000, 1000000000>>

\* Of an unsigned int in decimal.
Digits(n) ==
  CHOOSE k \in 1 .. 10 : (k = 10 \/ n < TenTo[k]) /\ (k = 1 \/ n >= TenTo[k - 1])

\* The first k digits of n, 0 if there are none.
Leading(n, k) == IF Digits(n) <= k THEN n ELSE n \div TenTo[Digits(n) - k]

kMaxLoopDepthChars == 3

\* Mutant of namedId: the terminating null takes the place of the colon, too.
namedId_short(name, depth) == <<"label", name, Leading(depth, kMaxLoopDepthChars - 2)>>

\* makeValueId prints "name:depth" into room for the name, the colon and three more
\* characters, the last of which is the null.  A name is not taken for a number.
namedId(name, depth) == <<"label", name, Leading(depth, kMaxLoopDepthChars - 1)>>

\* ... and "slot:depth" into room for six characters and the null.
slotId(slot, depth) ==
  LET room == 2 * kMaxLoopDepthChars - 1 - Digits(slot)
  IN  <<"block", Leading(slot, 2 * kMaxLoopDepthChars), IF room > 0 THEN Leading(depth, room) ELSE 0>>
=============================================================================
