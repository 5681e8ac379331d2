--------------------------- MODULE KitInstructions ---------------------------
(***************************************************************************)
(* The instructions of inc/kit.ir.h with the registers they name, and the  *)
(* values they compute on: what the compiler, the passes of the optimiser  *)
(* and the machine share.                                                  *)
(*                                                                         *)
(* Values are ints, bools, whole floats, two component vectors, functions  *)
(* and null.  An instruction is its operation, the register it writes, the *)
(* registers it reads and one operand that is not a register.              *)
(***************************************************************************)
EXTENDS Integers, Sequences

CONSTANT
  ArgRegs     (* KIT_REG_ARG_COUNT *)

ASSUME ArgRegsAssumption == ArgRegs \in Nat

NIL     == ArgRegs        (* KIT_REG_NIL *)
General == ArgRegs + 1    (* KIT_REG_GENERAL_BEGIN; SP and IP are not named *)
None    == -1

-----------------------------------------------------------------------------
(* Values.                                                                 *)
IntOf(n)   == <<"int", n>>
FloatOf(n) == <<"float", n>>
BoolOf(b)  == <<"bool", IF b THEN 1 ELSE 0>>
Null     == <<"null", 0>>

IsVec(v)    == v[1] = "vec"
IsScalar(v) == v[1] \in {"int", "float", "bool"}
AsNumber(v) == IF IsScalar(v) THEN v[2] ELSE 0    (* kit_cast_to_int, _to_float *)
Truth(v)    == AsNumber(v) # 0                    (* kit_cast_to_bool *)

(* kit_var_equal: numbers are compared as ones of the type of the first.    *)
VarEqual(a, b) ==
  IF a[1] = "bool"    THEN IsScalar(b) /\ (a[2] = 1) = Truth(b)
  ELSE IF IsScalar(a) THEN IsScalar(b) /\ a[2] = b[2]
  ELSE a[1] = b[1] /\ a[2] = b[2]

(* operate, COERCE_BINOP and COERCE_BOOLEAN_BINOP.                         *)
Operate(op, l, r) ==
  CASE op = "EQL" -> BoolOf(VarEqual(l, r))
    [] op = "NEQ" -> BoolOf(~VarEqual(l, r))
    [] op = "NOT" -> BoolOf(~Truth(r))
    [] op = "NEG" -> IF IsScalar(r) /\ r[1] # "bool" THEN <<r[1], -r[2]>> ELSE r
    [] op \in {"ADD", "SUB", "MUL", "LT"} ->
         LET x == AsNumber(l)  y == AsNumber(r)
         IN IF "null" \in {l[1], r[1]} THEN Null
            ELSE IF op = "LT" THEN BoolOf(x < y)
            ELSE <<IF "float" \in {l[1], r[1]} THEN "float" ELSE "int",
                   CASE op = "ADD" -> x + y [] op = "SUB" -> x - y [] op = "MUL" -> x * y>>

Binary == {"ADD", "SUB", "MUL", "EQL", "NEQ", "LT"}
Unary  == {"NOT", "NEG"}

-----------------------------------------------------------------------------
(* Instructions.                                                           *)
Ins(op, dst, srcs, x) == [op |-> op, dst |-> dst, srcs |-> srcs, x |-> x]
Plain      == <<"none", 0>>
Nop        == Ins("NOP", None, <<>>, Plain)
Label(l)   == Ins("LABEL", None, <<>>, <<"label", l>>)
Jmp(l)     == Ins("JMP", None, <<>>, <<"label", l>>)
Jz(r, l)   == Ins("JZ", None, <<r>>, <<"label", l>>)
Jnz(r, l)  == Ins("JNZ", None, <<r>>, <<"label", l>>)
Mov(d, s)  == Ins("MOV", d, <<s>>, Plain)
Ret(r)     == Ins("RET", None, <<r>>, Plain)
Jumps      == {"JMP", "JZ", "JNZ"}
==============================================================================
