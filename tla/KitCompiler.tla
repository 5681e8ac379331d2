----------------------------- MODULE KitCompiler -----------------------------
(***************************************************************************)
(* From the tree to the instructions: compile of src/src/compiler/kit.cc.c *)
(* and the routines it calls, label_pass, and what kit_exec does with the   *)
(* instructions they emit.                                                 *)
(*                                                                         *)
(* Lists, maps, structs and namespaces are left out, and so are deferred   *)
(* statements (KitDefer) and the registers of the machine (KitRegAlloc):   *)
(* the instructions name virtual ones.  A variable is never named like a   *)
(* function.                                                               *)
(*                                                                         *)
(* The code gives up at the first failure; here `ok` is lost for good and  *)
(* what is emitted after that is thrown away with the rest.                *)
(***************************************************************************)
EXTENDS KitInstructions, SequencesExt, FiniteSets, TLC

CONSTANT
  Fuel        (* how many rounds of loops and calls a program is followed *)

Builtins == {"print", "vec2"}

-----------------------------------------------------------------------------
(* Trees.                                                                  *)
Node(kind, id, kids) == [kind |-> kind, id |-> id, kids |-> kids]
Lit(v)               == Node("lit", v, <<>>)
Name(x)              == Node("name", x, <<>>)

-----------------------------------------------------------------------------
(* kit_compiler, and its scopes as one sequence of variables with depths.  *)
Compiler(level, callable, globals, labels) ==
  [level |-> level, callable |-> callable, code |-> <<>>, vregs |-> General,
   labels |-> labels, depth |-> 1, loop |-> <<>>, reg |-> 0, ok |-> TRUE,
   vars |-> [i \in 1..Len(globals) |-> [name |-> globals[i], depth |-> 0, const |-> FALSE,
                                        slot |-> i - 1]]]

Emit(cc, ins)   == [cc EXCEPT !.code = Append(@, ins)]
Failed(cc)      == [cc EXCEPT !.ok = FALSE]
Result(cc, r)   == [cc EXCEPT !.reg = r]
Fresh(cc)       == [cc EXCEPT !.vregs = cc.vregs + 1, !.reg = cc.vregs]
Value(cc, op, srcs, x) == Emit(Fresh(cc), Ins(op, cc.vregs, srcs, x))
NewLabels(cc, n) == [cc EXCEPT !.labels = @ + n]

ScopePush(cc) == [cc EXCEPT !.depth = @ + 1]
ScopePop(cc)  == [cc EXCEPT !.depth = @ - 1,
                            !.vars = SelectSeq(@, LAMBDA v : v.depth < cc.depth)]
Define(cc, name, const) ==
  LET c == Fresh(cc)
  IN [c EXCEPT !.vars = Append(@, [name |-> name, depth |-> cc.depth, const |-> const,
                                   slot |-> c.reg])]
Declared(cc, name) == \E i \in 1..Len(cc.vars) : cc.vars[i].name = name
(* scope_lookup_info: the innermost scope, and the last one declared in it. *)
Lookup(cc, name) == cc.vars[SelectLastInSeq(cc.vars, LAMBDA v : v.name = name)]
IsGlobal(v)      == v.depth = 0

(* compile_and_push_literal_variable.                                      *)
PushLiteral(cc, v) ==
  CASE cc.level >= 1 /\ v[1] = "int"   -> Value(cc, "MOVI", <<>>, v)
    [] cc.level >= 1 /\ v[1] = "float" -> Value(cc, "MOVF", <<>>, v)
    [] cc.level >= 1 /\ v[1] = "null"  -> Result(cc, NIL)
    [] OTHER                           -> Value(cc, "LOADK", <<>>, v)

(* resolve_name and emit_name_load: a local is its own register.           *)
LoadName(cc, name) ==
  CASE name \in cc.callable   -> Value(cc, "LOADFN", <<>>, <<"fn", name>>)
    [] ~Declared(cc, name)    -> Failed(cc)
    [] OTHER -> LET v == Lookup(cc, name)
                IN IF IsGlobal(v) THEN Value(cc, "GETG", <<>>, <<"global", v.slot>>)
                   ELSE Result(cc, v.slot)

-----------------------------------------------------------------------------
RECURSIVE Compile(_, _)

CompileBody(cc, nodes) == FoldLeft(LAMBDA c, n : Compile(c, n), cc, nodes)
CompileAll(cc, nodes) ==
  FoldLeft(LAMBDA a, n : LET c == Compile(a.cc, n)
                         IN [cc |-> c, regs |-> Append(a.regs, c.reg)],
           [cc |-> cc, regs |-> <<>>], nodes)

(* emit_lvalue_assign; the register of the value is passed on.  A component *)
(* is changed in the register its vector was loaded into, which is then     *)
(* written back.                                                            *)
RECURSIVE LvalueAssign(_, _, _)
LvalueAssign(cc, value, n) ==
  CASE n.kind = "name" ->
         IF ~Declared(cc, n.id) THEN Failed(cc)
         ELSE LET v == Lookup(cc, n.id)
              IN CASE v.const     -> Failed(cc)
                   [] IsGlobal(v) -> Result(Emit(cc, Ins("SETG", None, <<value>>,
                                                         <<"global", v.slot>>)), value)
                   [] OTHER       -> Result(Emit(cc, Mov(v.slot, value)), value)
    [] n.kind = "member" ->
         LET base == Compile(cc, n.kids[1])
             set  == Emit(base, Ins("MEMBER_ASSIGN", None, <<value, base.reg>>,
                               <<"member", n.id>>))
         IN Result(LvalueAssign(set, base.reg, n.kids[1]), value)
    [] OTHER -> Failed(cc)

CompileAssign(cc, n) == LET r == Compile(cc, n.kids[2])
                        IN LvalueAssign(r, r.reg, n.kids[1])

CompileDeclaration(cc, n) ==
  IF \E i \in 1..Len(cc.vars) : cc.vars[i].name = n.id /\ cc.vars[i].depth = cc.depth
  THEN Failed(cc)
  ELSE LET init == IF n.kids = <<>> THEN PushLiteral(cc, Null) ELSE Compile(cc, n.kids[1])
           var  == Define(init, n.id, n.kind = "const")
       IN Emit(var, Mov(var.reg, init.reg))

AreLiterals(nodes) == \A i \in 1..Len(nodes) : nodes[i].kind = "lit"

CompileBinary(cc, n) ==
  IF cc.level >= 2 /\ AreLiterals(n.kids)
  THEN PushLiteral(cc, Operate(n.id, n.kids[1].id, n.kids[2].id))
  ELSE LET a == CompileAll(Fresh(cc), n.kids)
       IN Result(Emit(a.cc, Ins(n.id, cc.vregs, a.regs, Plain)), cc.vregs)

CompileUnary(cc, n) ==
  IF cc.level >= 2 /\ AreLiterals(n.kids)
  THEN PushLiteral(cc, Operate(n.id, Null, n.kids[1].id))
  ELSE LET a == Compile(Fresh(cc), n.kids[1])
       IN Result(Emit(a, Ins(n.id, cc.vregs, <<a.reg>>, Plain)), cc.vregs)

CompileCompound(cc, n) ==
  IF n.kids[1].kind \notin {"name", "member"} THEN Failed(cc)
  ELSE LET a == CompileAll(Fresh(cc), n.kids)
       IN LvalueAssign(Emit(a.cc, Ins(n.id, cc.vregs, a.regs, Plain)), cc.vregs, n.kids[1])

(* && and ||: the second operand is evaluated only if it decides.           *)
CompileShortCircuit(cc, n) ==
  LET short == cc.labels
      dst   == cc.vregs
      left  == Compile(Fresh(NewLabels(cc, 2)), n.kids[1])
      test  == Emit(left, IF n.kind = "and" THEN Jz(left.reg, short) ELSE Jnz(left.reg, short))
      right == Compile(test, n.kids[2])
      ends  == <<Mov(dst, right.reg), Jmp(short + 1),
                 Label(short), Mov(dst, left.reg), Label(short + 1)>>
  IN Result([right EXCEPT !.code = @ \o ends], dst)

CompileIncDec(cc, n) ==
  IF n.kids[1].kind # "name" THEN Failed(cc)
  ELSE LET old == Compile(cc, n.kids[1])
           one == PushLiteral(old, IntOf(1))
           new == Value(one, n.id, <<old.reg, one.reg>>, Plain)
       IN LvalueAssign(new, new.reg, n.kids[1])

(* compile_function_call: every argument first, and then the moves.  (The   *)
(* first form is a mutant: each argument is moved when it is compiled.)     *)
PassArgument(i, r) == IF i <= ArgRegs THEN Mov(i - 1, r) ELSE Ins("PUSH", None, <<r>>, Plain)
CallMovesAtOnce(cc, n) ==
  LET Each(a, i) == LET c == Compile(a, n.kids[i + 1]) IN Emit(c, PassArgument(i, c.reg))
      fn == Compile(cc, n.kids[1])
      a  == FoldLeft(Each, fn, [i \in 1..Len(n.kids) - 1 |-> i])
  IN Value(a, "CALL", <<fn.reg>>, <<"args", Len(n.kids) - 1>>)
CompileCall(cc, n) ==
  LET a    == CompileAll(cc, n.kids)
      args == [i \in 1..Len(n.kids) - 1 |-> PassArgument(i, a.regs[i + 1])]
  IN Value([a.cc EXCEPT !.code = @ \o args], "CALL", <<a.regs[1]>>, <<"args", Len(args)>>)

CompileMember(cc, n) == LET base == Compile(cc, n.kids[1])
                        IN Value(base, "MEMBER_ACCESS", <<base.reg>>, <<"member", n.id>>)

(* An if is its conditions and bodies in turn, and the body of the else.    *)
CompileIf(cc, n) ==
  LET end == cc.labels
      Branch(a, i) ==
        LET enter == IF i = 1 THEN a.cc ELSE NewLabels(Emit(a.cc, Label(a.next)), 1)
            next  == IF i = 1 THEN a.next ELSE a.cc.labels
            cond  == Compile(ScopePush(enter), n.kids[i])
            body  == CompileBody(Emit(cond, Jz(cond.reg, next)), n.kids[i + 1].kids)
        IN [cc |-> Emit(ScopePop(body), Jmp(end)), next |-> next]
      chain == FoldLeft(Branch, [cc |-> NewLabels(cc, 2), next |-> end + 1],
                        SelectSeq([i \in 1..Len(n.kids) - 1 |-> i], LAMBDA i : i % 2 = 1))
      other == CompileBody(ScopePush(Emit(chain.cc, Label(chain.next))),
                           n.kids[Len(n.kids)].kids)
  IN Result(Emit(ScopePop(other), Label(end)), 0)

InLoop(cc, continue, break) == [cc EXCEPT !.loop = <<continue, break>>]
OutOfLoop(cc, outer)        == [Result(cc, 0) EXCEPT !.loop = outer.loop]

CompileWhile(cc, n) ==
  LET top  == cc.labels
      cond == Compile(ScopePush(Emit(NewLabels(cc, 2), Label(top))), n.kids[1])
      body == CompileBody(InLoop(Emit(cond, Jz(cond.reg, top + 1)), top, top + 1),
                          n.kids[2].kids)
  IN OutOfLoop(ScopePop(Emit(Emit(body, Jmp(top)), Label(top + 1))), cc)

(* for (init; condition; iterators) body                                    *)
CompileFor(cc, n) ==
  LET top  == cc.labels
      init == Compile(ScopePush(InLoop(NewLabels(cc, 3), top + 2, top + 1)), n.kids[1])
      cond == Compile(Emit(init, Label(top)), n.kids[2])
      body == CompileBody(Emit(cond, Jz(cond.reg, top + 1)), n.kids[4].kids)
      iter == CompileBody(Emit(body, Label(top + 2)), n.kids[3].kids)
  IN OutOfLoop(ScopePop(Emit(Emit(iter, Jmp(top)), Label(top + 1))), cc)

(* for (i in start..stop) body: up or down, until they are equal.  A        *)
(* variable of that name in any scope is the iterator.                      *)
CompileRanged(cc, n) ==
  LET in    == ScopePush(cc)
      owner == IF Declared(in, n.id) THEN Result(in, Lookup(in, n.id).slot)
               ELSE Define(in, n.id, FALSE)
      it    == owner.reg
      ends  == CompileAll(owner, <<n.kids[1], n.kids[2]>>)
      start == ends.regs[1]
      stop  == ends.regs[2]
      inc   == ends.cc.vregs
      back  == ends.cc.labels       (* then: forth, top, next, out *)
      check == <<Mov(it, start), Ins("LT", inc + 1, <<stop, start>>, Plain),
                 Jnz(inc + 1, back), Ins("MOVI", inc, <<>>, IntOf(1)), Jmp(back + 1),
                 Label(back), Ins("MOVI", inc, <<>>, IntOf(-1)), Label(back + 1),
                 Label(back + 2), Ins("EQL", inc + 2, <<it, stop>>, Plain),
                 Jnz(inc + 2, back + 4)>>
      head  == [NewLabels(Fresh(Fresh(Fresh(ends.cc))), 5) EXCEPT !.code = @ \o check]
      body  == CompileBody(InLoop(head, back + 3, back + 4), n.kids[3].kids)
      foot  == <<Label(back + 3), Ins("ADD", it, <<it, inc>>, Plain),
                 Jmp(back + 2), Label(back + 4)>>
  IN OutOfLoop(ScopePop([body EXCEPT !.code = @ \o foot]), cc)

CompileReturn(cc, n) ==
  LET v == IF n.kids = <<>> THEN PushLiteral(cc, Null) ELSE Compile(cc, n.kids[1])
  IN Result(Emit(v, Ret(v.reg)), 0)

CompileAssert(cc, n) ==
  LET c == Compile(cc, n.kids[1])
  IN Result(Emit(c, Ins("ASSERT", None, <<c.reg>>, Plain)), 0)

CompileLeave(cc, n) ==
  IF cc.loop = <<>> THEN Failed(cc)
  ELSE Result(Emit(cc, Jmp(cc.loop[IF n.kind = "continue" THEN 1 ELSE 2])), 0)

Compile(cc, n) ==
  CASE n.kind = "lit"               -> PushLiteral(cc, n.id)
    [] n.kind = "name"              -> LoadName(cc, n.id)
    [] n.kind \in {"let", "const"}  -> CompileDeclaration(cc, n)
    [] n.kind = "assign"            -> CompileAssign(cc, n)
    [] n.kind = "compound"          -> CompileCompound(cc, n)
    [] n.kind = "binary"            -> CompileBinary(cc, n)
    [] n.kind = "unary"             -> CompileUnary(cc, n)
    [] n.kind \in {"and", "or"}     -> CompileShortCircuit(cc, n)
    [] n.kind = "step"              -> CompileIncDec(cc, n)
    [] n.kind = "call"              -> CompileCall(cc, n)
    [] n.kind = "member"            -> CompileMember(cc, n)
    [] n.kind = "block"             -> Result(CompileBody(cc, n.kids), 0)
    [] n.kind = "if"                -> CompileIf(cc, n)
    [] n.kind = "while"             -> CompileWhile(cc, n)
    [] n.kind = "for"               -> CompileFor(cc, n)
    [] n.kind = "range"             -> CompileRanged(cc, n)
    [] n.kind = "return"            -> CompileReturn(cc, n)
    [] n.kind = "assert"            -> CompileAssert(cc, n)
    [] n.kind \in {"break", "continue"} -> CompileLeave(cc, n)

(* compile_function_definition up to the optimiser: a fork with registers   *)
(* of its own, the parameters moved out of the argument registers or popped *)
(* from the stack, the body and a return of null.                           *)
CompileFunction(cc, f) ==
  LET Parameter(c, i) ==
        LET v == Define(c, f.params[i], FALSE)
        IN Emit(v, IF i <= ArgRegs THEN Mov(v.reg, i - 1) ELSE Ins("POP", v.reg, <<>>, Plain))
      entered == FoldLeft(Parameter, cc, [i \in 1..Len(f.params) |-> i])
  IN Emit(CompileBody(entered, f.body), Ret(NIL))

-----------------------------------------------------------------------------
(* label_pass: the labels and the NOPs go, the jumps get positions.         *)
IsReal(ins) == ins.op \notin {"LABEL", "NOP"}
LabelPass(code) ==
  LET real == SelectSeq(code, IsReal)
      Position(l) ==
        LET i == SelectLastInSeq(code, LAMBDA ins : ins.op = "LABEL" /\ ins.x[2] = l)
        IN IF i = 0 THEN Len(real) + 1
           ELSE Len(SelectSeq(SubSeq(code, 1, i), IsReal)) + 1
  IN [k \in 1..Len(real) |->
        IF real[k].op \in Jumps THEN [real[k] EXCEPT !.x = <<"at", Position(@[2])>>]
        ELSE real[k]]

(* kit_exec: a frame of registers and a stack, the globals and what was     *)
(* printed, for the one instruction at pc.                                  *)
Frame(f, args, world) ==
  [pc |-> 1, status |-> "run", val |-> Null, globals |-> world.globals,
   trace |-> world.trace, fuel |-> world.fuel,
   regs |-> [r \in 0..f.vregs - 1 |->
               IF r < ArgRegs /\ r < Len(args) THEN args[r + 1] ELSE Null],
   stack |-> SubSeq(args, ArgRegs + 1, Len(args))]

CallBuiltin(name, args, w) ==
  CASE name = "print" -> [w EXCEPT !.trace = Append(@, args), !.val = Null]
    [] name = "vec2"  -> [w EXCEPT !.val = <<"vec", [i \in 1..2 |-> AsNumber(args[i])]>>]

Component(x) == IF x[2] = "x" THEN 1 ELSE 2

RECURSIVE Exec(_, _, _)

(* read_args_vector and call.                                               *)
ExecCall(table, m, ins) ==
  LET n    == ins.x[2]
      args == [i \in 1..n |-> IF i <= ArgRegs THEN m.regs[i - 1]
                              ELSE m.stack[Len(m.stack) - n + i]]
      fn   == m.regs[ins.srcs[1]]
      Back(w) == [m EXCEPT !.pc = @ + 1, !.regs[ins.dst] = w.val, !.globals = w.globals,
                           !.trace = w.trace, !.fuel = w.fuel,
                           !.status = IF w.status = "return" THEN "run" ELSE w.status]
  IN CASE fn[1] # "fn"         -> [m EXCEPT !.status = "error"]
       [] fn[2] \in Builtins   -> [CallBuiltin(fn[2], args, m) EXCEPT
                                     !.pc = @ + 1,
                                     !.regs[ins.dst] = CallBuiltin(fn[2], args, m).val,
                                     !.val = Null]
       [] OTHER -> Back(Exec(table, table[fn[2]].run, Frame(table[fn[2]], args, m)))

Step(table, m, ins) ==
  LET R(k)   == m.regs[ins.srcs[k]]
      Past   == [m EXCEPT !.pc = @ + 1]
      Set(v) == [m EXCEPT !.pc = @ + 1, !.regs[ins.dst] = v]
      To(b)  == [m EXCEPT !.pc = IF b THEN ins.x[2] ELSE @ + 1, !.fuel = @ - 1]
  IN CASE ins.op = "MOV"      -> Set(R(1))
       [] ins.op \in {"MOVI", "MOVF", "LOADK", "LOADFN"} -> Set(ins.x)
       [] ins.op = "GETG"     -> Set(m.globals[ins.x[2] + 1])
       [] ins.op = "SETG"     -> [Past EXCEPT !.globals[ins.x[2] + 1] = R(1)]
       [] ins.op \in Binary   -> Set(Operate(ins.op, R(1), R(2)))
       [] ins.op \in Unary    -> Set(Operate(ins.op, Null, R(1)))
       [] ins.op = "JMP"      -> To(TRUE)
       [] ins.op = "JZ"       -> To(~Truth(R(1)))
       [] ins.op = "JNZ"      -> To(Truth(R(1)))
       [] ins.op = "RET"      -> [m EXCEPT !.status = "return", !.val = R(1)]
       [] ins.op = "ASSERT"   -> IF Truth(R(1)) THEN Past
                                 ELSE [m EXCEPT !.status = "assert"]
       [] ins.op = "PUSH"     -> [Past EXCEPT !.stack = Append(@, R(1))]
       [] ins.op = "POP"      -> [Set(Last(m.stack)) EXCEPT !.stack = Front(@)]
       [] ins.op = "MEMBER_ACCESS" ->
            IF IsVec(R(1)) THEN Set(FloatOf(R(1)[2][Component(ins.x)]))
            ELSE [m EXCEPT !.status = "error"]
       [] ins.op = "MEMBER_ASSIGN" ->
            IF IsVec(R(2))
            THEN [Past EXCEPT !.regs[ins.srcs[2]] =
                    <<"vec", [R(2)[2] EXCEPT ![Component(ins.x)] = AsNumber(R(1))]>>]
            ELSE [m EXCEPT !.status = "error"]
       [] ins.op = "CALL"     -> ExecCall(table, m, ins)

Exec(table, code, m) ==
  CASE m.status # "run"    -> m
    [] m.fuel = 0          -> [m EXCEPT !.status = "fuel"]
    [] m.pc > Len(code)    -> [m EXCEPT !.status = "return"]
    [] OTHER               -> Exec(table, code, Step(table, m, code[m.pc]))

Observed(w) == [status |-> w.status, val |-> w.val, globals |-> w.globals, trace |-> w.trace]
World(globals, fuel) == [globals |-> [i \in 1..Len(globals) |-> Null], trace |-> <<>>,
                         fuel |-> fuel]
Run(table, f, args, globals) ==
  Observed(Exec(table, LabelPass(f.code), Frame(f, args, World(globals, 10 * Fuel))))
==============================================================================
