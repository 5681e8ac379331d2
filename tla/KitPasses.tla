------------------------------ MODULE KitPasses ------------------------------
(***************************************************************************)
(* The passes compile_function_definition runs over a function at          *)
(* optimisation level 2 and above, src/src/compiler/codegraph and          *)
(* peephole.optimizers.c, and the order it runs them in, Rounds times over *)
(* instead of eight.                                                       *)
(*                                                                         *)
(* Every pass sees the graph and the liveness of the code it starts from:  *)
(* a pass that changed something has the graph rebuilt, and one that did   *)
(* not leaves it true.  Loop invariant code motion is called at level 3    *)
(* and returns at once; the passes that compile.func.c has commented out   *)
(* are not here.                                                           *)
(*                                                                         *)
(* PassesSpec takes any code the compiler may hand over, as long as its    *)
(* labels and registers are right; KitOptimizer is the same passes over    *)
(* the code the compiler does emit.                                        *)
(***************************************************************************)
EXTENDS KitInstructions, SequencesExt, FiniteSetsExt

CONSTANT Rounds

VARIABLES
  level,     (* kitc_info.opt_level *)
  table,     (* kitc_function_table: the functions that are finished *)
  main,      (* the function being compiled: its code, next_vreg, next_label *)
  stage, round

passesVars == <<level, table, main, stage, round>>

-----------------------------------------------------------------------------
(* is_instruction_impure, get_destination_reg, get_source_registers.       *)
Impure == {"CALL", "PUSH", "POP", "RET", "JMP", "JZ", "JNZ", "LABEL", "SETG", "ASSERT",
           "MEMBER_ASSIGN"}
Noop   == {"NOP", "LABEL"}
Arguments(ins) == 0 .. (Min({ArgRegs, ins.x[2]}) - 1)
Sources(ins)   == Range(ins.srcs) \cup (IF ins.op = "CALL" THEN Arguments(ins) ELSE {})

(* codegraph_init and codegraph_build_successor_list.                      *)
LabelAt(code, l) == SelectLastInSeq(code, LAMBDA ins : ins.op = "LABEL" /\ ins.x[2] = l)
Headers(code) ==
  LET Ends == {i \in DOMAIN code : code[i].op \in Jumps \cup {"RET"}}
      Tos  == {LabelAt(code, code[i].x[2]) : i \in {j \in Ends : code[j].op # "RET"}}
  IN ({1} \cup Tos \cup {i + 1 : i \in Ends}) \cap DOMAIN code
LastOf(code, heads, b) == Min({h \in heads : h > b} \cup {Len(code) + 1}) - 1
(* A block is named by its first instruction.                              *)
Successors(code, heads, b) ==
  LET i    == LastOf(code, heads, b)
      Next == {i + 1}
      To   == {LabelAt(code, code[i].x[2])}
  IN heads \cap CASE code[i].op = "JMP"           -> To
                  [] code[i].op \in {"JZ", "JNZ"} -> To \cup Next
                  [] code[i].op = "RET"           -> {}
                  [] OTHER                        -> Next

(* The blocks that can be reached from the first one.                      *)
ReachFrom(succ, start) ==
  LET reach[bs \in SUBSET DOMAIN succ] ==
        LET more == bs \cup UNION {succ[b] : b \in bs}
        IN IF more = bs THEN bs ELSE reach[more]
  IN reach[start]
Graph(code) ==
  LET heads == Headers(code)
      succ  == [b \in heads |-> Successors(code, heads, b)]
  IN [heads |-> heads, succ |-> succ, reached |-> ReachFrom(succ, {1}),
      last |-> [b \in heads |-> LastOf(code, heads, b)]]

(* codegraph_block_level_liveliness_analysis: uses before any definition,  *)
(* and the least live sets that agree along the reached edges.             *)
Before(live, ins) == (live \ {ins.dst}) \cup Sources(ins)
Backward(code, from, to, live) ==
  LET before[i \in from .. to + 1] == IF i > to THEN live ELSE Before(before[i + 1], code[i])
  IN before[from]
LiveIn(code, g) ==
  LET settle[in \in [g.heads -> SUBSET Int]] ==
        LET new == [b \in g.heads |->
                      IF b \in g.reached
                      THEN Backward(code, b, g.last[b], UNION {in[s] : s \in g.succ[b]})
                      ELSE {}]
        IN IF new = in THEN in ELSE settle[new]
  IN settle[[b \in g.heads |-> {}]]

(* codegraph_instruction_level_liveliness_analysis: live after each.       *)
LiveOut(code) ==
  LET g  == Graph(code)
      in == LiveIn(code, g)
      BlockOf(i) == Max({b \in g.heads : b <= i})
      After(b)   == UNION {in[s] : s \in g.succ[b]}
  IN [i \in DOMAIN code |-> LET b == BlockOf(i)
                            IN Backward(code, i + 1, g.last[b], After(b))]

-----------------------------------------------------------------------------
(* codegraph_local_copy_propagation: which register holds the same value.  *)
ForgetOwnCopy(map, reg) == [map EXCEPT ![reg] = reg]    (* a mutant *)
InvalidateCopies(map, reg) ==
  [r \in DOMAIN map |-> LET same == map[r] IN IF reg \in {r, same} THEN r ELSE same]
Identity(nregs) == [r \in 0..nregs - 1 |-> r]
CopyStep(a, i, nregs, heads) ==
  LET map == IF i \in heads THEN Identity(nregs) ELSE a.map
      old == a.code[i]
      ins == IF old.op \in {"CALL"} \cup Noop THEN old
             ELSE [old EXCEPT !.srcs = [k \in DOMAIN @ |-> map[@[k]]]]
      src == ins.srcs[1]
  IN CASE ins.dst = None -> [map |-> map, code |-> [a.code EXCEPT ![i] = ins]]
       [] ins.op = "MOV" /\ src = ins.dst -> [map |-> map, code |-> [a.code EXCEPT ![i] = Nop]]
       [] OTHER ->
            [map  |-> [InvalidateCopies(map, ins.dst) EXCEPT ![ins.dst] =
                         IF ins.op = "MOV" /\ src >= General THEN src ELSE ins.dst],
             code |-> [a.code EXCEPT ![i] = ins]]
PropagateCopies(code, nregs) ==
  LET heads == Headers(code)
      after[i \in 0..Len(code)] ==
        IF i = 0 THEN [map |-> Identity(nregs), code |-> code]
        ELSE CopyStep(after[i - 1], i, nregs, heads)
  IN after[Len(code)].code

(* codegraph_local_dead_store_elimination.                                 *)
EliminateDeadStores(code) ==
  LET live == LiveOut(code)
      Dead(i) == /\ code[i].op \notin Impure /\ code[i].dst >= General
                 /\ code[i].dst \notin live[i]
  IN [i \in DOMAIN code |-> IF Dead(i) THEN Nop ELSE code[i]]

(* codegraph_eliminate_unreachable_code.                                   *)
EliminateUnreachable(code) ==
  LET g == Graph(code)
      Reached(i) == Max({b \in g.heads : b <= i}) \in g.reached
  IN [i \in DOMAIN code |-> IF Reached(i) \/ code[i].op = "LABEL" THEN code[i] ELSE Nop]

(* codegraph_argument_vector_move_coalescing: the value a move takes to an *)
(* argument register is computed there, if nothing in between minds.  The  *)
(* liveness is that of the code before the pass.                           *)
DefinitionOf(code, i, src, dst) ==
  LET Minds(j) == \/ code[j].op \in Impure
                  \/ {src, dst} \cap ({code[j].dst} \cup Sources(code[j])) # {}
      j == Max({0} \cup {k \in 1..i - 1 : code[k].op # "NOP" /\ Minds(k)})
  IN IF j > 0 /\ code[j].op \notin Impure /\ code[j].dst = src THEN j ELSE 0
MoveStep(c, i, live) ==
  LET dst == c[i].dst
      src == c[i].srcs[1]
      def == DefinitionOf(c, i, src, dst)
  IN IF c[i].op # "MOV" \/ dst >= ArgRegs THEN c
     ELSE IF src \in live[i] \/ def = 0 THEN c
     ELSE [c EXCEPT ![def].dst = dst, ![i] = Nop]
Coalesce(code) ==
  LET live == LiveOut(code)
      after[i \in 0..Len(code)] ==
        IF i = 0 THEN code ELSE MoveStep(after[i - 1], i, live)
  IN after[Len(code)]

-----------------------------------------------------------------------------
(* codegraph_inline_one_call: the callee's registers and labels are moved  *)
(* past the caller's, a return becomes a move and a jump to the end.       *)
SameLabel(x, by)  == x    (* a mutant *)
MovedLabel(x, by) == IF x[1] = "label" THEN <<"label", x[2] + by>> ELSE x
MovedReg(r, by)   == IF r < General THEN r ELSE r + by
Moved(ins, f) ==
  [ins EXCEPT !.dst  = MovedReg(@, f.vregs),
              !.srcs = [k \in DOMAIN @ |-> MovedReg(@[k], f.vregs)],
              !.x    = MovedLabel(@, f.labels)]
Pasted(ins, f, dst, end) ==
  IF ins.op = "RET" THEN <<Mov(dst, MovedReg(ins.srcs[1], f.vregs)), Jmp(end)>>
  ELSE <<Moved(ins, f)>>
Inline(f, at, callee) ==
  LET end  == f.labels + callee.labels
      body == [k \in DOMAIN callee.code |-> Pasted(callee.code[k], f, f.code[at].dst, end)]
  IN [f EXCEPT !.code = SubSeq(@, 1, at - 1) \o FlattenSeq(body)
                        \o <<Label(end)>> \o SubSeq(@, at + 1, Len(@)),
               !.vregs = @ + callee.vregs,
               !.labels = @ + callee.labels + 1]

(* codegraph_local_constant_propagation.  A value is written back as the   *)
(* instruction that loads one of its type.                                 *)
Unknown == <<"unknown", 0>>
Forgotten(nregs) == [r \in 0..nregs - 1 |-> Unknown]
LoadOf(v) == CASE v[1] = "int" -> "MOVI" [] v[1] = "float" -> "MOVF" [] OTHER -> "LOADK"
Flushes == {"PUSH", "POP", "RET", "JMP", "SETG", "ASSERT"}
FoldTo(a, i, v) == [a EXCEPT !.known[a.code[i].dst] = v,
                             !.code[i] = Ins(LoadOf(v), @.dst, <<>>, v)]
Learn(a, i, v) == [a EXCEPT !.known[a.code[i].dst] = v]
(* A conditional jump is decided, or is not; nothing is known after it.    *)
Decide(a, i, v, forgotten) ==
  LET ins   == a.code[i]
      taken == Truth(v) = (ins.op = "JNZ")
  IN [a EXCEPT !.known = forgotten,
               !.code[i] = IF v = Unknown THEN ins ELSE IF taken THEN Jmp(ins.x[2]) ELSE Nop]

ConstantStep(b, i, forgotten, functions, lvl) ==
  LET ins   == b.code[i]
      K(k)  == b.known[ins.srcs[k]]
      all   == \A k \in DOMAIN ins.srcs : K(k) # Unknown
      known == b.known[ins.dst]
  IN CASE ins.op \in Flushes -> [b EXCEPT !.known = forgotten]
       [] ins.op \in {"JZ", "JNZ"} -> Decide(b, i, K(1), forgotten)
       [] ins.op \in {"LOADFN", "MOVI", "MOVF"} -> Learn(b, i, ins.x)
       [] ins.op = "MOV" ->
            IF ~all THEN Learn(b, i, Unknown)
            ELSE IF known # Unknown /\ VarEqual(known, K(1)) THEN [b EXCEPT !.code[i] = Nop]
            ELSE FoldTo(b, i, K(1))
       [] ins.op \in Binary ->
            IF ins.op \in {"EQL", "NEQ"} /\ ins.srcs[1] = ins.srcs[2]
            THEN FoldTo(b, i, BoolOf(ins.op = "EQL"))
            ELSE IF all THEN FoldTo(b, i, Operate(ins.op, K(1), K(2)))
            ELSE Learn(b, i, Unknown)
       [] ins.op \in Unary ->
            IF all THEN FoldTo(b, i, Operate(ins.op, Null, K(1))) ELSE Learn(b, i, Unknown)
       [] ins.op = "CALL" ->
            IF K(1) = Unknown \/ K(1)[2] \notin DOMAIN functions THEN Learn(b, i, Unknown)
            ELSE IF lvl >= 3 THEN [b EXCEPT !.call = i, !.callee = K(1)[2]]
            ELSE b
       [] OTHER -> IF ins.dst # None THEN Learn(b, i, Unknown) ELSE b
PropagateConstants(f, functions, lvl) ==
  LET heads     == Headers(f.code)
      forgotten == Forgotten(f.vregs)
      after[i \in 0..Len(f.code)] ==
        IF i = 0 THEN [code |-> f.code, known |-> forgotten, call |-> 0, callee |-> ""]
        ELSE LET a == after[i - 1]
             IN IF a.call > 0 THEN a
                ELSE ConstantStep(IF i \in heads THEN [a EXCEPT !.known = forgotten] ELSE a,
                                  i, forgotten, functions, lvl)
      end    == after[Len(f.code)]
      folded == [f EXCEPT !.code = end.code]
  IN IF end.call > 0 THEN Inline(folded, end.call, functions[end.callee]) ELSE folded

(* remove_jmp_where_it_would_fallthrough and strip_noops.                  *)
RemoveJumps(code) ==
  LET Useless(i) == LET to == LabelAt(code, code[i].x[2])
                    IN to >= i /\ \A j \in i + 1 .. to - 1 : code[j].op \in Noop
  IN [i \in DOMAIN code |-> IF code[i].op = "JMP" /\ Useless(i) THEN Nop ELSE code[i]]
StripNoops(code) ==
  FlattenSeq([i \in DOMAIN code |-> IF code[i].op = "NOP" THEN <<>> ELSE <<code[i]>>])

Apply(pass, f, functions, lvl) ==
  CASE pass = "copies"      -> [f EXCEPT !.code = PropagateCopies(@, f.vregs)]
    [] pass = "stores"      -> [f EXCEPT !.code = EliminateDeadStores(@)]
    [] pass = "constants"   -> PropagateConstants(f, functions, lvl)
    [] pass = "unreachable" -> [f EXCEPT !.code = EliminateUnreachable(@)]
    [] pass = "coalesce"    -> [f EXCEPT !.code = Coalesce(@)]
    [] pass = "jumps"       -> [f EXCEPT !.code = StripNoops(RemoveJumps(@))]
Passes == <<"copies", "stores", "constants", "unreachable", "coalesce", "jumps">>

-----------------------------------------------------------------------------
(* What the compiler hands over: instructions with the operands they need, *)
(* their registers below next_vreg; every label defined once and below     *)
(* next_label, and every jump with its label.                              *)
Operand ==
  ({"int", "float", "bool", "global", "args"} \X Int) \cup ({"label"} \X Nat)
  \cup ({"fn", "member"} \X STRING) \cup ({"vec"} \X [1..2 -> Int])
  \cup {Null, Plain, Unknown}
Opcodes ==
  {"NOP", "LABEL", "MOV", "MOVI", "MOVF", "LOADK", "LOADFN", "GETG", "SETG", "CALL", "PUSH",
   "POP", "RET", "ASSERT", "MEMBER_ACCESS", "MEMBER_ASSIGN"} \cup Jumps \cup Binary \cup Unary
Arity(op) == IF op \in Binary THEN 2 ELSE IF op \in Unary \cup {"MOV", "RET"} THEN 1 ELSE 0
Instruction ==
  {ins \in [op : Opcodes, dst : Nat \cup {None}, srcs : Seq(Nat), x : Operand] :
     /\ Len(ins.srcs) >= Arity(ins.op)
     /\ ins.op \in Jumps \cup {"LABEL"} => ins.x[1] = "label"}
Resolves(f) ==
  LET code   == f.code
      labels == {i \in DOMAIN code : code[i].op = "LABEL"}
      jumps  == {i \in DOMAIN code : code[i].op \in Jumps}
  IN /\ \A i, j \in labels : code[i].x = code[j].x => i = j
     /\ \A i \in labels : code[i].x[2] < f.labels
     /\ \A i \in jumps : \E j \in labels : code[j].x = code[i].x
     /\ \A i \in DOMAIN code : \A r \in Range(code[i].srcs) \cup {code[i].dst} : r < f.vregs
Callable(f) ==
  /\ f.code \in Seq(Instruction) /\ f.labels \in Nat
  /\ f.vregs \in Nat /\ f.vregs >= General
  /\ Resolves(f)
Function == [ok : BOOLEAN, code : Seq(Instruction), vregs : Nat, labels : Nat]
Compiled(f) == f.ok => f \in Function /\ Callable(f)

Entered ==
  /\ level \in Nat
  /\ \A name \in DOMAIN table : Callable(table[name])
  /\ Compiled(main)
  /\ stage = 1 /\ round = 1

(* Another function is compiled, before the passes have begun.             *)
Emission ==
  /\ stage = 1 /\ round = 1
  /\ Compiled(main')
  /\ UNCHANGED <<level, table, stage, round>>

Optimise(name) ==
  /\ level >= 2 /\ main.ok
  /\ stage <= Len(Passes) /\ Passes[stage] = name
  /\ main' = Apply(name, main, table, level)
  /\ IF stage < Len(Passes) THEN stage' = stage + 1 /\ UNCHANGED round
     ELSE IF round < Rounds THEN stage' = 1 /\ round' = round + 1
     ELSE stage' = stage + 1 /\ UNCHANGED round
  /\ UNCHANGED <<level, table>>

(* The passes, in their order, over any function the compiler may emit.    *)
PassesSpec ==
  Entered /\ [][Emission \/ \E name \in Range(Passes) : Optimise(name)]_passesVars

-----------------------------------------------------------------------------
(* Every label is defined once and below next_label, every jump has its    *)
(* label, every register is below next_vreg: what the arrays of the passes *)
(* and of label_pass are indexed by, after inlining in particular.         *)
LabelsResolve == main.ok => Resolves(main)
==============================================================================
