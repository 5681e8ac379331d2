----------------------------- MODULE KitMeaning ------------------------------
(***************************************************************************)
(* What a program means, read off its tree: named variables in scopes, an  *)
(* operand is the value it has when it is reached, a vector is a value.    *)
(* Nothing of the compiler but its trees and the arithmetic is used.       *)
(***************************************************************************)
EXTENDS KitCompiler

(* A state of the evaluation: variables, innermost last; what is observed;  *)
(* and why it left the straight course, if it did.                          *)
Start(globals, env) ==
  [globals |-> World(globals, Fuel).globals, trace |-> <<>>, env |-> env,
   status |-> "run", val |-> Null, fuel |-> Fuel]
Binding(name, v)    == [name |-> name, val |-> v]
Stops(s, why)       == [s EXCEPT !.status = why]
Yields(s, v)        == [s EXCEPT !.val = v]
Burn(s)             == IF s.fuel = 0 THEN Stops(s, "fuel") ELSE [s EXCEPT !.fuel = @ - 1]
(* The variables declared inside are forgotten.                             *)
Leave(s, outer)     == [s EXCEPT !.env = SubSeq(@, 1, Len(outer.env))]
Through(s, why)     == IF s.status = why THEN [s EXCEPT !.status = "run"] ELSE s

(* A program: its functions by name, and the names of its globals.          *)
Where(s, name)  == SelectLastInSeq(s.env, LAMBDA b : b.name = name)
GlobalOf(p, name) == SelectInSeq(p.globals, LAMBDA g : g = name)
Read(p, s, name) == IF Where(s, name) > 0 THEN s.env[Where(s, name)].val
                    ELSE s.globals[GlobalOf(p, name)]
Store(p, s, name, v) ==
  IF Where(s, name) > 0 THEN [s EXCEPT !.env[Where(s, name)].val = v, !.val = v]
  ELSE [s EXCEPT !.globals[GlobalOf(p, name)] = v, !.val = v]

RECURSIVE Eval(_, _, _)

EvalBody(p, s, nodes) == FoldLeft(LAMBDA a, n : Eval(p, a, n), s, nodes)
EvalAll(p, s, nodes) ==
  FoldLeft(LAMBDA a, n : LET t == Eval(p, a.s, n)
                         IN [s |-> t, vals |-> Append(a.vals, t.val)],
           [s |-> s, vals |-> <<>>], nodes)
EvalScope(p, s, nodes) == Leave(EvalBody(p, s, nodes), s)

(* The target of an assignment: a variable, or a component of one.          *)
RECURSIVE Assign(_, _, _, _)
Assign(p, s, n, v) ==
  IF s.status # "run" THEN s
  ELSE IF n.kind = "name" THEN Store(p, s, n.id, v)
  ELSE LET base == Eval(p, s, n.kids[1])
       IN IF ~IsVec(base.val) THEN Stops(base, "error")
          ELSE Yields(Assign(p, base, n.kids[1],
                             <<"vec", [base.val[2] EXCEPT ![Component(<<"member", n.id>>)]
                                                            = AsNumber(v)]>>), v)

EvalCall(p, s, n) ==
  LET a    == EvalAll(p, s, n.kids)
      fn   == a.vals[1]
      args == Tail(a.vals)
  IN CASE a.s.status # "run"  -> a.s
       [] fn[1] # "fn"        -> Stops(a.s, "error")
       [] fn[2] \in Builtins  -> CallBuiltin(fn[2], args, a.s)
       [] OTHER ->
            LET f   == p.functions[fn[2]]
                env == [i \in 1..Len(f.params) |->
                          Binding(f.params[i], IF i <= Len(args) THEN args[i] ELSE Null)]
                r   == EvalBody(p, [Yields(Burn(a.s), Null) EXCEPT !.env = env], f.body)
            IN [Through(r, "return") EXCEPT
                  !.env = a.s.env,
                  !.val = IF r.status = "return" THEN @ ELSE Null]

RECURSIVE EvalLoop(_, _, _, _, _)
(* Condition, body, and what is done between two rounds.                    *)
EvalLoop(p, s, cond, body, between) ==
  LET test  == Eval(p, Burn(s), cond)
      round == Through(EvalScope(p, test, body), "continue")
  IN CASE test.status # "run"   -> test
       [] ~Truth(test.val)      -> test
       [] round.status = "break" -> Through(round, "break")
       [] OTHER -> EvalLoop(p, EvalBody(p, round, between), cond, body, between)

EvalRanged(p, s, n) ==
  LET ends  == EvalAll(p, s, <<n.kids[1], n.kids[2]>>)
      start == ends.vals[1]
      stop  == ends.vals[2]
      new   == Where(s, n.id) = 0
      owner == IF new THEN [ends.s EXCEPT !.env = Append(@, Binding(n.id, start))]
               ELSE Store(p, ends.s, n.id, start)
      way   == IF Truth(Operate("LT", stop, start)) THEN -1 ELSE 1
  IN IF ends.s.status # "run" THEN ends.s
     ELSE Leave(EvalLoop(p, owner, Node("binary", "NEQ", <<Name(n.id), Lit(stop)>>),
                         n.kids[3].kids,
                         <<Node("compound", "ADD", <<Name(n.id), Lit(IntOf(way))>>)>>), s)

RECURSIVE EvalIf(_, _, _)
EvalIf(p, s, kids) ==
  IF Len(kids) = 1 THEN EvalBody(p, s, kids[1].kids)
  ELSE LET test == Eval(p, s, kids[1])
       IN CASE test.status # "run" -> test
            [] Truth(test.val)     -> EvalBody(p, test, kids[2].kids)
            [] OTHER               -> EvalIf(p, test, SubSeq(kids, 3, Len(kids)))

EvalOperator(p, s, n) ==
  LET a == EvalAll(p, s, n.kids)
      v == IF Len(n.kids) = 1 THEN Operate(n.id, Null, a.vals[1])
           ELSE Operate(n.id, a.vals[1], a.vals[2])
  IN IF a.s.status # "run" THEN a.s
     ELSE IF n.kind = "compound" THEN Assign(p, a.s, n.kids[1], v)
     ELSE Yields(a.s, v)

EvalFirst(p, s, n) ==    (* what has one operand, or decides by the first *)
  LET a == IF n.kids = <<>> THEN Yields(s, Null) ELSE Eval(p, s, n.kids[1])
  IN CASE a.status # "run"                     -> a
       [] n.kind = "and" /\ Truth(a.val)       -> Eval(p, a, n.kids[2])
       [] n.kind = "or" /\ ~Truth(a.val)       -> Eval(p, a, n.kids[2])
       [] n.kind \in {"let", "const"}          -> [a EXCEPT !.env = Append(@, Binding(n.id, a.val))]
       [] n.kind = "return"                    -> Stops(a, "return")
       [] n.kind = "assert" /\ ~Truth(a.val)   -> Stops(a, "assert")
       [] n.kind = "step"                      -> Assign(p, a, n.kids[1],
                                                         Operate(n.id, a.val, IntOf(1)))
       [] n.kind = "member" /\ IsVec(a.val)    ->
            Yields(a, FloatOf(a.val[2][Component(<<"member", n.id>>)]))
       [] n.kind = "member"                    -> Stops(a, "error")
       [] OTHER                                -> a

Eval(p, s, n) ==
  CASE s.status # "run"       -> s
    [] n.kind = "lit"         -> Yields(s, n.id)
    [] n.kind = "name"        -> IF n.id \in Builtins \cup DOMAIN p.functions
                                 THEN Yields(s, <<"fn", n.id>>) ELSE Yields(s, Read(p, s, n.id))
    [] n.kind = "assign"      -> LET v == Eval(p, s, n.kids[2]) IN Assign(p, v, n.kids[1], v.val)
    [] n.kind \in {"binary", "unary", "compound"} -> EvalOperator(p, s, n)
    [] n.kind = "call"        -> EvalCall(p, s, n)
    [] n.kind = "block"       -> EvalBody(p, s, n.kids)
    [] n.kind = "if"          -> Leave(EvalIf(p, s, n.kids), s)
    [] n.kind = "while"       -> Leave(EvalLoop(p, s, n.kids[1], n.kids[2].kids, <<>>), s)
    [] n.kind = "for"         -> LET init == Eval(p, s, n.kids[1])
                                 IN IF init.status # "run" THEN init
                                    ELSE Leave(EvalLoop(p, init, n.kids[2], n.kids[4].kids,
                                                        n.kids[3].kids), s)
    [] n.kind = "range"       -> EvalRanged(p, s, n)
    [] n.kind \in {"break", "continue"} -> Stops(s, n.kind)
    [] OTHER                  -> EvalFirst(p, s, n)

(* A function run to its end from the outside.                              *)
Evaluate(p, f, args) ==
  LET env == [i \in 1..Len(f.params) |-> Binding(f.params[i], args[i])]
      end == EvalBody(p, Start(p.globals, env), f.body)
  IN Observed(CASE end.status = "run"    -> [end EXCEPT !.status = "return", !.val = Null]
                [] end.status = "return" -> end
                [] OTHER                 -> Yields(end, Null))

-----------------------------------------------------------------------------
(* Where the compiler is known to differ.  A name that is an operand is its *)
(* variable's register, and is read when the operator runs: an assignment   *)
(* in a later operand is seen by an earlier one.                            *)
RECURSIVE Carried(_), Changed(_), Steady(_)
UnionOf(Op(_), nodes) == UNION {Op(nodes[i]) : i \in 1..Len(nodes)}
Carried(n) == CASE n.kind = "name"   -> {n.id}
                [] n.kind = "assign" -> Carried(n.kids[2])
                [] OTHER             -> {}
Changed(n) ==
  UNION {Changed(n.kids[i]) : i \in 1..Len(n.kids)}
  \cup (IF n.kind \in {"assign", "compound", "step"} /\ n.kids[1].kind = "name"
        THEN {n.kids[1].id} ELSE {})
  \cup (IF n.kind = "range" THEN {n.id} ELSE {})
Steady(n) ==
  /\ \A i \in 1..Len(n.kids) : Steady(n.kids[i])
  /\ n.kind \in {"binary", "call", "compound"} =>
       \A i, j \in 1..Len(n.kids) : i < j => Carried(n.kids[i]) \cap Changed(n.kids[j]) = {}
  /\ n.kind = "range" =>
       \A i \in 1..2 : Carried(n.kids[i]) \cap (Changed(n) \cup {n.id}) = {}
==============================================================================
