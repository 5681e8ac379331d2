----------------------------- MODULE KitOptimizer ----------------------------
(***************************************************************************)
(* The passes of KitPasses over programs.  A program is written a          *)
(* statement at a time and compiled after each; from there the passes      *)
(* follow one another, one action each.                                    *)
(***************************************************************************)
EXTENDS KitMeaning, KitPasses

CONSTANTS
  Topics,   (* by name, what programs are about: see About *)
  Levels

VARIABLES
  topic,
  body,      (* the statements written so far, by their places in the menu *)
  meaning    (* what the code did when it was emitted, for each input *)

vars == <<topic, level, body, table, main, meaning, stage, round>>

-----------------------------------------------------------------------------
(* The passes on a function that is called.                                *)
Pipeline(f, functions, lvl) ==
  IF lvl < 2 THEN f
  ELSE FoldLeft(LAMBDA g, k : Apply(Passes[((k - 1) % Len(Passes)) + 1], g, functions, lvl),
                f, [k \in 1..Rounds * Len(Passes) |-> k])

-----------------------------------------------------------------------------
(* The end of compile_function_definition: what the table keeps of a       *)
(* function.  It is entered when it is finished, so a function does not    *)
(* know itself, and the next one counts labels on from it.                 *)
Code(cc) == [ok |-> cc.ok, code |-> cc.code, vregs |-> cc.vregs, labels |-> cc.labels]
Emitted(t, lvl, functions, f) ==
  LET labels == Max({0} \cup {functions[x].labels : x \in DOMAIN functions})
  IN Code(CompileFunction(Compiler(lvl, Builtins \cup DOMAIN functions, t.globals, labels), f))
(* The table keeps code with its labels, for inlining; the mutant has them   *)
(* taken away first.                                                        *)
EntryAfterLabelPass(f) ==
  [code |-> LabelPass(f.code), run |-> LabelPass(f.code), vregs |-> f.vregs, labels |-> f.labels]
Entry(f) == [code |-> f.code, run |-> LabelPass(f.code), vregs |-> f.vregs, labels |-> f.labels]
Helpers(t, lvl) ==
  FoldLeft(LAMBDA tab, f : tab @@ (f.name :> Entry(Pipeline(Emitted(t, lvl, tab, f), tab, lvl))),
           <<>>, t.helpers)

(* A topic: functions that can be called, the parameters of the one that is *)
(* written and the inputs it is run on, the globals, the statements it may  *)
(* have and how many of them, and how it ends.                              *)
About    == Topics[topic]
Text(b)  == [params |-> About.params,
             body   |-> [i \in DOMAIN b |-> About.menu[b[i]]] \o About.end]
Program  == [globals   |-> About.globals,
             functions |-> [x \in {About.helpers[i].name : i \in DOMAIN About.helpers} |->
                              About.helpers[SelectInSeq(About.helpers, LAMBDA h : h.name = x)]]]
Does(tab, f) == [i \in DOMAIN About.inputs |-> Run(tab, f, About.inputs[i], About.globals)]
Ends(results)   == \A i \in DOMAIN results : results[i].status \in {"return", "assert"}

Init ==
  /\ topic \in DOMAIN Topics /\ level \in Levels
  /\ body = <<>>
  /\ table = Helpers(About, level)
  /\ main = Emitted(About, level, table, Text(body))
  /\ meaning = IF main.ok THEN Does(table, main) ELSE <<>>
  /\ stage = 1 /\ round = 1

Write ==
  /\ stage = 1 /\ round = 1 /\ Len(body) < About.bound
  /\ \E i \in DOMAIN About.menu :
       LET f == Emitted(About, level, table, Text(Append(body, i)))
       IN /\ body' = Append(body, i) /\ main' = f
          /\ meaning' = IF f.ok THEN Does(table, f) ELSE <<>>
  /\ UNCHANGED <<topic, level, table, stage, round>>

Pass(name) == Ends(meaning) /\ Optimise(name) /\ UNCHANGED <<topic, body, meaning>>

CopyPropagation     == Pass("copies")
DeadStores          == Pass("stores")
ConstantPropagation == Pass("constants")
UnreachableCode     == Pass("unreachable")
MoveCoalescing      == Pass("coalesce")
JumpsAndNoops       == Pass("jumps")

Next == \/ Write \/ CopyPropagation \/ DeadStores \/ ConstantPropagation
        \/ UnreachableCode \/ MoveCoalescing \/ JumpsAndNoops

Spec == Init /\ [][Next]_vars

-----------------------------------------------------------------------------
Unoptimised == stage = 1 /\ round = 1
Statements == Text(body).body
(* A vector under two names: a component of one is changed later.          *)
Copies(n)    == n.kind = "let" /\ n.kids[1].kind = "name"
Changes(n)   == n.kind \in {"assign", "compound"} /\ n.kids[1].kind = "member"
SharesVector == /\ \E i \in DOMAIN Statements : Copies(Statements[i])
                /\ \E i \in DOMAIN Statements : Changes(Statements[i])

(* A whole number is the same as an int, a float or a bool.                *)
SameValue(a, b) == IF IsScalar(a) THEN IsScalar(b) /\ a[2] = b[2] ELSE a = b
Alike(a, b)     == Len(a) = Len(b) /\ \A i \in DOMAIN a : SameValue(a[i], b[i])
SameMeaning(a, b) ==
  /\ a.status = b.status /\ SameValue(a.val, b.val) /\ Alike(a.globals, b.globals)
  /\ Len(a.trace) = Len(b.trace)
  /\ \A i \in DOMAIN a.trace : Alike(a.trace[i], b.trace[i])

(* The instructions emitted for a function do what its text says: the same *)
(* value returned, the same globals left, the same calls out in the same   *)
(* order, or the same failed assertion.  It is about compile and all it    *)
(* calls; operands that a later operand assigns are known to be read late. *)
CompiledMeans ==
  (Unoptimised /\ main.ok /\ \A i \in DOMAIN Statements : Steady(Statements[i])) =>
    \A i \in DOMAIN About.inputs :
      LET want == Evaluate(Program, Text(body), About.inputs[i])
      IN want.status \in {"return", "assert"} => SameMeaning(meaning[i], want)

KeepsMeaning == LET now == Does(table, main)
                IN \A i \in DOMAIN now : SameMeaning(now[i], meaning[i])

(* After every pass of every round the function does what it did when it   *)
(* was emitted, but for the type of whole numbers (an assignment of 1.0 to *)
(* what is known to be 1 is dropped).  It is about the order of the passes *)
(* in compile_function_definition, each of which works on what the others  *)
(* left.                                                                   *)
PassesKeepMeaning == (~Unoptimised /\ ~SharesVector) => KeepsMeaning

(* A vector is a value (kit.exec.c says they are not reference based): to  *)
(* change a component of a copy leaves the original as it was.             *)
VectorsAreValues == (~Unoptimised /\ SharesVector) => KeepsMeaning
==============================================================================
