------------------------------ MODULE KitDefer ------------------------------
(***************************************************************************)
(* How the compiler turns the statements of a function into jumps and      *)
(* labels, and where it copies the deferred statements to:                 *)
(* src/src/compiler/defer.c, compile.loops.c, compile.if.c, break,         *)
(* continue and return of kit.cc.c and compile.small.statements.c, the     *)
(* peephole pass and label_pass.                                           *)
(*                                                                         *)
(* The compiler goes once over the statements and appends instructions as  *)
(* it meets them, so it is a machine whose input is any nesting of         *)
(* statements: an action begins, or ends, one of them.  The code is then   *)
(* linked and executed, its conditions coming out either way.              *)
(*                                                                         *)
(* What the source says is kept in the code as marks, which do nothing:    *)
(* the statement `defer` was executed, a block was entered, or left for    *)
(* one that it is nested in.  Executing the marks gives the blocks that    *)
(* are open with what each has deferred (`scopes`), and what is to be done *)
(* now because a block was left (`due`), the last deferred first.          *)
(***************************************************************************)
EXTENDS Naturals, Sequences, SequencesExt, FiniteSets

CONSTANTS
  MaxNodes,   (* bound: the statements of the function *)
  Forms       (* the doubtful forms of program that are compiled too:
                 "end":  a function that defers and ends without a return
                 "exit": a loop whose body defers, left by break or continue *)

ASSUME DeferAssumption == MaxNodes \in Nat /\ Forms \subseteq {"end", "exit"}

VARIABLES
  phase,    (* compiling, then linking, then running *)
  nodes,    (* the statements compiled so far *)
  code,     (* cc.instructions *)
  labels,   (* cc.next_label *)
  defers,   (* cc.defer_stack, the current scope last *)
  loops,    (* cc.loop, last, and those it was put in place of *)
  blocks,   (* the statements being compiled, the C stack *)
  pc,       (* the instruction pointer *)
  scopes,   (* history: what every open block has deferred *)
  due       (* history: what is to be executed before anything else *)

compiler == <<nodes, labels, defers, loops, blocks>>
machine  == <<pc, scopes, due>>
vars     == <<phase, code, compiler, machine>>

-----------------------------------------------------------------------------
Label(l)    == [op |-> "label", to |-> l]
Jump(l)     == [op |-> "jump", to |-> l]
Branch(l)   == [op |-> "branch", to |-> l]      (* JZ or JNZ *)
Iterate     == [op |-> "iterate"]               (* the iterators of a for *)
Deferred(d) == [op |-> "deferred", stmt |-> d]
Ret         == [op |-> "ret"]
Nop         == [op |-> "nop"]
(* The marks. *)
Register(d) == [op |-> "register", stmt |-> d]
Open(n)     == [op |-> "open", depth |-> n]
Leave(n)    == [op |-> "leave", depth |-> n]    (* all scopes above n *)

IsJump(ins) == ins.op \in {"jump", "branch"}
IsMark(ins) == ins.op \in {"register", "open", "leave"}

(* What leaving every scope above depth n has to execute, in order.        *)
Unwind(ss, n) == Reverse(FlattenSeq(SubSeq(ss, n + 1, Len(ss))))

\* Mutant: the loop over the entries of a scope goes up.
EmitInOrder(n) ==
  LET statements == FlattenSeq(Reverse(SubSeq(defers, n + 1, Len(defers))))
  IN  [i \in DOMAIN statements |-> Deferred(statements[i])]

(* defer_emit_to_depth.  With 0 it is defer_emit_all_scopes, and with the  *)
(* depth of the scope around it defer_emit_current_scope.                  *)
EmitToDepth(n) ==
  LET statements == Unwind(defers, n)
  IN  [i \in DOMAIN statements |-> Deferred(statements[i])]

Depth       == Len(defers)            (* defer_get_current_depth *)
EmitCurrent == EmitToDepth(Depth - 1)
PushScope   == defers' = Append(defers, <<>>)
PopScope    == defers' = Front(defers)

Emit(instructions) == code' = code \o instructions

Init ==
  /\ phase = "compile"
  /\ nodes = 0
  /\ code = <<>>
  /\ labels = 0
  /\ defers = << <<>> >>
  /\ loops = <<>>
  /\ blocks = <<>>
  /\ pc = 1
  /\ scopes = << <<>> >>
  /\ due = <<>>

-----------------------------------------------------------------------------
(* Compiling.                                                              *)
Node ==
  /\ phase = "compile" /\ nodes < MaxNodes
  /\ nodes' = nodes + 1
  /\ UNCHANGED <<phase, machine>>

Closing(kind) ==
  /\ phase = "compile" /\ blocks # <<>> /\ Last(blocks).kind = kind
  /\ UNCHANGED <<phase, nodes, machine>>

(* The loop whose body is the current scope is left by break or continue.  *)
BodyIsLeft == loops # <<>> /\ Last(loops).depth = Depth /\ Last(loops).left

(* append_defer_entry.                                                     *)
Defer ==
  /\ Node
  /\ BodyIsLeft => "exit" \in Forms
  /\ defers' = [defers EXCEPT ![Depth] = Append(@, nodes')]
  /\ Emit(<<Register(nodes')>>)
  /\ UNCHANGED <<labels, loops, blocks>>

(* compile_if_statement, to the beginning of the first body.               *)
OpenIf ==
  /\ Node
  /\ labels' = labels + 2
  /\ blocks' = Append(blocks, [kind |-> "if", end |-> labels, next |-> labels + 1])
  /\ Emit(<<Branch(labels + 1), Open(Depth + 1)>>)
  /\ PushScope
  /\ UNCHANGED loops

\* Mutant: the label of the next branch is not a new one.
ElseIfSameLabel ==
  /\ nodes < MaxNodes
  /\ phase = "compile" /\ blocks # <<>> /\ Last(blocks).kind = "if"
  /\ nodes' = nodes + 1
  /\ LET b == Last(blocks)
     IN  /\ UNCHANGED <<labels, blocks>>
         /\ Emit(<<Leave(Depth - 1)>> \o EmitCurrent
                   \o <<Jump(b.end), Label(b.next), Branch(b.next), Open(Depth)>>)
  /\ defers' = [defers EXCEPT ![Depth] = <<>>]
  /\ UNCHANGED <<phase, machine, loops>>

(* From the end of a body to the beginning of an else if's.                *)
ElseIf ==
  /\ nodes < MaxNodes
  /\ phase = "compile" /\ blocks # <<>> /\ Last(blocks).kind = "if"
  /\ nodes' = nodes + 1
  /\ LET b == Last(blocks)
     IN  /\ labels' = labels + 1
         /\ blocks' = [blocks EXCEPT ![Len(blocks)].next = labels]
         /\ Emit(<<Leave(Depth - 1)>> \o EmitCurrent
                   \o <<Jump(b.end), Label(b.next), Branch(labels), Open(Depth)>>)
  /\ defers' = [defers EXCEPT ![Depth] = <<>>]
  /\ UNCHANGED <<phase, machine, loops>>

(* From the end of a body to the beginning of the else's, there or not.    *)
Else ==
  /\ Closing("if")
  /\ LET b == Last(blocks)
     IN  /\ blocks' = [blocks EXCEPT ![Len(blocks)].kind = "else"]
         /\ Emit(<<Leave(Depth - 1)>> \o EmitCurrent
                   \o <<Jump(b.end), Label(b.next), Open(Depth)>>)
  /\ defers' = [defers EXCEPT ![Depth] = <<>>]
  /\ UNCHANGED <<labels, loops>>

CloseIf ==
  /\ Closing("else")
  /\ Emit(<<Leave(Depth - 1)>> \o EmitCurrent \o <<Label(Last(blocks).end)>>)
  /\ PopScope
  /\ blocks' = Front(blocks)
  /\ UNCHANGED <<labels, loops>>

(* The loops.  kitc_loop_location holds where continue and break go, and   *)
(* the depth of the body's scope; `left` records whether either was used.  *)
OpenLoop(kind, n, continue, break, top) ==
  /\ labels' = labels + n
  /\ loops' = Append(loops, [continue |-> continue, break |-> break,
                             depth |-> Depth + 1, left |-> FALSE])
  /\ blocks' = Append(blocks, [kind |-> kind, end |-> break, next |-> top])
  /\ PushScope

CloseLoop ==
  /\ loops' = Front(loops)
  /\ blocks' = Front(blocks)
  /\ PopScope
  /\ UNCHANGED labels

OpenWhile ==
  /\ Node
  /\ LET pre == labels  end == labels + 1
     IN  /\ OpenLoop("while", 2, pre, end, pre)
         /\ Emit(<<Label(pre), Branch(end), Open(Depth + 1)>>)

CloseWhile ==
  /\ Closing("while")
  /\ LET b == Last(blocks)
     IN  Emit(<<Leave(Depth - 1)>> \o EmitCurrent \o <<Jump(b.next), Label(b.end)>>)
  /\ CloseLoop

OpenFor ==
  /\ Node
  /\ LET top == labels  end == labels + 1  iterator == labels + 2
     IN  /\ OpenLoop("for", 3, iterator, end, top)
         /\ Emit(<<Label(top), Branch(end), Open(Depth + 1)>>)

CloseFor ==
  /\ Closing("for")
  /\ LET b == Last(blocks)
     IN  Emit(<<Leave(Depth - 1)>> \o EmitCurrent
                \o <<Label(Last(loops).continue), Iterate, Jump(b.next), Label(b.end)>>)
  /\ CloseLoop

(* A ranged for begins with a choice of its direction, up or down.         *)
OpenRanged ==
  /\ Node
  /\ LET reverse == labels      direction == labels + 1
         start   == labels + 2  iterate   == labels + 3  end == labels + 4
     IN  /\ OpenLoop("ranged", 5, iterate, end, start)
         /\ Emit(<<Branch(reverse), Jump(direction), Label(reverse), Label(direction),
                   Label(start), Branch(end), Open(Depth + 1)>>)

CloseRanged ==
  /\ Closing("ranged")
  /\ LET b == Last(blocks)
     IN  Emit(<<Leave(Depth - 1), Label(Last(loops).continue)>> \o EmitCurrent
                \o <<Jump(b.next), Label(b.end)>>)
  /\ CloseLoop

(* break, and continue.                                                    *)
Exit(target) ==
  /\ Node
  /\ LET l == Last(loops)
     IN  /\ defers[l.depth] # <<>> => "exit" \in Forms
         /\ Emit(<<Leave(l.depth - 1)>> \o EmitToDepth(l.depth) \o <<Jump(target)>>)
  /\ loops' = [loops EXCEPT ![Len(loops)].left = TRUE]
  /\ UNCHANGED <<labels, defers, blocks>>

Break    == loops # <<>> /\ Exit(Last(loops).break)
Continue == loops # <<>> /\ Exit(Last(loops).continue)

\* Mutant: the statements deferred by the current scope only.
ReturnCurrentScope ==
  /\ Node
  /\ Emit(<<Leave(0)>> \o EmitCurrent \o <<Ret>>)
  /\ UNCHANGED <<labels, defers, loops, blocks>>

(* compile_return.                                                         *)
Return ==
  /\ Node
  /\ Emit(<<Leave(0)>> \o EmitToDepth(0) \o <<Ret>>)
  /\ UNCHANGED <<labels, defers, loops, blocks>>

(* compile_function returns null at the end of every function, and         *)
(* compile_function_definition then emits what the function deferred.      *)
EndFunction ==
  /\ phase = "compile" /\ blocks = <<>>
  /\ defers # << <<>> >> => "end" \in Forms \/ Last(code) = Ret
  /\ phase' = "link"
  /\ Emit(<<Leave(0), Ret>> \o EmitCurrent)
  /\ PopScope
  /\ UNCHANGED <<nodes, labels, loops, blocks, machine>>

Compile ==
  \/ Defer \/ OpenIf \/ ElseIf \/ Else \/ CloseIf
  \/ OpenWhile \/ CloseWhile \/ OpenFor \/ CloseFor \/ OpenRanged \/ CloseRanged
  \/ Break \/ Continue \/ Return \/ EndFunction

-----------------------------------------------------------------------------
(* Linking.                                                                *)
Position(l) == CHOOSE i \in DOMAIN code : code[i] = Label(l)

IsNoop(ins) == ins.op \in {"nop", "label"} \/ IsMark(ins)

(* remove_jmp_where_it_would_fallthrough.                                  *)
FallsThrough(i) ==
  /\ code[i].op = "jump"
  /\ i <= Position(code[i].to)
  /\ \A j \in i + 1 .. Position(code[i].to) - 1 : IsNoop(code[j])

(* With optimisation on, in every pass, before the labels are resolved.    *)
Peephole ==
  /\ phase = "link"
  /\ \E i \in DOMAIN code : FallsThrough(i)
  /\ code' = [i \in DOMAIN code |-> IF FallsThrough(i) THEN Nop ELSE code[i]]
  /\ UNCHANGED <<phase, compiler, machine>>

(* label_pass takes the labels away, and what was replaced by nothing.     *)
Remains(ins) == ins.op \notin {"nop", "label"}

(* Its counter when it comes to i.                                         *)
Before(i) == Cardinality({j \in DOMAIN code : j < i /\ Remains(code[j])})

\* Mutant: a label stands for the instruction before it.
TargetBefore(l) == Before(Position(l))

(* A label stands for the instruction that follows it.                     *)
Target(l) == Before(Position(l)) + 1

LabelPass ==
  /\ phase = "link"
  /\ phase' = "run"
  /\ LET left == {i \in DOMAIN code : Remains(code[i])}
         patched == [i \in DOMAIN code |->
                       IF IsJump(code[i]) THEN [code[i] EXCEPT !.to = Target(@)]
                       ELSE code[i]]
     IN  code' = [n \in 1 .. Cardinality(left) |->
                    patched[CHOOSE i \in left : Before(i) = n - 1]]
  /\ UNCHANGED <<compiler, machine>>

-----------------------------------------------------------------------------
(* Running.                                                                *)
At(op) == phase = "run" /\ code[pc].op = op

Advance == pc' = pc + 1

Executing(op) == At(op) /\ UNCHANGED <<phase, code, compiler>>

ExecJump    == Executing("jump") /\ pc' = code[pc].to /\ UNCHANGED <<scopes, due>>
ExecBranch  ==
  /\ Executing("branch")
  /\ pc' = code[pc].to \/ Advance
  /\ UNCHANGED <<scopes, due>>
ExecIterate == Executing("iterate") /\ Advance /\ UNCHANGED <<scopes, due>>

ExecDeferred ==
  /\ Executing("deferred")
  /\ Advance
  /\ due' = IF due # <<>> /\ Head(due) = code[pc].stmt THEN Tail(due) ELSE due
  /\ UNCHANGED scopes

(* The marks. *)
ExecRegister ==
  /\ Executing("register")
  /\ Advance
  /\ scopes' = [scopes EXCEPT ![Len(scopes)] = Append(@, code[pc].stmt)]
  /\ UNCHANGED due

(* Marks of statements that a break or continue skipped do nothing: there *)
(* is no jump any more if no instruction was skipped.                      *)
ExecOpen ==
  /\ Executing("open")
  /\ Advance
  /\ scopes' = IF Len(scopes) = code[pc].depth - 1 THEN Append(scopes, <<>>) ELSE scopes
  /\ UNCHANGED due

ExecLeave ==
  /\ Executing("leave")
  /\ Advance
  /\ due' = due \o Unwind(scopes, code[pc].depth)
  /\ scopes' = IF Len(scopes) > code[pc].depth
               THEN SubSeq(scopes, 1, code[pc].depth) ELSE scopes

(* At RET the function has returned.                                       *)
Returned == At("ret") /\ UNCHANGED vars

Execute ==
  \/ ExecJump \/ ExecBranch \/ ExecIterate \/ ExecDeferred
  \/ ExecRegister \/ ExecOpen \/ ExecLeave \/ Returned

Next == Compile \/ Peephole \/ LabelPass \/ Execute

Spec == Init /\ [][Next]_vars

-----------------------------------------------------------------------------
(* The scopes of the compiler nest as the statements do, and the           *)
(* instruction pointer never leaves the code.                              *)
TypeOK ==
  /\ phase \in {"compile", "link", "run"}
  /\ nodes \in 0 .. MaxNodes
  /\ phase = "compile" => Len(defers) = Len(blocks) + 1
  /\ phase = "run" => pc \in DOMAIN code

(* Every label that is jumped to is defined exactly once.                  *)
JumpsResolve ==
  phase = "link" =>
    \A i \in DOMAIN code : IsJump(code[i]) =>
      \E j \in DOMAIN code :
        /\ code[j] = Label(code[i].to)
        /\ \A k \in DOMAIN code : code[k] = Label(code[i].to) => k = j

(* A deferred statement is executed when a block that deferred it has been *)
(* left, once for every time it was deferred, the last deferred first.     *)
DeferredInTurn ==
  [][ExecDeferred => due # <<>> /\ Head(due) = code[pc].stmt]_vars

(* Once a block is left nothing of the program is executed, no condition,  *)
(* iterator, defer or return, before all that the block deferred.          *)
NothingOvertakes ==
  phase = "run" /\ code[pc].op \notin {"jump", "deferred", "open"} => due = <<>>

(* compile.func.c:86 "emit the defer before the return": a function that   *)
(* returns has executed what it deferred, at its end too.                  *)
ReturnRunsDefers == At("ret") => due = <<>>

(* kit.cc.h:241 "Instantiated on function return / scope break": what a    *)
(* loop's body deferred is executed before the iterators, as the comments  *)
(* at compile.loops.c:112 and 182 have it, when continue ends the body too. *)
IteratorsFollowDefers == At("iterate") => due = <<>>
=============================================================================
