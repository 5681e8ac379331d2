-------------------------------- MODULE KitVm --------------------------------
(***************************************************************************)
(* The virtual machine's handling of reference counted objects: kit_exec   *)
(* of src/src/kit.exec.c with the acquire, release and free of             *)
(* src/src/kit.var.c, src/src/kit.list.c and src/src/kit.struct.c.         *)
(*                                                                         *)
(* A frame of kit_exec has registers and a stack of variables.  A variable *)
(* is plain (Null: numbers, functions, vectors, null) or refers to an      *)
(* object, a container with slots that are variables too (a string is one  *)
(* with no slot).  Every place a variable lives in is a location.  What an *)
(* instruction does to the counters is a short list of steps, the calls of *)
(* kit_var_release and kit_var_acquire its case makes, in their order;     *)
(* `todo` holds the ones still to be made, and a release that takes a      *)
(* counter to zero puts the work of kit_var_free in front of them.         *)
(*                                                                         *)
(* The bytecode is not represented: when nothing is pending the frame on   *)
(* top executes any instruction the compiler emits, on any registers.      *)
(***************************************************************************)
EXTENDS Naturals, Sequences, FiniteSets

CONSTANTS
  Obj,        (* the objects of the pool; bound: no more are ever in use *)
  Null,       (* a variable that refers to no object *)
  ArgRegs,    (* KIT_REG_ARG_COUNT: registers that pass arguments *)
  GenRegs,    (* the general registers *)
  Stack,      (* the variables of a frame's stack: 256 *)
  MaxDepth,   (* bound: frames of kit_exec nested on the C stack *)
  MaxArgs,    (* bound: arguments of a call, elements of a literal *)
  Width,      (* bound: slots of a container *)
  Globals     (* the number of global variables *)

ASSUME VmAssumption ==
  /\ {ArgRegs, GenRegs, Stack, MaxDepth, MaxArgs, Width, Globals} \subseteq Nat
  /\ ArgRegs >= 1 /\ MaxDepth >= 1 /\ MaxArgs >= 2
  /\ Width >= MaxArgs /\ MaxArgs <= ArgRegs + Stack
  /\ IsFiniteSet(Obj) /\ Null \notin Obj

VARIABLES
  val,      (* the variable in each location *)
  refc,     (* the reference counter of each object *)
  size,     (* number of slots in use of each object *)
  live,     (* the objects the pool has handed out *)
  depth,    (* frames of kit_exec on the C stack *)
  sp,       (* stack pointer of each frame *)
  call,     (* of each frame: how many arguments, and where its result goes *)
  err,      (* the error code being propagated is not KIT_OK *)
  todo      (* steps of the instruction that are still to be done *)

heap  == <<val, refc, size, live>>
frame == <<depth, sp, call>>
vars  == <<heap, frame, err, todo>>

-----------------------------------------------------------------------------
Frame == 1 .. MaxDepth
RegId == 0 .. ArgRegs + GenRegs - 1
General == ArgRegs .. ArgRegs + GenRegs - 1

Reg(f, r)    == <<"reg", f, r>>
Stk(f, i)    == <<"stack", f, i>>
Arg(f, i)    == <<"args", f, i>>      (* the vector of read_args_vector *)
Global(g)    == <<"global", 0, g>>
Slot(o, i)   == <<"slot", o, i>>
Leaked(i)    == <<"leaked", 0, i>>    (* a vector nobody frees *)
Result       == <<"result", 0, 0>>    (* the variable of kit_exec's caller *)

Location ==
  {Reg(f, r) : f \in Frame, r \in RegId}
    \cup {Stk(f, i) : f \in Frame, i \in 0 .. Stack - 1}
    \cup {Arg(f, i) : f \in Frame, i \in 0 .. MaxArgs - 1}
    \cup {Global(g) : g \in 1 .. Globals}
    \cup {Slot(o, i) : o \in Obj, i \in 0 .. Width - 1}
    \cup {Leaked(i) : i \in 0 .. MaxArgs - 1}
    \cup {Result}

(* Steps.  A slot is named by the location that refers to its container.   *)
SlotOf(l, i)   == <<"slot_of", l, i>>
At(l)          == IF l[1] = "slot_of" THEN Slot(val[l[2]], l[3]) ELSE l

Drop(l)        == [op |-> "drop", at |-> l]              (* remove(&l) *)
Share(s, d)    == [op |-> "share", from |-> s, at |-> d] (* copy, acquire *)
Put(v, d)      == [op |-> "put", value |-> v, at |-> d]  (* the same, of v *)
New(d, n)      == [op |-> "new", at |-> d, slots |-> n]
Extend(c, s)   == [op |-> "extend", at |-> c, from |-> s]
Shrink(l)      == [op |-> "shrink", at |-> l]
Free(o)        == [op |-> "free", obj |-> o]
Enter(d, n)    == [op |-> "enter", dst |-> d, nargs |-> n]
Leave          == [op |-> "leave"]

(* The list of S(i) for i from 0 to n - 1.                                 *)
Each(n, S(_)) == [i \in 1 .. n |-> S(i - 1)]

Init ==
  /\ val = [l \in Location |-> Null]
  /\ refc = [o \in Obj |-> 0]
  /\ size = [o \in Obj |-> 0]
  /\ live = {}
  /\ depth = 0
  /\ sp = [f \in Frame |-> 0]
  /\ call = [f \in Frame |-> [dst |-> 0, nargs |-> 0]]
  /\ err = FALSE
  /\ todo = <<>>

-----------------------------------------------------------------------------
(* The steps.                                                              *)
Doing(op) == todo # <<>> /\ todo[1].op = op

\* Mutant: the object is freed below zero, not at zero.
DoDropLate ==
  /\ Doing("drop")
  /\ LET l == At(todo[1].at)
         o == val[l]
     IN  /\ val' = [val EXCEPT ![l] = Null]
         /\ IF o = Null
              THEN todo' = Tail(todo) /\ UNCHANGED refc
              ELSE /\ refc' = [refc EXCEPT ![o] = @ - 1]
                   /\ todo' = IF refc[o] > 0 THEN Tail(todo)
                              ELSE Each(size[o], LAMBDA i : Drop(Slot(o, i)))
                                     \o <<Free(o)>> \o Tail(todo)
  /\ UNCHANGED <<size, live, frame, err>>

\* Mutant: the loop over the slots does not advance past one that is null.
DoDropStuck ==
  /\ Doing("drop")
  /\ LET l == At(todo[1].at)
         o == val[l]
     IN  /\ val' = [val EXCEPT ![l] = Null]
         /\ IF o = Null
              THEN UNCHANGED <<todo, refc>>
              ELSE /\ refc' = [refc EXCEPT ![o] = @ - 1]
                   /\ todo' = IF refc[o] > 1 THEN Tail(todo)
                              ELSE Each(size[o], LAMBDA i : Drop(Slot(o, i)))
                                     \o <<Free(o)>> \o Tail(todo)
  /\ UNCHANGED <<size, live, frame, err>>

(* kit_var_release, and the location is null afterwards.  At zero the      *)
(* object is freed: every slot is released, then the pool gets it back.    *)
DoDrop ==
  /\ Doing("drop")
  /\ LET l == At(todo[1].at)
         o == val[l]
     IN  /\ val' = [val EXCEPT ![l] = Null]
         /\ IF o = Null
              THEN todo' = Tail(todo) /\ UNCHANGED refc
              ELSE /\ refc' = [refc EXCEPT ![o] = @ - 1]
                   /\ todo' = IF refc[o] > 1 THEN Tail(todo)
                              ELSE Each(size[o], LAMBDA i : Drop(Slot(o, i)))
                                     \o <<Free(o)>> \o Tail(todo)
  /\ UNCHANGED <<size, live, frame, err>>

(* A copy that is counted.  The location was null.                         *)
Acquire(v, l) ==
  /\ val' = [val EXCEPT ![l] = v]
  /\ refc' = IF v = Null THEN refc ELSE [refc EXCEPT ![v] = @ + 1]

DoShare ==
  /\ Doing("share")
  /\ Acquire(val[At(todo[1].from)], At(todo[1].at))
  /\ todo' = Tail(todo)
  /\ UNCHANGED <<size, live, frame, err>>

\* Mutant: INDEX does not count the copy.
DoPutUncounted ==
  /\ Doing("put")
  /\ val' = [val EXCEPT ![todo[1].at] = todo[1].value]
  /\ todo' = Tail(todo)
  /\ UNCHANGED <<refc, size, live, frame, err>>

DoPut ==
  /\ Doing("put")
  /\ Acquire(todo[1].value, todo[1].at)
  /\ todo' = Tail(todo)
  /\ UNCHANGED <<size, live, frame, err>>

(* The pool hands out an object, its counter set to one, its slots plain.  *)
DoNew ==
  /\ Doing("new")
  /\ \E o \in Obj \ live :
       /\ live' = live \cup {o}
       /\ val' = [val EXCEPT ![todo[1].at] = o]
       /\ refc' = [refc EXCEPT ![o] = 1]
       /\ size' = [size EXCEPT ![o] = todo[1].slots]
  /\ todo' = Tail(todo)
  /\ UNCHANGED <<frame, err>>

DoFree ==
  /\ Doing("free")
  /\ live' = live \ {todo[1].obj}
  /\ size' = [size EXCEPT ![todo[1].obj] = 0]
  /\ todo' = Tail(todo)
  /\ UNCHANGED <<val, refc, frame, err>>

(* kit_list_append: a copy, counted, goes to a new slot of the container.  *)
DoExtend ==
  /\ Doing("extend")
  /\ LET o == val[todo[1].at]
     IN  /\ size' = [size EXCEPT ![o] = @ + 1]
         /\ Acquire(val[todo[1].from], Slot(o, size[o]))
  /\ todo' = Tail(todo)
  /\ UNCHANGED <<live, frame, err>>

(* kit_list_pop: its last slot was released, shrink.                      *)
DoShrink ==
  /\ Doing("shrink")
  /\ size' = [size EXCEPT ![val[todo[1].at]] = @ - 1]
  /\ todo' = Tail(todo)
  /\ UNCHANGED <<val, refc, live, frame, err>>

\* Mutant: the stack pointer counts the arguments in registers too.
DoEnterStackPointer ==
  /\ Doing("enter")
  /\ LET n == todo[1].nargs
         Place(i) == IF i < ArgRegs THEN Reg(depth + 1, i)
                     ELSE Stk(depth + 1, i - ArgRegs)
     IN  /\ depth' = depth + 1
         /\ call' = [call EXCEPT ![depth + 1] = [dst |-> todo[1].dst, nargs |-> n]]
         /\ sp' = [sp EXCEPT ![depth + 1] = n]
         /\ todo' = Each(n, LAMBDA i : Share(Arg(depth, i), Place(i))) \o Tail(todo)
  /\ UNCHANGED <<heap, err>>

(* kit_exec is called: the arguments go to the argument registers, the     *)
(* rest of them to the new frame's stack.                                  *)
DoEnter ==
  /\ Doing("enter")
  /\ LET n == todo[1].nargs
         Place(i) == IF i < ArgRegs THEN Reg(depth + 1, i)
                     ELSE Stk(depth + 1, i - ArgRegs)
     IN  /\ depth' = depth + 1
         /\ call' = [call EXCEPT ![depth + 1] = [dst |-> todo[1].dst, nargs |-> n]]
         /\ sp' = [sp EXCEPT ![depth + 1] = IF n > ArgRegs THEN n - ArgRegs ELSE 0]
         /\ todo' = Each(n, LAMBDA i : Share(Arg(depth, i), Place(i))) \o Tail(todo)
  /\ UNCHANGED <<heap, err>>

(* kit_exec returns; its caller releases the arguments of the call.        *)
DoLeave ==
  /\ Doing("leave")
  /\ depth' = depth - 1
  /\ todo' = Tail(todo) \o Each(call[depth].nargs, LAMBDA i : Drop(Arg(depth - 1, i)))
  /\ sp' = [sp EXCEPT ![depth] = 0]
  /\ call' = [call EXCEPT ![depth] = [dst |-> 0, nargs |-> 0]]
  /\ UNCHANGED <<heap, err>>

Step ==
  \/ DoDrop \/ DoShare \/ DoPut \/ DoNew \/ DoFree \/ DoExtend \/ DoShrink
  \/ DoEnter \/ DoLeave

-----------------------------------------------------------------------------
(* The instructions.  One is issued when nothing is pending, by the frame  *)
(* on top, unless that frame is on its way out because of an error.        *)
Issue(steps) ==
  /\ todo' = steps
  /\ UNCHANGED <<heap, frame, err>>

Running == todo = <<>> /\ depth > 0 /\ ~err

R(r) == Reg(depth, r)

(* read_args_vector: the first arguments are in the argument registers,    *)
(* the others are on top of the stack, the last one topmost.               *)
Operand(n, i) == IF i < ArgRegs THEN R(i) ELSE Stk(depth, sp[depth] - n + i)
ReadArgs(n)   == Each(n, LAMBDA i : Share(Operand(n, i), Arg(depth, i)))
FreeArgs(n)   == Each(n, LAMBDA i : Drop(Arg(depth, i)))

(* The compiler pushes the operands that do not fit the registers.         *)
Available(n) == n <= ArgRegs + sp[depth]

(* The pool is not exhausted (bound: the model has no more objects).       *)
HasRoom == live # Obj

(* An instruction whose result is plain: LOADFN, MOVI, MOVF, LOADK of a    *)
(* number, the arithmetic and logical operators, INC and DEC, indexing a   *)
(* string, reading a vector's component, a builtin that returns a number.  *)
LoadPlain(d) == Running /\ Issue(<<Drop(R(d))>>)

(* LOADK of a string: the literal is copied.                               *)
LoadString(d) == Running /\ HasRoom /\ Issue(<<Drop(R(d)), New(R(d), 0)>>)

Move(s, d) == Running /\ s # d /\ Issue(<<Drop(R(d)), Share(R(s), R(d))>>)

(* MK_LIST, and MK_MAP with its keys and values in turn.                   *)
MakeList(d, n) ==
  /\ Running /\ HasRoom /\ Available(n)
  /\ Issue(ReadArgs(n) \o <<Drop(R(d)), New(R(d), n)>>
             \o Each(n, LAMBDA i : Share(Arg(depth, i), SlotOf(R(d), i)))
             \o FreeArgs(n))

(* MK_STRUCT reads its arguments after the structure has been made.        *)
MakeStruct(d, n) ==
  /\ Running /\ HasRoom /\ Available(n)
  /\ LET Member(i) == <<Drop(SlotOf(R(d), i)),
                       Share(Arg(depth, i), SlotOf(R(d), i)), Drop(Arg(depth, i))>>
     IN  Issue(<<Drop(R(d)), New(R(d), n)>> \o ReadArgs(n)
                \o [k \in 1 .. 3 * n |-> Member((k - 1) \div 3)[((k - 1) % 3) + 1]])

\* Mutant: the destination may be the register of the container.
IndexInPlace(d, b, i) ==
  LET o == val[R(b)]
  IN  /\ Running
      /\ o # Null /\ i < size[o]
      /\ Issue(<<Drop(R(d)), Put(val[Slot(o, i)], R(d))>>)

(* INDEX of a list or map, MEMBER_ACCESS of a structure.  The element is   *)
(* copied before the destination is released and counted after it.  The    *)
(* register allocator gives no instruction a destination that is also one  *)
(* of its sources.                                                         *)
Index(d, b, i) ==
  LET o == val[R(b)]
  IN  /\ Running /\ d # b
      /\ o # Null /\ i < size[o]
      /\ Issue(<<Drop(R(d)), Put(val[Slot(o, i)], R(d))>>)

(* INDEX_ASSIGN and MEMBER_ASSIGN.                                         *)
IndexAssign(v, b, i) ==
  LET o == val[R(b)]
  IN  /\ Running
      /\ o # Null /\ i < size[o]
      /\ Issue(<<Drop(Slot(o, i)), Share(R(v), Slot(o, i))>>)

(* INDEX_ASSIGN of a map with a key it does not have adds the key and the  *)
(* value.                                                                  *)
IndexInsert(v, b, k) ==
  LET o == val[R(b)]
  IN  /\ Running
      /\ o # Null /\ size[o] + 2 <= Width
      /\ Issue(<<Extend(R(b), R(k)), Extend(R(b), R(v))>>)

GetGlobal(d, g) == Running /\ Issue(<<Drop(R(d)), Share(Global(g), R(d))>>)
SetGlobal(s, g) == Running /\ Issue(<<Drop(Global(g)), Share(R(s), Global(g))>>)

Push(r) ==
  /\ Running /\ sp[depth] < Stack
  /\ sp' = [sp EXCEPT ![depth] = @ + 1]
  /\ todo' = <<Drop(Stk(depth, sp[depth])), Share(R(r), Stk(depth, sp[depth]))>>
  /\ UNCHANGED <<heap, depth, call, err>>

\* Mutant: the destination is not released before the call.
CallFunctionKeeps(d, n) ==
  /\ Running /\ depth < MaxDepth /\ Available(n)
  /\ Issue(ReadArgs(n) \o <<Enter(d, n)>>)

(* CALL of a function of the script.                                       *)
CallFunction(d, n) ==
  /\ Running /\ depth < MaxDepth /\ Available(n)
  /\ Issue(ReadArgs(n) \o <<Drop(R(d)), Enter(d, n)>>)

(* CALL of a builtin that returns a new object made of its arguments       *)
(* (list::make), of list::append and of list::pop.                         *)
CallMake(d, n) ==
  /\ Running /\ HasRoom /\ Available(n)
  /\ Issue(ReadArgs(n) \o <<Drop(R(d)), New(R(d), n)>>
             \o Each(n, LAMBDA i : Share(Arg(depth, i), SlotOf(R(d), i)))
             \o FreeArgs(n))

CallAppend(d) ==
  LET o == val[R(0)]
  IN  /\ Running /\ Available(2)
      /\ o # Null /\ size[o] < Width
      /\ Issue(ReadArgs(2) \o <<Drop(R(d)), Extend(Arg(depth, 0), Arg(depth, 1))>> \o FreeArgs(2))

CallPop(d) ==
  LET o == val[R(0)]
  IN  /\ Running
      /\ o # Null /\ size[o] > 0
      /\ Issue(ReadArgs(1)
                 \o <<Drop(R(d)), Drop(Slot(o, size[o] - 1)), Shrink(Arg(depth, 0))>>
                 \o FreeArgs(1))

\* Mutant: the topmost variable of the stack is not released.
CleanUpBelowTop ==
  Each(ArgRegs + GenRegs, LAMBDA r : Drop(R(r)))
    \o Each(IF sp[depth] = 0 THEN 0 ELSE sp[depth] - 1, LAMBDA i : Drop(Stk(depth, i)))
    \o <<Leave>>

(* The end of kit_exec: every register, then the stack up to the pointer.  *)
CleanUp ==
  Each(ArgRegs + GenRegs, LAMBDA r : Drop(R(r)))
    \o Each(sp[depth], LAMBDA i : Drop(Stk(depth, i)))
    \o <<Leave>>

ResultOf(f) == IF f = 1 THEN Result ELSE Reg(f - 1, call[f].dst)

Return(r) == Running /\ Issue(<<Share(R(r), ResultOf(depth))>> \o CleanUp)

(* An instruction that goes to RET with an error: a failed assertion, an   *)
(* assignment out of bounds, a member of what has none, a panic.           *)
Abort ==
  /\ Running
  /\ err' = TRUE
  /\ todo' = CleanUp
  /\ UNCHANGED <<heap, frame>>

(* CALL of what is not a function: the vector of arguments is not freed.   *)
(* Bound: one such vector is represented.                                  *)
CallNonFunction(n) ==
  /\ Running /\ Available(n)
  /\ \A i \in 0 .. MaxArgs - 1 : val[Leaked(i)] = Null
  /\ err' = TRUE
  /\ todo' = Each(n, LAMBDA i : Share(Operand(n, i), Leaked(i))) \o CleanUp
  /\ UNCHANGED <<heap, frame>>

\* Mutant: CALL goes on when the call returned an error.
PropagateNot ==
  /\ todo = <<>> /\ depth > 0 /\ err
  /\ err' = FALSE
  /\ UNCHANGED <<heap, frame, todo>>

(* The call returned an error: so does the frame that made it.             *)
Propagate ==
  /\ todo = <<>> /\ depth > 0 /\ err
  /\ Issue(CleanUp)

Instruction ==
  \/ \E d \in General : LoadPlain(d) \/ LoadString(d) \/ CallAppend(d) \/ CallPop(d)
  \/ \E s, d \in RegId : Move(s, d)
  \/ \E d \in General, n \in 0 .. MaxArgs :
       MakeList(d, n) \/ MakeStruct(d, n) \/ CallFunction(d, n) \/ CallMake(d, n)
  \/ \E d \in General, b \in RegId, i \in 0 .. Width - 1 : Index(d, b, i)
  \/ \E v, b \in RegId, i \in 0 .. Width - 1 : IndexAssign(v, b, i)
  \/ \E v, b, k \in RegId : IndexInsert(v, b, k)
  \/ \E r \in General, g \in 1 .. Globals : GetGlobal(r, g) \/ SetGlobal(r, g)
  \/ \E r \in RegId : Push(r) \/ Return(r)
  \/ \E n \in 1 .. MaxArgs : CallNonFunction(n)
  \/ Abort \/ Propagate

-----------------------------------------------------------------------------
(* The host runs the initialisers and the entry point, one after the       *)
(* other, and gives back the result.                                       *)
Run ==
  /\ todo = <<>> /\ depth = 0 /\ ~err /\ val[Result] = Null
  /\ Issue(<<Enter(0, 0)>>)

TakeResult ==
  /\ todo = <<>> /\ depth = 0
  /\ err \/ val[Result] # Null
  /\ err' = FALSE
  /\ todo' = <<Drop(Result)>>
  /\ UNCHANGED <<heap, frame>>

Next == Step \/ Instruction \/ Run \/ TakeResult

Spec == Init /\ [][Next]_vars

(* kit_exec is one thread and waits for nothing: an instruction that was   *)
(* begun is finished, and an error goes on being returned.                 *)
FairSpec == Spec /\ WF_vars(Step \/ Propagate)

(* POP, emitted after a literal of more than ArgRegs elements and for the  *)
(* parameters of a function beyond ArgRegs: the variable is copied from    *)
(* the stack without counting the copy, and the stack's is released.       *)
Uncounted(s, d) == [op |-> "uncounted", from |-> s, at |-> d]

DoUncounted ==
  /\ Doing("uncounted")
  /\ val' = [val EXCEPT ![todo[1].at] = val[todo[1].from]]
  /\ todo' = Tail(todo)
  /\ UNCHANGED <<refc, size, live, frame, err>>

Pop(r) ==
  LET top == Stk(depth, sp[depth] - 1)
  IN  /\ Running /\ sp[depth] > 0
      /\ sp' = [sp EXCEPT ![depth] = @ - 1]
      /\ todo' = <<Drop(R(r)), Uncounted(top, R(r)), Drop(top)>>
      /\ UNCHANGED <<heap, depth, call, err>>

SpecWithPop ==
  Init /\ [][Next \/ DoUncounted \/ \E r \in RegId : Pop(r)]_vars

-----------------------------------------------------------------------------
TypeOK ==
  /\ val \in [Location -> Obj \cup {Null}]
  /\ refc \in [Obj -> Nat]
  /\ size \in [Obj -> 0 .. Width]
  /\ live \subseteq Obj
  /\ depth \in 0 .. MaxDepth
  /\ sp \in [Frame -> 0 .. Stack]
  /\ call \in [Frame -> [dst : RegId, nargs : 0 .. MaxArgs]]
  /\ err \in BOOLEAN

Holders(o) == {l \in Location : val[l] = o}

(* An object's counter is the number of variables that refer to it, at     *)
(* every step of every instruction: kit_var_acquire and kit_var_release    *)
(* are paired on every path, the paths of errors included.                 *)
CountsExact == \A o \in Obj : refc[o] = Cardinality(Holders(o))

(* No variable of any frame, container or global refers to an object that  *)
(* kit_var_free has given back to the pool.                                *)
NoDangling == \A l \in Location : val[l] \in live \cup {Null}

(* Between two instructions an object nothing refers to has been freed:    *)
(* only a cycle of containers, or a leaked vector, can keep one alive.     *)
NothingForgotten == todo = <<>> => \A o \in live : Holders(o) # {}

(* Nothing of a frame of kit_exec survives it, on a return or an error,    *)
(* nothing is above a stack pointer, and no vector of arguments outlives   *)
(* its call.                                                               *)
FramesAreClean ==
  todo = <<>> =>
    /\ \A f \in Frame, r \in RegId : f > depth => val[Reg(f, r)] = Null
    /\ \A f \in Frame, i \in 0 .. Stack - 1 : i >= sp[f] => val[Stk(f, i)] = Null
    /\ \A f \in Frame, i \in 0 .. MaxArgs - 1 :
         val[Arg(f, i)] # Null => f < depth /\ i < call[f + 1].nargs

(* kit.exec.c:299: an error is handed from frame to frame until the host   *)
(* has it, whatever has to be released on the way.                         *)
ErrorReachesHost == err ~> (todo = <<>> /\ depth = 0)

(* Every instruction ends: the releases it causes come to an end however   *)
(* containers contain each other or themselves.                            *)
InstructionEnds == []<>(todo = <<>>)

(* kit.exec.c:753, 764: PUSH takes a "temporary hold" of the object and    *)
(* POP releases that hold: no other hold is lost.  POP breaks it.          *)
OnlyTheHoldIsReleased ==
  todo = <<>> => \A o \in Obj : refc[o] >= Cardinality(Holders(o))
=============================================================================
