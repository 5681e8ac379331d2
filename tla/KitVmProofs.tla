----------------------------- MODULE KitVmProofs -----------------------------
(***************************************************************************)
(* The virtual machine's safety for every number of objects, registers,    *)
(* stack variables, frames, arguments, slots and globals that VmAssumption *)
(* allows.                                                                 *)
(*                                                                         *)
(* KitVmInvariant shows that the steps of an instruction keep IInv; here   *)
(* each instruction and each call of the host is shown to issue a plan of  *)
(* steps that IInv allows.  Most are two steps, a release and what takes   *)
(* its place.  The instructions with arguments are described by Making (a  *)
(* container is made of the arguments) and Reading (the arguments go to a  *)
(* callee or are released), and those that end a frame by LeavingFrame.    *)
(***************************************************************************)
EXTENDS KitVmInvariant

(* Between two instructions.                                               *)
LEMMA Idle ==
  ASSUME IInv, todo = <<>>
  PROVE  /\ TypeOK /\ ~Leaving
         /\ \A l \in Location : val[l] # Null => val[l] \in live /\ val[l] \in Obj
         /\ \A o \in Obj : size[o] \in 0 .. Width /\ size[o] \in Nat
         /\ \A o \in Obj, i \in Places : i >= size[o] => val[Slot(o, i)] = Null
         /\ \A o \in live : Holders(o) # {}
         /\ depth > 0 => \A i \in 0 .. MaxArgs - 1 : val[Arg(depth, i)] = Null
         /\ \A f \in 1 .. depth : val[ResultOf(f)] = Null
<1>1. Steps = {} /\ ~Leaving
  BY DEF Steps, Leaving
<1>2. TypeOK /\ NoDangling /\ \A o \in Obj, i \in Places : i >= size[o] => val[Slot(o, i)] = Null
  BY DEF IInv, Heap
<1>3. \A l \in Location : val[l] # Null => val[l] \in live /\ val[l] \in Obj
  BY <1>2 DEF TypeOK, NoDangling
<1>4. \A o \in Obj : size[o] \in 0 .. Width /\ size[o] \in Nat
  BY <1>2, Numbers DEF TypeOK
<1>5. \A o \in live : Holders(o) # {}
  BY <1>1 DEF IInv, Frees
<1>6. depth > 0 => \A i \in 0 .. MaxArgs - 1 : val[Arg(depth, i)] = Null
  BY <1>1 DEF IInv, ArgsCleared
<1>7. \A f \in 1 .. depth : val[ResultOf(f)] = Null
  BY <1>1 DEF IInv, ResultsNull
<1> QED BY <1>1, <1>2, <1>3, <1>4, <1>5, <1>6, <1>7

(* An instruction leaves memory alone, all but the stack pointer; what is  *)
(* claimed of memory stays, and the claims about its steps are to be shown.*)
LEMMA Issued ==
  ASSUME IInv, todo = <<>>, UNCHANGED <<val, refc, size, live, depth, call>>, err' \in BOOLEAN,
         sp' \in [Frame -> 0 .. Stack],
         \A f \in Frame : sp'[f] >= sp[f] /\ (f > depth => sp'[f] = sp[f]),
         todo' \in Seq(StepSet), \A k \in Steps' : todo'[k].op # "free",
         FillsApart', FillsCleared', SlotsOpen', SlotsFilled', PutsHeld', Extends', Shrinks',
         Enters', Leaves', FillsLocal'
  PROVE  IInv'
<1>1. TypeOK /\ Frames
  BY DEF IInv, Heap
<1>2. Heap' /\ \A o : Holders(o)' = Holders(o)
  <2>1. TypeOK'
    BY <1>1 DEF TypeOK
  <2> QED BY <2>1, SameHeap
<1>3. Frees'
  <2>1. \A o \in live' : Holders(o)' # {}
    BY <1>2, Idle
  <2> QED BY <2>1, Constructed DEF Frees
<1>4. Frames'
  <2>1. ASSUME NEW f \in Frame, NEW i \in 0 .. Stack - 1, i >= sp'[f] PROVE i >= sp[f]
    BY <1>1, <2>1, Numbers DEF TypeOK
  <2>2. \A f \in Frame, i \in 0 .. Stack - 1 : i >= sp'[f] => val'[Stk(f, i)] = Null
    BY <1>1, <2>1 DEF Frames
  <2>3. \A f \in Frame : f > depth => sp'[f] = 0
    BY <1>1 DEF Frames
  <2> QED BY <1>1, <2>2, <2>3 DEF Frames
<1>5. ArgsCleared'
  BY Idle DEF ArgsCleared
<1>6. ResultsNull'
  <2>1. \A f : ResultOf(f)' = ResultOf(f)
    BY DEF ResultOf
  <2> QED BY <2>1, Idle DEF ResultsNull
<1> QED BY <1>2, <1>3, <1>4, <1>5, <1>6 DEF IInv

(* The same of steps that do not put anything into a container.            *)
LEMMA IssuedQuiet ==
  ASSUME IInv, todo = <<>>, UNCHANGED <<val, refc, size, live, depth, call>>, err' \in BOOLEAN,
         sp' \in [Frame -> 0 .. Stack],
         \A f \in Frame : sp'[f] >= sp[f] /\ (f > depth => sp'[f] = sp[f]),
         todo' \in Seq(StepSet),
         \A k \in Steps' : /\ todo'[k].op \in {"drop", "share", "new", "enter", "leave"}
                           /\ todo'[k].op \in {"drop", "share", "new"} => todo'[k].at \in Root,
         FillsApart', FillsCleared', Enters', Leaves', FillsLocal'
  PROVE  IInv'
<1>1. \A o \in live' : Holders(o)' # {}
  BY Idle DEF Holders
<1>2. SlotsOpen' /\ SlotsFilled' /\ PutsHeld' /\ Extends' /\ Shrinks'
  BY <1>1, Quiet
<1>3. \A k \in Steps' : todo'[k].op # "free"
  OBVIOUS
<1> QED BY <1>2, <1>3, Issued

(* A plan of two steps.                                                    *)
LEMMA Pair ==
  ASSUME NEW a \in StepSet, NEW b \in StepSet, todo' = <<a, b>>
  PROVE  todo' \in Seq(StepSet) /\ Steps' = {1, 2} /\ todo'[1] = a /\ todo'[2] = b
BY DEF Steps

(* A plan of one step.                                                     *)
LEMMA One ==
  ASSUME NEW a \in StepSet, todo' = <<a>>
  PROVE  todo' \in Seq(StepSet) /\ Steps' = {1} /\ todo'[1] = a
BY DEF Steps

(* What Issue says of the rest.                                            *)
LEMMA Unchanged ==
  ASSUME IInv, UNCHANGED heap, UNCHANGED frame
  PROVE  /\ UNCHANGED <<val, refc, size, live, depth, call, sp>>
         /\ sp' \in [Frame -> 0 .. Stack]
         /\ \A f \in Frame : sp'[f] >= sp[f] /\ (f > depth => sp'[f] = sp[f])
<1>1. UNCHANGED <<val, refc, size, live, depth, call, sp>>
  BY DEF heap, frame
<1>2. sp \in [Frame -> 0 .. Stack]
  BY DEF IInv, Heap, TypeOK
<1> QED BY <1>1, <1>2, Numbers

(* A variable is released, and another one, or a new object, goes to its   *)
(* place.                                                                  *)
LEMMA Replacing ==
  ASSUME NEW x \in Location, NEW b \in StepSet, todo' = <<Drop(x), b>>, Fills(b), b.at = x
  PROVE  /\ todo' \in Seq(StepSet) /\ Steps' = {1, 2} /\ todo'[1] = Drop(x) /\ todo'[2] = b
         /\ todo'[1].op = "drop" /\ todo'[1].at = x
         /\ FillsApart' /\ FillsCleared' /\ Extends' /\ Shrinks' /\ Enters' /\ Leaves' /\ ~Leaving'
         /\ depth' > 0 /\ Local(x, 2)' => FillsLocal'
<1>1. todo' \in Seq(StepSet) /\ Steps' = {1, 2} /\ todo'[1] = Drop(x) /\ todo'[2] = b
  <2>1. Drop(x) \in StepSet
    BY DEF StepSet
  <2> QED BY <2>1, Pair
<1>2. todo'[1].op = "drop" /\ todo'[1].at = x /\ todo'[2].op \in {"share", "put", "new"}
  BY <1>1, Constructed DEF Fills
<1>3. FillsApart'
  BY <1>1, <1>2 DEF FillsApart, Fills
<1>4. \A k \in Steps' : Fills(todo'[k]) => k = 2
  BY <1>1, <1>2 DEF Fills
<1>5. x = todo'[2].at
  BY <1>1
<1>6. FillsCleared'
  <2>1. Cleared(x, 2)'
    BY <1>1 DEF Dropped, Cleared
  <2>2. Cleared(todo[2].at, 2)'
    BY <1>5, <2>1 DEF Cleared, Dropped
  <2> QED BY <1>4, <2>2 DEF FillsCleared, Fills
<1>7. ~Leaving' /\ Enters' /\ Leaves' /\ Extends' /\ Shrinks'
  BY <1>1, <1>2 DEF Leaving, Enters, Leaves, Extends, Shrinks
<1>8. ASSUME depth' > 0, Local(x, 2)' PROVE FillsLocal'
  <2>1. Local(todo[2].at, 2)'
    BY <1>5, <1>8 DEF Local
  <2> QED BY <1>4, <1>8, <2>1 DEF FillsLocal, Fills
<1> QED BY <1>1, <1>2, <1>3, <1>6, <1>7, <1>8

(* Replacing a variable of the frame on top, or a global, by a copy or a   *)
(* new object keeps the invariant.                                         *)
LEMMA Replaced ==
  ASSUME IInv, todo = <<>>, UNCHANGED <<val, refc, size, live, depth, call>>, err' \in BOOLEAN,
         sp' \in [Frame -> 0 .. Stack],
         \A f \in Frame : sp'[f] >= sp[f] /\ (f > depth => sp'[f] = sp[f]),
         NEW x \in Root, NEW b \in StepSet, todo' = <<Drop(x), b>>,
         b.op \in {"share", "new"}, b.at = x, depth > 0,
         \/ \E r \in RegId : x = Reg(depth, r)
         \/ \E i \in 0 .. Stack - 1 : i < sp'[depth] /\ x = Stk(depth, i)
         \/ \E g \in 1 .. Globals : x = Global(g)
  PROVE  IInv'
<1>1. /\ todo' \in Seq(StepSet) /\ Steps' = {1, 2} /\ todo'[1] = Drop(x) /\ todo'[2] = b
      /\ todo'[1].op = "drop" /\ todo'[1].at = x
      /\ FillsApart' /\ FillsCleared' /\ Enters' /\ Leaves' /\ ~Leaving'
      /\ depth' > 0 /\ Local(x, 2)' => FillsLocal'
  BY Replacing DEF Fills, Root
<1>2. FillsLocal'
  <2>1. Local(x, 2)'
    BY <1>1 DEF Local, Anywhere
  <2> QED BY <1>1, <2>1
<1>3. \A k \in Steps' : /\ todo'[k].op \in {"drop", "share", "new", "enter", "leave"}
                        /\ todo'[k].op \in {"drop", "share", "new"} => todo'[k].at \in Root
  BY <1>1
<1> QED BY <1>1, <1>2, <1>3, IssuedQuiet

(* Where the machine is when it executes an instruction.                   *)
LEMMA RunningFacts ==
  ASSUME IInv, Running
  PROVE  /\ todo = <<>> /\ depth \in 1 .. MaxDepth /\ depth \in Frame /\ depth > 0 /\ ~err
         /\ \A r \in RegId : R(r) \in Location /\ R(r) \in Root /\ R(r) \in Registers /\ R(r) = Reg(depth, r)
         /\ General \subseteq RegId
         /\ sp[depth] \in 0 .. Stack /\ sp[depth] \in Nat
<1>1. todo = <<>> /\ depth > 0 /\ ~err /\ depth \in 0 .. MaxDepth /\ sp \in [Frame -> 0 .. Stack]
  BY DEF Running, IInv, Heap, TypeOK
<1>2. depth \in 1 .. MaxDepth /\ depth \in Frame
  BY <1>1, Numbers DEF Frame
<1>3. \A r \in RegId : R(r) \in Location /\ R(r) \in Root /\ R(r) \in Registers
  BY <1>2, Locations DEF R, Root, Registers
<1>4. General \subseteq RegId
  BY Numbers DEF General, RegId
<1> QED BY <1>1, <1>2, <1>3, <1>4, Numbers DEF R

(* An instruction that only releases a variable keeps the invariant.       *)
LEMMA IssuedDrop ==
  ASSUME IInv, todo = <<>>, UNCHANGED heap, UNCHANGED frame, err' \in BOOLEAN,
         NEW x \in Root, todo' = <<Drop(x)>>
  PROVE  IInv'
<1>1. todo' \in Seq(StepSet) /\ Steps' = {1} /\ todo'[1] = Drop(x)
  <2>1. Drop(x) \in StepSet
    BY DEF StepSet, Root
  <2> QED BY <2>1, One
<1>2. todo'[1].op = "drop" /\ todo'[1].at = x
  BY <1>1, Constructed
<1>3. FillsApart' /\ FillsCleared' /\ Enters' /\ Leaves' /\ FillsLocal'
  BY <1>1, <1>2 DEF FillsApart, FillsCleared, Enters, Leaves, FillsLocal, Fills
<1> QED BY <1>1, <1>2, <1>3, Unchanged, IssuedQuiet

(* So does one that replaces a register or a global.                       *)
LEMMA IssuedReplaced ==
  ASSUME IInv, Running, NEW x \in Root, NEW b \in StepSet, Issue(<<Drop(x), b>>),
         b.op \in {"share", "new"}, b.at = x,
         \/ \E r \in RegId : x = Reg(depth, r)
         \/ \E g \in 1 .. Globals : x = Global(g)
  PROVE  IInv'
<1>1. /\ todo' = <<Drop(x), b>> /\ UNCHANGED heap /\ UNCHANGED frame /\ err' = err
  BY DEF Issue
<1>2. /\ UNCHANGED <<val, refc, size, live, depth, call>> /\ sp' \in [Frame -> 0 .. Stack]
      /\ \A f \in Frame : sp'[f] >= sp[f] /\ (f > depth => sp'[f] = sp[f])
  BY <1>1, Unchanged
<1>3. err' \in BOOLEAN
  BY <1>1 DEF IInv, Heap, TypeOK
<1> QED BY <1>1, <1>2, <1>3, RunningFacts, Replaced

(* The instructions whose result is a plain value: LOAD, arithmetic,       *)
(* comparisons.                                                            *)
LEMMA LoadPlainKeeps == ASSUME IInv, NEW d \in General, LoadPlain(d) PROVE IInv'
<1>1. /\ todo' = <<Drop(R(d))>> /\ UNCHANGED heap /\ UNCHANGED frame /\ err' = err /\ Running
  BY DEF LoadPlain, Issue
<1>2. err' \in BOOLEAN /\ todo = <<>> /\ R(d) \in Root
  BY <1>1, RunningFacts DEF IInv, Heap, TypeOK
<1> QED BY <1>1, <1>2, IssuedDrop

(* LOAD of a string literal.                                               *)
LEMMA LoadStringKeeps == ASSUME IInv, NEW d \in General, LoadString(d) PROVE IInv'
<1>1. Issue(<<Drop(R(d)), New(R(d), 0)>>) /\ Running
  BY DEF LoadString
<1>2. d \in RegId /\ R(d) \in Root /\ R(d) = Reg(depth, d) /\ 0 \in 0 .. Width
  BY <1>1, RunningFacts, Numbers
<1>3. New(R(d), 0) \in StepSet
  BY <1>2 DEF StepSet
<1> QED BY <1>1, <1>2, <1>3, IssuedReplaced, Constructed

(* A copy from one variable outside the containers to another.             *)
LEMMA CopyKeeps ==
  ASSUME IInv, Running, NEW y \in Root, NEW x \in Root, Issue(<<Drop(x), Share(y, x)>>),
         \/ \E r \in RegId : x = Reg(depth, r)
         \/ \E g \in 1 .. Globals : x = Global(g)
  PROVE  IInv'
<1>1. Share(y, x) \in StepSet
  BY DEF StepSet, Root
<1> QED BY <1>1, IssuedReplaced, Constructed

(* MOV.                                                                    *)
LEMMA MoveKeeps == ASSUME IInv, NEW s \in RegId, NEW d \in RegId, Move(s, d) PROVE IInv'
<1>1. Issue(<<Drop(R(d)), Share(R(s), R(d))>>) /\ Running
  BY DEF Move
<1>2. R(d) \in Root /\ R(s) \in Root /\ R(d) = Reg(depth, d)
  BY <1>1, RunningFacts
<1> QED BY <1>1, <1>2, CopyKeeps

(* Loading and storing a global.                                           *)
LEMMA GlobalsKeep ==
  ASSUME IInv, NEW r \in General, NEW g \in 1 .. Globals, GetGlobal(r, g) \/ SetGlobal(r, g)
  PROVE  IInv'
<1>1. /\ Running
      /\ \/ Issue(<<Drop(R(r)), Share(Global(g), R(r))>>)
         \/ Issue(<<Drop(Global(g)), Share(R(r), Global(g))>>)
  BY DEF GetGlobal, SetGlobal
<1>2. r \in RegId /\ R(r) \in Root /\ R(r) = Reg(depth, r) /\ Global(g) \in Root
  BY <1>1, RunningFacts, Locations DEF Root
<1> QED BY <1>1, <1>2, CopyKeeps

(* PUSH: the stack pointer has moved up when the location is filled.       *)
LEMMA PushKeeps == ASSUME IInv, NEW r \in RegId, Push(r) PROVE IInv'
<1>1. /\ Running /\ sp[depth] < Stack /\ sp' = [sp EXCEPT ![depth] = @ + 1]
      /\ todo' = <<Drop(Stk(depth, sp[depth])), Share(R(r), Stk(depth, sp[depth]))>>
      /\ UNCHANGED <<heap, depth, call, err>>
  BY DEF Push
<1>2. /\ todo = <<>> /\ depth \in Frame /\ depth > 0 /\ R(r) \in Root /\ sp[depth] \in 0 .. Stack - 1
      /\ sp[depth] + 1 \in 0 .. Stack
  BY <1>1, RunningFacts, Numbers
<1>3. PICK x \in Root : x = Stk(depth, sp[depth])
  BY <1>2, Locations DEF Root
<1>4. Share(R(r), x) \in StepSet /\ Share(R(r), x).op = "share" /\ Share(R(r), x).at = x
  BY <1>2, Constructed DEF StepSet, Root
<1>5. /\ sp' \in [Frame -> 0 .. Stack] /\ sp'[depth] = sp[depth] + 1 /\ sp[depth] < sp'[depth]
      /\ \A f \in Frame : sp'[f] >= sp[f] /\ (f > depth => sp'[f] = sp[f])
  <2>1. sp \in [Frame -> 0 .. Stack]
    BY DEF IInv, Heap, TypeOK
  <2>2. sp' \in [Frame -> 0 .. Stack] /\ sp'[depth] = sp[depth] + 1 /\ \A f \in Frame : f # depth => sp'[f] = sp[f]
    BY <1>1, <1>2, <2>1
  <2>3. \A f \in Frame : f \in Int /\ depth \in Int
    BY <1>2, Numbers DEF Frame
  <2> QED BY <1>2, <2>1, <2>2, <2>3, Numbers
<1>6. UNCHANGED <<val, refc, size, live, depth, call>> /\ err' \in BOOLEAN
  BY <1>1 DEF heap, IInv, Heap, TypeOK
<1>7. todo' = <<Drop(x), Share(R(r), x)>>
  BY <1>1, <1>3
<1> QED BY <1>2, <1>3, <1>4, <1>5, <1>6, <1>7, Replaced

(* The host's calls.                                                       *)
LEMMA RunKeeps == ASSUME IInv, Run PROVE IInv'
<1>1. /\ todo = <<>> /\ depth = 0 /\ val[Result] = Null /\ todo' = <<Enter(0, 0)>>
      /\ UNCHANGED heap /\ UNCHANGED frame /\ err' = err
  BY DEF Run, Issue
<1>2. todo' \in Seq(StepSet) /\ Steps' = {1} /\ todo'[1] = Enter(0, 0)
  <2>1. 0 \in RegId /\ 0 \in 0 .. MaxArgs
    BY Numbers DEF RegId
  <2>2. Enter(0, 0) \in StepSet
    BY <2>1 DEF StepSet
  <2> QED BY <1>1, <2>2, One
<1>3. todo'[1].op = "enter" /\ todo'[1].nargs = 0
  BY <1>2, Constructed
<1>4. FillsApart' /\ FillsCleared' /\ Leaves' /\ FillsLocal'
  BY <1>2, <1>3 DEF FillsApart, FillsCleared, Leaves, FillsLocal, Fills
<1>5. Enters'
  <2>1. Len(todo') = 1 /\ depth' = 0 /\ val'[Result] = Null /\ 0 < MaxDepth
    BY <1>1, Unchanged, Numbers
  <2> QED BY <1>2, <1>3, <2>1 DEF Enters
<1>6. err' \in BOOLEAN
  BY <1>1 DEF IInv, Heap, TypeOK
<1> QED BY <1>1, <1>2, <1>3, <1>4, <1>5, <1>6, Unchanged, IssuedQuiet

(* The host releases the result.                                           *)
LEMMA TakeResultKeeps == ASSUME IInv, TakeResult PROVE IInv'
<1>1. todo = <<>> /\ todo' = <<Drop(Result)>> /\ UNCHANGED heap /\ UNCHANGED frame /\ err' = FALSE
  BY DEF TakeResult
<1>2. Result \in Root
  BY Locations DEF Root
<1> QED BY <1>1, <1>2, IssuedDrop

(* An element of a container: its place, and that it is released nowhere.  *)
LEMMA Element ==
  ASSUME IInv, Running, NEW b \in RegId, NEW o \in Obj, val[R(b)] = o, NEW i \in 0 .. Width - 1
  PROVE  /\ Slot(o, i) \in Location /\ Slot(o, i) \in Slots /\ i \in Places
         /\ R(b) # Slot(o, i) /\ \A r : R(r) # Slot(o, i)
         /\ val[Slot(o, i)] \in Variable
<1>1. Slot(o, i) \in Slots /\ Slot(o, i) \in Location /\ i \in Places
  BY Locations DEF Slots, Places
<1>2. \A r : R(r) # Slot(o, i)
  BY Kinds DEF R
<1>3. val[Slot(o, i)] \in Variable
  BY <1>1 DEF IInv, Heap, TypeOK, Variable
<1> QED BY <1>1, <1>2, <1>3

(* INDEX: the element is read, the destination, which may be the last to   *)
(* keep the container, released, then the element copied.                  *)
LEMMA IndexKeeps ==
  ASSUME IInv, NEW d \in General, NEW b \in RegId, NEW i \in 0 .. Width - 1, Index(d, b, i)
  PROVE  IInv'
<1>1. /\ Running /\ d # b /\ val[R(b)] # Null /\ i < size[val[R(b)]]
      /\ todo' = <<Drop(R(d)), Put(val[Slot(val[R(b)], i)], R(d))>>
      /\ UNCHANGED heap /\ UNCHANGED frame /\ err' = err
  BY DEF Index, Issue
<1>2. PICK x \in Root : x = R(d)
  BY <1>1, RunningFacts
<1>3. /\ todo = <<>> /\ d \in RegId /\ R(b) \in Root /\ depth > 0 /\ x = Reg(depth, d)
      /\ x \in Location /\ R(b) \in Location /\ x # R(b)
  BY <1>1, <1>2, RunningFacts, Distinct DEF R
<1>4. PICK o \in Obj : val[R(b)] = o
  BY <1>1, <1>3, Idle
<1>5. PICK w \in Slots : w = Slot(o, i)
  BY <1>1, <1>4, Element
<1>6. /\ w \in Location /\ i \in Places /\ R(b) # w /\ x # w
  BY <1>1, <1>2, <1>4, <1>5, Element
<1>7. PICK v \in Variable : v = val[w]
  BY <1>1, <1>4, <1>5, Element
<1>8. PICK p \in StepSet : p = Put(v, x) /\ p.op = "put" /\ p.value = v /\ p.at = x
  BY Constructed DEF StepSet
<1>9. UNCHANGED <<val, refc, size, live, depth, call, sp>>
  BY <1>1, Unchanged
<1>10. /\ todo' \in Seq(StepSet) /\ Steps' = {1, 2} /\ todo'[1] = Drop(x) /\ todo'[2] = p
       /\ todo'[1].op = "drop" /\ todo'[1].at = x
       /\ FillsApart' /\ FillsCleared' /\ Extends' /\ Shrinks' /\ Enters' /\ Leaves' /\ FillsLocal'
  <2>1. todo' = <<Drop(x), p>>
    BY <1>1, <1>2, <1>4, <1>5, <1>7, <1>8
  <2>2. Fills(p)
    BY <1>8 DEF Fills
  <2>3. /\ todo' \in Seq(StepSet) /\ Steps' = {1, 2} /\ todo'[1] = Drop(x) /\ todo'[2] = p
        /\ todo'[1].op = "drop" /\ todo'[1].at = x
        /\ FillsApart' /\ FillsCleared' /\ Extends' /\ Shrinks' /\ Enters' /\ Leaves' /\ ~Leaving'
        /\ depth' > 0 /\ Local(x, 2)' => FillsLocal'
    BY <1>3, <1>8, <2>1, <2>2, Replacing
  <2>4. Local(x, 2)'
    BY <1>3, <1>9, <2>3 DEF Local
  <2> QED BY <1>3, <1>9, <2>3, <2>4
<1>11. SlotsOpen' /\ SlotsFilled'
  <2>1. \A l \in Registers, m \in Places : SlotOf(l, m) # x
    BY <1>3, Named DEF SlotNames, Places
  <2>2. \A q \in Obj, m \in Places : Slot(q, m) # x
    BY <1>3, Kinds
  <2> QED BY <1>8, <1>10, <2>1, <2>2 DEF SlotsOpen, SlotsFilled
<1>12. PutsHeld'
  <2>1. OnlyDrops(2)'
    BY <1>3, <1>10 DEF OnlyDrops
  <2>2. PICK l \in Root : l = R(b)
    BY <1>3
  <2>3. ~Dropped(l, 2)' /\ ~Dropped(w, 2)'
    BY <1>3, <1>6, <1>10, <2>2, Constructed DEF Dropped
  <2>4. val'[l] = o /\ i < size'[o] /\ val'[Slot(o, i)] = v /\ ~Dropped(Slot(o, i), 2)'
    BY <1>1, <1>4, <1>5, <1>7, <1>9, <2>2, <2>3
  <2>5. \A k \in Steps' : todo'[k].op = "put" => k = 2 /\ todo'[k].value = v
    BY <1>8, <1>10
  <2> QED BY <1>6, <2>1, <2>3, <2>4, <2>5 DEF PutsHeld
<1>13. \A k \in Steps' : todo'[k].op # "free"
  BY <1>8, <1>10
<1>14. /\ err' \in BOOLEAN /\ sp' \in [Frame -> 0 .. Stack]
       /\ \A f \in Frame : sp'[f] >= sp[f] /\ (f > depth => sp'[f] = sp[f])
  BY <1>1, Unchanged DEF IInv, Heap, TypeOK
<1> QED BY <1>3, <1>9, <1>10, <1>11, <1>12, <1>13, <1>14, Issued

(* An assignment to an element of a container.                             *)
LEMMA IndexAssignKeeps ==
  ASSUME IInv, NEW v \in RegId, NEW b \in RegId, NEW i \in 0 .. Width - 1, IndexAssign(v, b, i)
  PROVE  IInv'
<1>1. /\ Running /\ val[R(b)] # Null /\ i < size[val[R(b)]]
      /\ todo' = <<Drop(Slot(val[R(b)], i)), Share(R(v), Slot(val[R(b)], i))>>
      /\ UNCHANGED heap /\ UNCHANGED frame /\ err' = err
  BY DEF IndexAssign, Issue
<1>2. /\ todo = <<>> /\ R(v) \in Root /\ R(b) \in Root /\ R(b) \in Location /\ depth > 0
  BY <1>1, RunningFacts
<1>3. PICK o \in Obj : val[R(b)] = o
  BY <1>1, <1>2, Idle
<1>4. PICK x \in Slots : x = Slot(o, i)
  BY <1>1, <1>3, Element
<1>5. x \in Location /\ i \in Places /\ R(b) # x
  BY <1>1, <1>3, <1>4, Element
<1>6. PICK p \in StepSet : p = Share(R(v), x) /\ p.op = "share" /\ p.at = x
  BY <1>2, <1>5, Constructed DEF StepSet
<1>7. UNCHANGED <<val, refc, size, live, depth, call, sp>>
  BY <1>1, Unchanged
<1>8. /\ todo' \in Seq(StepSet) /\ Steps' = {1, 2} /\ todo'[1] = Drop(x) /\ todo'[2] = p
      /\ todo'[1].op = "drop" /\ todo'[1].at = x
      /\ FillsApart' /\ FillsCleared' /\ Extends' /\ Shrinks' /\ Enters' /\ Leaves' /\ FillsLocal'
  <2>1. todo' = <<Drop(x), p>>
    BY <1>1, <1>3, <1>4, <1>6
  <2>2. Fills(p)
    BY <1>6 DEF Fills
  <2>3. /\ todo' \in Seq(StepSet) /\ Steps' = {1, 2} /\ todo'[1] = Drop(x) /\ todo'[2] = p
        /\ todo'[1].op = "drop" /\ todo'[1].at = x
        /\ FillsApart' /\ FillsCleared' /\ Extends' /\ Shrinks' /\ Enters' /\ Leaves' /\ ~Leaving'
        /\ depth' > 0 /\ Local(x, 2)' => FillsLocal'
    BY <1>5, <1>6, <2>1, <2>2, Replacing
  <2>4. Local(x, 2)'
    BY DEF Local, Anywhere
  <2> QED BY <1>2, <1>7, <2>3, <2>4
<1>9. SlotsOpen' /\ PutsHeld'
  <2>1. \A l \in Registers, m \in Places : SlotOf(l, m) # x
    BY <1>5, Named DEF SlotNames, Places
  <2> QED BY <1>6, <1>8, <2>1 DEF SlotsOpen, PutsHeld
<1>10. SlotsFilled'
  <2>1. OnlyDrops(2)'
    BY <1>5, <1>8 DEF OnlyDrops
  <2>2. PICK l \in Root : l = R(b)
    BY <1>2
  <2>3. ~Dropped(l, 2)'
    BY <1>5, <1>8, <2>2, Constructed DEF Dropped
  <2>4. \A k \in Steps' : todo'[k].op = "share" => k = 2 /\ todo'[k].at = Slot(o, i)
    BY <1>4, <1>6, <1>8
  <2>5. val'[l] = o /\ i < size'[o]
    BY <1>1, <1>3, <1>7, <2>2
  <2> QED BY <2>1, <2>3, <2>4, <2>5, Distinct DEF SlotsFilled
<1>11. \A k \in Steps' : todo'[k].op # "free"
  BY <1>6, <1>8
<1>12. /\ err' \in BOOLEAN /\ sp' \in [Frame -> 0 .. Stack]
       /\ \A f \in Frame : sp'[f] >= sp[f] /\ (f > depth => sp'[f] = sp[f])
  BY <1>1, Unchanged DEF IInv, Heap, TypeOK
<1> QED BY <1>2, <1>7, <1>8, <1>9, <1>10, <1>11, <1>12, Issued

(* An assignment to a key that a map does not have.                        *)
LEMMA IndexInsertKeeps ==
  ASSUME IInv, NEW v \in RegId, NEW b \in RegId, NEW r \in RegId, IndexInsert(v, b, r)
  PROVE  IInv'
<1>1. /\ Running /\ val[R(b)] # Null /\ size[val[R(b)]] + 2 <= Width
      /\ todo' = <<Extend(R(b), R(r)), Extend(R(b), R(v))>>
      /\ UNCHANGED heap /\ UNCHANGED frame /\ err' = err
  BY DEF IndexInsert, Issue
<1>2. PICK x \in Root : x = R(b)
  BY <1>1, RunningFacts
<1>3. todo = <<>> /\ R(v) \in Root /\ R(r) \in Root /\ x \in Location
  BY <1>1, <1>2, RunningFacts
<1>4. PICK o \in Obj : val[x] = o
  BY <1>1, <1>2, <1>3, Idle
<1>5. size[o] \in Nat /\ size[o] + 1 < Width /\ size[o] < Width
  BY <1>1, <1>2, <1>3, <1>4, Idle, Numbers
<1>6. PICK p \in StepSet, q \in StepSet :
        /\ todo' = <<p, q>> /\ p.op = "extend" /\ q.op = "extend" /\ p.at = x /\ q.at = x
  BY <1>1, <1>2, <1>3, Constructed DEF StepSet
<1>7. /\ todo' \in Seq(StepSet) /\ Steps' = {1, 2} /\ todo'[1] = p /\ todo'[2] = q
  BY <1>6, Pair
<1>8. UNCHANGED <<val, refc, size, live, depth, call, sp>>
  BY <1>1, Unchanged
<1>9. /\ FillsApart' /\ FillsCleared' /\ SlotsOpen' /\ SlotsFilled' /\ PutsHeld' /\ Shrinks'
      /\ Enters' /\ Leaves' /\ FillsLocal'
  BY <1>6, <1>7
     DEF FillsApart, FillsCleared, SlotsOpen, SlotsFilled, PutsHeld, Shrinks, Enters, Leaves,
         FillsLocal, Fills
<1>10. Extends'
  <2>1. \A k \in Steps' : ~Dropped(x, k)'
    BY <1>6, <1>7, Constructed DEF Dropped
  <2>2. \A k \in Steps' : Refers(x, k, o)'
    BY <1>4, <1>8, <2>1 DEF Refers
  <2>3. \A k \in Steps' : todo'[k].at = x
    BY <1>6, <1>7
  <2>4. \A k \in Steps' : Refers(todo[k].at, k, o)'
    BY <2>2, <2>3 DEF Refers, Dropped
  <2>5. size'[o] < Width /\ size'[o] + 1 < Width
    BY <1>5, <1>8
  <2>6. \A j, k \in Steps' : j < k => k = 2
    BY <1>7
  <2>7. todo'[1].at = todo'[2].at /\ \A k \in Steps' : todo'[k].op # "shrink"
    BY <1>6, <1>7
  <2> QED BY <2>4, <2>5, <2>6, <2>7 DEF Extends
<1>11. \A k \in Steps' : todo'[k].op # "free"
  BY <1>6, <1>7
<1>12. /\ err' \in BOOLEAN /\ sp' \in [Frame -> 0 .. Stack]
       /\ \A f \in Frame : sp'[f] >= sp[f] /\ (f > depth => sp'[f] = sp[f])
  BY <1>1, Unchanged DEF IInv, Heap, TypeOK
<1> QED BY <1>3, <1>7, <1>8, <1>9, <1>10, <1>11, <1>12, Issued

-----------------------------------------------------------------------------
(* The end of a frame releases all of it and leaves it.                    *)
LEMMA CleanUpShape ==
  ASSUME IInv, depth \in Frame
  PROVE  /\ CleanUp \in Seq(StepSet) /\ Len(CleanUp) \in Nat \ {0} /\ CleanUp[Len(CleanUp)] = Leave
         /\ \A j \in 1 .. Len(CleanUp) - 1 : \E l \in Root : CleanUp[j] = Drop(l)
         /\ \A r \in RegId : \E j \in 1 .. Len(CleanUp) - 1 : CleanUp[j] = Drop(Reg(depth, r))
         /\ \A i \in 0 .. sp[depth] - 1 : \E j \in 1 .. Len(CleanUp) - 1 : CleanUp[j] = Drop(Stk(depth, i))
<1> DEFINE regs == [k \in 1 .. ArgRegs + GenRegs |-> Drop(Reg(depth, k - 1))]
           stk  == [k \in 1 .. sp[depth] |-> Drop(Stk(depth, k - 1))]
           both == regs \o stk
           c    == both \o <<Leave>>
           n    == ArgRegs + GenRegs
           m    == sp[depth]
<1>1. CleanUp = c
  BY DEF CleanUp, Each, R
<1>2. n \in Nat /\ m \in Nat /\ m <= Stack /\ Stack \in Nat
  BY Numbers DEF IInv, Heap, TypeOK
<1>3. \A k \in 1 .. n : k - 1 \in RegId
  BY Numbers DEF RegId
<1>4. \A k \in 1 .. m : k - 1 \in 0 .. Stack - 1
  BY <1>2
<1>5. /\ \A k \in 1 .. n : Reg(depth, k - 1) \in Root /\ Drop(Reg(depth, k - 1)) \in StepSet
      /\ \A k \in 1 .. m : Stk(depth, k - 1) \in Root /\ Drop(Stk(depth, k - 1)) \in StepSet
  BY <1>3, <1>4, Locations DEF Root, StepSet
<1>6. regs \in Seq(StepSet) /\ Len(regs) = n /\ \A k \in 1 .. n : regs[k] = Drop(Reg(depth, k - 1))
  BY <1>2, <1>5
<1>7. stk \in Seq(StepSet) /\ Len(stk) = m /\ \A k \in 1 .. m : stk[k] = Drop(Stk(depth, k - 1))
  BY <1>2, <1>5
<1> HIDE DEF regs, stk
<1>8. /\ both \in Seq(StepSet) /\ Len(both) = n + m
      /\ \A k \in 1 .. n + m : both[k] = IF k <= n THEN regs[k] ELSE stk[k - n]
  <2>1. /\ both \in Seq(StepSet) /\ Len(both) = Len(regs) + Len(stk)
        /\ \A k \in 1 .. Len(regs) + Len(stk) :
             both[k] = IF k <= Len(regs) THEN regs[k] ELSE stk[k - Len(regs)]
    BY <1>6, <1>7, Concatenated
  <2> HIDE DEF both, n, m
  <2> QED BY <1>6, <1>7, <2>1
<1> HIDE DEF both
<1>9. <<Leave>> \in Seq(StepSet) /\ Len(<<Leave>>) = 1 /\ <<Leave>>[1] = Leave
  BY DEF StepSet
<1>10. /\ c \in Seq(StepSet) /\ Len(c) = n + m + 1
       /\ \A k \in 1 .. n + m + 1 : c[k] = IF k <= n + m THEN both[k] ELSE <<Leave>>[k - (n + m)]
  BY <1>2, <1>8, <1>9, Concatenated
<1> HIDE DEF c, n, m
<1>11. c[n + m + 1] = Leave
  <2>1. n + m + 1 \in 1 .. n + m + 1 /\ ~(n + m + 1 <= n + m) /\ (n + m + 1) - (n + m) = 1
    BY <1>2
  <2> QED BY <1>9, <1>10, <2>1
<1>12. \A k \in 1 .. n : k \in 1 .. n + m /\ c[k] = Drop(Reg(depth, k - 1))
  <2>1. \A k \in 1 .. n : k \in 1 .. n + m /\ k \in 1 .. n + m + 1 /\ k <= n /\ k <= n + m
    BY <1>2
  <2> QED BY <1>6, <1>8, <1>10, <2>1
<1>13. \A k \in 1 .. m : n + k \in 1 .. n + m /\ c[n + k] = Drop(Stk(depth, k - 1))
  <2>1. \A k \in 1 .. m : /\ n + k \in 1 .. n + m /\ n + k \in 1 .. n + m + 1 /\ ~(n + k <= n)
                          /\ n + k <= n + m /\ (n + k) - n = k
    BY <1>2
  <2> QED BY <1>7, <1>8, <1>10, <2>1
<1>14. \A j \in 1 .. n + m : \E l \in Root : c[j] = Drop(l)
  <2> SUFFICES ASSUME NEW j \in 1 .. n + m PROVE \E l \in Root : c[j] = Drop(l)
    OBVIOUS
  <2>1. CASE j <= n
    <3>1. j \in 1 .. n
      BY <1>2, <2>1
    <3> QED BY <1>5, <1>12, <3>1
  <2>2. CASE j > n
    <3>1. j - n \in 1 .. m /\ n + (j - n) = j
      BY <1>2, <2>2
    <3>2. c[j] = Drop(Stk(depth, (j - n) - 1)) /\ Stk(depth, (j - n) - 1) \in Root
      BY <1>5, <1>13, <3>1
    <3> QED BY <3>2
  <2> QED BY <1>2, <2>1, <2>2
<1>15. \A r \in RegId : r + 1 \in 1 .. n /\ (r + 1) - 1 = r
  BY Numbers DEF RegId, n
<1>16. \A i \in 0 .. m - 1 : i + 1 \in 1 .. m /\ (i + 1) - 1 = i
  BY <1>2
<1>17. \A r \in RegId : \E j \in 1 .. n + m : c[j] = Drop(Reg(depth, r))
  BY <1>12, <1>15
<1>18. \A i \in 0 .. m - 1 : \E j \in 1 .. n + m : c[j] = Drop(Stk(depth, i))
  BY <1>13, <1>16
<1>19. Len(c) \in Nat \ {0} /\ Len(c) - 1 = n + m
  BY <1>2, <1>10
<1> QED BY <1>1, <1>10, <1>11, <1>14, <1>17, <1>18, <1>19 DEF m

(* A frame is left after some variables were copied out of it.             *)
LEMMA LeavingFrame ==
  ASSUME IInv, todo = <<>>, depth \in Frame, UNCHANGED heap, UNCHANGED frame, err' \in BOOLEAN,
         NEW n \in Nat, todo' \in Seq(StepSet), Len(todo') = n + Len(CleanUp),
         \A k \in 1 .. Len(CleanUp) : todo'[n + k] = CleanUp[k],
         \A k \in 1 .. n :
           /\ todo'[k].op = "share" /\ todo'[k].at \in Root /\ val[todo'[k].at] = Null
           /\ todo'[k].at \in Anywhere \cup {ResultOf(depth)},
         \A j, k \in 1 .. n : j # k => todo'[j].at # todo'[k].at
  PROVE  IInv'
<1>1. PICK m \in Nat \ {0} :
      /\ m = Len(CleanUp) /\ CleanUp[m] = Leave
      /\ \A j \in 1 .. m - 1 : \E l \in Root : CleanUp[j] = Drop(l)
      /\ \A r \in RegId : \E j \in 1 .. m - 1 : CleanUp[j] = Drop(Reg(depth, r))
      /\ \A i \in 0 .. sp[depth] - 1 : \E j \in 1 .. m - 1 : CleanUp[j] = Drop(Stk(depth, i))
  BY CleanUpShape
<1>2. PICK q \in Nat : q = n + m
  BY <1>1
<1>20. Steps' = 1 .. n + m /\ n + m \in Steps' /\ Len(todo') = n + m /\ todo'[n + m] = Leave
  BY <1>1 DEF Steps
<1>3. \A j \in 1 .. m - 1 : n + j \in Steps' /\ n + j < n + m /\ todo'[n + j] = CleanUp[j]
  <2>1. \A j \in 1 .. m - 1 : j \in 1 .. m /\ n + j \in 1 .. n + m /\ n + j < n + m
    BY <1>1
  <2> QED BY <1>20, <2>1
<1>4. \A k \in Steps' : k \in 1 .. n \/ k = n + m \/ \E j \in 1 .. m - 1 : k = n + j
  <2> SUFFICES ASSUME NEW k \in 1 .. n + m, k > n, k # n + m PROVE \E j \in 1 .. m - 1 : k = n + j
    BY <1>20
  <2>1. k - n \in 1 .. m - 1 /\ k = n + (k - n)
    BY <1>1
  <2> QED BY <2>1
<1>5. \A k \in Steps' : \/ k \in 1 .. n /\ todo'[k].op = "share"
                        \/ k = n + m /\ todo'[k] = Leave
                        \/ \E l \in Root : todo'[k] = Drop(l)
  <2> SUFFICES ASSUME NEW k \in Steps', k \notin 1 .. n, k # n + m PROVE \E l \in Root : todo'[k] = Drop(l)
    BY <1>20
  <2>1. PICK j \in 1 .. m - 1 : k = n + j
    BY <1>4
  <2>2. todo'[k] = CleanUp[j]
    BY <1>3, <2>1
  <2> QED BY <1>1, <2>2
<1>6. \A k \in Steps' : \/ k \in 1 .. n /\ todo'[k].op = "share" /\ todo'[k].at \in Root
                        \/ k = n + m /\ todo'[k].op = "leave"
                        \/ todo'[k].op = "drop" /\ todo'[k].at \in Root
  BY <1>5, Constructed
<1>7. /\ UNCHANGED <<val, refc, size, live, depth, call, sp>> /\ sp' \in [Frame -> 0 .. Stack]
      /\ \A f \in Frame : sp'[f] >= sp[f] /\ (f > depth => sp'[f] = sp[f])
  BY Unchanged
<1>8. \A k \in Steps' : Fills(todo'[k]) => k \in 1 .. n
  BY <1>6 DEF Fills
<1>9. FillsApart'
  BY <1>8 DEF FillsApart, Fills
<1>10. FillsCleared'
  BY <1>7, <1>8 DEF FillsCleared, Cleared, Fills
<1>11. Leaving'
  BY <1>20, Constructed DEF Leaving
<1>12. FillsLocal'
  <2> SUFFICES ASSUME NEW k \in 1 .. n PROVE depth' > 0 /\ Local(todo[k].at, k)'
    BY <1>8 DEF FillsLocal, Fills
  <2>1. depth' > 0
    BY <1>7 DEF Frame
  <2>2. ResultOf(depth)' = ResultOf(depth)
    BY <1>7 DEF ResultOf
  <2> QED BY <1>11, <2>1, <2>2 DEF Local
<1>13. Enters'
  BY <1>6 DEF Enters
<1>14. Leaves'
  <2>1. \A k \in Steps' : todo'[k].op = "leave" => k = q
    BY <1>2, <1>6
  <2>2. ASSUME NEW l, NEW j \in 1 .. m - 1, CleanUp[j] = Drop(l) PROVE Dropped(l, q)'
    <3>1. n + j \in Steps' /\ n + j < q /\ todo'[n + j] = Drop(l)
      BY <1>2, <1>3, <2>2
    <3>2. \A h : h \in Steps' /\ h < q /\ todo'[h] = Drop(l) => Dropped(l, q)'
      BY DEF Dropped
    <3> QED BY <3>1, <3>2
  <2>3. ASSUME NEW r \in RegId PROVE Cleared(Reg(depth, r), q)'
    <3>1. PICK l : l = Reg(depth, r)
      OBVIOUS
    <3>2. Dropped(l, q)'
      BY <1>1, <2>2, <3>1
    <3>3. l = Reg(depth', r)
      BY <1>7, <3>1
    <3> QED BY <3>2, <3>3 DEF Cleared, Dropped
  <2>4. ASSUME NEW i \in 0 .. Stack - 1 PROVE Cleared(Stk(depth, i), q)'
    <3>1. PICK l : l = Stk(depth, i)
      OBVIOUS
    <3>2. l = Stk(depth', i)
      BY <1>7, <3>1
    <3>3. CASE i < sp[depth]
      <4>1. i \in 0 .. sp[depth] - 1
        BY <3>3, Numbers DEF IInv, Heap, TypeOK
      <4>2. Dropped(l, q)'
        BY <1>1, <2>2, <3>1, <4>1
      <4> QED BY <3>2, <4>2 DEF Cleared, Dropped
    <3>4. CASE i >= sp[depth]
      <4>1. val[Stk(depth, i)] = Null
        BY <3>4 DEF IInv, Frames
      <4> QED BY <1>7, <4>1 DEF Cleared
    <3>5. i < sp[depth] \/ i >= sp[depth]
      BY Numbers DEF IInv, Heap, TypeOK
    <3> QED BY <3>3, <3>4, <3>5
  <2>5. depth' > 0 /\ \A i \in 0 .. MaxArgs - 1 : val'[Arg(depth', i)] = Null
    BY <1>7, Idle, Numbers DEF Frame
  <2>6. \A k : k = q => (\A r \in RegId : Cleared(Reg(depth, r), k)') /\ (\A i \in 0 .. Stack - 1 : Cleared(Stk(depth, i), k)')
    BY <2>3, <2>4
  <2>7. q = Len(todo')
    BY <1>2, <1>20
  <2> QED BY <2>1, <2>5, <2>6, <2>7 DEF Leaves
<1> QED BY <1>6, <1>7, <1>9, <1>10, <1>12, <1>13, <1>14, IssuedQuiet

(* What the steps before the end of a frame have to be.                    *)
LEMMA LeavingAfter ==
  ASSUME IInv, todo = <<>>, depth \in Frame, UNCHANGED heap, UNCHANGED frame, err' \in BOOLEAN,
         NEW s \in Seq(StepSet), todo' = s \o CleanUp,
         \A k \in 1 .. Len(s) :
           /\ s[k].op = "share" /\ s[k].at \in Root /\ val[s[k].at] = Null
           /\ s[k].at \in Anywhere \cup {ResultOf(depth)},
         \A j, k \in 1 .. Len(s) : j # k => s[j].at # s[k].at
  PROVE  IInv'
<1> DEFINE c == CleanUp
<1>1. c \in Seq(StepSet) /\ Len(c) \in Nat
  BY CleanUpShape
<1> HIDE DEF c
<1>2. PICK n \in Nat : n = Len(s)
  OBVIOUS
<1>3. PICK m \in Nat : m = Len(c)
  BY <1>1
<1>4. /\ s \o c \in Seq(StepSet) /\ Len(s \o c) = n + m
      /\ \A k \in 1 .. n + m : (s \o c)[k] = IF k <= n THEN s[k] ELSE c[k - n]
  BY <1>1, <1>2, <1>3, Concatenated
<1>5. todo' = s \o c
  BY DEF c
<1>6. \A k \in 1 .. n : todo'[k] = s[k]
  <2>1. \A k \in 1 .. n : k \in 1 .. n + m /\ k <= n
    OBVIOUS
  <2> QED BY <1>4, <1>5, <2>1
<1>7. \A k \in 1 .. m : todo'[n + k] = c[k]
  <2>1. \A k \in 1 .. m : n + k \in 1 .. n + m /\ ~(n + k <= n) /\ (n + k) - n = k
    OBVIOUS
  <2> QED BY <1>4, <1>5, <2>1
<1>8. /\ todo' \in Seq(StepSet) /\ Len(todo') = n + Len(CleanUp)
      /\ \A k \in 1 .. Len(CleanUp) : todo'[n + k] = CleanUp[k]
  BY <1>3, <1>4, <1>5, <1>7 DEF c
<1>9. \A k \in 1 .. n :
           /\ todo'[k].op = "share" /\ todo'[k].at \in Root /\ val[todo'[k].at] = Null
           /\ todo'[k].at \in Anywhere \cup {ResultOf(depth)}
  BY <1>2, <1>6
<1>10. \A j, k \in 1 .. n : j # k => todo'[j].at # todo'[k].at
  BY <1>2, <1>6
<1> QED BY <1>8, <1>9, <1>10, LeavingFrame

(* RET: the result is copied out before the frame is released.             *)
LEMMA ReturnKeeps == ASSUME IInv, NEW r \in RegId, Return(r) PROVE IInv'
<1>1. /\ Running /\ todo' = <<Share(R(r), ResultOf(depth))>> \o CleanUp
      /\ UNCHANGED heap /\ UNCHANGED frame /\ err' = err
  BY DEF Return, Issue
<1>2. todo = <<>> /\ depth \in Frame /\ R(r) \in Root /\ depth \in 1 .. depth
  BY <1>1, RunningFacts, Numbers
<1>3. PICK x \in Root : x = ResultOf(depth)
  BY <1>2, ResultIsRoot DEF IInv, Heap
<1>4. val[x] = Null
  BY <1>2, <1>3, Idle
<1>5. PICK p \in StepSet : p = Share(R(r), x) /\ p.op = "share" /\ p.at = x
  BY <1>2, Constructed DEF StepSet, Root
<1>6. PICK s \in Seq(StepSet) : s = <<p>> /\ Len(s) = 1 /\ s[1] = p
  <2>1. <<p>> \in Seq(StepSet) /\ Len(<<p>>) = 1 /\ <<p>>[1] = p
    OBVIOUS
  <2> QED BY <2>1
<1>7. todo' = s \o CleanUp
  BY <1>1, <1>3, <1>5, <1>6
<1>8. err' \in BOOLEAN
  BY <1>1 DEF IInv, Heap, TypeOK
<1>9. /\ \A k \in 1 .. Len(s) :
           /\ s[k].op = "share" /\ s[k].at \in Root /\ val[s[k].at] = Null
           /\ s[k].at \in Anywhere \cup {ResultOf(depth)}
      /\ \A j, k \in 1 .. Len(s) : j # k => s[j].at # s[k].at
  <2>1. \A k \in 1 .. Len(s) : k = 1
    BY <1>6
  <2> QED BY <1>3, <1>4, <1>5, <1>6, <2>1
<1> QED BY <1>1, <1>2, <1>7, <1>8, <1>9, LeavingAfter

(* A frame that is left because of an error copies nothing.                *)
LEMMA LeavingAtOnce ==
  ASSUME IInv, todo = <<>>, depth \in Frame, UNCHANGED heap, UNCHANGED frame, err' \in BOOLEAN,
         todo' = CleanUp
  PROVE  IInv'
<1>1. CleanUp \in Seq(StepSet) /\ Len(CleanUp) \in Nat
  BY CleanUpShape
<1>2. 0 \in Nat /\ Len(todo') = 0 + Len(CleanUp) /\ \A k \in 1 .. Len(CleanUp) : todo'[0 + k] = CleanUp[k]
  BY <1>1
<1>3. /\ \A k \in 1 .. 0 :
           /\ todo'[k].op = "share" /\ todo'[k].at \in Root /\ val[todo'[k].at] = Null
           /\ todo'[k].at \in Anywhere \cup {ResultOf(depth)}
      /\ \A j, k \in 1 .. 0 : j # k => todo'[j].at # todo'[k].at
      /\ todo' \in Seq(StepSet)
  BY <1>1
<1> QED BY <1>2, <1>3, LeavingFrame

(* An error in a frame releases all of it.                                 *)
LEMMA AbortKeeps == ASSUME IInv, Abort PROVE IInv'
<1>1. Running /\ todo' = CleanUp /\ UNCHANGED heap /\ UNCHANGED frame /\ err' = TRUE
  BY DEF Abort
<1> QED BY <1>1, RunningFacts, LeavingAtOnce

(* An error that a callee returned releases the caller's frame too.        *)
LEMMA PropagateKeeps == ASSUME IInv, Propagate PROVE IInv'
<1>1. /\ todo = <<>> /\ depth > 0 /\ todo' = CleanUp /\ UNCHANGED heap /\ UNCHANGED frame /\ err' = err
  BY DEF Propagate, Issue
<1>2. depth \in Frame /\ err' \in BOOLEAN
  BY <1>1, Numbers DEF Frame, IInv, Heap, TypeOK
<1> QED BY <1>1, <1>2, LeavingAtOnce

(* The operands of an instruction are in the frame.                        *)
LEMMA Operands ==
  ASSUME IInv, Running, NEW n \in 0 .. MaxArgs, Available(n)
  PROVE  \A k \in 1 .. n : Operand(n, k - 1) \in Root
<1> SUFFICES ASSUME NEW k \in 1 .. n PROVE Operand(n, k - 1) \in Root
  OBVIOUS
<1>1. PICK m \in 0 .. Stack : m = sp[depth]
  BY RunningFacts
<1>2. depth \in Frame /\ n <= ArgRegs + m
  BY <1>1, RunningFacts DEF Available
<1>3. CASE k - 1 < ArgRegs
  <2>1. k - 1 \in RegId
    BY <1>3, Numbers DEF RegId
  <2> QED BY <1>3, <2>1, RunningFacts DEF Operand
<1>4. CASE ~(k - 1 < ArgRegs)
  <2>1. m - n + (k - 1) \in 0 .. Stack - 1
    BY <1>2, <1>4, Numbers
  <2>2. Stk(depth, m - n + (k - 1)) \in Root
    BY <1>2, <2>1, Locations DEF Root
  <2> QED BY <1>1, <1>4, <2>2 DEF Operand
<1> QED BY <1>3, <1>4

(* CALL of something that is no function: the arguments that were read are *)
(* released with the frame.                                                *)
LEMMA CallNonFunctionKeeps == ASSUME IInv, NEW n \in 1 .. MaxArgs, CallNonFunction(n) PROVE IInv'
<1> DEFINE p == [k \in 1 .. n |-> Share(Operand(n, k - 1), Leaked(k - 1))]
<1>1. /\ Running /\ Available(n) /\ \A i \in 0 .. MaxArgs - 1 : val[Leaked(i)] = Null
      /\ todo' = p \o CleanUp /\ UNCHANGED heap /\ UNCHANGED frame /\ err' = TRUE
  BY DEF CallNonFunction, Each
<1>2. todo = <<>> /\ depth \in Frame /\ n \in 0 .. MaxArgs /\ n \in Nat
  BY <1>1, RunningFacts, Numbers
<1>3. \A k \in 1 .. n : k - 1 \in 0 .. MaxArgs - 1 /\ Leaked(k - 1) \in Root
  <2>1. \A k \in 1 .. n : k - 1 \in 0 .. MaxArgs - 1
    BY Numbers
  <2> QED BY <2>1, Locations DEF Root
<1>4. \A k \in 1 .. n : Share(Operand(n, k - 1), Leaked(k - 1)) \in StepSet
  BY <1>1, <1>2, <1>3, Operands DEF StepSet, Root
<1>5. p \in Seq(StepSet) /\ Len(p) = n /\ \A k \in 1 .. n : p[k] = Share(Operand(n, k - 1), Leaked(k - 1))
  BY <1>2, <1>4
<1> HIDE DEF p
<1>6. \A k \in 1 .. n : p[k].op = "share" /\ p[k].at = Leaked(k - 1)
  BY <1>5, Constructed
<1>7. \A k \in 1 .. Len(p) :
           /\ p[k].op = "share" /\ p[k].at \in Root /\ val[p[k].at] = Null
           /\ p[k].at \in Anywhere \cup {ResultOf(depth)}
  BY <1>1, <1>3, <1>5, <1>6 DEF Anywhere
<1>8. \A j, k \in 1 .. Len(p) : j # k => p[j].at # p[k].at
  <2>1. \A j, k \in 1 .. n : j # k => j - 1 # k - 1
    BY <1>2
  <2> QED BY <1>5, <1>6, <2>1, Distinct
<1> QED BY <1>1, <1>2, <1>5, <1>7, <1>8, LeavingAfter

-----------------------------------------------------------------------------
(* Instructions that read their arguments into a vector.                   *)
LEMMA Arguments ==
  ASSUME IInv, Running, NEW n \in 0 .. MaxArgs, NEW i \in 0 .. n - 1
  PROVE  i \in 0 .. MaxArgs - 1 /\ i \in Places /\ Arg(depth, i) \in Root /\ val[Arg(depth, i)] = Null
<1>1. i \in 0 .. MaxArgs - 1 /\ i \in Places
  BY Numbers DEF Places
<1>2. depth \in Frame /\ depth > 0 /\ todo = <<>>
  BY RunningFacts
<1> QED BY <1>1, <1>2, Idle, Locations DEF Root

(* A plan that makes a new container of n arguments in x: the arguments    *)
(* are read from place a + 1 on, the container is made at place b.         *)
Making(t, x, n, a, b) ==
  /\ b \in DOMAIN t /\ b - 1 \in DOMAIN t /\ t[b - 1] = Drop(x) /\ t[b] = New(x, n)
  /\ \A k \in DOMAIN t :
       \/ k = b - 1 \/ k = b
       \/ \E i \in 0 .. n - 1 : k = a + 1 + i /\ t[k].op = "share" /\ t[k].at = Arg(depth, i)
       \/ \E i \in 0 .. n - 1 : k > b /\ t[k].op = "share" /\ t[k].at = SlotOf(x, i)
       \/ \E i \in 0 .. n - 1 : k > b /\ t[k].op = "drop" /\ t[k].at = SlotOf(x, i)
       \/ \E i \in 0 .. n - 1 : t[k].op = "drop" /\ t[k].at = Arg(depth, i)
  /\ \A j, k \in DOMAIN t, i \in 0 .. n - 1 :
       /\ t[j].op = "share" /\ t[k].op = "share" /\ t[j].at = SlotOf(x, i) /\ t[k].at = SlotOf(x, i)
       => j = k
  /\ \A i \in 0 .. n - 1 : \E m \in DOMAIN t : m > a + n /\ t[m] = Drop(Arg(depth, i))

(* A plan of that form keeps the invariant.                                *)
LEMMA Makes ==
  ASSUME IInv, Running, UNCHANGED heap, UNCHANGED frame, err' = err, todo' \in Seq(StepSet),
         NEW d \in RegId, NEW x \in Root, x = R(d), NEW n \in 0 .. MaxArgs, NEW a \in Nat, NEW b \in Nat,
         Making(todo', x, n, a, b)
  PROVE  IInv'
<1>20. /\ b \in Steps' /\ b - 1 \in Steps' /\ todo'[b - 1] = Drop(x) /\ todo'[b] = New(x, n)
       /\ \A k \in Steps' :
           \/ k = b - 1 \/ k = b
           \/ \E i \in 0 .. n - 1 : k = a + 1 + i /\ todo'[k].op = "share" /\ todo'[k].at = Arg(depth, i)
           \/ \E i \in 0 .. n - 1 : k > b /\ todo'[k].op = "share" /\ todo'[k].at = SlotOf(x, i)
           \/ \E i \in 0 .. n - 1 : k > b /\ todo'[k].op = "drop" /\ todo'[k].at = SlotOf(x, i)
           \/ \E i \in 0 .. n - 1 : todo'[k].op = "drop" /\ todo'[k].at = Arg(depth, i)
       /\ \A j, k \in Steps', i \in 0 .. n - 1 :
           /\ todo'[j].op = "share" /\ todo'[k].op = "share"
           /\ todo'[j].at = SlotOf(x, i) /\ todo'[k].at = SlotOf(x, i)
           => j = k
       /\ \A i \in 0 .. n - 1 : \E m \in Steps' : m > a + n /\ todo'[m] = Drop(Arg(depth, i))
  BY DEF Making, Steps
<1>1. /\ todo = <<>> /\ depth > 0 /\ depth \in Frame /\ x = Reg(depth, d) /\ x \in Registers /\ x \in Location
  BY RunningFacts
<1>2. UNCHANGED <<val, refc, size, live, depth, call, sp>>
  BY Unchanged
<1>3. Steps' \subseteq Nat \ {0}
  BY DEF Steps
<1>4. /\ todo'[b - 1].op = "drop" /\ todo'[b - 1].at = x
      /\ todo'[b].op = "new" /\ todo'[b].at = x /\ todo'[b].slots = n
  BY <1>20, Constructed
<1>5. \A k \in Steps' : todo'[k].op \in {"drop", "share", "new"}
  BY <1>4, <1>20
<1>6. \A i \in 0 .. n - 1 :
        /\ i \in 0 .. MaxArgs - 1 /\ i \in Places /\ Arg(depth, i) \in Root /\ val[Arg(depth, i)] = Null
        /\ SlotOf(x, i) \in SlotNames /\ SlotOf(x, i) \notin Location /\ x # Arg(depth, i)
  <2> SUFFICES ASSUME NEW i \in 0 .. n - 1
               PROVE  /\ i \in 0 .. MaxArgs - 1 /\ i \in Places /\ Arg(depth, i) \in Root
                      /\ val[Arg(depth, i)] = Null
                      /\ SlotOf(x, i) \in SlotNames /\ SlotOf(x, i) \notin Location /\ x # Arg(depth, i)
    OBVIOUS
  <2>1. /\ i \in 0 .. MaxArgs - 1 /\ i \in Places /\ Arg(depth, i) \in Root /\ val[Arg(depth, i)] = Null
    BY Arguments
  <2>2. SlotOf(x, i) \in SlotNames
    BY <1>1, <2>1 DEF SlotNames, Places
  <2> QED BY <1>1, <2>1, <2>2, Named, Kinds
<1>7. \A k \in Steps' : todo'[k].at \in Root \/ \E i \in 0 .. n - 1 : k > b /\ todo'[k].at = SlotOf(x, i)
  BY <1>4, <1>6, <1>20
<1>8. \A k \in Steps' : Fills(todo'[k]) =>
        \/ k = b
        \/ \E i \in 0 .. n - 1 : k = a + 1 + i /\ todo'[k].at = Arg(depth, i)
        \/ \E i \in 0 .. n - 1 : k > b /\ todo'[k].op = "share" /\ todo'[k].at = SlotOf(x, i)
  BY <1>4, <1>20 DEF Fills
<1>9. FillsApart'
  <2> SUFFICES ASSUME NEW j \in Steps', NEW k \in Steps', Fills(todo'[j]), Fills(todo'[k]),
                      todo'[j].at = todo'[k].at
               PROVE  j = k
    BY DEF FillsApart, Fills
  <2>1. CASE j = b
    BY <1>4, <1>6, <1>8, <2>1, <1>1
  <2>2. CASE \E i \in 0 .. n - 1 : j = a + 1 + i /\ todo'[j].at = Arg(depth, i)
    <3>1. PICK i \in 0 .. n - 1 : j = a + 1 + i /\ todo'[j].at = Arg(depth, i)
      BY <2>2
    <3>2. k # b /\ \A m \in 0 .. n - 1 : todo'[k].at # SlotOf(x, m)
      BY <1>4, <1>6, <3>1 DEF Root
    <3>3. PICK m \in 0 .. n - 1 : k = a + 1 + m /\ todo'[k].at = Arg(depth, m)
      BY <1>8, <3>2
    <3>4. Arg(depth, i) = Arg(depth, m)
      BY <3>1, <3>3
    <3>5. i = m
      BY <3>4, Distinct
    <3> QED BY <3>1, <3>3, <3>5
  <2>3. CASE \E i \in 0 .. n - 1 : todo'[j].op = "share" /\ todo'[j].at = SlotOf(x, i)
    <3>1. PICK i \in 0 .. n - 1 : todo'[j].op = "share" /\ todo'[j].at = SlotOf(x, i)
      BY <2>3
    <3>3. todo'[k].at = SlotOf(x, i) /\ SlotOf(x, i) \notin Root
      BY <1>6, <3>1 DEF Root
    <3>4. k # b /\ \A m \in 0 .. n - 1 : todo'[k].at # Arg(depth, m)
      BY <1>4, <1>6, <3>3
    <3>2. todo'[k].op = "share"
      BY <1>8, <3>4
    <3> QED BY <1>20, <3>1, <3>2, <3>3
  <2> QED BY <1>8, <2>1, <2>2, <2>3
<1>10. FillsCleared'
  <2> SUFFICES ASSUME NEW k \in Steps', Fills(todo'[k]), todo'[k].at \in Location
               PROVE  Cleared(todo[k].at, k)'
    BY DEF FillsCleared, Fills, Cleared, Dropped
  <2>1. CASE k = b
    <3>1. b - 1 < b
      OBVIOUS
    <3>2. b - 1 \in Steps' /\ todo'[b - 1] = Drop(todo'[b].at)
      BY <1>4, <1>20
    <3> QED BY <2>1, <3>1, <3>2 DEF Cleared, Dropped
  <2>2. CASE \E i \in 0 .. n - 1 : todo'[k].at = Arg(depth, i)
    BY <1>2, <1>6, <2>2 DEF Cleared
  <2> QED BY <1>6, <1>8, <2>1, <2>2
<1>11. ~Leaving' /\ PutsHeld' /\ Extends' /\ Shrinks' /\ Enters' /\ Leaves'
  BY <1>5 DEF Leaving, PutsHeld, Extends, Shrinks, Enters, Leaves
<1>12. FillsLocal'
  <2> SUFFICES ASSUME NEW k \in Steps', Fills(todo'[k]) PROVE Local(todo[k].at, k)'
    BY <1>1, <1>2 DEF FillsLocal, Fills
  <2>1. CASE k = b
    BY <1>1, <1>2, <1>4, <1>11, <2>1 DEF Local
  <2>2. CASE \E i \in 0 .. n - 1 : todo'[k].at = SlotOf(x, i)
    BY <1>6, <2>2 DEF Local, Anywhere
  <2>3. CASE \E i \in 0 .. n - 1 : k = a + 1 + i /\ todo'[k].at = Arg(depth, i)
    <3>1. PICK i \in 0 .. n - 1 : k = a + 1 + i /\ todo'[k].at = Arg(depth, i)
      BY <2>3
    <3>2. PICK m \in Steps' : m > a + n /\ todo'[m] = Drop(Arg(depth, i))
      BY <1>20
    <3>3. m > k
      BY <1>3, <3>1, <3>2, Numbers
    <3>4. Clears(todo[m], i)'
      BY <1>2, <3>2 DEF Clears
    <3>5. \E h \in Steps' : h > k /\ Clears(todo[h], i)'
      BY <3>3, <3>4 DEF Clears
    <3>6. todo'[k].at = Arg(depth', i) /\ i \in 0 .. MaxArgs - 1
      BY <1>2, <1>6, <3>1
    <3> QED BY <1>11, <3>5, <3>6 DEF Local
  <2> QED BY <1>8, <2>1, <2>2, <2>3
<1>13. SlotsFilled'
  <2>1. \A o \in Obj, i \in Places : Slot(o, i) \in Slots
    BY DEF Slots, Places
  <2>2. \A o \in Obj, i \in Places : Slot(o, i) \notin Root /\ Slot(o, i) \in Location
    BY <2>1, Locations DEF Root
  <2>3. \A k \in Steps', o \in Obj, i \in Places : todo'[k].at # Slot(o, i)
    BY <1>6, <1>7, <2>2
  <2> QED BY <2>3 DEF SlotsFilled
<1>14. SlotsOpen'
  <2> SUFFICES ASSUME NEW k \in Steps', NEW l \in Registers, NEW i \in Places, todo'[k].at = SlotOf(l, i)
               PROVE  /\ SlotOpen(l, i, k)'
                      /\ \A j \in Steps' : j < k =>
                           /\ todo'[j].op \in {"drop", "share", "put", "new", "free"}
                           /\ Fills(todo'[j]) => todo'[j].at \in Root \cup {SlotOf(l, m) : m \in Places}
    BY DEF SlotsOpen, Fills
  <2>1. SlotOf(l, i) \notin Root
    BY Named DEF SlotNames, Places, Root
  <2>2. k > b /\ l = x /\ i < n
    BY <1>7, <2>1, Distinct
  <2>3. \A m \in Steps' : b < m => todo'[m] # Drop(x)
    <3> SUFFICES ASSUME NEW m \in Steps', b < m, todo'[m] = Drop(x) PROVE FALSE
      OBVIOUS
    <3>1. todo'[m].op = "drop" /\ todo'[m].at = x /\ m # b /\ m # b - 1
      BY <1>3, Constructed
    <3> QED BY <1>1, <1>6, <1>20, <3>1
  <2>4. SlotOpen(l, i, k)'
    BY <1>4, <1>20, <2>2, <2>3 DEF SlotOpen
  <2>5. \A j \in Steps' : todo'[j].at \in Root \cup {SlotOf(l, m) : m \in Places}
    BY <1>6, <1>7, <2>2
  <2> QED BY <1>5, <2>4, <2>5
<1>15. \A k \in Steps' : todo'[k].op # "free"
  BY <1>5
<1>16. /\ err' \in BOOLEAN /\ sp' \in [Frame -> 0 .. Stack]
       /\ \A f \in Frame : sp'[f] >= sp[f] /\ (f > depth => sp'[f] = sp[f])
  BY Unchanged DEF IInv, Heap, TypeOK
<1> QED BY <1>1, <1>2, <1>9, <1>10, <1>11, <1>12, <1>13, <1>14, <1>15, <1>16, Issued

(* Where the parts of a plan are.                                          *)
Joined(s, t, u) == (s \o t) \o u

(* Where the steps of each part are.                                       *)
LEMMA ThreeParts ==
  ASSUME NEW s \in Seq(StepSet), NEW t \in Seq(StepSet), NEW u \in Seq(StepSet)
  PROVE  /\ Joined(s, t, u) \in Seq(StepSet) /\ Len(Joined(s, t, u)) = Len(s) + Len(t) + Len(u)
         /\ \A k \in 1 .. Len(s) : Joined(s, t, u)[k] = s[k]
         /\ \A k \in 1 .. Len(t) : Joined(s, t, u)[Len(s) + k] = t[k]
         /\ \A k \in 1 .. Len(u) : Joined(s, t, u)[Len(s) + Len(t) + k] = u[k]
<1>0. PICK a \in Nat, b \in Nat, c \in Nat : Len(s) = a /\ Len(t) = b /\ Len(u) = c
  OBVIOUS
<1> DEFINE v == s \o t
<1>1. /\ v \in Seq(StepSet) /\ Len(v) = a + b
      /\ \A k \in 1 .. a + b : v[k] = IF k <= a THEN s[k] ELSE t[k - a]
  BY <1>0, Concatenated
<1> HIDE DEF v
<1>2. /\ v \o u \in Seq(StepSet) /\ Len(v \o u) = a + b + c
      /\ \A k \in 1 .. a + b + c : (v \o u)[k] = IF k <= a + b THEN v[k] ELSE u[k - (a + b)]
  <2>1. /\ v \o u \in Seq(StepSet) /\ Len(v \o u) = Len(v) + Len(u)
        /\ \A k \in 1 .. Len(v) + Len(u) : (v \o u)[k] = IF k <= Len(v) THEN v[k] ELSE u[k - Len(v)]
    <3>1. v \in Seq(StepSet)
      BY <1>1
    <3> QED BY <3>1, Concatenated, Zenon
  <2> QED BY <1>0, <1>1, <2>1
<1>3. \A k \in 1 .. a : (v \o u)[k] = s[k]
  <2>1. \A k \in 1 .. a : k \in 1 .. a + b + c /\ k \in 1 .. a + b /\ k <= a + b /\ k <= a
    OBVIOUS
  <2> QED BY <1>1, <1>2, <2>1
<1>4. \A k \in 1 .. b : (v \o u)[a + k] = t[k]
  <2>1. \A k \in 1 .. b : /\ a + k \in 1 .. a + b + c /\ a + k \in 1 .. a + b /\ a + k <= a + b
                          /\ ~(a + k <= a) /\ (a + k) - a = k
    OBVIOUS
  <2> QED BY <1>1, <1>2, <2>1
<1>5. \A k \in 1 .. c : (v \o u)[a + b + k] = u[k]
  <2>1. \A k \in 1 .. c : /\ a + b + k \in 1 .. a + b + c /\ ~(a + b + k <= a + b)
                          /\ (a + b + k) - (a + b) = k
    OBVIOUS
  <2> QED BY <1>2, <2>1
<1> QED BY <1>0, <1>2, <1>3, <1>4, <1>5 DEF v, Joined

(* Reading the arguments into the vector: one copy per argument.           *)
LEMMA ReadShape ==
  ASSUME IInv, Running, NEW n \in 0 .. MaxArgs, Available(n)
  PROVE  /\ ReadArgs(n) \in Seq(StepSet) /\ Len(ReadArgs(n)) = n
         /\ \A k \in 1 .. n : /\ ReadArgs(n)[k] = Share(Operand(n, k - 1), Arg(depth, k - 1))
                              /\ ReadArgs(n)[k].op = "share" /\ ReadArgs(n)[k].at = Arg(depth, k - 1)
<1> DEFINE p == [k \in 1 .. n |-> Share(Operand(n, k - 1), Arg(depth, k - 1))]
<1>1. ReadArgs(n) = p
  BY DEF ReadArgs, Each
<1>2. n \in Nat /\ \A k \in 1 .. n : k - 1 \in 0 .. n - 1
  BY Numbers
<1>3. \A k \in 1 .. n : Operand(n, k - 1) \in Root /\ Arg(depth, k - 1) \in Root
  BY <1>2, Operands, Arguments
<1>4. \A k \in 1 .. n : Share(Operand(n, k - 1), Arg(depth, k - 1)) \in StepSet
  BY <1>3 DEF StepSet, Root
<1>5. p \in Seq(StepSet) /\ Len(p) = n /\ \A k \in 1 .. n : p[k] = Share(Operand(n, k - 1), Arg(depth, k - 1))
  BY <1>2, <1>4
<1> HIDE DEF p
<1> QED BY <1>1, <1>5, Constructed

(* Freeing the vector: one release per argument.                           *)
LEMMA FreeShape ==
  ASSUME IInv, Running, NEW n \in 0 .. MaxArgs
  PROVE  /\ FreeArgs(n) \in Seq(StepSet) /\ Len(FreeArgs(n)) = n
         /\ \A k \in 1 .. n : FreeArgs(n)[k] = Drop(Arg(depth, k - 1))
<1> DEFINE p == [k \in 1 .. n |-> Drop(Arg(depth, k - 1))]
<1>1. FreeArgs(n) = p
  BY DEF FreeArgs, Each
<1>2. n \in Nat /\ \A k \in 1 .. n : k - 1 \in 0 .. n - 1
  BY Numbers
<1>3. \A k \in 1 .. n : Arg(depth, k - 1) \in Root
  BY <1>2, Arguments
<1>4. \A k \in 1 .. n : Drop(Arg(depth, k - 1)) \in StepSet
  BY <1>3 DEF StepSet, Root
<1>5. p \in Seq(StepSet) /\ Len(p) = n /\ \A k \in 1 .. n : p[k] = Drop(Arg(depth, k - 1))
  BY <1>2, <1>4
<1> HIDE DEF p
<1> QED BY <1>1, <1>5

(* Replacing a register by a new container.                                *)
LEMMA MakeShape ==
  ASSUME IInv, Running, NEW d \in RegId, NEW n \in 0 .. MaxArgs
  PROVE  /\ <<Drop(R(d)), New(R(d), n)>> \in Seq(StepSet) /\ Len(<<Drop(R(d)), New(R(d), n)>>) = 2
         /\ <<Drop(R(d)), New(R(d), n)>>[1] = Drop(R(d)) /\ <<Drop(R(d)), New(R(d), n)>>[2] = New(R(d), n)
<1>1. R(d) \in Root /\ n \in 0 .. Width
  BY RunningFacts, Numbers
<1>2. Drop(R(d)) \in StepSet /\ New(R(d), n) \in StepSet
  BY <1>1 DEF StepSet, Root
<1> QED BY <1>2

(* MK_LIST, and a builtin that returns a container of its arguments.       *)
LEMMA MakeListKeeps ==
  ASSUME IInv, NEW d \in General, NEW n \in 0 .. MaxArgs, MakeList(d, n) \/ CallMake(d, n)
  PROVE  IInv'
<1> DEFINE p == [k \in 1 .. n |-> Share(Arg(depth, k - 1), SlotOf(R(d), k - 1))]
           m == <<Drop(R(d)), New(R(d), n)>>
           s == ReadArgs(n)
           f == FreeArgs(n)
           w == Joined(s, m, p)
<1>1. /\ Running /\ Available(n) /\ todo' = w \o f /\ UNCHANGED heap /\ UNCHANGED frame /\ err' = err
  BY DEF MakeList, CallMake, Issue, Each, Joined
<1>2. /\ d \in RegId /\ R(d) \in Root /\ R(d) \in Registers /\ n \in Nat
      /\ \A k \in 1 .. n : k - 1 \in 0 .. n - 1 /\ k - 1 \in 0 .. Width - 1
  BY <1>1, RunningFacts, Numbers
<1>3. \A k \in 1 .. n : Share(Arg(depth, k - 1), SlotOf(R(d), k - 1)) \in StepSet
  BY <1>1, <1>2, Arguments DEF StepSet, SlotNames
<1>4. p \in Seq(StepSet) /\ Len(p) = n /\ \A k \in 1 .. n : p[k] = Share(Arg(depth, k - 1), SlotOf(R(d), k - 1))
  BY <1>2, <1>3
<1>5. /\ s \in Seq(StepSet) /\ Len(s) = n
      /\ \A k \in 1 .. n : s[k].op = "share" /\ s[k].at = Arg(depth, k - 1)
  BY <1>1, ReadShape
<1>6. f \in Seq(StepSet) /\ Len(f) = n /\ \A k \in 1 .. n : f[k] = Drop(Arg(depth, k - 1))
  BY <1>1, FreeShape
<1>7. m \in Seq(StepSet) /\ Len(m) = 2 /\ m[1] = Drop(R(d)) /\ m[2] = New(R(d), n)
  BY <1>1, <1>2, MakeShape
<1> HIDE DEF p, m, s, f
<1>8. /\ w \in Seq(StepSet) /\ Len(w) = n + 2 + n
      /\ \A k \in 1 .. n : w[k] = s[k]
      /\ \A k \in 1 .. 2 : w[n + k] = m[k]
      /\ \A k \in 1 .. n : w[n + 2 + k] = p[k]
  <2>1. PICK h \in Nat, g \in Nat : h = 2 /\ g = n
    BY <1>2
  <2>2. s \in Seq(StepSet) /\ m \in Seq(StepSet) /\ p \in Seq(StepSet) /\ Len(s) = g /\ Len(m) = h /\ Len(p) = g
    BY <1>4, <1>5, <1>7, <2>1
  <2> HIDE DEF w
  <2>3. /\ Joined(s, m, p) \in Seq(StepSet) /\ Len(Joined(s, m, p)) = g + h + g
        /\ \A k \in 1 .. g : Joined(s, m, p)[k] = s[k]
        /\ \A k \in 1 .. h : Joined(s, m, p)[g + k] = m[k]
        /\ \A k \in 1 .. g : Joined(s, m, p)[g + h + k] = p[k]
    <3>1. /\ Joined(s, m, p) \in Seq(StepSet) /\ Len(Joined(s, m, p)) = Len(s) + Len(m) + Len(p)
          /\ \A k \in 1 .. Len(s) : Joined(s, m, p)[k] = s[k]
          /\ \A k \in 1 .. Len(m) : Joined(s, m, p)[Len(s) + k] = m[k]
          /\ \A k \in 1 .. Len(p) : Joined(s, m, p)[Len(s) + Len(m) + k] = p[k]
      BY <2>2, ThreeParts
    <3> QED BY <2>2, <3>1
  <2> QED BY <2>1, <2>3 DEF w
<1> HIDE DEF w
<1>9. /\ todo' \in Seq(StepSet) /\ Len(todo') = n + 2 + n + n
      /\ \A k \in 1 .. n + 2 + n : todo'[k] = w[k]
      /\ \A k \in 1 .. n : todo'[n + 2 + n + k] = f[k]
  <2>1. /\ w \o f \in Seq(StepSet) /\ Len(w \o f) = n + 2 + n + n
        /\ \A k \in 1 .. n + 2 + n + n : (w \o f)[k] = IF k <= n + 2 + n THEN w[k] ELSE f[k - (n + 2 + n)]
    <3>1. /\ w \o f \in Seq(StepSet) /\ Len(w \o f) = Len(w) + Len(f)
          /\ \A k \in 1 .. Len(w) + Len(f) : (w \o f)[k] = IF k <= Len(w) THEN w[k] ELSE f[k - Len(w)]
      BY <1>6, <1>8, Concatenated
    <3> QED BY <1>6, <1>8, <3>1
  <2>2. \A k \in 1 .. n + 2 + n : k \in 1 .. n + 2 + n + n /\ k <= n + 2 + n
    BY <1>2
  <2>3. \A k \in 1 .. n : /\ n + 2 + n + k \in 1 .. n + 2 + n + n /\ ~(n + 2 + n + k <= n + 2 + n)
                          /\ (n + 2 + n + k) - (n + 2 + n) = k
    BY <1>2
  <2> QED BY <1>1, <2>1, <2>2, <2>3
<1>10. Steps' = 1 .. n + 2 + n + n
  BY <1>9 DEF Steps
<1>11. \A k \in 1 .. n : todo'[k].op = "share" /\ todo'[k].at = Arg(depth, k - 1)
  <2>1. \A k \in 1 .. n : k \in 1 .. n + 2 + n
    BY <1>2
  <2> QED BY <1>5, <1>8, <1>9, <2>1
<1>12. todo'[n + 1] = Drop(R(d)) /\ todo'[n + 2] = New(R(d), n)
  <2>1. n + 1 \in 1 .. n + 2 + n /\ n + 2 \in 1 .. n + 2 + n /\ 1 \in 1 .. 2 /\ 2 \in 1 .. 2
    BY <1>2
  <2> QED BY <1>7, <1>8, <1>9, <2>1
<1>13. \A k \in 1 .. n : todo'[n + 2 + k].op = "share" /\ todo'[n + 2 + k].at = SlotOf(R(d), k - 1)
  <2>1. \A k \in 1 .. n : n + 2 + k \in 1 .. n + 2 + n
    BY <1>2
  <2>2. \A k \in 1 .. n : todo'[n + 2 + k] = Share(Arg(depth, k - 1), SlotOf(R(d), k - 1))
    BY <1>4, <1>8, <1>9, <2>1
  <2> QED BY <2>2, Constructed
<1>14. \A k \in 1 .. n : todo'[n + 2 + n + k] = Drop(Arg(depth, k - 1)) /\ n + 2 + n + k \in Steps'
  <2>1. \A k \in 1 .. n : n + 2 + n + k \in 1 .. n + 2 + n + n
    BY <1>2
  <2> QED BY <1>6, <1>9, <1>10, <2>1
<1>23. PICK a \in Nat : a = 0
  OBVIOUS
<1>15. PICK x \in Root : x = R(d)
  BY <1>2
<1>16. PICK b \in Nat : b \in Steps' /\ b = n + 2 /\ b - 1 = n + 1 /\ b - 1 \in Steps'
  <2>1. n + 2 \in Steps' /\ (n + 2) - 1 = n + 1 /\ n + 1 \in Steps'
    BY <1>2, <1>10
  <2> QED BY <2>1
<1>17. todo'[b - 1] = Drop(x) /\ todo'[b] = New(x, n)
  BY <1>12, <1>15, <1>16
<1>18. \A k \in Steps' :
         \/ k \in 1 .. n \/ k = b - 1 \/ k = b
         \/ \E h \in 1 .. n : k = n + 2 + h
         \/ \E h \in 1 .. n : k = n + 2 + n + h
  <2> SUFFICES ASSUME NEW k \in 1 .. n + 2 + n + n, k > n + 2
               PROVE  (\E h \in 1 .. n : k = n + 2 + h) \/ \E h \in 1 .. n : k = n + 2 + n + h
    BY <1>2, <1>10, <1>16
  <2>1. k <= n + 2 + n => k - (n + 2) \in 1 .. n /\ k = n + 2 + (k - (n + 2))
    BY <1>2
  <2>2. k > n + 2 + n => k - (n + 2 + n) \in 1 .. n /\ k = n + 2 + n + (k - (n + 2 + n))
    BY <1>2
  <2> QED BY <1>2, <2>1, <2>2
<1>19. \A k \in Steps' :
           \/ k = b - 1 \/ k = b
           \/ \E i \in 0 .. n - 1 : k = a + 1 + i /\ todo'[k].op = "share" /\ todo'[k].at = Arg(depth, i)
           \/ \E i \in 0 .. n - 1 : k = b + 1 + i /\ k > b /\ todo'[k].op = "share" /\ todo'[k].at = SlotOf(x, i)
           \/ \E i \in 0 .. n - 1 : k > b /\ todo'[k].op = "drop" /\ todo'[k].at = SlotOf(x, i)
           \/ \E i \in 0 .. n - 1 : todo'[k].op = "drop" /\ todo'[k].at = Arg(depth, i)
  <2> SUFFICES ASSUME NEW k \in Steps', k # b - 1, k # b
               PROVE
           \/ \E i \in 0 .. n - 1 : k = a + 1 + i /\ todo'[k].op = "share" /\ todo'[k].at = Arg(depth, i)
           \/ \E i \in 0 .. n - 1 : k = b + 1 + i /\ k > b /\ todo'[k].op = "share" /\ todo'[k].at = SlotOf(x, i)
           \/ \E i \in 0 .. n - 1 : todo'[k].op = "drop" /\ todo'[k].at = Arg(depth, i)
    OBVIOUS
  <2>1. CASE k \in 1 .. n
    <3>1. k - 1 \in 0 .. n - 1 /\ k = a + 1 + (k - 1)
      BY <1>2, <1>23, <2>1
    <3> QED BY <1>11, <2>1, <3>1
  <2>2. CASE \E h \in 1 .. n : k = n + 2 + h
    <3>1. PICK h \in 1 .. n : k = n + 2 + h
      BY <2>2
    <3>2. k > b /\ h - 1 \in 0 .. n - 1 /\ k = b + 1 + (h - 1)
      BY <1>2, <1>16, <3>1
    <3> QED BY <1>13, <1>15, <3>1, <3>2
  <2>3. CASE \E h \in 1 .. n : k = n + 2 + n + h
    <3>1. PICK h \in 1 .. n : k = n + 2 + n + h
      BY <2>3
    <3>2. todo'[k] = Drop(Arg(depth, h - 1)) /\ h - 1 \in 0 .. n - 1
      BY <1>2, <1>14, <3>1
    <3> QED BY <3>2, Constructed
  <2> QED BY <1>18, <2>1, <2>2, <2>3
<1>20. \A j, k \in Steps', i \in 0 .. n - 1 :
           /\ todo'[j].op = "share" /\ todo'[k].op = "share"
           /\ todo'[j].at = SlotOf(x, i) /\ todo'[k].at = SlotOf(x, i)
           => j = k
  <2>1. \A i, j \in 0 .. n - 1 : SlotOf(x, i) # Arg(depth, j) /\ SlotOf(x, i) # x
    <3>1. \A i \in 0 .. n - 1 : i \in 0 .. Width - 1
      BY Numbers
    <3>2. \A i \in 0 .. n - 1 : SlotOf(x, i) \in SlotNames
      BY <1>2, <1>15, <3>1 DEF SlotNames
    <3>3. \A i \in 0 .. n - 1 : SlotOf(x, i) \notin Root
      BY <3>2, Named DEF Root
    <3> QED BY <1>1, <3>3, Arguments
  <2>2. ASSUME NEW k \in Steps', NEW i \in 0 .. n - 1, todo'[k].op = "share", todo'[k].at = SlotOf(x, i)
        PROVE  k = b + 1 + i
    <3>1. k # b - 1 /\ k # b
      BY <1>17, <2>1, <2>2, Constructed
    <3>2. PICK h \in 0 .. n - 1 : k = b + 1 + h /\ todo'[k].at = SlotOf(x, h)
      BY <1>19, <2>1, <2>2, <3>1
    <3> QED BY <2>2, <3>2, Distinct
  <2> QED BY <2>2
<1>21. \A i \in 0 .. n - 1 : \E h \in Steps' : h > a + n /\ todo'[h] = Drop(Arg(depth, i))
  <2> SUFFICES ASSUME NEW i \in 0 .. n - 1 PROVE \E h \in Steps' : h > a + n /\ todo'[h] = Drop(Arg(depth, i))
    OBVIOUS
  <2>1. i + 1 \in 1 .. n /\ (i + 1) - 1 = i /\ n + 2 + n + (i + 1) > a + n
    BY <1>2, <1>23
  <2> QED BY <1>14, <2>1
<1>22. \A k \in Steps' :
           \/ k = b - 1 \/ k = b
           \/ \E i \in 0 .. n - 1 : k = a + 1 + i /\ todo'[k].op = "share" /\ todo'[k].at = Arg(depth, i)
           \/ \E i \in 0 .. n - 1 : k > b /\ todo'[k].op = "share" /\ todo'[k].at = SlotOf(x, i)
           \/ \E i \in 0 .. n - 1 : k > b /\ todo'[k].op = "drop" /\ todo'[k].at = SlotOf(x, i)
           \/ \E i \in 0 .. n - 1 : todo'[k].op = "drop" /\ todo'[k].at = Arg(depth, i)
  BY <1>19
<1>24. Making(todo', x, n, a, b)
  BY <1>16, <1>17, <1>20, <1>21, <1>22 DEF Making, Steps
<1> QED BY <1>1, <1>2, <1>9, <1>15, <1>16, <1>24, Makes

(* Counting by threes.                                                     *)
LEMMA Threes ==
  ASSUME NEW n \in Nat
  PROVE  /\ \A i \in 0 .. n - 1, j \in 1 .. 3 :
              3 * i + j \in 1 .. 3 * n /\ ((3 * i + j) - 1) \div 3 = i /\ ((3 * i + j) - 1) % 3 = j - 1
         /\ \A k \in 1 .. 3 * n : \E i \in 0 .. n - 1, j \in 1 .. 3 : k = 3 * i + j
<1>1. ASSUME NEW i \in 0 .. n - 1, NEW j \in 1 .. 3
      PROVE  3 * i + j \in 1 .. 3 * n /\ ((3 * i + j) - 1) \div 3 = i /\ ((3 * i + j) - 1) % 3 = j - 1
  OBVIOUS
<1>2. ASSUME NEW k \in 1 .. 3 * n PROVE \E i \in 0 .. n - 1, j \in 1 .. 3 : k = 3 * i + j
  <2>1. (k - 1) \div 3 \in 0 .. n - 1 /\ ((k - 1) % 3) + 1 \in 1 .. 3 /\ k = 3 * ((k - 1) \div 3) + (((k - 1) % 3) + 1)
    OBVIOUS
  <2> QED BY <2>1
<1> QED BY <1>1, <1>2

(* MK_STRUCT: its members, one after the other, after the arguments.       *)
LEMMA MemberSteps ==
  ASSUME IInv, Running, NEW d \in RegId, NEW n \in 0 .. MaxArgs, NEW p,
         p = [k \in 1 .. 3 * n |->
               <<Drop(SlotOf(R(d), (k - 1) \div 3)),
                 Share(Arg(depth, (k - 1) \div 3), SlotOf(R(d), (k - 1) \div 3)),
                 Drop(Arg(depth, (k - 1) \div 3))>>[((k - 1) % 3) + 1]]
  PROVE  /\ p \in Seq(StepSet) /\ Len(p) = 3 * n
         /\ \A i \in 0 .. n - 1 :
              /\ p[3 * i + 1] = Drop(SlotOf(R(d), i))
              /\ p[3 * i + 2] = Share(Arg(depth, i), SlotOf(R(d), i))
              /\ p[3 * i + 3] = Drop(Arg(depth, i))
<1>1. n \in Nat /\ 3 * n \in Nat /\ R(d) \in Registers
  BY RunningFacts, Numbers
<1>2. ASSUME NEW i \in 0 .. n - 1
      PROVE  /\ p[3 * i + 1] = Drop(SlotOf(R(d), i))
             /\ p[3 * i + 2] = Share(Arg(depth, i), SlotOf(R(d), i))
             /\ p[3 * i + 3] = Drop(Arg(depth, i))
  <2>1. ASSUME NEW j \in 1 .. 3
        PROVE  p[3 * i + j] = <<Drop(SlotOf(R(d), i)), Share(Arg(depth, i), SlotOf(R(d), i)), Drop(Arg(depth, i))>>[j]
    <3>1. 3 * i + j \in 1 .. 3 * n /\ ((3 * i + j) - 1) \div 3 = i /\ ((3 * i + j) - 1) % 3 = j - 1
      BY <1>1, Threes
    <3>2. (j - 1) + 1 = j
      OBVIOUS
    <3> QED BY <3>1, <3>2
  <2>2. 1 \in 1 .. 3 /\ 2 \in 1 .. 3 /\ 3 \in 1 .. 3
    OBVIOUS
  <2>3. /\ p[3 * i + 1] = <<Drop(SlotOf(R(d), i)), Share(Arg(depth, i), SlotOf(R(d), i)), Drop(Arg(depth, i))>>[1]
        /\ p[3 * i + 2] = <<Drop(SlotOf(R(d), i)), Share(Arg(depth, i), SlotOf(R(d), i)), Drop(Arg(depth, i))>>[2]
        /\ p[3 * i + 3] = <<Drop(SlotOf(R(d), i)), Share(Arg(depth, i), SlotOf(R(d), i)), Drop(Arg(depth, i))>>[3]
    BY <2>1, <2>2
  <2> QED BY <2>3
<1>3. \A k \in 1 .. 3 * n : p[k] \in StepSet
  <2> SUFFICES ASSUME NEW k \in 1 .. 3 * n PROVE p[k] \in StepSet
    OBVIOUS
  <2>1. PICK i \in 0 .. n - 1, j \in 1 .. 3 : k = 3 * i + j
    BY <1>1, Threes
  <2>2. Arg(depth, i) \in Root /\ i \in 0 .. Width - 1
    BY Arguments DEF Places
  <2>3. SlotOf(R(d), i) \in SlotNames
    BY <1>1, <2>2 DEF SlotNames
  <2>4. /\ Drop(SlotOf(R(d), i)) \in StepSet /\ Share(Arg(depth, i), SlotOf(R(d), i)) \in StepSet
        /\ Drop(Arg(depth, i)) \in StepSet
    BY <2>2, <2>3 DEF StepSet, Root
  <2>5. j = 1 \/ j = 2 \/ j = 3
    OBVIOUS
  <2> QED BY <1>2, <2>1, <2>4, <2>5
<1>4. \A k \in 1 .. 3 * n : p[k] \in StepSet /\ DOMAIN p = 1 .. 3 * n
  BY <1>3
<1>5. p = [k \in 1 .. 3 * n |-> p[k]]
  OBVIOUS
<1>6. p \in Seq(StepSet) /\ Len(p) = 3 * n
  BY <1>1, <1>3, <1>5
<1> QED BY <1>2, <1>6

(* MK_STRUCT keeps the invariant.                                          *)
LEMMA MakeStructKeeps ==
  ASSUME IInv, NEW d \in General, NEW n \in 0 .. MaxArgs, MakeStruct(d, n)
  PROVE  IInv'
<1> DEFINE q == [k \in 1 .. 3 * n |->
               <<Drop(SlotOf(R(d), (k - 1) \div 3)),
                 Share(Arg(depth, (k - 1) \div 3), SlotOf(R(d), (k - 1) \div 3)),
                 Drop(Arg(depth, (k - 1) \div 3))>>[((k - 1) % 3) + 1]]
           m == <<Drop(R(d)), New(R(d), n)>>
           s == ReadArgs(n)
<1>1. /\ Running /\ Available(n) /\ todo' = Joined(m, s, q) /\ UNCHANGED heap /\ UNCHANGED frame /\ err' = err
  BY DEF MakeStruct, Issue, Joined
<1>2. /\ d \in RegId /\ R(d) \in Root /\ R(d) \in Registers /\ n \in Nat
  BY <1>1, RunningFacts, Numbers
<1>3. PICK p : p = q
  OBVIOUS
<1>4. /\ p \in Seq(StepSet) /\ Len(p) = 3 * n
      /\ \A i \in 0 .. n - 1 :
              /\ p[3 * i + 1] = Drop(SlotOf(R(d), i))
              /\ p[3 * i + 2] = Share(Arg(depth, i), SlotOf(R(d), i))
              /\ p[3 * i + 3] = Drop(Arg(depth, i))
  BY <1>1, <1>2, <1>3, MemberSteps
<1>5. /\ s \in Seq(StepSet) /\ Len(s) = n
      /\ \A k \in 1 .. n : s[k].op = "share" /\ s[k].at = Arg(depth, k - 1)
  BY <1>1, ReadShape
<1>6. todo' = Joined(m, s, p)
  BY <1>1, <1>3
<1>7. m \in Seq(StepSet) /\ Len(m) = 2 /\ m[1] = Drop(R(d)) /\ m[2] = New(R(d), n)
  BY <1>1, <1>2, MakeShape
<1> HIDE DEF q, m, s
<1>8. /\ todo' \in Seq(StepSet) /\ Len(todo') = 2 + n + 3 * n
      /\ \A k \in 1 .. 2 : todo'[k] = m[k]
      /\ \A k \in 1 .. n : todo'[2 + k] = s[k]
      /\ \A k \in 1 .. 3 * n : todo'[2 + n + k] = p[k]
  <2>1. /\ Joined(m, s, p) \in Seq(StepSet) /\ Len(Joined(m, s, p)) = Len(m) + Len(s) + Len(p)
        /\ \A k \in 1 .. Len(m) : Joined(m, s, p)[k] = m[k]
        /\ \A k \in 1 .. Len(s) : Joined(m, s, p)[Len(m) + k] = s[k]
        /\ \A k \in 1 .. Len(p) : Joined(m, s, p)[Len(m) + Len(s) + k] = p[k]
    BY <1>4, <1>5, <1>7, ThreeParts
  <2> QED BY <1>4, <1>5, <1>6, <1>7, <2>1
<1>9. Steps' = 1 .. 2 + n + 3 * n
  BY <1>8 DEF Steps
<1>10. PICK x \in Root, a \in Nat, b \in Nat : x = R(d) /\ a = 2 /\ b = 2
  <2>1. 2 \in Nat
    OBVIOUS
  <2> QED BY <1>2, <2>1
<1>11. b \in Steps' /\ b - 1 \in Steps' /\ todo'[b - 1] = Drop(x) /\ todo'[b] = New(x, n)
  <2>1. 1 \in 1 .. 2 /\ 2 \in 1 .. 2 /\ 1 \in Steps' /\ 2 \in Steps' /\ b - 1 = 1 /\ b = 2
    BY <1>2, <1>9, <1>10
  <2> QED BY <1>7, <1>8, <1>10, <2>1
<1>12. \A i \in 0 .. n - 1 :
         /\ todo'[a + 1 + i].op = "share" /\ todo'[a + 1 + i].at = Arg(depth, i)
  <2>1. \A i \in 0 .. n - 1 : i + 1 \in 1 .. n /\ a + 1 + i = 2 + (i + 1) /\ (i + 1) - 1 = i
    BY <1>2, <1>10
  <2>2. \A k \in 1 .. n : todo'[2 + k].op = "share" /\ todo'[2 + k].at = Arg(depth, k - 1)
    BY <1>5, <1>8
  <2> SUFFICES ASSUME NEW i \in 0 .. n - 1
               PROVE  todo'[a + 1 + i].op = "share" /\ todo'[a + 1 + i].at = Arg(depth, i)
    OBVIOUS
  <2>3. PICK k \in 1 .. n : k = i + 1 /\ 2 + k = a + 1 + i /\ k - 1 = i
    BY <2>1
  <2> QED BY <2>2, <2>3
<1>13. \A i \in 0 .. n - 1, j \in 1 .. 3 :
         /\ todo'[2 + n + (3 * i + j)] = p[3 * i + j] /\ 2 + n + (3 * i + j) \in Steps'
         /\ 2 + n + (3 * i + j) > b /\ 2 + n + (3 * i + j) > a + n
  <2> SUFFICES ASSUME NEW i \in 0 .. n - 1, NEW j \in 1 .. 3
               PROVE  /\ todo'[2 + n + (3 * i + j)] = p[3 * i + j] /\ 2 + n + (3 * i + j) \in Steps'
                      /\ 2 + n + (3 * i + j) > b /\ 2 + n + (3 * i + j) > a + n
    OBVIOUS
  <2>1. PICK k \in 1 .. 3 * n : k = 3 * i + j
    BY <1>2, Threes
  <2>2. 2 + n + k \in Steps' /\ 2 + n + k > b /\ 2 + n + k > a + n
    BY <1>2, <1>9, <1>10
  <2> QED BY <1>8, <2>1, <2>2
<1>14. \A i \in 0 .. n - 1 :
         /\ todo'[2 + n + (3 * i + 1)] = Drop(SlotOf(x, i))
         /\ todo'[2 + n + (3 * i + 2)] = Share(Arg(depth, i), SlotOf(x, i))
         /\ todo'[2 + n + (3 * i + 3)] = Drop(Arg(depth, i))
  <2>1. 1 \in 1 .. 3 /\ 2 \in 1 .. 3 /\ 3 \in 1 .. 3
    OBVIOUS
  <2> QED BY <1>4, <1>10, <1>13, <2>1
<1>15. \A k \in Steps' :
         \/ k = b - 1 \/ k = b
         \/ \E i \in 0 .. n - 1 : k = a + 1 + i
         \/ \E i \in 0 .. n - 1, j \in 1 .. 3 : k = 2 + n + (3 * i + j)
  <2> SUFFICES ASSUME NEW k \in Steps', k # b - 1, k # b
               PROVE  (\E i \in 0 .. n - 1 : k = a + 1 + i) \/ \E i \in 0 .. n - 1, j \in 1 .. 3 : k = 2 + n + (3 * i + j)
    OBVIOUS
  <2>3. k \in 1 .. 2 + n + 3 * n /\ k > 2
    BY <1>2, <1>9, <1>10
  <2>1. CASE k <= 2 + n
    <3>1. k - 3 \in 0 .. n - 1 /\ k = a + 1 + (k - 3)
      BY <1>2, <1>10, <2>1, <2>3
    <3> QED BY <3>1
  <2>2. CASE k > 2 + n
    <3>1. PICK h \in 1 .. 3 * n : h = k - (2 + n)
      BY <1>2, <2>2, <2>3
    <3>2. PICK i \in 0 .. n - 1, j \in 1 .. 3 : h = 3 * i + j
      BY <1>2, Threes
    <3>3. k = 2 + n + h
      BY <1>2, <2>3, <3>1
    <3> QED BY <3>2, <3>3
  <2> QED BY <1>2, <2>1, <2>2, <2>3
<1>16. \A k \in Steps' :
         \/ k = b - 1 \/ k = b
         \/ \E i \in 0 .. n - 1 : k = a + 1 + i /\ todo'[k].op = "share" /\ todo'[k].at = Arg(depth, i)
         \/ \E i \in 0 .. n - 1 : /\ k = 2 + n + (3 * i + 2) /\ k > b
                                  /\ todo'[k].op = "share" /\ todo'[k].at = SlotOf(x, i)
         \/ \E i \in 0 .. n - 1 : k > b /\ todo'[k].op = "drop" /\ todo'[k].at = SlotOf(x, i)
         \/ \E i \in 0 .. n - 1 : todo'[k].op = "drop" /\ todo'[k].at = Arg(depth, i)
  <2> SUFFICES ASSUME NEW k \in Steps', k # b - 1, k # b
               PROVE
         \/ \E i \in 0 .. n - 1 : k = a + 1 + i /\ todo'[k].op = "share" /\ todo'[k].at = Arg(depth, i)
         \/ \E i \in 0 .. n - 1 : /\ k = 2 + n + (3 * i + 2) /\ k > b
                                  /\ todo'[k].op = "share" /\ todo'[k].at = SlotOf(x, i)
         \/ \E i \in 0 .. n - 1 : k > b /\ todo'[k].op = "drop" /\ todo'[k].at = SlotOf(x, i)
         \/ \E i \in 0 .. n - 1 : todo'[k].op = "drop" /\ todo'[k].at = Arg(depth, i)
    OBVIOUS
  <2>1. CASE \E i \in 0 .. n - 1 : k = a + 1 + i
    BY <1>12, <2>1
  <2>2. CASE \E i \in 0 .. n - 1, j \in 1 .. 3 : k = 2 + n + (3 * i + j)
    <3>1. PICK i \in 0 .. n - 1, j \in 1 .. 3 : k = 2 + n + (3 * i + j)
      BY <2>2
    <3>2. k > b
      BY <1>13, <3>1
    <3>3. j = 1 \/ j = 2 \/ j = 3
      OBVIOUS
    <3>4. \/ todo'[k] = Drop(SlotOf(x, i))
          \/ todo'[k] = Share(Arg(depth, i), SlotOf(x, i)) /\ k = 2 + n + (3 * i + 2)
          \/ todo'[k] = Drop(Arg(depth, i))
      BY <1>14, <3>1, <3>3
    <3> QED BY <3>2, <3>4, Constructed
  <2> QED BY <1>15, <2>1, <2>2
<1>17. \A j, k \in Steps', i \in 0 .. n - 1 :
         /\ todo'[j].op = "share" /\ todo'[k].op = "share" /\ todo'[j].at = SlotOf(x, i) /\ todo'[k].at = SlotOf(x, i)
         => j = k
  <2>1. \A i, j \in 0 .. n - 1 : SlotOf(x, i) # Arg(depth, j) /\ SlotOf(x, i) # x
    <3>1. \A i \in 0 .. n - 1 : i \in 0 .. Width - 1
      BY Numbers
    <3>2. \A i \in 0 .. n - 1 : SlotOf(x, i) \in SlotNames
      BY <1>2, <1>10, <3>1 DEF SlotNames
    <3>3. \A i \in 0 .. n - 1 : SlotOf(x, i) \notin Root
      BY <3>2, Named DEF Root
    <3> QED BY <1>1, <3>3, Arguments
  <2>2. ASSUME NEW k \in Steps', NEW i \in 0 .. n - 1, todo'[k].op = "share", todo'[k].at = SlotOf(x, i)
        PROVE  k = 2 + n + (3 * i + 2)
    <3>1. k # b - 1 /\ k # b
      BY <1>11, <2>1, <2>2, Constructed
    <3>2. PICK h \in 0 .. n - 1 : k = 2 + n + (3 * h + 2) /\ todo'[k].at = SlotOf(x, h)
      BY <1>16, <2>1, <2>2, <3>1
    <3>3. h = i
      BY <2>2, <3>2, Distinct
    <3> QED BY <3>2, <3>3
  <2> QED BY <2>2
<1>18. \A i \in 0 .. n - 1 : \E h \in Steps' : h > a + n /\ todo'[h] = Drop(Arg(depth, i))
  <2>1. 3 \in 1 .. 3
    OBVIOUS
  <2> QED BY <1>13, <1>14, <2>1
<1>19. Making(todo', x, n, a, b)
  BY <1>11, <1>16, <1>17, <1>18 DEF Making, Steps
<1> QED BY <1>1, <1>2, <1>8, <1>10, <1>19, Makes

(* A plan that begins with reading n arguments and puts nothing else       *)
(* anywhere; each argument is released, or goes to the frame of a call.    *)
Reading(t, n) ==
  /\ \A k \in DOMAIN t : Fills(t[k]) =>
       t[k].op = "share" /\ \E i \in 0 .. n - 1 : k = 1 + i /\ t[k].at = Arg(depth, i)
  /\ \A k \in DOMAIN t : t[k].op = "drop" => t[k].at \in Location
  /\ \A k \in DOMAIN t : t[k].op # "leave" /\ t[k].op # "free"
  /\ \A i \in 0 .. n - 1 : \E m \in DOMAIN t :
       m > n /\ (t[m] = Drop(Arg(depth, i)) \/ (t[m].op = "enter" /\ i < t[m].nargs))

(* A plan of that form keeps the invariant.                                *)
LEMMA Reads ==
  ASSUME IInv, Running, UNCHANGED heap, UNCHANGED frame, err' = err, todo' \in Seq(StepSet),
         NEW n \in 0 .. MaxArgs, Reading(todo', n), Extends', Shrinks', Enters'
  PROVE  IInv'
<1>1. /\ todo = <<>> /\ depth > 0 /\ depth \in Frame
  BY RunningFacts
<1>2. UNCHANGED <<val, refc, size, live, depth, call, sp>>
  BY Unchanged
<1>3. /\ \A k \in Steps' : Fills(todo'[k]) =>
           todo'[k].op = "share" /\ \E i \in 0 .. n - 1 : k = 1 + i /\ todo'[k].at = Arg(depth, i)
      /\ \A k \in Steps' : todo'[k].op = "drop" => todo'[k].at \in Location
      /\ \A k \in Steps' : todo'[k].op # "leave" /\ todo'[k].op # "free"
      /\ \A i \in 0 .. n - 1 : \E m \in Steps' :
           m > n /\ (todo'[m] = Drop(Arg(depth, i)) \/ (todo'[m].op = "enter" /\ i < todo'[m].nargs))
  BY DEF Reading, Steps
<1>4. \A i \in 0 .. n - 1 : i \in 0 .. MaxArgs - 1 /\ Arg(depth, i) \in Root /\ val[Arg(depth, i)] = Null
  BY Arguments
<1>5. \A k \in Steps' : Fills(todo'[k]) => todo'[k].at \in Root
  BY <1>3, <1>4
<1>6. FillsApart'
  <2> SUFFICES ASSUME NEW j \in Steps', NEW k \in Steps', Fills(todo'[j]), Fills(todo'[k]),
                      todo'[j].at = todo'[k].at
               PROVE  j = k
    BY DEF FillsApart, Fills
  <2>1. PICK i \in 0 .. n - 1 : j = 1 + i /\ todo'[j].at = Arg(depth, i)
    BY <1>3
  <2>2. PICK m \in 0 .. n - 1 : k = 1 + m /\ todo'[k].at = Arg(depth, m)
    BY <1>3
  <2>3. Arg(depth, i) = Arg(depth, m)
    BY <2>1, <2>2
  <2>4. i = m
    BY <2>3, Distinct
  <2> QED BY <2>1, <2>2, <2>4
<1>7. FillsCleared'
  <2> SUFFICES ASSUME NEW k \in Steps', Fills(todo'[k]) PROVE Cleared(todo[k].at, k)'
    BY DEF FillsCleared, Fills, Cleared, Dropped
  <2>1. val'[todo'[k].at] = Null
    BY <1>2, <1>3, <1>4
  <2> QED BY <2>1 DEF Cleared
<1>8. ~Leaving' /\ Leaves'
  BY <1>3 DEF Leaving, Leaves
<1>9. FillsLocal'
  <2> SUFFICES ASSUME NEW k \in Steps', Fills(todo'[k]) PROVE Local(todo[k].at, k)'
    BY <1>1, <1>2 DEF FillsLocal, Fills
  <2>1. PICK i \in 0 .. n - 1 : k = 1 + i /\ todo'[k].at = Arg(depth, i)
    BY <1>3
  <2>2. PICK m \in Steps' : m > n /\ (todo'[m] = Drop(Arg(depth, i)) \/ (todo'[m].op = "enter" /\ i < todo'[m].nargs))
    BY <1>3
  <2>3. m > k
    <3>1. Steps' \subseteq Nat /\ n \in Nat
      BY Numbers DEF Steps
    <3> QED BY <2>1, <2>2, <3>1
  <2>4. Clears(todo[m], i)'
    BY <1>2, <2>2 DEF Clears
  <2>5. \E h \in Steps' : h > k /\ Clears(todo[h], i)'
    BY <2>3, <2>4 DEF Clears
  <2>6. todo'[k].at = Arg(depth', i) /\ i \in 0 .. MaxArgs - 1
    BY <1>2, <1>4, <2>1
  <2> QED BY <1>8, <2>5, <2>6 DEF Local
<1>10. SlotsFilled'
  <2>1. \A o \in Obj, i \in Places : Slot(o, i) \in Slots
    BY DEF Slots, Places
  <2>2. \A k \in Steps', o \in Obj, i \in Places : todo'[k].op = "share" => todo'[k].at # Slot(o, i)
    BY <1>5, <2>1 DEF Root, Fills
  <2> QED BY <2>2 DEF SlotsFilled
<1>11. SlotsOpen'
  <2>1. \A l \in Registers, i \in Places : SlotOf(l, i) \notin Location
    BY Named DEF SlotNames, Places
  <2>2. \A k \in Steps' : todo'[k].op \in {"drop", "share"} => todo'[k].at \in Location
    BY <1>3, <1>5 DEF Fills, Root
  <2> QED BY <2>1, <2>2 DEF SlotsOpen
<1>12. PutsHeld'
  BY <1>3 DEF PutsHeld, Fills
<1>13. /\ err' \in BOOLEAN /\ sp' \in [Frame -> 0 .. Stack]
       /\ \A f \in Frame : sp'[f] >= sp[f] /\ (f > depth => sp'[f] = sp[f])
  BY Unchanged DEF IInv, Heap, TypeOK
<1> QED BY <1>1, <1>2, <1>3, <1>6, <1>7, <1>8, <1>9, <1>10, <1>11, <1>12, <1>13, Issued

(* CALL of a function of the script.                                       *)
LEMMA CallScriptKeeps ==
  ASSUME IInv, NEW d \in General, NEW n \in 0 .. MaxArgs, CallFunction(d, n)
  PROVE  IInv'
<1> DEFINE s == ReadArgs(n)
           m == <<Drop(R(d)), Enter(d, n)>>
<1>1. /\ Running /\ depth < MaxDepth /\ Available(n) /\ todo' = s \o m
      /\ UNCHANGED heap /\ UNCHANGED frame /\ err' = err
  BY DEF CallFunction, Issue
<1>2. /\ d \in RegId /\ R(d) \in Root /\ R(d) = Reg(depth, d) /\ n \in Nat /\ depth > 0
  BY <1>1, RunningFacts, Numbers
<1>3. PICK x \in Root : x = R(d)
  BY <1>2
<1>4. PICK p \in StepSet, q \in StepSet :
         /\ p = Drop(x) /\ p.op = "drop" /\ p.at = x
         /\ q = Enter(d, n) /\ q.op = "enter" /\ q.dst = d /\ q.nargs = n
  BY <1>2, Constructed DEF StepSet, Root
<1>5. /\ s \in Seq(StepSet) /\ Len(s) = n
      /\ \A k \in 1 .. n : s[k].op = "share" /\ s[k].at = Arg(depth, k - 1)
  BY <1>1, ReadShape
<1>6. m \in Seq(StepSet) /\ Len(m) = 2 /\ m[1] = p /\ m[2] = q
  <2>1. m = <<p, q>>
    BY <1>3, <1>4
  <2> HIDE DEF m
  <2> QED BY <2>1
<1> HIDE DEF s, m
<1>7. /\ todo' \in Seq(StepSet) /\ Len(todo') = n + 2 /\ Steps' = 1 .. n + 2
      /\ \A k \in 1 .. n : todo'[k] = s[k]
      /\ todo'[n + 1] = p /\ todo'[n + 2] = q
  <2>1. /\ s \o m \in Seq(StepSet) /\ Len(s \o m) = Len(s) + Len(m)
        /\ \A k \in 1 .. Len(s) + Len(m) : (s \o m)[k] = IF k <= Len(s) THEN s[k] ELSE m[k - Len(s)]
    BY <1>5, <1>6, Concatenated
  <2>2. /\ todo' \in Seq(StepSet) /\ Len(todo') = n + 2
        /\ \A k \in 1 .. n + 2 : todo'[k] = IF k <= n THEN s[k] ELSE m[k - n]
    BY <1>1, <1>5, <1>6, <2>1
  <2>3. /\ \A k \in 1 .. n : k \in 1 .. n + 2 /\ k <= n
        /\ n + 1 \in 1 .. n + 2 /\ n + 2 \in 1 .. n + 2 /\ ~(n + 1 <= n) /\ ~(n + 2 <= n)
        /\ (n + 1) - n = 1 /\ (n + 2) - n = 2
    BY <1>2
  <2> QED BY <1>6, <2>2, <2>3 DEF Steps
<1>8. \A k \in Steps' :
        \/ \E i \in 0 .. n - 1 : k = 1 + i /\ todo'[k].op = "share" /\ todo'[k].at = Arg(depth, i)
        \/ k = n + 1 /\ todo'[k] = p
        \/ k = n + 2 /\ todo'[k] = q
  <2> SUFFICES ASSUME NEW k \in Steps', k # n + 1, k # n + 2
               PROVE  \E i \in 0 .. n - 1 : k = 1 + i /\ todo'[k].op = "share" /\ todo'[k].at = Arg(depth, i)
    BY <1>7
  <2>1. k \in 1 .. n /\ k - 1 \in 0 .. n - 1 /\ k = 1 + (k - 1)
    BY <1>2, <1>7
  <2> QED BY <1>5, <1>7, <2>1
<1>9. UNCHANGED <<val, refc, size, live, depth, call, sp>>
  BY <1>1, Unchanged
<1>10. n + 1 \in Steps' /\ n + 2 \in Steps' /\ n + 1 < n + 2 /\ n + 2 > n
  BY <1>2, <1>7
<1>11. Reading(todo', n)
  <2>1. \A k \in Steps' : Fills(todo'[k]) =>
          todo'[k].op = "share" /\ \E i \in 0 .. n - 1 : k = 1 + i /\ todo'[k].at = Arg(depth, i)
    BY <1>4, <1>8 DEF Fills
  <2>2. \A k \in Steps' : todo'[k].op = "drop" => todo'[k].at \in Location
    BY <1>4, <1>8 DEF Root
  <2>3. \A k \in Steps' : todo'[k].op # "leave" /\ todo'[k].op # "free"
    BY <1>4, <1>8
  <2>4. \A i \in 0 .. n - 1 : n + 2 > n /\ todo'[n + 2].op = "enter" /\ i < todo'[n + 2].nargs
    BY <1>2, <1>4, <1>7
  <2> QED BY <1>10, <2>1, <2>2, <2>3, <2>4 DEF Reading, Steps
<1>12. \A k \in Steps' : todo'[k].op \in {"share", "drop", "enter"}
  BY <1>4, <1>8
<1>13. Extends' /\ Shrinks'
  BY <1>12 DEF Extends, Shrinks
<1>14. Enters'
  <2> SUFFICES ASSUME NEW k \in Steps', todo'[k].op = "enter"
               PROVE  /\ k = Len(todo') /\ depth' < MaxDepth /\ depth' > 0
                      /\ Cleared(Reg(depth, todo[k].dst), k)'
                      /\ \A j \in Steps' : Fills(todo'[j]) => todo'[j].at # Reg(depth', todo'[k].dst)
    BY <1>9 DEF Enters, Fills, Cleared, Dropped
  <2>1. k = n + 2 /\ todo'[k] = q
    BY <1>4, <1>8
  <2>2. Reg(depth', todo'[k].dst) = x
    BY <1>2, <1>3, <1>4, <1>9, <2>1
  <2>3. Cleared(Reg(depth, todo[k].dst), k)'
    <3>1. n + 1 < k /\ todo'[n + 1] = Drop(Reg(depth', todo'[k].dst))
      BY <1>4, <1>7, <1>10, <2>1, <2>2
    <3> QED BY <1>10, <3>1 DEF Cleared, Dropped
  <2>4. \A i : x # Arg(depth, i)
    BY <1>2, <1>3, Kinds
  <2>5. \A j \in Steps' : Fills(todo'[j]) => todo'[j].at # x
    BY <1>4, <1>8, <2>4 DEF Fills
  <2> QED BY <1>1, <1>2, <1>7, <1>9, <2>1, <2>2, <2>3, <2>5
<1>15. todo' \in Seq(StepSet)
  BY <1>7
<1>16. Running /\ UNCHANGED heap /\ UNCHANGED frame /\ err' = err
  BY <1>1
<1> QED BY <1>11, <1>13, <1>14, <1>15, <1>16, Reads

(* What the two builtins that change a container have in common: the first *)
(* argument is a copy of register 0, which stays as it is.                 *)
LEMMA FirstArgument ==
  ASSUME IInv, UNCHANGED heap, UNCHANGED frame, todo' \in Seq(StepSet),
         NEW y \in Root, NEW a \in Root, NEW o \in Obj, val[y] = o, NEW n \in Nat, n > 1,
         1 \in Steps', todo'[1] = Share(y, a),
         \A k \in Steps' : 1 < k /\ k < n => todo'[k] # Drop(y) /\ todo'[k] # Drop(a)
  PROVE  Refers(a, n, o)'
<1>1. \A k \in Steps' : k = 1 \/ 1 < k
  BY DEF Steps
<1>2. todo'[1] # Drop(y) /\ todo'[1] # Drop(a)
  BY Constructed
<1>3. ~Dropped(y, n)' /\ ~Dropped(a, n)'
  BY <1>1, <1>2 DEF Dropped
<1>4. val'[y] = o
  BY Unchanged
<1> QED BY <1>3, <1>4 DEF Refers

(* Register 0 passes the first argument and is never a destination.        *)
LEMMA Zeroth ==
  ASSUME NEW d \in General
  PROVE  R(0) # R(d) /\ \A f, i : R(0) # Arg(f, i) /\ R(d) # Arg(f, i)
<1>1. d # 0
  BY Numbers DEF General
<1> QED BY <1>1, Distinct, Kinds DEF R

(* list::append.                                                           *)
LEMMA CallAppendKeeps == ASSUME IInv, NEW d \in General, CallAppend(d) PROVE IInv'
<1> DEFINE s == ReadArgs(2)
           m == <<Drop(R(d)), Extend(Arg(depth, 0), Arg(depth, 1))>>
           f == FreeArgs(2)
<1>1. /\ Running /\ Available(2) /\ val[R(0)] # Null /\ size[val[R(0)]] < Width
      /\ todo' = Joined(s, m, f) /\ UNCHANGED heap /\ UNCHANGED frame /\ err' = err
  BY DEF CallAppend, Issue, Joined
<1>2. /\ todo = <<>> /\ d \in RegId /\ 0 \in RegId /\ 2 \in 0 .. MaxArgs /\ 0 < ArgRegs
  BY <1>1, RunningFacts, Numbers DEF RegId
<1>3. PICK x \in Root, y \in Root : x = R(d) /\ y = R(0) /\ y \in Location
  BY <1>1, <1>2, RunningFacts
<1>4. PICK o \in Obj : val[y] = o
  BY <1>1, <1>2, <1>3, Idle
<1>5. PICK a \in Root, b \in Root : a = Arg(depth, 0) /\ b = Arg(depth, 1)
  <2>1. 0 \in 0 .. 2 - 1 /\ 1 \in 0 .. 2 - 1
    OBVIOUS
  <2> QED BY <1>1, <1>2, <2>1, Arguments
<1>6. /\ s \in Seq(StepSet) /\ Len(s) = 2 /\ s[1] = Share(y, a) /\ s[2].op = "share" /\ s[2].at = b
  <2>1. 1 \in 1 .. 2 /\ 2 \in 1 .. 2 /\ 1 - 1 = 0 /\ 2 - 1 = 1
    OBVIOUS
  <2>2. Operand(2, 0) = y
    BY <1>2, <1>3 DEF Operand
  <2>3. /\ s \in Seq(StepSet) /\ Len(s) = 2
        /\ \A k \in 1 .. 2 : /\ s[k] = Share(Operand(2, k - 1), Arg(depth, k - 1))
                             /\ s[k].op = "share" /\ s[k].at = Arg(depth, k - 1)
    BY <1>1, <1>2, ReadShape
  <2> HIDE DEF s
  <2> QED BY <1>5, <2>1, <2>2, <2>3
<1>7. PICK p \in StepSet, q \in StepSet :
         /\ p = Drop(x) /\ p.op = "drop" /\ p.at = x
         /\ q = Extend(a, b) /\ q.op = "extend" /\ q.at = a
  BY Constructed DEF StepSet, Root
<1>8. m \in Seq(StepSet) /\ Len(m) = 2 /\ m[1] = p /\ m[2] = q
  <2>1. m = <<p, q>>
    BY <1>3, <1>5, <1>7
  <2> HIDE DEF m
  <2> QED BY <2>1
<1>9. f \in Seq(StepSet) /\ Len(f) = 2 /\ f[1] = Drop(a) /\ f[2] = Drop(b)
  <2>1. 1 \in 1 .. 2 /\ 2 \in 1 .. 2 /\ 1 - 1 = 0 /\ 2 - 1 = 1
    OBVIOUS
  <2>2. f \in Seq(StepSet) /\ Len(f) = 2 /\ \A k \in 1 .. 2 : f[k] = Drop(Arg(depth, k - 1))
    BY <1>1, <1>2, FreeShape
  <2> HIDE DEF f
  <2> QED BY <1>5, <2>1, <2>2
<1> HIDE DEF s, m, f
<1>10. /\ todo' \in Seq(StepSet) /\ Steps' = 1 .. 6
       /\ todo'[1] = Share(y, a) /\ todo'[2].op = "share" /\ todo'[2].at = b
       /\ todo'[3] = p /\ todo'[4] = q /\ todo'[5] = Drop(a) /\ todo'[6] = Drop(b)
  <2>1. /\ Joined(s, m, f) \in Seq(StepSet) /\ Len(Joined(s, m, f)) = Len(s) + Len(m) + Len(f)
        /\ \A k \in 1 .. Len(s) : Joined(s, m, f)[k] = s[k]
        /\ \A k \in 1 .. Len(m) : Joined(s, m, f)[Len(s) + k] = m[k]
        /\ \A k \in 1 .. Len(f) : Joined(s, m, f)[Len(s) + Len(m) + k] = f[k]
    <3>1. s \in Seq(StepSet) /\ m \in Seq(StepSet) /\ f \in Seq(StepSet)
      BY <1>6, <1>8, <1>9
    <3> QED BY <3>1, ThreeParts
  <2>2. /\ todo' \in Seq(StepSet) /\ Len(todo') = 6
        /\ \A k \in 1 .. 2 : todo'[k] = s[k] /\ todo'[2 + k] = m[k] /\ todo'[2 + 2 + k] = f[k]
    BY <1>1, <1>6, <1>8, <1>9, <2>1
  <2>3. todo'[1] = s[1] /\ todo'[2] = s[2] /\ todo'[3] = m[1] /\ todo'[4] = m[2] /\ todo'[5] = f[1] /\ todo'[6] = f[2]
    BY <2>2
  <2> QED BY <1>6, <1>8, <1>9, <2>2, <2>3 DEF Steps
<1>11. \A k \in Steps' : k = 1 \/ k = 2 \/ k = 3 \/ k = 4 \/ k = 5 \/ k = 6
  BY <1>10
<1>12. /\ todo'[1].op = "share" /\ todo'[1].at = a /\ todo'[2].op = "share" /\ todo'[2].at = b
       /\ todo'[3].op = "drop" /\ todo'[3].at = x /\ todo'[4].op = "extend" /\ todo'[4].at = a
       /\ todo'[5].op = "drop" /\ todo'[5].at = a /\ todo'[6].op = "drop" /\ todo'[6].at = b
  BY <1>7, <1>10, Constructed
<1>13. UNCHANGED <<val, refc, size, live, depth, call, sp>>
  BY <1>1, Unchanged
<1>14. Reading(todo', 2)
  <2>1. \A k \in Steps' : Fills(todo'[k]) => k = 1 \/ k = 2
    BY <1>11, <1>12 DEF Fills
  <2>2. 0 \in 0 .. 2 - 1 /\ 1 \in 0 .. 2 - 1 /\ 1 = 1 + 0 /\ 2 = 1 + 1
    OBVIOUS
  <2>3. \A k \in Steps' : Fills(todo'[k]) =>
          todo'[k].op = "share" /\ \E i \in 0 .. 2 - 1 : k = 1 + i /\ todo'[k].at = Arg(depth, i)
    BY <1>5, <1>12, <2>1, <2>2
  <2>4. \A k \in Steps' : todo'[k].op = "drop" => todo'[k].at \in Location
    BY <1>11, <1>12 DEF Root
  <2>5. \A k \in Steps' : todo'[k].op # "leave" /\ todo'[k].op # "free"
    BY <1>11, <1>12
  <2>6. \A i \in 0 .. 2 - 1 : i = 0 \/ i = 1
    OBVIOUS
  <2>7. 5 \in Steps' /\ 6 \in Steps' /\ 5 > 2 /\ 6 > 2
    BY <1>10
  <2>8. todo'[5] = Drop(Arg(depth, 0)) /\ todo'[6] = Drop(Arg(depth, 1))
    BY <1>5, <1>10
  <2>9. \A i \in 0 .. 2 - 1 : \E h \in Steps' : h > 2 /\ todo'[h] = Drop(Arg(depth, i))
    BY <2>6, <2>7, <2>8
  <2> QED BY <2>3, <2>4, <2>5, <2>9 DEF Reading, Steps
<1>15. \A k \in Steps' : todo'[k].op = "extend" => k = 4
  BY <1>11, <1>12
<1>16. Shrinks' /\ Enters'
  BY <1>11, <1>12 DEF Shrinks, Enters
<1>17. Refers(a, 4, o)'
  <2>1. PICK n \in Nat : n = 4
    OBVIOUS
  <2>2. y # x /\ y # a /\ x # a
    BY <1>3, <1>5, Zeroth
  <2>3. \A k \in Steps' : 1 < k /\ k < n => k = 2 \/ k = 3
    BY <1>11, <2>1
  <2>4. \A k \in Steps' : 1 < k /\ k < n => todo'[k] # Drop(y) /\ todo'[k] # Drop(a)
    BY <1>12, <2>2, <2>3, Constructed
  <2>5. Refers(a, n, o)'
    BY <1>1, <1>4, <1>10, <2>1, <2>4, FirstArgument
  <2> QED BY <2>1, <2>5
<1>18. Extends'
  <2>1. size[o] < Width
    BY <1>1, <1>3, <1>4
  <2>2. Refers(todo[4].at, 4, o)'
    BY <1>12, <1>17 DEF Refers, Dropped
  <2>3. \A j, k \in Steps' : todo'[j].op = "extend" /\ todo'[k].op = "extend" => ~(j < k)
    BY <1>10, <1>15
  <2>4. \A k \in Steps' : todo'[k].op # "shrink"
    BY <1>11, <1>12
  <2> QED BY <1>13, <1>15, <2>1, <2>2, <2>3, <2>4 DEF Extends
<1> QED BY <1>1, <1>2, <1>10, <1>14, <1>16, <1>18, Reads

(* list::pop.                                                              *)
LEMMA CallPopKeeps == ASSUME IInv, NEW d \in General, CallPop(d) PROVE IInv'
<1> DEFINE s == ReadArgs(1)
           m == <<Drop(R(d)), Drop(Slot(val[R(0)], size[val[R(0)]] - 1)), Shrink(Arg(depth, 0))>>
           f == FreeArgs(1)
<1>1. /\ Running /\ val[R(0)] # Null /\ size[val[R(0)]] > 0
      /\ todo' = Joined(s, m, f) /\ UNCHANGED heap /\ UNCHANGED frame /\ err' = err
  BY DEF CallPop, Issue, Joined
<1>2. /\ todo = <<>> /\ d \in RegId /\ 0 \in RegId /\ 1 \in 0 .. MaxArgs /\ 0 < ArgRegs /\ Available(1)
  <2>1. todo = <<>> /\ General \subseteq RegId /\ sp[depth] \in Nat
    BY <1>1, RunningFacts
  <2>2. 0 \in RegId /\ 1 \in 0 .. MaxArgs /\ 0 < ArgRegs
    BY Numbers DEF RegId
  <2>3. Available(1)
    BY <2>1, Numbers DEF Available
  <2> QED BY <2>1, <2>2, <2>3
<1>3. PICK x \in Root, y \in Root : x = R(d) /\ y = R(0) /\ y \in Location
  BY <1>1, <1>2, RunningFacts
<1>4. PICK o \in Obj : val[y] = o
  BY <1>1, <1>2, <1>3, Idle
<1>5. PICK a \in Root : a = Arg(depth, 0)
  <2>1. 0 \in 0 .. 1 - 1
    OBVIOUS
  <2> QED BY <1>1, <1>2, <2>1, Arguments
<1>6. PICK h \in Nat : h = size[o] - 1 /\ h \in Places /\ size[o] > 0
  <2>1. size[o] \in 0 .. Width /\ size[o] > 0
    BY <1>1, <1>2, <1>3, <1>4, Idle
  <2>2. size[o] - 1 \in Nat /\ size[o] - 1 \in 0 .. Width - 1
    BY <2>1, Numbers
  <2> QED BY <2>1, <2>2 DEF Places
<1>7. PICK w \in Slots : w = Slot(o, h) /\ w \in Location /\ w \notin Root /\ w # y /\ w # a
  <2>1. Slot(o, h) \in Slots
    BY <1>6 DEF Slots, Places
  <2> QED BY <2>1, Locations DEF Root
<1>8. s \in Seq(StepSet) /\ Len(s) = 1 /\ s[1] = Share(y, a)
  <2>1. 1 \in 1 .. 1 /\ 1 - 1 = 0
    OBVIOUS
  <2>2. Operand(1, 0) = y
    BY <1>2, <1>3 DEF Operand
  <2>3. /\ s \in Seq(StepSet) /\ Len(s) = 1
        /\ \A k \in 1 .. 1 : s[k] = Share(Operand(1, k - 1), Arg(depth, k - 1))
    BY <1>1, <1>2, ReadShape
  <2> HIDE DEF s
  <2> QED BY <1>5, <2>1, <2>2, <2>3
<1>9. PICK p \in StepSet, q \in StepSet, r \in StepSet :
         /\ p = Drop(x) /\ p.op = "drop" /\ p.at = x
         /\ q = Drop(w) /\ q.op = "drop" /\ q.at = w
         /\ r = Shrink(a) /\ r.op = "shrink" /\ r.at = a
  <2>1. Drop(x) \in StepSet /\ Drop(w) \in StepSet /\ Shrink(a) \in StepSet
    BY <1>7 DEF StepSet, Root
  <2> QED BY <2>1, Constructed
<1>10. m \in Seq(StepSet) /\ Len(m) = 3 /\ m[1] = p /\ m[2] = q /\ m[3] = r
  <2>1. m = <<p, q, r>>
    BY <1>3, <1>4, <1>5, <1>6, <1>7, <1>9
  <2> HIDE DEF m
  <2> QED BY <2>1
<1>11. f \in Seq(StepSet) /\ Len(f) = 1 /\ f[1] = Drop(a)
  <2>1. 1 \in 1 .. 1 /\ 1 - 1 = 0
    OBVIOUS
  <2>2. f \in Seq(StepSet) /\ Len(f) = 1 /\ \A k \in 1 .. 1 : f[k] = Drop(Arg(depth, k - 1))
    BY <1>1, <1>2, FreeShape
  <2> HIDE DEF f
  <2> QED BY <1>5, <2>1, <2>2
<1> HIDE DEF s, m, f
<1>12. /\ todo' \in Seq(StepSet) /\ Steps' = 1 .. 5
       /\ todo'[1] = Share(y, a) /\ todo'[2] = p /\ todo'[3] = q /\ todo'[4] = r /\ todo'[5] = Drop(a)
  <2>1. /\ Joined(s, m, f) \in Seq(StepSet) /\ Len(Joined(s, m, f)) = Len(s) + Len(m) + Len(f)
        /\ \A k \in 1 .. Len(s) : Joined(s, m, f)[k] = s[k]
        /\ \A k \in 1 .. Len(m) : Joined(s, m, f)[Len(s) + k] = m[k]
        /\ \A k \in 1 .. Len(f) : Joined(s, m, f)[Len(s) + Len(m) + k] = f[k]
    <3>1. s \in Seq(StepSet) /\ m \in Seq(StepSet) /\ f \in Seq(StepSet)
      BY <1>8, <1>10, <1>11
    <3> QED BY <3>1, ThreeParts
  <2>2. /\ todo' \in Seq(StepSet) /\ Len(todo') = 5
        /\ \A k \in 1 .. 1 : todo'[k] = s[k] /\ todo'[1 + 3 + k] = f[k]
        /\ \A k \in 1 .. 3 : todo'[1 + k] = m[k]
    BY <1>1, <1>8, <1>10, <1>11, <2>1
  <2>3. todo'[1] = s[1] /\ todo'[2] = m[1] /\ todo'[3] = m[2] /\ todo'[4] = m[3] /\ todo'[5] = f[1]
    BY <2>2
  <2> QED BY <1>8, <1>10, <1>11, <2>2, <2>3 DEF Steps
<1>13. \A k \in Steps' : k = 1 \/ k = 2 \/ k = 3 \/ k = 4 \/ k = 5
  BY <1>12
<1>14. /\ todo'[1].op = "share" /\ todo'[1].at = a
       /\ todo'[2].op = "drop" /\ todo'[2].at = x /\ todo'[3].op = "drop" /\ todo'[3].at = w
       /\ todo'[4].op = "shrink" /\ todo'[4].at = a /\ todo'[5].op = "drop" /\ todo'[5].at = a
  BY <1>9, <1>12, Constructed
<1>15. UNCHANGED <<val, refc, size, live, depth, call, sp>>
  BY <1>1, Unchanged
<1>16. Reading(todo', 1)
  <2>1. \A k \in Steps' : Fills(todo'[k]) => k = 1
    BY <1>13, <1>14 DEF Fills
  <2>2. 0 \in 0 .. 1 - 1 /\ 1 = 1 + 0
    OBVIOUS
  <2>3. \A k \in Steps' : Fills(todo'[k]) =>
          todo'[k].op = "share" /\ \E i \in 0 .. 1 - 1 : k = 1 + i /\ todo'[k].at = Arg(depth, i)
    BY <1>5, <1>14, <2>1, <2>2
  <2>4. \A k \in Steps' : todo'[k].op = "drop" => todo'[k].at \in Location
    BY <1>7, <1>13, <1>14 DEF Root
  <2>5. \A k \in Steps' : todo'[k].op # "leave" /\ todo'[k].op # "free"
    BY <1>13, <1>14
  <2>6. \A i \in 0 .. 1 - 1 : i = 0
    OBVIOUS
  <2>7. 5 \in Steps' /\ 5 > 1
    BY <1>12
  <2>8. \A i \in 0 .. 1 - 1 : \E k \in Steps' : k > 1 /\ todo'[k] = Drop(Arg(depth, i))
    BY <1>5, <1>12, <2>6, <2>7
  <2> QED BY <2>3, <2>4, <2>5, <2>8 DEF Reading, Steps
<1>17. \A k \in Steps' : todo'[k].op = "shrink" => k = 4
  BY <1>13, <1>14
<1>18. Extends' /\ Enters'
  BY <1>13, <1>14 DEF Extends, Enters
<1>19. Refers(a, 4, o)'
  <2>1. PICK n \in Nat : n = 4
    OBVIOUS
  <2>2. y # x /\ y # a /\ x # a
    BY <1>3, <1>5, Zeroth
  <2>3. \A k \in Steps' : 1 < k /\ k < n => k = 2 \/ k = 3
    BY <1>13, <2>1
  <2>4. \A k \in Steps' : 1 < k /\ k < n => todo'[k] # Drop(y) /\ todo'[k] # Drop(a)
    BY <1>7, <1>14, <2>2, <2>3, Constructed
  <2>5. Refers(a, n, o)'
    BY <1>1, <1>4, <1>12, <2>1, <2>4, FirstArgument
  <2> QED BY <2>1, <2>5
<1>20. Shrinks'
  <2>1. Refers(todo[4].at, 4, o)'
    BY <1>14, <1>19 DEF Refers, Dropped
  <2>2. Cleared(Slot(o, size[o] - 1), 4)'
    <3>1. todo'[3] = Drop(Slot(o, size'[o] - 1)) /\ 3 \in Steps' /\ 3 < 4
      BY <1>6, <1>7, <1>9, <1>12, <1>15
    <3> QED BY <3>1 DEF Cleared, Dropped
  <2>3. size'[o] > 0
    BY <1>6, <1>15
  <2>4. \A j \in Steps' : j # 4 => /\ todo'[j].op \notin {"extend", "shrink"}
                                   /\ Fills(todo'[j]) => todo'[j].at \in Root
    BY <1>13, <1>14 DEF Fills
  <2> QED BY <1>17, <2>1, <2>2, <2>3, <2>4 DEF Shrinks, Fills
<1> QED BY <1>1, <1>2, <1>12, <1>16, <1>18, <1>20, Reads

-----------------------------------------------------------------------------
(* Every instruction keeps the invariant.                                  *)
LEMMA InstructionKeeps == ASSUME IInv, Instruction PROVE IInv'
<1>1. CASE \E d \in General : LoadPlain(d) \/ LoadString(d) \/ CallAppend(d) \/ CallPop(d)
  BY <1>1, LoadPlainKeeps, LoadStringKeeps, CallAppendKeeps, CallPopKeeps
<1>2. CASE \E s, d \in RegId : Move(s, d)
  BY <1>2, MoveKeeps
<1>3. CASE \E d \in General, n \in 0 .. MaxArgs :
             MakeList(d, n) \/ MakeStruct(d, n) \/ CallFunction(d, n) \/ CallMake(d, n)
  BY <1>3, MakeListKeeps, MakeStructKeeps, CallScriptKeeps
<1>4. CASE \E d \in General, b \in RegId, i \in 0 .. Width - 1 : Index(d, b, i)
  BY <1>4, IndexKeeps
<1>5. CASE \E v, b \in RegId, i \in 0 .. Width - 1 : IndexAssign(v, b, i)
  BY <1>5, IndexAssignKeeps
<1>6. CASE \E v, b, k \in RegId : IndexInsert(v, b, k)
  BY <1>6, IndexInsertKeeps
<1>7. CASE \E r \in General, g \in 1 .. Globals : GetGlobal(r, g) \/ SetGlobal(r, g)
  BY <1>7, GlobalsKeep
<1>8. CASE \E r \in RegId : Push(r) \/ Return(r)
  BY <1>8, PushKeeps, ReturnKeeps
<1>9. CASE \E n \in 1 .. MaxArgs : CallNonFunction(n)
  BY <1>9, CallNonFunctionKeeps
<1>10. CASE Abort \/ Propagate
  BY <1>10, AbortKeeps, PropagateKeeps
<1> QED BY <1>1, <1>2, <1>3, <1>4, <1>5, <1>6, <1>7, <1>8, <1>9, <1>10 DEF Instruction

(* So does a step that changes nothing.                                    *)
LEMMA NothingKeeps == ASSUME IInv, UNCHANGED vars PROVE IInv'
BY DEF vars, heap, frame, IInv, Heap, TypeOK, CountsExact, NoDangling, Holders, FillsApart, FillsCleared,
       SlotsOpen, SlotOpen, SlotsFilled, PutsHeld, Extends, Shrinks, Frees, Enters, Leaves, FillsLocal, Frames,
       ArgsCleared, ResultsNull, Steps, Dropped, Cleared, OnlyDrops, Refers, Leaving, Local, Clears, ResultOf

(* The invariant holds at first: nothing is in use, nothing pending.       *)
LEMMA InitIInv == Init => IInv
<1> SUFFICES ASSUME Init PROVE IInv
  OBVIOUS
<1>1. /\ val = [l \in Location |-> Null] /\ refc = [o \in Obj |-> 0] /\ size = [o \in Obj |-> 0] /\ live = {}
      /\ depth = 0 /\ sp = [f \in Frame |-> 0] /\ call = [f \in Frame |-> [dst |-> 0, nargs |-> 0]]
      /\ err = FALSE /\ todo = <<>>
  BY DEF Init
<1>2. Steps = {} /\ todo \in Seq(StepSet)
  BY <1>1 DEF Steps
<1>3. TypeOK
  <2>1. 0 \in RegId /\ 0 \in 0 .. MaxArgs /\ 0 \in 0 .. Stack /\ 0 \in 0 .. Width /\ 0 \in 0 .. MaxDepth
    BY Numbers DEF RegId
  <2> QED BY <1>1, <2>1 DEF TypeOK
<1>4. CountsExact
  <2>1. \A o \in Obj : Holders(o) = {}
    BY <1>1, Numbers DEF Holders
  <2> QED BY <1>1, <2>1, FS_EmptySet DEF CountsExact
<1>5. NoDangling /\ \A o \in Obj, i \in Places : i >= size[o] => val[Slot(o, i)] = Null
  <2>1. \A o \in Obj, i \in Places : Slot(o, i) \in Location
    <3>1. \A o \in Obj, i \in Places : Slot(o, i) \in Slots
      BY DEF Slots, Places
    <3> QED BY <3>1, Locations
  <2> QED BY <1>1, <2>1 DEF NoDangling
<1>6. Heap
  BY <1>1, <1>3, <1>4, <1>5 DEF Heap
<1>7. FillsApart /\ FillsCleared /\ SlotsOpen /\ SlotsFilled /\ PutsHeld /\ Extends /\ Shrinks /\ Enters /\ Leaves /\ FillsLocal
  BY <1>2 DEF FillsApart, FillsCleared, SlotsOpen, SlotsFilled, PutsHeld, Extends, Shrinks, Enters, Leaves, FillsLocal
<1>8. Frees /\ ArgsCleared /\ ResultsNull
  BY <1>1, <1>2 DEF Frees, ArgsCleared, ResultsNull
<1>9. Frames
  <2>1. 1 \in Frame
    BY Numbers DEF Frame
  <2>2. \A f \in Frame : /\ \A r \in RegId : val[Reg(f, r)] = Null
                         /\ \A i \in 0 .. MaxArgs - 1 : val[Arg(f, i)] = Null
                         /\ \A i \in 0 .. Stack - 1 : val[Stk(f, i)] = Null
    BY <1>1, Locations
  <2> QED BY <1>1, <2>1, <2>2 DEF Frames
<1> QED BY <1>2, <1>6, <1>7, <1>8, <1>9 DEF IInv

(* Every step of the specification keeps it.                               *)
LEMMA NextIInv == IInv /\ [Next]_vars => IInv'
<1> SUFFICES ASSUME IInv, [Next]_vars PROVE IInv'
  OBVIOUS
<1>1. CASE Step
  BY <1>1, StepKeeps
<1>2. CASE Instruction
  BY <1>2, InstructionKeeps
<1>3. CASE Run
  BY <1>3, RunKeeps
<1>4. CASE TakeResult
  BY <1>4, TakeResultKeeps
<1>5. CASE UNCHANGED vars
  BY <1>5, NothingKeeps
<1> QED BY <1>1, <1>2, <1>3, <1>4, <1>5 DEF Next

-----------------------------------------------------------------------------
(* The theorems.  IInv holds in every state kit_exec can be in, for any    *)
(* number of registers, frames, globals, objects and slots.                *)
THEOREM PlansHold == Spec => []IInv
<1>1. Init => IInv
  BY InitIInv
<1>2. IInv /\ [Next]_vars => IInv'
  BY NextIInv
<1> QED BY <1>1, <1>2, PTL DEF Spec

(* The variables of the interpreter's state have their types: no counter   *)
(* and no size is below zero, no stack pointer is past its stack, no frame *)
(* is entered past the deepest one (kit.exec.c, kit.var.c).                *)
THEOREM VmTypes == Spec => []TypeOK
<1>1. IInv => TypeOK
  BY DEF IInv, Heap
<1> QED BY <1>1, PlansHold, PTL

(* At every step of every instruction, the error paths included, the       *)
(* counter of an object is the number of variables that refer to it        *)
(* (kit_var_acquire, kit_var_release and their calls in kit_exec).         *)
THEOREM CountsAlwaysExact == Spec => []CountsExact
<1>1. IInv => CountsExact
  BY DEF IInv, Heap
<1> QED BY <1>1, PlansHold, PTL

(* No variable ever refers to an object that kit_var_free has given back:  *)
(* not while an INDEX holds an element it has not counted yet, not while   *)
(* containers are freed one inside the other.                              *)
THEOREM NothingDangles == Spec => []NoDangling
<1>1. IInv => NoDangling
  BY DEF IInv, Heap
<1> QED BY <1>1, PlansHold, PTL

(* When an instruction is over, every object that is still in use is       *)
(* referred to by some variable (kit_var_free).                            *)
THEOREM NothingIsForgotten == Spec => []NothingForgotten
<1>1. IInv => NothingForgotten
  <2> SUFFICES ASSUME IInv, todo = <<>> PROVE \A o \in live : Holders(o) # {}
    BY DEF NothingForgotten
  <2> QED BY Idle
<1> QED BY <1>1, PlansHold, PTL

(* When an instruction is over, a frame that kit_exec has left holds       *)
(* nothing, nothing is above a stack pointer, and a vector of arguments    *)
(* holds something only while its call goes on (kit_exec's cleanup and     *)
(* read_args_vector).                                                      *)
THEOREM FramesAlwaysClean == Spec => []FramesAreClean
<1>1. IInv => FramesAreClean
  <2> SUFFICES ASSUME IInv, todo = <<>>
               PROVE  /\ \A f \in Frame, r \in RegId : f > depth => val[Reg(f, r)] = Null
                      /\ \A f \in Frame, i \in 0 .. Stack - 1 : i >= sp[f] => val[Stk(f, i)] = Null
                      /\ \A f \in Frame, i \in 0 .. MaxArgs - 1 :
                           val[Arg(f, i)] # Null => f < depth /\ i < call[f + 1].nargs
    BY DEF FramesAreClean
  <2>1. Frames /\ depth \in Nat
    BY Numbers DEF IInv, Heap, TypeOK
  <2>2. \A f \in Frame, i \in 0 .. MaxArgs - 1 : val[Arg(f, i)] # Null => f < depth
    <3> SUFFICES ASSUME NEW f \in Frame, NEW i \in 0 .. MaxArgs - 1, val[Arg(f, i)] # Null PROVE f < depth
      OBVIOUS
    <3>1. f \in Nat /\ f > 0
      BY Numbers DEF Frame
    <3>2. f # depth
      BY <3>1, Idle
    <3>3. ~(f > depth)
      BY <2>1 DEF Frames
    <3> QED BY <2>1, <3>1, <3>2, <3>3
  <2> QED BY <2>1, <2>2 DEF Frames
<1> QED BY <1>1, PlansHold, PTL
=============================================================================
