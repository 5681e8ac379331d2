--------------------------- MODULE KitVmInvariant ---------------------------
(***************************************************************************)
(* What is true of the virtual machine in every state, in the middle of an *)
(* instruction as well as between two of them, and the proof that each     *)
(* step of an instruction keeps it true.                                   *)
(*                                                                         *)
(* CountsExact and NoDangling are not inductive: a step that is still to   *)
(* be made overwrites its location, fills a slot of a container, or frees  *)
(* an object, and nothing in memory says that it may.  The invariant IInv  *)
(* therefore says what `todo` may hold in the present memory: no location  *)
(* is filled twice or before it is released, the slots that are filled     *)
(* belong to a container that is there, an object that is freed is         *)
(* referred to by nothing, and so on, one named part per kind of claim.    *)
(*                                                                         *)
(* A step that stays in its frame puts c steps in front of the rest, those *)
(* of kit_var_free when an object goes, none otherwise.  Effect, Memory    *)
(* and Objects say what any such step does; each part of IInv is shown to  *)
(* be kept from them once (the lemmas ...Kept), and then each step is      *)
(* shown to do that and to leave the heap in order (the lemmas             *)
(* Do...Keeps).  DoEnter and DoLeave change frames and are done apart.     *)
(***************************************************************************)
EXTENDS KitVm, FiniteSetTheorems, TLAPS

(* The locations of containers, those outside them, the registers, and the *)
(* names of slots by way of a register.                                    *)
Slots     == {Slot(o, i) : o \in Obj, i \in 0 .. Width - 1}
Root      == Location \ Slots
Registers == {Reg(f, r) : f \in Frame, r \in RegId}
SlotNames == {SlotOf(l, i) : l \in Registers, i \in 0 .. Width - 1}
(* What a location holds.                                                  *)
Variable  == Obj \cup {Null}

(* Each kind of location is a location; all but slots are outside the      *)
(* containers.                                                             *)
LEMMA Locations ==
  /\ \A f \in Frame : \A r \in RegId : Reg(f, r) \in Location /\ Reg(f, r) \notin Slots
  /\ \A f \in Frame, i \in 0 .. Stack - 1 : Stk(f, i) \in Location /\ Stk(f, i) \notin Slots
  /\ \A f \in Frame, i \in 0 .. MaxArgs - 1 : Arg(f, i) \in Location /\ Arg(f, i) \notin Slots
  /\ \A g \in 1 .. Globals : Global(g) \in Location /\ Global(g) \notin Slots
  /\ \A i \in 0 .. MaxArgs - 1 : Leaked(i) \in Location /\ Leaked(i) \notin Slots
  /\ Result \in Location /\ Result \notin Slots
  /\ Slots \subseteq Location
BY DEF Location, Slots, Reg, Stk, Arg, Global, Leaked, Result, Slot

(* A slot named by way of a register is no location until At looks it up.  *)
LEMMA Named ==
  /\ \A l \in Location : l[1] # "slot_of"
  /\ \A l \in SlotNames : l[1] = "slot_of" /\ l \notin Location
  /\ \A l \in Location : At(l) = l
  /\ \A l, i : At(SlotOf(l, i)) = Slot(val[l], i)
<1>1. \A l \in Location : l[1] # "slot_of"
  <2>1. /\ \A f, i : Reg(f, i)[1] # "slot_of" /\ Stk(f, i)[1] # "slot_of" /\ Arg(f, i)[1] # "slot_of"
        /\ \A o, i : Slot(o, i)[1] # "slot_of" /\ Global(i)[1] # "slot_of" /\ Leaked(i)[1] # "slot_of"
        /\ Result[1] # "slot_of"
    BY DEF Reg, Stk, Arg, Global, Leaked, Result, Slot
  <2>2. ASSUME NEW l \in Location
        PROVE  \/ l \in {Reg(f, r) : f \in Frame, r \in RegId}
               \/ l \in {Stk(f, i) : f \in Frame, i \in 0 .. Stack - 1}
               \/ l \in {Arg(f, i) : f \in Frame, i \in 0 .. MaxArgs - 1}
               \/ l \in {Global(g) : g \in 1 .. Globals}
               \/ l \in {Slot(o, i) : o \in Obj, i \in 0 .. Width - 1}
               \/ l \in {Leaked(i) : i \in 0 .. MaxArgs - 1}
               \/ l = Result
    BY DEF Location
  <2>3. ASSUME NEW l \in Location PROVE l[1] # "slot_of"
    BY <2>1, <2>2
  <2> QED BY <2>3
<1>2. \A l, i : SlotOf(l, i)[1] = "slot_of" /\ SlotOf(l, i)[2] = l /\ SlotOf(l, i)[3] = i
  BY DEF SlotOf
<1>3. \A l \in SlotNames : l[1] = "slot_of"
  <2> SUFFICES ASSUME NEW l \in SlotNames PROVE l[1] = "slot_of"
    OBVIOUS
  <2>1. \E m \in Registers, i \in 0 .. Width - 1 : l = SlotOf(m, i)
    BY DEF SlotNames
  <2> QED BY <1>2, <2>1
<1>4. \A l \in Location : At(l) = l
  BY <1>1 DEF At
<1>5. \A l, i : At(SlotOf(l, i)) = Slot(val[l], i)
  BY <1>2 DEF At
<1> QED BY <1>1, <1>3, <1>4, <1>5

(* Locations of one kind are told apart by their indices.                  *)
LEMMA Distinct ==
  /\ \A f, r, g, q : Reg(f, r) = Reg(g, q) => f = g /\ r = q
  /\ \A f, r, g, q : Stk(f, r) = Stk(g, q) => f = g /\ r = q
  /\ \A f, r, g, q : Arg(f, r) = Arg(g, q) => f = g /\ r = q
  /\ \A f, r, g, q : Slot(f, r) = Slot(g, q) => f = g /\ r = q
  /\ \A f, r, g, q : SlotOf(f, r) = SlotOf(g, q) => f = g /\ r = q
  /\ \A r, q : Leaked(r) = Leaked(q) => r = q
BY DEF Reg, Stk, Arg, Slot, SlotOf, Leaked

(* Locations of different kinds differ.                                    *)
LEMMA Kinds ==
  /\ \A f, r, g, q : /\ Reg(f, r) # Stk(g, q) /\ Reg(f, r) # Arg(g, q) /\ Reg(f, r) # Slot(g, q)
                     /\ Stk(f, r) # Arg(g, q) /\ Stk(f, r) # Slot(g, q) /\ Arg(f, r) # Slot(g, q)
  /\ \A f, r, g : /\ Reg(f, r) # Global(g) /\ Stk(f, r) # Global(g) /\ Arg(f, r) # Global(g)
                  /\ Slot(f, r) # Global(g)
                  /\ Reg(f, r) # Leaked(g) /\ Stk(f, r) # Leaked(g) /\ Arg(f, r) # Leaked(g)
                  /\ Slot(f, r) # Leaked(g)
  /\ \A f, r : Reg(f, r) # Result /\ Stk(f, r) # Result /\ Arg(f, r) # Result /\ Slot(f, r) # Result
  /\ \A g, i : Global(g) # Leaked(i) /\ Global(g) # Result /\ Leaked(i) # Result
BY DEF Reg, Stk, Arg, Slot, Global, Leaked, Result

(* The assumption on the constants, part by part.                          *)
LEMMA Numbers ==
  /\ ArgRegs \in Nat /\ GenRegs \in Nat /\ Stack \in Nat /\ MaxDepth \in Nat
  /\ MaxArgs \in Nat /\ Width \in Nat /\ Globals \in Nat
  /\ ArgRegs >= 1 /\ MaxDepth >= 1 /\ MaxArgs >= 2
  /\ Width >= MaxArgs /\ MaxArgs <= ArgRegs + Stack
  /\ Null \notin Obj
BY VmAssumption

(* The steps that instructions issue.                                      *)
StepSet ==
  {Drop(l) : l \in Location \cup SlotNames}
  \cup {Share(s, d) : s \in Root, d \in Location \cup SlotNames}
  \cup {Put(v, d) : v \in Variable, d \in Root}
  \cup {New(d, n) : d \in Root, n \in 0 .. Width}
  \cup {Extend(c, s) : c \in Root, s \in Root}
  \cup {Shrink(c) : c \in Root}
  \cup {Free(o) : o \in Obj}
  \cup {Enter(d, n) : d \in RegId, n \in 0 .. MaxArgs}
  \cup {Leave}

(* The fields of each step.                                                *)
LEMMA Constructed ==
  /\ \A l : Drop(l).op = "drop" /\ Drop(l).at = l
  /\ \A s, l : Share(s, l).op = "share" /\ Share(s, l).from = s /\ Share(s, l).at = l
  /\ \A v, l : Put(v, l).op = "put" /\ Put(v, l).value = v /\ Put(v, l).at = l
  /\ \A l, n : New(l, n).op = "new" /\ New(l, n).at = l /\ New(l, n).slots = n
  /\ \A c, s : Extend(c, s).op = "extend" /\ Extend(c, s).at = c /\ Extend(c, s).from = s
  /\ \A c : Shrink(c).op = "shrink" /\ Shrink(c).at = c
  /\ \A o : Free(o).op = "free" /\ Free(o).obj = o
  /\ \A d, n : Enter(d, n).op = "enter" /\ Enter(d, n).dst = d /\ Enter(d, n).nargs = n
  /\ Leave.op = "leave"
BY DEF Drop, Share, Put, New, Extend, Shrink, Free, Enter, Leave

(* A step is told by its op.                                               *)
LEMMA Shapes ==
  ASSUME NEW s \in StepSet
  PROVE  /\ s.op = "drop"   => s = Drop(s.at) /\ s.at \in Location \cup SlotNames
         /\ s.op = "share"  => /\ s = Share(s.from, s.at) /\ s.from \in Root
                               /\ s.at \in Location \cup SlotNames
         /\ s.op = "put"    => s = Put(s.value, s.at) /\ s.value \in Variable /\ s.at \in Root
         /\ s.op = "new"    => s = New(s.at, s.slots) /\ s.at \in Root /\ s.slots \in 0 .. Width
         /\ s.op = "extend" => s = Extend(s.at, s.from) /\ s.at \in Root /\ s.from \in Root
         /\ s.op = "shrink" => s = Shrink(s.at) /\ s.at \in Root
         /\ s.op = "free"   => s = Free(s.obj) /\ s.obj \in Obj
         /\ s.op = "enter"  => s = Enter(s.dst, s.nargs) /\ s.dst \in RegId /\ s.nargs \in 0 .. MaxArgs
         /\ s.op = "leave"  => s = Leave
         /\ s.op \in {"drop", "share", "put", "new", "extend", "shrink", "free", "enter", "leave"}
<1>1. \/ \E l \in Location \cup SlotNames : s = Drop(l)
      \/ \E f \in Root, l \in Location \cup SlotNames : s = Share(f, l)
      \/ \E v \in Variable, l \in Root : s = Put(v, l)
      \/ \E l \in Root, n \in 0 .. Width : s = New(l, n)
      \/ \E c \in Root, f \in Root : s = Extend(c, f)
      \/ \E c \in Root : s = Shrink(c)
      \/ \E o \in Obj : s = Free(o)
      \/ \E d \in RegId, n \in 0 .. MaxArgs : s = Enter(d, n)
      \/ s = Leave
  BY DEF StepSet
<1> QED BY <1>1, Constructed

(* There are finitely many locations.                                      *)
LEMMA LocationFinite == IsFiniteSet(Location)
<1> DEFINE n == ArgRegs + GenRegs + Stack + MaxArgs + Width + Globals + MaxDepth
           I == 0 .. n
           kinds == {"reg", "stack", "args", "global", "slot", "leaked", "result"}
           P == kinds \X ((I \cup Obj) \X I)
           f == [p \in P |-> <<p[1], p[2][1], p[2][2]>>]
           S == {f[p] : p \in P}
<1>1. n \in Nat
  BY Numbers
<1>2. IsFiniteSet(I)
  BY <1>1, FS_Interval
<1>3. IsFiniteSet(I \cup Obj)
  BY <1>2, FS_Union, VmAssumption
<1>4. IsFiniteSet(kinds)
  <2> DEFINE g == [k \in 1 .. 7 |-> CASE k = 1 -> "reg" [] k = 2 -> "stack" [] k = 3 -> "args"
                                   [] k = 4 -> "global" [] k = 5 -> "slot" [] k = 6 -> "leaked"
                                   [] k = 7 -> "result"]
  <2>1. /\ g[1] = "reg" /\ g[2] = "stack" /\ g[3] = "args" /\ g[4] = "global"
        /\ g[5] = "slot" /\ g[6] = "leaked" /\ g[7] = "result"
    OBVIOUS
  <2>2. \A k \in 1 .. 7 : k \in {1, 2, 3, 4, 5, 6, 7}
    OBVIOUS
  <2>3. g \in [1 .. 7 -> kinds]
    BY <2>1, <2>2
  <2>4. g \in Surjection(1 .. 7, kinds)
    BY <2>1, <2>3 DEF Surjection
  <2> HIDE DEF g
  <2>5. IsFiniteSet(1 .. 7)
    <3>1. 1 \in Int /\ 7 \in Int
      OBVIOUS
    <3> QED BY <3>1, FS_Interval, Zenon
  <2> QED BY <2>4, <2>5, FS_Surjection
<1>5. IsFiniteSet(P)
  BY <1>2, <1>3, <1>4, FS_Product
<1>6. f \in Surjection(P, S)
  BY DEF Surjection
<1>7. IsFiniteSet(S)
  BY <1>5, <1>6, FS_Surjection
<1>8. \A k \in kinds, a \in I \cup Obj, i \in I : <<k, a, i>> \in S
  <2> SUFFICES ASSUME NEW k \in kinds, NEW a \in I \cup Obj, NEW i \in I PROVE <<k, a, i>> \in S
    OBVIOUS
  <2>1. <<k, <<a, i>>>> \in P /\ f[<<k, <<a, i>>>>] = <<k, a, i>>
    OBVIOUS
  <2> QED BY <2>1
<1>9. Location \subseteq S
  <2> HIDE DEF S
  <2>1. /\ Frame \subseteq I /\ RegId \subseteq I /\ 0 .. Stack - 1 \subseteq I
        /\ 0 .. MaxArgs - 1 \subseteq I /\ 1 .. Globals \subseteq I /\ 0 .. Width - 1 \subseteq I /\ 0 \in I
    BY Numbers DEF Frame, RegId
  <2> HIDE DEF I
  <2>2. \A x, y \in I : /\ Reg(x, y) \in S /\ Stk(x, y) \in S /\ Arg(x, y) \in S
    BY <1>8 DEF Reg, Stk, Arg
  <2>3. \A x \in I, o \in Obj : Slot(o, x) \in S
    BY <1>8 DEF Slot
  <2>4. \A x \in I : Global(x) \in S /\ Leaked(x) \in S
    BY <1>8, <2>1 DEF Global, Leaked
  <2>5. Result \in S
    BY <1>8, <2>1 DEF Result
  <2> QED BY <2>1, <2>2, <2>3, <2>4, <2>5 DEF Location
<1> QED BY <1>7, <1>9, FS_Subset

(* A variable is written; the types of the variables and counters.         *)
Fill(l, v) == val' = [val EXCEPT ![l] = v]
Types == val \in [Location -> Variable] /\ refc \in [Obj -> Nat]

(* Finitely many variables refer to an object.                             *)
LEMMA HoldersFinite == \A o : IsFiniteSet(Holders(o)) /\ Cardinality(Holders(o)) \in Nat
<1> SUFFICES ASSUME NEW o PROVE IsFiniteSet(Holders(o)) /\ Cardinality(Holders(o)) \in Nat
  OBVIOUS
<1>1. Holders(o) \in SUBSET Location
  BY DEF Holders
<1> QED BY <1>1, LocationFinite, FS_Subset, FS_CardinalityType

(* A variable that referred to an object is null. *)
LEMMA DropCounts ==
  ASSUME Types, CountsExact, NEW w \in Location, NEW o \in Obj, val[w] = o,
         val' = [val EXCEPT ![w] = Null], refc' = [refc EXCEPT ![o] = @ - 1]
  PROVE  /\ Types' /\ CountsExact' /\ Holders(o)' = Holders(o) \ {w}
         /\ \A p \in Obj \ {o} : Holders(p)' = Holders(p)
         /\ refc[o] >= 1 /\ (refc[o] > 1 <=> Holders(o)' # {})
<1>1. val' \in [Location -> Variable] /\ \A l \in Location : val'[l] = IF l = w THEN Null ELSE val[l]
  BY DEF Types, Variable
<1>2. Holders(o)' = Holders(o) \ {w} /\ w \in Holders(o)
  BY <1>1, Numbers DEF Holders
<1>3. \A p \in Obj \ {o} : Holders(p)' = Holders(p)
  BY <1>1, Numbers DEF Holders
<1>4. /\ Cardinality(Holders(o)') = Cardinality(Holders(o)) - 1
      /\ Cardinality(Holders(o)) \in Nat /\ Cardinality(Holders(o)') \in Nat
  BY <1>2, HoldersFinite, FS_RemoveElement, FS_CardinalityType
<1>5. refc[o] = Cardinality(Holders(o)) /\ refc[o] \in Nat
  BY DEF CountsExact, Types
<1>6. /\ refc' \in [Obj -> Nat] /\ refc'[o] = Cardinality(Holders(o)')
      /\ \A p \in Obj \ {o} : refc'[p] = refc[p]
  BY <1>4, <1>5 DEF Types
<1>7. CountsExact'
  BY <1>3, <1>6 DEF CountsExact
<1>8. Holders(o)' = {} <=> Cardinality(Holders(o)') = 0
  BY <1>2, HoldersFinite, FS_RemoveElement, FS_EmptySet
<1> QED BY <1>1, <1>2, <1>3, <1>4, <1>5, <1>6, <1>7, <1>8 DEF Types

(* A null variable refers to an object. *)
LEMMA FillCounts ==
  ASSUME Types, CountsExact, NEW w \in Location, NEW o \in Obj, val[w] = Null,
         val' = [val EXCEPT ![w] = o], refc' = [refc EXCEPT ![o] = @ + 1]
  PROVE  /\ Types' /\ CountsExact' /\ Holders(o)' = Holders(o) \cup {w}
         /\ \A p \in Obj \ {o} : Holders(p)' = Holders(p)
<1>1. val' \in [Location -> Variable] /\ \A l \in Location : val'[l] = IF l = w THEN o ELSE val[l]
  BY DEF Types, Variable
<1>2. Holders(o)' = Holders(o) \cup {w} /\ w \notin Holders(o)
  BY <1>1, Numbers DEF Holders
<1>3. \A p \in Obj \ {o} : Holders(p)' = Holders(p)
  BY <1>1, Numbers DEF Holders
<1>4. Cardinality(Holders(o)') = Cardinality(Holders(o)) + 1
  BY <1>2, HoldersFinite, FS_AddElement
<1>5. refc[o] = Cardinality(Holders(o)) /\ refc[o] \in Nat
  BY DEF CountsExact, Types
<1>6. /\ refc' \in [Obj -> Nat] /\ refc'[o] = Cardinality(Holders(o)')
      /\ \A p \in Obj \ {o} : refc'[p] = refc[p]
  BY <1>4, <1>5 DEF Types
<1>7. CountsExact'
  BY <1>3, <1>6 DEF CountsExact
<1> QED BY <1>1, <1>2, <1>3, <1>6, <1>7 DEF Types

-----------------------------------------------------------------------------
Steps         == DOMAIN todo
Fills(s)      == s.op \in {"share", "put", "new"}
Leaving       == \E k \in Steps : todo[k].op = "leave"
Dropped(l, k) == \E j \in Steps : j < k /\ todo[j] = Drop(l)
Cleared(l, k) == val[l] = Null \/ Dropped(l, k)
Places        == 0 .. Width - 1

(* What is in memory: exact counters, no variable that refers to a freed   *)
(* object, nothing in a slot that is not in use, no slot in use of an      *)
(* object that is free.                                                    *)
Heap ==
  /\ TypeOK /\ CountsExact /\ NoDangling
  /\ \A o \in Obj, i \in Places : i >= size[o] => val[Slot(o, i)] = Null
  /\ \A o \in Obj : o \notin live => size[o] = 0

(* No two steps put a variable in the same location.                       *)
FillsApart ==
  \A j, k \in Steps : j # k /\ Fills(todo[j]) /\ Fills(todo[k]) => todo[j].at # todo[k].at

(* A location that a step puts a variable in is null, or is released       *)
(* before it.                                                              *)
FillsCleared ==
  \A k \in Steps : Fills(todo[k]) /\ todo[k].at \in Location => Cleared(todo[k].at, k)

(* Slot i of the container in register l is in use when step k is made:    *)
(* the container is made before k with that many slots, or is there now    *)
(* and is not released before k.                                           *)
SlotOpen(l, i, k) ==
  \/ \E j \in Steps :
       /\ j < k /\ todo[j].op = "new" /\ todo[j].at = l /\ i < todo[j].slots
       /\ \A m \in Steps : j < m /\ m < k => todo[m] # Drop(l)
  \/ /\ val[l] \in Obj /\ ~Dropped(l, k) /\ i < size[val[l]]
     /\ todo[k].op = "share" => val[Slot(val[l], i)] = Null

(* A slot named by way of a register is in use at its step, and no step    *)
(* before it changes what the register holds other than to make the        *)
(* container.                                                              *)
SlotsOpen ==
  \A k \in Steps, l \in Registers, i \in Places :
    todo[k].op \in {"drop", "share"} /\ todo[k].at = SlotOf(l, i) =>
      /\ SlotOpen(l, i, k)
      /\ \A j \in Steps : j < k =>
           /\ todo[j].op \in {"drop", "share", "put", "new", "free"}
           /\ Fills(todo[j]) => todo[j].at \in Root \cup {SlotOf(l, m) : m \in Places}

(* The steps before k only release variables and free objects.             *)
OnlyDrops(k) ==
  \A j \in Steps : j < k => \/ todo[j].op = "free"
                            \/ todo[j].op = "drop" /\ todo[j].at \in Location

(* A slot of an object that a step fills is in use, and a variable outside *)
(* the containers keeps the object until then.                             *)
SlotsFilled ==
  \A k \in Steps, o \in Obj, i \in Places :
    todo[k].op = "share" /\ todo[k].at = Slot(o, i) =>
      /\ OnlyDrops(k)
      /\ \E l \in Root : val[l] = o /\ ~Dropped(l, k) /\ i < size[o]

(* A value that was read before the steps and is copied after others of    *)
(* them (the element of INDEX) is kept in a container until then.          *)
PutsHeld ==
  \A k \in Steps : todo[k].op = "put" /\ todo[k].value # Null =>
    /\ OnlyDrops(k)
    /\ \E l \in Root, o \in Obj, i \in Places :
         /\ val[l] = o /\ ~Dropped(l, k) /\ i < size[o]
         /\ val[Slot(o, i)] = todo[k].value /\ ~Dropped(Slot(o, i), k)

(* When step k is made location c refers to o, now or by a copy made       *)
(* before it, and l outside the containers keeps o.                        *)
Refers(c, k, o) ==
  \E l \in Root :
    /\ val[l] = o /\ ~Dropped(l, k) /\ ~Dropped(c, k)
    /\ val[c] = o \/ \E j \in Steps : j < k /\ todo[j] = Share(l, c)

(* A container that a slot is added to is referred to and has room for it. *)
Extends ==
  \A k \in Steps : todo[k].op = "extend" =>
    /\ \E o \in Obj : /\ Refers(todo[k].at, k, o)
                      /\ size[o] < Width
                      /\ k = 2 /\ todo[1].op = "extend" => size[o] + 1 < Width
    /\ \A j \in Steps : j < k /\ todo[j].op = "extend" => k = 2 /\ todo[1].at = todo[2].at
    /\ \A j \in Steps : todo[j].op # "shrink"

(* A container that a slot is taken from is referred to, and that slot has *)
(* been released.                                                          *)
Shrinks ==
  \A k \in Steps : todo[k].op = "shrink" =>
    /\ \E o \in Obj : Refers(todo[k].at, k, o) /\ size[o] > 0 /\ Cleared(Slot(o, size[o] - 1), k)
    /\ \A j \in Steps : j # k => /\ todo[j].op \notin {"extend", "shrink"}
                                 /\ Fills(todo[j]) => todo[j].at \in Root

(* An object on its way to be freed is referred to by nothing, its slots   *)
(* are null by then, it is freed once; and an object that nothing refers   *)
(* to is on its way.                                                       *)
Frees ==
  /\ \A k \in Steps, o \in Obj : todo[k] = Free(o) =>
       o \in live /\ Holders(o) = {} /\ \A i \in Places : Cleared(Slot(o, i), k)
  /\ \A j, k \in Steps, o \in Obj : todo[j] = Free(o) /\ todo[k] = Free(o) => j = k
  /\ \A o \in live : Holders(o) = {} => \E k \in Steps : todo[k] = Free(o)

(* A call is the last step, within the deepest frame, and the location of  *)
(* its result is null by then.                                             *)
Enters ==
  \A k \in Steps : todo[k].op = "enter" =>
    /\ k = Len(todo) /\ depth < MaxDepth
    /\ depth = 0 => todo[k].nargs = 0 /\ val[Result] = Null
    /\ depth > 0 => /\ Cleared(Reg(depth, todo[k].dst), k)
                    /\ \A j \in Steps : Fills(todo[j]) => todo[j].at # Reg(depth, todo[k].dst)

(* Leaving a frame is the last step, and all of the frame is null by then. *)
Leaves ==
  \A k \in Steps : todo[k].op = "leave" =>
    /\ k = Len(todo) /\ depth > 0
    /\ \A r \in RegId : Cleared(Reg(depth, r), k)
    /\ \A i \in 0 .. Stack - 1 : Cleared(Stk(depth, i), k)
    /\ \A i \in 0 .. MaxArgs - 1 : val[Arg(depth, i)] = Null

(* The locations that are of no frame.                                     *)
Anywhere ==
  Slots \cup SlotNames \cup {Global(g) : g \in 1 .. Globals}
    \cup {Leaked(i) : i \in 0 .. MaxArgs - 1}

(* A step that empties place i of the vector of arguments: it is released, *)
(* or a call takes it.                                                     *)
Clears(s, i) == s = Drop(Arg(depth, i)) \/ (s.op = "enter" /\ i < s.nargs)

(* The locations that step k may put a variable in: those of the frame on  *)
(* top, and only where somebody releases them; when the frame is left, the *)
(* result only.                                                            *)
Local(l, k) ==
  \/ l \in Anywhere
  \/ Leaving /\ l = ResultOf(depth)
  \/ ~Leaving /\ \E r \in RegId : l = Reg(depth, r)
  \/ ~Leaving /\ \E i \in 0 .. Stack - 1 : i < sp[depth] /\ l = Stk(depth, i)
  \/ ~Leaving /\ \E i \in 0 .. MaxArgs - 1 :
                   l = Arg(depth, i) /\ \E m \in Steps : m > k /\ Clears(todo[m], i)

(* Every step that puts a variable somewhere puts it in such a place.      *)
FillsLocal == \A k \in Steps : Fills(todo[k]) => depth > 0 /\ Local(todo[k].at, k)

(* Frames above the one on top are null, so is a stack above its pointer,  *)
(* and the vector of arguments of a frame below belongs to the call that   *)
(* it makes.                                                               *)
Frames ==
  /\ \A f \in Frame : f > depth =>
       /\ \A r \in RegId : val[Reg(f, r)] = Null
       /\ \A i \in 0 .. MaxArgs - 1 : val[Arg(f, i)] = Null
       /\ sp[f] = 0
  /\ \A f \in Frame, i \in 0 .. Stack - 1 : i >= sp[f] => val[Stk(f, i)] = Null
  /\ \A f \in Frame, i \in 0 .. MaxArgs - 1 :
       f < depth /\ val[Arg(f, i)] # Null => i < call[f + 1].nargs
  /\ call[1].nargs = 0

(* Whatever is in the vector of arguments of the frame on top is on its    *)
(* way out.                                                                *)
ArgsCleared ==
  depth > 0 => \A i \in 0 .. MaxArgs - 1 :
    val[Arg(depth, i)] # Null => \E k \in Steps : Clears(todo[k], i)

(* The location that a frame's result will go to is null.                  *)
ResultsNull ==
  \A f \in 1 .. depth : f < depth \/ ~Leaving => val[ResultOf(f)] = Null

(* The inductive invariant.                                                *)
IInv ==
  /\ todo \in Seq(StepSet)
  /\ Heap /\ FillsApart /\ FillsCleared /\ SlotsOpen /\ SlotsFilled /\ PutsHeld
  /\ Extends /\ Shrinks /\ Frees /\ Enters /\ Leaves /\ FillsLocal
  /\ Frames /\ ArgsCleared /\ ResultsNull

-----------------------------------------------------------------------------
(* The first step is done and c steps take its place.                      *)
Moved(c) ==
  /\ todo # <<>> /\ todo \in Seq(StepSet) /\ todo' \in Seq(StepSet) /\ c \in Nat
  /\ Len(todo) \in Nat /\ Steps = 1 .. Len(todo) /\ Len(todo) >= 1
  /\ Steps' = 1 .. Len(todo') /\ Len(todo') = Len(todo) - 1 + c
  /\ \A k \in Steps' : k > c => todo'[k] = todo[k + 1 - c]
  /\ \A k \in Steps : k > 1 => todo'[k - 1 + c] = todo[k]

(* The elements of two sequences, one after the other.                     *)
LEMMA Concatenated ==
  ASSUME NEW S, NEW s \in Seq(S), NEW t \in Seq(S)
  PROVE  /\ s \o t \in Seq(S) /\ Len(s \o t) = Len(s) + Len(t) /\ DOMAIN (s \o t) = 1 .. Len(s) + Len(t)
         /\ \A k \in 1 .. Len(s) + Len(t) : (s \o t)[k] = IF k <= Len(s) THEN s[k] ELSE t[k - Len(s)]
OBVIOUS

(* What putting steps in front of the rest does to their places.           *)
LEMMA Moves ==
  ASSUME todo \in Seq(StepSet), todo # <<>>, NEW s \in Seq(StepSet), todo' = s \o Tail(todo)
  PROVE  Moved(Len(s)) /\ \A k \in 1 .. Len(s) : k \in Steps' /\ todo'[k] = s[k]
<1>1. /\ Len(s) \in Nat /\ Len(todo) \in Nat /\ Len(todo) >= 1 /\ Steps = 1 .. Len(todo)
      /\ Tail(todo) \in Seq(StepSet) /\ Len(Tail(todo)) = Len(todo) - 1
      /\ \A k \in 1 .. Len(todo) - 1 : Tail(todo)[k] = todo[k + 1]
  BY DEF Steps
<1> DEFINE t == Tail(todo)
<1> HIDE DEF t
<1>2. t \in Seq(StepSet) /\ Len(t) = Len(todo) - 1 /\ \A k \in 1 .. Len(todo) - 1 : t[k] = todo[k + 1]
  BY <1>1 DEF t
<1>3. /\ s \o t \in Seq(StepSet) /\ Len(s \o t) = Len(s) + Len(t) /\ DOMAIN (s \o t) = 1 .. Len(s) + Len(t)
      /\ \A k \in 1 .. Len(s) + Len(t) : (s \o t)[k] = IF k <= Len(s) THEN s[k] ELSE t[k - Len(s)]
  BY <1>2, Concatenated
<1>4. todo' = s \o t
  BY DEF t
<1>5. /\ todo' \in Seq(StepSet) /\ Steps' = 1 .. Len(todo') /\ Len(todo') = Len(todo) - 1 + Len(s)
      /\ \A k \in Steps' : todo'[k] = IF k <= Len(s) THEN s[k] ELSE t[k - Len(s)]
  BY <1>1, <1>2, <1>3, <1>4 DEF Steps
<1>6. \A k \in Steps' : k > Len(s) => todo'[k] = todo[k + 1 - Len(s)]
  <2> SUFFICES ASSUME NEW k \in Steps', k > Len(s) PROVE todo'[k] = todo[k + 1 - Len(s)]
    OBVIOUS
  <2>1. k - Len(s) \in 1 .. Len(todo) - 1 /\ (k - Len(s)) + 1 = k + 1 - Len(s)
    BY <1>1, <1>5
  <2> QED BY <1>1, <1>2, <1>5, <2>1
<1>7. \A k \in Steps : k > 1 => todo'[k - 1 + Len(s)] = todo[k]
  <2> SUFFICES ASSUME NEW k \in Steps, k > 1 PROVE todo'[k - 1 + Len(s)] = todo[k]
    OBVIOUS
  <2>1. k - 1 + Len(s) \in Steps' /\ k - 1 + Len(s) > Len(s) /\ (k - 1 + Len(s)) + 1 - Len(s) = k
    BY <1>1, <1>5
  <2> QED BY <1>6, <2>1
<1>8. \A k \in 1 .. Len(s) : k \in Steps' /\ todo'[k] = s[k]
  BY <1>1, <1>5
<1> QED BY <1>1, <1>5, <1>6, <1>7, <1>8 DEF Moved

(* A step that stays in its frame: only a release puts steps in front, and *)
(* those release slots and free an object.                                 *)
Effect(c) ==
  /\ Moved(c) /\ UNCHANGED <<depth, sp, call>>
  /\ \A k \in 1 .. c : todo'[k].op = "free" \/ \E l \in Slots : todo'[k] = Drop(l)
  /\ c > 0 => todo[1].op = "drop"
  /\ todo[1].op \notin {"enter", "leave"}

(* What is in memory. *)
Memory(c) ==
  /\ \A l \in Root : val[l] # Null /\ todo[1] # Drop(l) => val'[l] = val[l]
  /\ \A l \in Location : todo[1] = Drop(l) => val'[l] = Null
  /\ \A l \in Location :
       \/ val'[l] = val[l] \/ val'[l] = Null
       \/ Fills(todo[1]) /\ todo[1].at = l
       \/ \E m \in Registers, i \in Places :
            /\ Fills(todo[1]) /\ todo[1].at = SlotOf(m, i)
            /\ val[m] \in Obj /\ l = Slot(val[m], i)
       \/ todo[1].op = "extend" /\ l \in Slots
  /\ \A o \in Obj, i \in Places :
       \/ val'[Slot(o, i)] = val[Slot(o, i)] \/ val'[Slot(o, i)] = Null
       \/ Holders(o) # {}
  /\ \A l \in Slots : val'[l] = val[l] \/ todo[1] = Drop(l) \/ ~ OnlyDrops(2)
  /\ \A l, m : todo[1] = Share(l, m) /\ m \in Root => val'[m] = val[l]
  /\ todo[1].op = "new" =>
       /\ val'[todo[1].at] \in Obj /\ size'[val'[todo[1].at]] = todo[1].slots
       /\ \A i \in Places : val'[Slot(val'[todo[1].at], i)] = Null

(* Which objects there are. *)
Objects(c) ==
  /\ \A o \in live : todo[1] # Free(o) => o \in live'
  /\ \A o \in live : Holders(o) = {} => Holders(o)' = {}
  /\ \A o \in live' : Holders(o)' = {} =>
       \/ o \in live /\ Holders(o) = {} /\ todo[1] # Free(o)
       \/ \E k \in 1 .. c : todo'[k] = Free(o)
  /\ \A o \in Obj : Holders(o) # {} /\ todo[1].op \notin {"extend", "shrink"} => size'[o] = size[o]
  /\ todo[1].op = "extend" => size'[val[todo[1].at]] = size[val[todo[1].at]] + 1
  /\ \A k \in 1 .. c, o \in Obj : todo'[k] = Free(o) =>
       /\ k = c /\ o \in live' /\ Holders(o) # {} /\ Holders(o)' = {}
       /\ \A i \in Places : Cleared(Slot(o, i), c)'
  /\ \A k \in 1 .. c, o \in Obj, i \in Places : todo'[k] = Drop(Slot(o, i)) => Holders(o)' = {}

(* Where a step that is pending was before. *)
LEMMA Before ==
  ASSUME NEW c, Effect(c), NEW k \in Steps', k > c
  PROVE  /\ k + 1 - c \in Steps /\ k + 1 - c > 1 /\ todo'[k] = todo[k + 1 - c]
         /\ \A j \in Steps : j > 1 /\ j < k + 1 - c =>
              j - 1 + c \in Steps' /\ j - 1 + c < k /\ j - 1 + c > c /\ todo'[j - 1 + c] = todo[j]
         /\ \A j \in Steps' : j > c /\ j < k =>
              j + 1 - c \in Steps /\ j + 1 - c > 1 /\ j + 1 - c < k + 1 - c /\ todo'[j] = todo[j + 1 - c]
         /\ 1 \in Steps /\ 1 < k + 1 - c
BY DEF Effect, Moved

(* Where a step that was pending is now.                                   *)
LEMMA After ==
  ASSUME NEW c, Effect(c), NEW k \in Steps, k > 1
  PROVE  k - 1 + c \in Steps' /\ k - 1 + c > c /\ todo'[k - 1 + c] = todo[k]
         /\ (k - 1 + c) + 1 - c = k
BY DEF Effect, Moved

(* A location that is not released before a pending step is not released   *)
(* before it now.                                                          *)
LEMMA DroppedBefore ==
  ASSUME NEW c, Effect(c), NEW k \in Steps', k > c, NEW l \in Location, ~Dropped(l, k + 1 - c),
         \A j \in 1 .. c : todo'[j] # Drop(l)
  PROVE  ~Dropped(l, k)' /\ todo[1] # Drop(l)
<1>1. todo[1] # Drop(l)
  BY Before DEF Dropped
<1>2. ASSUME NEW j \in Steps', j < k PROVE todo'[j] # Drop(l)
  <2>1. CASE j > c
    BY <1>2, <2>1, Before DEF Dropped
  <2>2. CASE j <= c
    BY <2>2 DEF Effect, Moved
  <2> QED BY <2>1, <2>2 DEF Effect, Moved
<1> QED BY <1>1, <1>2 DEF Dropped

(* A location that is null by the time of a pending step still is.         *)
LEMMA ClearedBefore ==
  ASSUME NEW c, Effect(c), NEW k \in Steps', k > c, NEW l \in Location, Cleared(l, k + 1 - c),
         val'[l] = val[l] \/ val'[l] = Null, todo[1] = Drop(l) => val'[l] = Null
  PROVE  Cleared(l, k)'
<1>1. CASE val'[l] = Null
  BY <1>1 DEF Cleared
<1>2. CASE val'[l] # Null
  <2>1. PICK j \in Steps : j < k + 1 - c /\ todo[j] = Drop(l)
    BY <1>2 DEF Cleared, Dropped
  <2>2. j > 1
    BY <1>2, <2>1 DEF Effect, Moved
  <2> QED BY <2>1, <2>2, Before DEF Cleared, Dropped
<1> QED BY <1>1, <1>2

(* The steps put in front are neither of these. *)
LEMMA Fronts ==
  ASSUME NEW c, Effect(c), NEW j \in 1 .. c
  PROVE  /\ todo'[j].op \in {"drop", "free"} /\ ~Fills(todo'[j])
         /\ todo'[j].op = "drop" => todo'[j].at \in Slots
         /\ \A l \in Root : todo'[j] # Drop(l)
<1>1. todo'[j].op = "free" \/ \E l \in Slots : todo'[j] = Drop(l)
  BY DEF Effect
<1>2. \A l \in Root : l \notin Slots
  BY DEF Root
<1> QED BY <1>1, <1>2, Constructed DEF Fills

(* What every step but DoEnter and DoLeave does, begun in a state where    *)
(* IInv holds.                                                             *)
Carried(c) == IInv /\ Effect(c) /\ Memory(c) /\ Objects(c)

(* A step that is neither a release nor a free was pending before.         *)
LEMMA NotInFront ==
  ASSUME NEW c, Effect(c), NEW k \in Steps', todo'[k].op \notin {"drop", "free"} \/ Fills(todo'[k])
  PROVE  k > c
<1> SUFFICES ASSUME k <= c PROVE FALSE
  BY DEF Effect, Moved
<1>1. k \in 1 .. c
  BY DEF Effect, Moved
<1> QED BY <1>1, Fronts

(* Steps that fill are the ones that were pending, so they stay apart.     *)
LEMMA FillsApartKept == ASSUME NEW c, Carried(c) PROVE FillsApart'
<1> SUFFICES ASSUME NEW j \in Steps', NEW k \in Steps', j # k, Fills(todo'[j]), Fills(todo'[k])
             PROVE  todo'[j].at # todo'[k].at
  BY DEF FillsApart, Fills
<1>1. Effect(c) /\ FillsApart
  BY DEF Carried, IInv
<1>2. j > c /\ k > c
  BY <1>1, NotInFront
<1>3. j + 1 - c \in Steps /\ k + 1 - c \in Steps /\ j + 1 - c # k + 1 - c
  BY <1>1, <1>2, Before DEF Effect, Moved
<1>4. todo'[j] = todo[j + 1 - c] /\ todo'[k] = todo[k + 1 - c]
  BY <1>1, <1>2, Before
<1> QED BY <1>1, <1>3, <1>4 DEF FillsApart

(* A variable outside the containers that is not null is only changed by a *)
(* release of it.                                                          *)
LEMMA RootKept ==
  ASSUME NEW c, Carried(c), NEW k \in Steps', k > c, NEW l \in Root, val[l] # Null,
         ~Dropped(l, k + 1 - c)
  PROVE  val'[l] = val[l] /\ ~Dropped(l, k)'
<1>1. l \in Location /\ l \notin Slots
  BY DEF Root
<1>2. ~Dropped(l, k)' /\ todo[1] # Drop(l)
  <2>1. \A j \in 1 .. c : todo'[j] # Drop(l)
    BY Fronts DEF Carried
  <2> QED BY <1>1, <2>1, DroppedBefore DEF Carried
<1> QED BY <1>2 DEF Carried, Memory

(* An object that a variable outside the containers refers to stays.       *)
LEMMA HeldKept ==
  ASSUME NEW c, Carried(c), NEW l \in Root, NEW o \in Obj, val[l] = o
  PROVE  /\ Holders(o) # {} /\ o \in live
         /\ todo[1].op \notin {"extend", "shrink"} => size'[o] = size[o]
         /\ \A j \in 1 .. c, i \in Places :
              val'[l] = o => todo'[j] # Drop(Slot(o, i)) /\ todo'[j] # Free(o)
<1>1. l \in Location /\ l \in Holders(o)
  BY DEF Root, Holders
<1>2. o \in live
  <2>1. NoDangling
    BY DEF Carried, IInv, Heap
  <2> QED BY <1>1, <2>1, Numbers DEF NoDangling
<1>3. val'[l] = o => Holders(o)' # {}
  BY <1>1 DEF Holders
<1>4. Objects(c)
  BY DEF Carried
<1> QED BY <1>1, <1>2, <1>3, <1>4 DEF Objects

(* A location that is to be filled is not filled by another step, so it    *)
(* stays null or is still released first.                                  *)
LEMMA FillsClearedKept == ASSUME NEW c, Carried(c) PROVE FillsCleared'
<1> SUFFICES ASSUME NEW k \in Steps', Fills(todo'[k]), todo'[k].at \in Location
             PROVE  Cleared(todo[k].at, k)'
  BY DEF FillsCleared, Fills
<1>1. Effect(c) /\ FillsApart /\ FillsCleared /\ SlotsFilled /\ Memory(c)
  BY DEF Carried, IInv
<1>2. k > c
  BY <1>1, NotInFront
<1> DEFINE K == k + 1 - c
<1>0. PICK l \in Location : l = todo'[k].at
  OBVIOUS
<1>3. /\ K \in Steps /\ K > 1 /\ 1 \in Steps /\ todo'[k] = todo[K] /\ Fills(todo[K])
      /\ l = todo[K].at
  BY <1>0, <1>1, <1>2, Before
<1>4. Cleared(l, K) /\ (Fills(todo[1]) => todo[1].at # l)
  BY <1>1, <1>3 DEF FillsCleared, FillsApart
<1>5. val'[l] = val[l] \/ val'[l] = Null
  <2>1. CASE l \in Slots
    <3>1. PICK o \in Obj, i \in Places : l = Slot(o, i)
      BY <2>1 DEF Slots, Places
    <3>2. todo[K].op = "share"
      <4>1. todo[K] \in StepSet /\ \A r \in Root : r \notin Slots
        BY <1>1, <1>3 DEF Effect, Moved, Root, Steps
      <4> QED BY <1>3, <2>1, <4>1, Shapes DEF Fills
    <3>3. OnlyDrops(K)
      BY <1>1, <1>3, <3>1, <3>2 DEF SlotsFilled
    <3>4. ~Fills(todo[1]) /\ todo[1].op # "extend"
      BY <1>3, <3>3 DEF OnlyDrops, Fills
    <3> QED BY <1>1, <1>3, <3>4 DEF Memory
  <2>2. CASE l \notin Slots
    <3>1. \A o \in Obj, i \in Places : l # Slot(o, i)
      BY <2>2 DEF Slots, Places
    <3> QED BY <1>1, <1>3, <1>4, <2>2, <3>1 DEF Memory
  <2> QED BY <2>1, <2>2
<1>6. todo[1] = Drop(l) => val'[l] = Null
  BY <1>1, <1>3 DEF Memory
<1>7. Cleared(l, k)'
  BY <1>1, <1>2, <1>3, <1>4, <1>5, <1>6, ClearedBefore
<1> QED BY <1>0, <1>7 DEF Cleared, Dropped

(* The container whose slots are named stays in its register, with its     *)
(* slots.                                                                  *)
LEMMA SlotsOpenKept == ASSUME NEW c, Carried(c) PROVE SlotsOpen'
<1> SUFFICES ASSUME NEW k \in Steps', NEW l \in Registers, NEW i \in Places,
                    todo'[k].op \in {"drop", "share"}, todo'[k].at = SlotOf(l, i)
             PROVE  /\ SlotOpen(l, i, k)'
                    /\ \A j \in Steps' : j < k =>
                         /\ todo'[j].op \in {"drop", "share", "put", "new", "free"}
                         /\ Fills(todo'[j]) => todo'[j].at \in Root \cup {SlotOf(l, m) : m \in Places}
  BY DEF SlotsOpen, Fills
<1> DEFINE K == k + 1 - c
<1>1. Effect(c) /\ FillsApart /\ SlotsOpen /\ Memory(c)
  BY DEF Carried, IInv
<1>2. SlotOf(l, i) \in SlotNames /\ SlotOf(l, i) \notin Location /\ l \in Root
  <2>1. l \in Location /\ l \notin Slots
    BY Locations DEF Registers
  <2> QED BY <2>1, Named DEF SlotNames, Places, Root
<1>3. k > c
  <2>1. \A j \in 1 .. c : todo'[j].op # "share" /\ (todo'[j].op = "drop" => todo'[j].at # SlotOf(l, i))
    BY <1>1, <1>2, Fronts, Locations
  <2> QED BY <1>1, <2>1 DEF Effect, Moved
<1>4. /\ K \in Steps /\ K > 1 /\ 1 \in Steps /\ todo'[k] = todo[K]
      /\ todo[K].op \in {"drop", "share"} /\ todo[K].at = SlotOf(l, i)
  BY <1>1, <1>3, Before
<1>5. /\ SlotOpen(l, i, K)
      /\ \A j \in Steps : j < K =>
           /\ todo[j].op \in {"drop", "share", "put", "new", "free"}
           /\ Fills(todo[j]) => todo[j].at \in Root \cup {SlotOf(l, m) : m \in Places}
  BY <1>1, <1>4 DEF SlotsOpen
<1>6. ASSUME NEW j \in Steps', j < k
      PROVE  /\ todo'[j].op \in {"drop", "share", "put", "new", "free"}
             /\ Fills(todo'[j]) => todo'[j].at \in Root \cup {SlotOf(l, m) : m \in Places}
  <2>1. CASE j > c
    <3>1. j + 1 - c \in Steps /\ j + 1 - c < K /\ todo'[j] = todo[j + 1 - c]
      BY <1>1, <1>3, <1>6, <2>1, Before
    <3> QED BY <1>5, <3>1
  <2>2. CASE j <= c
    <3>1. j \in 1 .. c
      BY <1>1, <2>2 DEF Effect, Moved
    <3> QED BY <1>1, <3>1, Fronts
  <2> QED BY <1>1, <2>1, <2>2 DEF Effect, Moved
<1>7. ASSUME NEW j \in Steps, j < K, todo[j].op = "new", todo[j].at = l, i < todo[j].slots,
             \A m \in Steps : j < m /\ m < K => todo[m] # Drop(l)
      PROVE  SlotOpen(l, i, k)'
  <2>1. CASE j = 1
    <3>1. /\ val'[l] \in Obj /\ i < size'[val'[l]] /\ val'[Slot(val'[l], i)] = Null
      BY <1>1, <1>7, <2>1 DEF Memory
    <3>2. ~Dropped(l, k)'
      <4> SUFFICES ASSUME NEW m \in Steps', m < k PROVE todo'[m] # Drop(l)
        BY DEF Dropped
      <4>1. m > c
        BY <1>1, <1>7, <2>1 DEF Effect, Moved
      <4>2. m + 1 - c \in Steps /\ 1 < m + 1 - c /\ m + 1 - c < K /\ todo'[m] = todo[m + 1 - c]
        BY <1>1, <1>3, <4>1, Before
      <4> QED BY <1>7, <2>1, <4>2
    <3> QED BY <3>1, <3>2 DEF SlotOpen
  <2>2. CASE j # 1
    <3>1. j > 1
      BY <1>1, <2>2 DEF Effect, Moved
    <3> DEFINE J == j - 1 + c
    <3>2. J \in Steps' /\ J < k /\ J > c /\ todo'[J] = todo[j]
      BY <1>1, <1>3, <1>7, <3>1, Before
    <3>3. \A m \in Steps' : J < m /\ m < k => todo'[m] # Drop(l)
      <4> SUFFICES ASSUME NEW m \in Steps', J < m, m < k PROVE todo'[m] # Drop(l)
        OBVIOUS
      <4>1. m > c
        BY <1>1, <3>1 DEF Effect, Moved
      <4>2. m + 1 - c \in Steps /\ m + 1 - c < K /\ todo'[m] = todo[m + 1 - c]
        BY <1>1, <1>3, <4>1, Before
      <4>3. j < m + 1 - c
        BY <1>1 DEF Effect, Moved
      <4> QED BY <1>7, <4>2, <4>3
    <3> HIDE DEF J
    <3> QED BY <1>7, <3>2, <3>3 DEF SlotOpen
  <2> QED BY <2>1, <2>2
<1>8. ASSUME NEW o \in Obj, val[l] = o, ~Dropped(l, K), i < size[o],
             todo[K].op = "share" => val[Slot(o, i)] = Null
      PROVE  SlotOpen(l, i, k)'
  <2>1. val'[l] = o /\ ~Dropped(l, k)'
    BY <1>2, <1>3, <1>8, RootKept, Numbers
  <2>2. size'[o] = size[o]
    BY <1>2, <1>4, <1>5, <1>8, HeldKept
  <2>3. ASSUME todo[K].op = "share" PROVE val'[Slot(o, i)] = Null
    <3>1. Slot(o, i) \in Location /\ Slot(o, i) \in Slots /\ Slot(o, i) \notin Root
      BY Locations DEF Slots, Places, Root
    <3>2. \A m \in Places : SlotOf(l, m) \in SlotNames /\ SlotOf(l, m) \notin Location
      BY Named DEF SlotNames, Places
    <3>3. Fills(todo[1]) => todo[1].at \in Root \cup {SlotOf(l, m) : m \in Places}
      BY <1>4, <1>5
    <3>4. Fills(todo[1]) => todo[1].at # SlotOf(l, i)
      BY <1>1, <1>4, <2>3 DEF FillsApart, Fills
    <3>5. ~(Fills(todo[1]) /\ todo[1].at = Slot(o, i))
      BY <3>1, <3>2, <3>3
    <3>6. ASSUME NEW m \in Registers, NEW n \in Places, Fills(todo[1]), todo[1].at = SlotOf(m, n),
                 Slot(o, i) = Slot(val[m], n)
          PROVE  FALSE
      <4>1. n = i
        BY <3>6, Distinct
      <4>2. SlotOf(m, n) \notin Location
        BY Named DEF SlotNames, Places
      <4>3. PICK q \in Places : SlotOf(m, n) = SlotOf(l, q)
        BY <3>3, <3>6, <4>2 DEF Root
      <4>4. m = l
        BY <4>3, Distinct
      <4> QED BY <3>4, <3>6, <4>1, <4>4
    <3>7. todo[1].op # "extend"
      BY <1>4, <1>5
    <3>8. val[Slot(o, i)] = Null
      BY <1>8, <2>3
    <3> QED BY <1>1, <3>1, <3>5, <3>6, <3>7, <3>8 DEF Memory
  <2> QED BY <1>4, <1>8, <2>1, <2>2, <2>3 DEF SlotOpen
<1>9. SlotOpen(l, i, k)'
  BY <1>5, <1>7, <1>8 DEF SlotOpen
<1> QED BY <1>6, <1>9

(* The steps put in front only release and free.                           *)
LEMMA OnlyDropsKept ==
  ASSUME NEW c, Effect(c), NEW k \in Steps', k > c, OnlyDrops(k + 1 - c)
  PROVE  OnlyDrops(k)'
<1> SUFFICES ASSUME NEW j \in Steps', j < k
             PROVE  todo'[j].op = "free" \/ (todo'[j].op = "drop" /\ todo'[j].at \in Location)
  BY DEF OnlyDrops
<1>1. CASE j > c
  BY <1>1, Before DEF OnlyDrops
<1>2. CASE j <= c
  <2>1. j \in 1 .. c
    BY <1>2 DEF Effect, Moved
  <2> QED BY <2>1, Fronts, Locations
<1> QED BY <1>1, <1>2 DEF Effect, Moved

(* The object whose slot is filled is kept by the same variable.           *)
LEMMA SlotsFilledKept == ASSUME NEW c, Carried(c) PROVE SlotsFilled'
<1> SUFFICES ASSUME NEW k \in Steps', NEW o \in Obj, NEW i \in Places,
                    todo'[k].op = "share", todo'[k].at = Slot(o, i)
             PROVE  /\ OnlyDrops(k)'
                    /\ \E l \in Root : val'[l] = o /\ ~Dropped(l, k)' /\ i < size'[o]
  BY DEF SlotsFilled
<1>1. Effect(c) /\ SlotsFilled
  BY DEF Carried, IInv
<1>2. k > c
  BY <1>1, NotInFront
<1> DEFINE K == k + 1 - c
<1>3. K \in Steps /\ 1 \in Steps /\ 1 < K /\ todo'[k] = todo[K]
  BY <1>1, <1>2, Before
<1>4. /\ OnlyDrops(K)
      /\ \E l \in Root : val[l] = o /\ ~Dropped(l, K) /\ i < size[o]
  BY <1>1, <1>3 DEF SlotsFilled
<1>5. PICK l \in Root : val[l] = o /\ ~Dropped(l, K) /\ i < size[o]
  BY <1>4
<1>6. OnlyDrops(k)'
  BY <1>1, <1>2, <1>4, OnlyDropsKept
<1>7. val'[l] = o /\ ~Dropped(l, k)'
  BY <1>2, <1>5, RootKept, Numbers
<1>8. size'[o] = size[o]
  BY <1>3, <1>4, <1>5, HeldKept DEF OnlyDrops
<1> QED BY <1>5, <1>6, <1>7, <1>8

(* A value that is to be copied stays in its container, and the container  *)
(* stays.                                                                  *)
LEMMA PutsHeldKept == ASSUME NEW c, Carried(c) PROVE PutsHeld'
<1> SUFFICES ASSUME NEW k \in Steps', todo'[k].op = "put", todo'[k].value # Null
             PROVE  /\ OnlyDrops(k)'
                    /\ \E l \in Root, o \in Obj, i \in Places :
                         /\ val'[l] = o /\ ~Dropped(l, k)' /\ i < size'[o]
                         /\ val'[Slot(o, i)] = todo'[k].value /\ ~Dropped(Slot(o, i), k)'
  BY DEF PutsHeld
<1>1. Effect(c) /\ PutsHeld /\ Memory(c)
  BY DEF Carried, IInv
<1>2. k > c
  BY <1>1, NotInFront
<1> DEFINE K == k + 1 - c
<1>3. K \in Steps /\ 1 \in Steps /\ 1 < K /\ K \in Nat /\ todo'[k] = todo[K]
  BY <1>1, <1>2, Before DEF Effect, Moved
<1>4. OnlyDrops(K)
  BY <1>1, <1>3 DEF PutsHeld
<1>5. PICK l \in Root, o \in Obj, i \in Places :
        /\ val[l] = o /\ ~Dropped(l, K) /\ i < size[o]
        /\ val[Slot(o, i)] = todo[K].value /\ ~Dropped(Slot(o, i), K)
  BY <1>1, <1>3 DEF PutsHeld
<1>6. OnlyDrops(k)'
  BY <1>1, <1>2, <1>4, OnlyDropsKept
<1>7. val'[l] = o /\ ~Dropped(l, k)'
  BY <1>2, <1>5, RootKept, Numbers
<1>8. size'[o] = size[o]
  BY <1>3, <1>4, <1>5, HeldKept DEF OnlyDrops
<1>9. ~Dropped(Slot(o, i), k)' /\ todo[1] # Drop(Slot(o, i))
  <2>1. \A j \in 1 .. c : todo'[j] # Drop(Slot(o, i))
    BY <1>5, <1>7, HeldKept
  <2>2. Slot(o, i) \in Location
    BY Locations DEF Slots, Places
  <2> QED BY <1>1, <1>2, <1>5, <2>1, <2>2, DroppedBefore
<1>10. val'[Slot(o, i)] = val[Slot(o, i)]
  <2>1. OnlyDrops(2)
    BY <1>1, <1>3, <1>4 DEF OnlyDrops, Effect, Moved
  <2>2. Slot(o, i) \in Slots
    BY DEF Slots, Places
  <2> QED BY <1>1, <1>9, <2>1, <2>2 DEF Memory
<1> QED BY <1>3, <1>5, <1>6, <1>7, <1>8, <1>9, <1>10

(* What step k refers to stays, by the same variable.                      *)
LEMMA RefersKept ==
  ASSUME NEW c, Carried(c), NEW k \in Steps', k > c, NEW e \in Root, NEW o \in Obj,
         Refers(e, k + 1 - c, o)
  PROVE  Refers(e, k, o)'
<1> DEFINE K == k + 1 - c
<1>1. Effect(c) /\ Memory(c)
  BY DEF Carried
<1>2. PICK l \in Root :
        /\ val[l] = o /\ ~Dropped(l, K) /\ ~Dropped(e, K)
        /\ val[e] = o \/ \E j \in Steps : j < K /\ todo[j] = Share(l, e)
  BY DEF Refers
<1>3. val'[l] = o /\ ~Dropped(l, k)'
  BY <1>2, RootKept, Numbers
<1>4. ~Dropped(e, k)'
  <2>1. \A j \in 1 .. c : todo'[j] # Drop(e)
    BY <1>1, Fronts
  <2>2. e \in Location
    BY DEF Root
  <2> QED BY <1>1, <1>2, <2>1, <2>2, DroppedBefore
<1>5. val'[e] = o \/ \E j \in Steps' : j < k /\ todo'[j] = Share(l, e)
  <2>1. CASE val[e] = o
    BY <1>2, <2>1, RootKept, Numbers
  <2>2. ASSUME NEW j \in Steps, j < K, todo[j] = Share(l, e)
        PROVE  val'[e] = o \/ \E m \in Steps' : m < k /\ todo'[m] = Share(l, e)
    <3>1. CASE j = 1
      BY <1>1, <1>2, <2>2, <3>1 DEF Memory
    <3>2. CASE j # 1
      <4>1. j > 1
        BY <1>1, <3>2 DEF Effect, Moved
      <4>2. j - 1 + c \in Steps' /\ j - 1 + c < k /\ todo'[j - 1 + c] = todo[j]
        BY <1>1, <2>2, <4>1, Before
      <4> QED BY <2>2, <4>2
    <3> QED BY <3>1, <3>2
  <2> QED BY <1>2, <2>1, <2>2
<1> QED BY <1>3, <1>4, <1>5 DEF Refers

(* A container that is to grow stays, and has room left after the first of *)
(* two appends.                                                            *)
LEMMA ExtendsKept == ASSUME NEW c, Carried(c) PROVE Extends'
<1> SUFFICES ASSUME NEW k \in Steps', todo'[k].op = "extend"
             PROVE  /\ \E o \in Obj : /\ Refers(todo[k].at, k, o)'
                                      /\ size'[o] < Width
                                      /\ k = 2 /\ todo'[1].op = "extend" => size'[o] + 1 < Width
                    /\ \A j \in Steps' : j < k /\ todo'[j].op = "extend" => k = 2 /\ todo'[1].at = todo'[2].at
                    /\ \A j \in Steps' : todo'[j].op # "shrink"
  BY DEF Extends
<1>1. Effect(c) /\ Extends /\ Objects(c)
  BY DEF Carried, IInv
<1>2. k > c
  BY <1>1, NotInFront
<1> DEFINE K == k + 1 - c
<1>3. /\ K \in Steps /\ 1 \in Steps /\ 1 < K /\ K \in Nat /\ k \in Nat /\ c \in Nat /\ todo'[k] = todo[K]
      /\ todo[K].op = "extend" /\ K = k + 1 - c
  BY <1>1, <1>2, Before DEF Effect, Moved
<1>0. PICK e \in Root : e = todo[K].at
  <2>1. todo[K] \in StepSet
    BY <1>1, <1>3 DEF Effect, Moved, Steps
  <2> QED BY <1>3, <2>1, Shapes
<1>4. /\ \E o \in Obj : /\ Refers(e, K, o) /\ size[o] < Width
                        /\ K = 2 /\ todo[1].op = "extend" => size[o] + 1 < Width
      /\ \A j \in Steps : j < K /\ todo[j].op = "extend" => K = 2 /\ todo[1].at = todo[2].at
      /\ \A j \in Steps : todo[j].op # "shrink"
  BY <1>0, <1>1, <1>3 DEF Extends
<1>5. PICK o \in Obj : /\ Refers(e, K, o) /\ size[o] < Width
                       /\ K = 2 /\ todo[1].op = "extend" => size[o] + 1 < Width
  BY <1>4
<1> HIDE DEF K
<1>6. Refers(e, k, o)'
  BY <1>2, <1>3, <1>5, RefersKept
<1>7. size'[o] < Width
  <2>1. CASE todo[1].op = "extend"
    <3>1. K = 2 /\ todo[1].at = e
      BY <1>0, <1>3, <1>4, <2>1
    <3>2. \A l : todo[1] # Share(l, e)
      BY <2>1, Constructed
    <3>3. val[e] = o
      <4>1. \A j \in Steps : j < 2 => j = 1
        BY <1>1 DEF Effect, Moved
      <4> QED BY <1>5, <3>1, <3>2, <4>1 DEF Refers
    <3>4. size'[o] = size[o] + 1
      BY <1>1, <2>1, <3>1, <3>3 DEF Objects
    <3> QED BY <1>5, <2>1, <3>1, <3>4
  <2>2. CASE todo[1].op # "extend"
    <3>1. PICK l \in Root : val[l] = o
      BY <1>5 DEF Refers
    <3>2. todo[1].op # "shrink"
      BY <1>3, <1>4
    <3> QED BY <1>5, <2>2, <3>1, <3>2, HeldKept
  <2> QED BY <2>1, <2>2
<1>8. ASSUME NEW j \in Steps', j < k, todo'[j].op = "extend" PROVE FALSE
  <2>1. j > c
    BY <1>1, <1>8, NotInFront
  <2>2. j + 1 - c \in Steps /\ j + 1 - c > 1 /\ j + 1 - c < k + 1 - c /\ todo'[j] = todo[j + 1 - c]
    BY <1>1, <1>2, <1>8, <2>1, Before
  <2>3. K = 2
    BY <1>3, <1>4, <1>8, <2>2
  <2> QED BY <1>1, <1>3, <1>8, <2>1, <2>3 DEF Effect, Moved
<1>9. ASSUME NEW j \in Steps' PROVE todo'[j].op # "shrink"
  <2>1. CASE j > c
    <3>1. j + 1 - c \in Steps /\ todo'[j] = todo[j + 1 - c]
      BY <1>1, <2>1 DEF Effect, Moved
    <3> QED BY <1>4, <3>1
  <2>2. CASE j <= c
    <3>1. j \in 1 .. c
      BY <1>1, <2>2 DEF Effect, Moved
    <3> QED BY <1>1, <3>1, Fronts
  <2> QED BY <1>1, <2>1, <2>2 DEF Effect, Moved
<1>10. Refers(todo[k].at, k, o)'
  BY <1>0, <1>3, <1>6 DEF Refers, Dropped
<1>11. k = 2 => 1 \in Steps' /\ 1 < k
  BY <1>1 DEF Effect, Moved
<1> QED BY <1>7, <1>8, <1>9, <1>10, <1>11, <1>1 DEF Effect, Moved

(* A container that is to lose its last slot keeps it null.                *)
LEMMA ShrinksKept == ASSUME NEW c, Carried(c) PROVE Shrinks'
<1> SUFFICES ASSUME NEW k \in Steps', todo'[k].op = "shrink"
             PROVE  /\ \E o \in Obj : /\ Refers(todo[k].at, k, o)' /\ size'[o] > 0
                                      /\ Cleared(Slot(o, size[o] - 1), k)'
                    /\ \A j \in Steps' : j # k => /\ todo'[j].op \notin {"extend", "shrink"}
                                                  /\ Fills(todo'[j]) => todo'[j].at \in Root
  BY DEF Shrinks, Fills
<1>1. Effect(c) /\ Shrinks /\ Memory(c)
  BY DEF Carried, IInv
<1>2. k > c
  BY <1>1, NotInFront
<1> DEFINE K == k + 1 - c
<1>3. /\ K \in Steps /\ 1 \in Steps /\ 1 # K /\ todo'[k] = todo[K] /\ todo[K].op = "shrink" /\ K = k + 1 - c
  BY <1>1, <1>2, Before
<1> HIDE DEF K
<1>0. PICK e \in Root : e = todo[K].at
  <2>1. todo[K] \in StepSet
    BY <1>1, <1>3 DEF Effect, Moved, Steps
  <2> QED BY <1>3, <2>1, Shapes
<1>4. /\ \E o \in Obj : Refers(e, K, o) /\ size[o] > 0 /\ Cleared(Slot(o, size[o] - 1), K)
      /\ \A j \in Steps : j # K => /\ todo[j].op \notin {"extend", "shrink"}
                                   /\ Fills(todo[j]) => todo[j].at \in Root
  BY <1>0, <1>1, <1>3 DEF Shrinks
<1>5. PICK o \in Obj : Refers(e, K, o) /\ size[o] > 0 /\ Cleared(Slot(o, size[o] - 1), K)
  BY <1>4
<1>6. Refers(e, k, o)'
  BY <1>2, <1>3, <1>5, RefersKept
<1>7. size'[o] = size[o]
  <2>1. PICK l \in Root : val[l] = o
    BY <1>5 DEF Refers
  <2> QED BY <1>3, <1>4, <2>1, HeldKept
<1>8. PICK w \in Slots : w = Slot(o, size[o] - 1)
  <2>1. size[o] \in 0 .. Width
    BY DEF Carried, IInv, Heap, TypeOK
  <2>2. size[o] - 1 \in 0 .. Width - 1
    BY <1>5, <2>1, Numbers
  <2> QED BY <2>2 DEF Slots
<1>9. Cleared(w, k)'
  <2>1. Fills(todo[1]) => todo[1].at \in Root
    BY <1>3, <1>4
  <2>2. w \notin Root /\ w \in Location /\ \A m \in Registers, i \in Places : SlotOf(m, i) \notin Root
    BY <1>8, Locations, Named DEF Root, SlotNames, Places
  <2>3. todo[1].op # "extend"
    BY <1>3, <1>4
  <2>4. val'[w] = val[w] \/ val'[w] = Null
    BY <1>1, <2>1, <2>2, <2>3 DEF Memory
  <2>5. todo[1] = Drop(w) => val'[w] = Null
    BY <1>1, <2>2 DEF Memory
  <2>6. Cleared(w, K)
    BY <1>5, <1>8
  <2> QED BY <1>1, <1>2, <1>3, <2>2, <2>4, <2>5, <2>6, ClearedBefore
<1>10. ASSUME NEW j \in Steps', j # k
       PROVE  /\ todo'[j].op \notin {"extend", "shrink"}
              /\ Fills(todo'[j]) => todo'[j].at \in Root
  <2>1. CASE j > c
    <3>1. j + 1 - c \in Steps /\ todo'[j] = todo[j + 1 - c] /\ j + 1 - c # K
      BY <1>1, <1>3, <1>10, <2>1 DEF Effect, Moved
    <3> QED BY <1>4, <3>1
  <2>2. CASE j <= c
    <3>1. j \in 1 .. c
      BY <1>1, <2>2 DEF Effect, Moved
    <3> QED BY <1>1, <3>1, Fronts
  <2> QED BY <1>1, <2>1, <2>2 DEF Effect, Moved
<1>11. Refers(todo[k].at, k, o)'
  BY <1>0, <1>3, <1>6 DEF Refers, Dropped
<1>12. Cleared(Slot(o, size[o] - 1), k)'
  BY <1>7, <1>8, <1>9 DEF Cleared, Dropped
<1> QED BY <1>5, <1>7, <1>10, <1>11, <1>12

(* Nothing can refer again to an object that nothing refers to, and it is  *)
(* freed once.                                                             *)
LEMMA FreesKept == ASSUME NEW c, Carried(c) PROVE Frees'
<1>1. Effect(c) /\ Frees /\ Memory(c) /\ Objects(c)
  BY DEF Carried, IInv
<1>2. ASSUME NEW k \in Steps', k > c, NEW o \in Obj, todo'[k] = Free(o)
      PROVE  o \in live' /\ Holders(o)' = {} /\ \A i \in Places : Cleared(Slot(o, i), k)'
  <2> DEFINE K == k + 1 - c
  <2>1. K \in Steps /\ 1 \in Steps /\ 1 # K /\ todo[K] = Free(o) /\ K = k + 1 - c
    BY <1>1, <1>2, Before
  <2> HIDE DEF K
  <2>2. o \in live /\ Holders(o) = {} /\ \A i \in Places : Cleared(Slot(o, i), K)
    BY <1>1, <2>1 DEF Frees
  <2>3. todo[1] # Free(o)
    BY <1>1, <2>1 DEF Frees
  <2>4. ASSUME NEW i \in Places PROVE Cleared(Slot(o, i), k)'
    <3>1. PICK w \in Slots : w = Slot(o, i)
      BY DEF Slots, Places
    <3>2. w \in Location
      BY Locations
    <3>3. val'[w] = val[w] \/ val'[w] = Null
      BY <1>1, <2>2, <3>1 DEF Memory
    <3>4. todo[1] = Drop(w) => val'[w] = Null
      BY <1>1, <3>2 DEF Memory
    <3>5. Cleared(w, K)
      BY <2>2, <3>1
    <3>6. Cleared(w, k)'
      BY <1>1, <1>2, <2>1, <3>2, <3>3, <3>4, <3>5, ClearedBefore
    <3> QED BY <3>1, <3>6 DEF Cleared, Dropped
  <2> QED BY <1>1, <2>2, <2>3, <2>4 DEF Objects
<1>3. ASSUME NEW k \in Steps', k <= c, NEW o \in Obj, todo'[k] = Free(o)
      PROVE  /\ o \in live' /\ Holders(o)' = {} /\ \A i \in Places : Cleared(Slot(o, i), k)'
             /\ k = c /\ Holders(o) # {}
  <2>1. k \in 1 .. c
    BY <1>1, <1>3 DEF Effect, Moved
  <2>2. /\ k = c /\ o \in live' /\ Holders(o) # {} /\ Holders(o)' = {}
        /\ \A i \in Places : Cleared(Slot(o, i), c)'
    BY <1>1, <1>3, <2>1 DEF Objects
  <2> QED BY <2>2 DEF Cleared, Dropped
<1>4. \A j, k \in Steps', o \in Obj : todo'[j] = Free(o) /\ todo'[k] = Free(o) => j = k
  <2> SUFFICES ASSUME NEW j \in Steps', NEW k \in Steps', NEW o \in Obj,
                      todo'[j] = Free(o), todo'[k] = Free(o)
               PROVE  j = k
    OBVIOUS
  <2>1. ASSUME NEW m \in Steps', m > c, todo'[m] = Free(o) PROVE Holders(o) = {}
    BY <1>1, <2>1, Before DEF Frees
  <2>2. CASE j > c /\ k > c
    <3>1. j + 1 - c = k + 1 - c
      BY <1>1, <2>2, Before DEF Frees
    <3> QED BY <1>1, <3>1 DEF Effect, Moved
  <2>3. CASE j <= c /\ k <= c
    BY <1>3, <2>3
  <2>4. CASE j > c /\ k <= c
    BY <1>3, <2>1, <2>4
  <2>5. CASE j <= c /\ k > c
    BY <1>3, <2>1, <2>5
  <2> QED BY <1>1, <2>2, <2>3, <2>4, <2>5 DEF Effect, Moved
<1>5. ASSUME NEW o \in live', Holders(o)' = {} PROVE \E k \in Steps' : todo'[k] = Free(o)
  <2>1. CASE o \in live /\ Holders(o) = {} /\ todo[1] # Free(o)
    <3>1. PICK k \in Steps : todo[k] = Free(o)
      BY <1>1, <2>1 DEF Frees
    <3>2. k > 1
      BY <1>1, <2>1, <3>1 DEF Effect, Moved
    <3> QED BY <1>1, <3>1, <3>2, After DEF Effect, Moved
  <2>2. CASE \E k \in 1 .. c : todo'[k] = Free(o)
    <3>1. \A k \in 1 .. c : k \in Steps'
      BY <1>1 DEF Effect, Moved
    <3> QED BY <2>2, <3>1
  <2> QED BY <1>1, <1>5, <2>1, <2>2 DEF Objects
<1>6. ASSUME NEW k \in Steps', NEW o \in Obj, todo'[k] = Free(o)
      PROVE  o \in live' /\ Holders(o)' = {} /\ \A i \in Places : Cleared(Slot(o, i), k)'
  <2>1. k > c \/ k <= c
    BY <1>1 DEF Effect, Moved
  <2> QED BY <1>2, <1>3, <1>6, <2>1
<1> QED BY <1>4, <1>5, <1>6 DEF Frees

(* Where the step that is done now may put a variable.                     *)
LEMMA Filled ==
  ASSUME IInv, todo # <<>>, Fills(todo[1])
  PROVE  /\ depth > 0
         /\ \A f, r : todo[1].at = Reg(f, r) =>
              IF Leaving THEN f = depth - 1 /\ depth > 1 ELSE f = depth
         /\ \A f, i : todo[1].at = Stk(f, i) => ~Leaving /\ f = depth /\ i < sp[f]
         /\ \A f, i : todo[1].at = Arg(f, i) =>
              /\ ~Leaving /\ f = depth
              /\ \E m \in Steps : m > 1 /\ Clears(todo[m], i)
         /\ \A f \in 1 .. depth : todo[1].at = ResultOf(f) => f = depth /\ Leaving
<1>1. 1 \in Steps /\ FillsLocal /\ TypeOK
  BY DEF IInv, Heap, Steps
<1>2. depth > 0 /\ Local(todo[1].at, 1)
  BY <1>1 DEF FillsLocal
<1> DEFINE a == todo[1].at
<1>3. depth \in 1 .. MaxDepth /\ depth - 1 \in Nat
  BY <1>1, <1>2, Numbers DEF TypeOK
<1>4. CASE a \in Anywhere
  <2>1. \/ \E o, i : a = Slot(o, i)
        \/ \E l, i : a = SlotOf(l, i)
        \/ \E i : a = Global(i) \/ a = Leaked(i)
    BY <1>4 DEF Anywhere, Slots, SlotNames
  <2>2. \A f, r : a # Reg(f, r) /\ a # Stk(f, r) /\ a # Arg(f, r) /\ a # Result
    <3>1. \A l, i, f, r : /\ SlotOf(l, i) # Reg(f, r) /\ SlotOf(l, i) # Stk(f, r)
                          /\ SlotOf(l, i) # Arg(f, r) /\ SlotOf(l, i) # Result
      BY DEF SlotOf, Reg, Stk, Arg, Result
    <3> QED BY <2>1, <3>1, Kinds
  <2>3. \A f : a # ResultOf(f)
    BY <2>2 DEF ResultOf
  <2> QED BY <1>2, <2>2, <2>3
<1>5. CASE Leaving /\ a = ResultOf(depth)
  <2>1. CASE depth = 1
    <3>1. a = Result
      BY <1>5, <2>1 DEF ResultOf
    <3>2. \A f \in 1 .. depth : f = depth
      BY <2>1
    <3> QED BY <1>2, <1>5, <3>1, <3>2, Kinds
  <2>2. CASE depth # 1
    <3>1. a = Reg(depth - 1, call[depth].dst) /\ depth > 1
      BY <1>3, <1>5, <2>2 DEF ResultOf
    <3>2. \A f \in 1 .. depth : a = ResultOf(f) => f = depth
      <4> SUFFICES ASSUME NEW f \in 1 .. depth, a = ResultOf(f) PROVE f = depth
        OBVIOUS
      <4>1. a = Reg(f - 1, call[f].dst)
        BY <3>1, Kinds DEF ResultOf
      <4>2. depth - 1 = f - 1
        BY <3>1, <4>1, Distinct
      <4> QED BY <1>3, <4>2
    <3> HIDE DEF a
    <3>3. \A f, r : a = Reg(f, r) => f = depth - 1
      BY <3>1, Distinct
    <3>4. \A f, r : a # Stk(f, r) /\ a # Arg(f, r)
      BY <3>1, Kinds
    <3> QED BY <1>2, <1>5, <3>1, <3>2, <3>3, <3>4 DEF a
  <2> QED BY <2>1, <2>2
<1>6. ASSUME NEW r \in RegId, ~Leaving, a = Reg(depth, r)
      PROVE  /\ \A f, q : a = Reg(f, q) => f = depth
             /\ \A f, q : a # Stk(f, q) /\ a # Arg(f, q)
             /\ \A f \in 1 .. depth : a # ResultOf(f)
  <2>1. \A f \in 1 .. depth : f - 1 # depth
    BY <1>3
  <2>2. \A f \in 1 .. depth : a # ResultOf(f)
    BY <1>6, <2>1, Distinct, Kinds DEF ResultOf
  <2> QED BY <1>6, <2>2, Distinct, Kinds
<1>7. ASSUME NEW j \in 0 .. Stack - 1, ~Leaving, j < sp[depth], a = Stk(depth, j)
      PROVE  /\ \A f, q : a = Stk(f, q) => f = depth /\ q < sp[f]
             /\ \A f, q : a # Reg(f, q) /\ a # Arg(f, q)
             /\ \A f : a # ResultOf(f)
  <2>1. \A f : a # ResultOf(f)
    BY <1>7, Kinds DEF ResultOf
  <2> QED BY <1>7, <2>1, Distinct, Kinds
<1>8. ASSUME NEW j \in 0 .. MaxArgs - 1, ~Leaving, a = Arg(depth, j),
             NEW m \in Steps, m > 1, Clears(todo[m], j)
      PROVE  /\ \A f, q : a = Arg(f, q) => f = depth /\ \E n \in Steps : n > 1 /\ Clears(todo[n], q)
             /\ \A f, q : a # Reg(f, q) /\ a # Stk(f, q)
             /\ \A f : a # ResultOf(f)
  <2>1. \A f : a # ResultOf(f)
    BY <1>8, Kinds DEF ResultOf
  <2>2. \A f, q : a = Arg(f, q) => f = depth /\ q = j
    BY <1>8, Distinct
  <2> QED BY <1>8, <2>1, <2>2, Kinds
<1>9. \/ a \in Anywhere
      \/ Leaving /\ a = ResultOf(depth)
      \/ ~Leaving /\ \E r \in RegId : a = Reg(depth, r)
      \/ ~Leaving /\ \E i \in 0 .. Stack - 1 : i < sp[depth] /\ a = Stk(depth, i)
      \/ ~Leaving /\ \E i \in 0 .. MaxArgs - 1 : a = Arg(depth, i) /\ \E m \in Steps : m > 1 /\ Clears(todo[m], i)
  BY <1>2 DEF Local
<1> HIDE DEF a
<1>10. CASE ~Leaving /\ \E r \in RegId : a = Reg(depth, r)
  BY <1>2, <1>6, <1>10 DEF a
<1>11. CASE ~Leaving /\ \E i \in 0 .. Stack - 1 : i < sp[depth] /\ a = Stk(depth, i)
  BY <1>2, <1>7, <1>11 DEF a
<1>12. CASE ~Leaving /\ \E i \in 0 .. MaxArgs - 1 : a = Arg(depth, i) /\ \E m \in Steps : m > 1 /\ Clears(todo[m], i)
  BY <1>2, <1>8, <1>12 DEF a
<1> QED BY <1>4, <1>5, <1>9, <1>10, <1>11, <1>12

(* A variable outside the containers changes only by a release or a fill.  *)
LEMMA Stays ==
  ASSUME NEW c, Carried(c), NEW l \in Root, Fills(todo[1]) => todo[1].at # l
  PROVE  val'[l] = val[l] \/ val'[l] = Null
<1>1. /\ l \in Location /\ l \notin Slots /\ \A o \in Obj, i \in Places : l # Slot(o, i)
  BY DEF Root, Slots, Places
<1>2. \A v \in Obj, i \in Places : Slot(v, i) \in Slots
  BY DEF Slots, Places
<1> QED BY <1>1, <1>2 DEF Carried, Memory

(* A location outside the containers that is null by step k stays so       *)
(* unless it is filled.                                                    *)
LEMMA StaysCleared ==
  ASSUME NEW c, Carried(c), NEW l \in Root, Fills(todo[1]) => todo[1].at # l,
         NEW k \in Steps', k > c, Cleared(l, k + 1 - c)
  PROVE  Cleared(l, k)'
<1>1. val'[l] = val[l] \/ val'[l] = Null
  BY Stays
<1>2. l \in Location /\ Effect(c) /\ Memory(c)
  BY DEF Root, Carried
<1>3. todo[1] = Drop(l) => val'[l] = Null
  BY <1>2 DEF Memory
<1> QED BY <1>1, <1>2, <1>3, ClearedBefore

(* A frame is being left as long as that step is pending.                  *)
LEMMA LeavingKept == ASSUME NEW c, Carried(c) PROVE Leaving' <=> Leaving
<1>1. Effect(c)
  BY DEF Carried
<1>2. ASSUME Leaving PROVE Leaving'
  <2>1. PICK k \in Steps : todo[k].op = "leave"
    BY <1>2 DEF Leaving
  <2>2. k > 1
    BY <1>1, <2>1 DEF Effect, Moved
  <2>3. k - 1 + c \in Steps' /\ todo'[k - 1 + c] = todo[k]
    BY <1>1, <2>1, <2>2, After
  <2> QED BY <2>1, <2>3 DEF Leaving
<1>3. ASSUME Leaving' PROVE Leaving
  <2>1. PICK k \in Steps' : todo'[k].op = "leave"
    BY <1>3 DEF Leaving
  <2>2. k > c
    BY <1>1, <2>1, NotInFront
  <2>3. k + 1 - c \in Steps /\ todo'[k] = todo[k + 1 - c]
    BY <1>1, <2>1, <2>2, Before
  <2> QED BY <2>1, <2>3 DEF Leaving
<1> QED BY <1>2, <1>3

(* A call that is pending stays last, its result location null.            *)
LEMMA EntersKept == ASSUME NEW c, Carried(c) PROVE Enters'
<1>1. Effect(c) /\ Enters /\ IInv /\ todo # <<>> /\ UNCHANGED depth
  BY DEF Carried, IInv, Effect, Moved
<1> SUFFICES ASSUME NEW k \in Steps', todo'[k].op = "enter"
             PROVE  /\ k = Len(todo') /\ depth' < MaxDepth
                    /\ depth' = 0 => todo'[k].nargs = 0 /\ val'[Result] = Null
                    /\ depth' > 0 => /\ Cleared(Reg(depth, todo[k].dst), k)'
                                     /\ \A j \in Steps' : Fills(todo'[j]) => todo'[j].at # Reg(depth', todo'[k].dst)
  BY DEF Enters, Fills
<1>2. k > c
  BY <1>1, NotInFront
<1> DEFINE K == k + 1 - c
<1>3. /\ K \in Steps /\ 1 \in Steps /\ todo'[k] = todo[K] /\ todo[K].op = "enter" /\ K = k + 1 - c
  BY <1>1, <1>2, Before
<1>4. /\ K = Len(todo) /\ depth < MaxDepth
      /\ depth = 0 => todo[K].nargs = 0 /\ val[Result] = Null
      /\ depth > 0 => /\ Cleared(Reg(depth, todo[K].dst), K)
                      /\ \A j \in Steps : Fills(todo[j]) => todo[j].at # Reg(depth, todo[K].dst)
  BY <1>1, <1>3 DEF Enters
<1>5. k = Len(todo')
  BY <1>1, <1>4 DEF Effect, Moved
<1> HIDE DEF K
<1>6. ASSUME depth = 0 PROVE todo'[k].nargs = 0 /\ val'[Result] = Null
  <2>1. Result \in Root /\ ~Fills(todo[1])
    BY <1>1, <1>6, Filled, Locations DEF Root
  <2> QED BY <1>3, <1>4, <1>6, <2>1, Stays
<1>7. ASSUME depth > 0
      PROVE  /\ Cleared(Reg(depth, todo[k].dst), k)'
             /\ \A j \in Steps' : Fills(todo'[j]) => todo'[j].at # Reg(depth, todo'[k].dst)
  <2>1. todo[K].dst \in RegId /\ depth \in Frame
    <3>1. todo[K] \in StepSet /\ TypeOK
      BY <1>1, <1>3 DEF IInv, Heap, Steps
    <3> QED BY <1>3, <1>7, <3>1, Shapes, Numbers DEF TypeOK, Frame
  <2>2. PICK l \in Root : l = Reg(depth, todo[K].dst)
    BY <2>1, Locations DEF Root
  <2>3. Fills(todo[1]) => todo[1].at # l
    BY <1>3, <1>4, <1>7, <2>2
  <2>4. Cleared(l, k)'
    BY <1>2, <1>3, <1>4, <1>7, <2>2, <2>3, StaysCleared
  <2>5. ASSUME NEW j \in Steps', Fills(todo'[j]) PROVE todo'[j].at # l
    <3>1. j > c
      BY <1>1, <2>5, NotInFront
    <3>2. j + 1 - c \in Steps /\ todo'[j] = todo[j + 1 - c]
      BY <1>1, <3>1, Before
    <3> QED BY <1>4, <1>7, <2>2, <2>5, <3>2
  <2>6. l = Reg(depth, todo[k].dst)'
    BY <1>1, <1>3, <2>2
  <2> QED BY <1>1, <1>3, <2>2, <2>4, <2>5, <2>6 DEF Cleared, Dropped
<1> QED BY <1>1, <1>4, <1>5, <1>6, <1>7

(* All of a frame that is being left is still null by then.                *)
LEMMA LeavesKept == ASSUME NEW c, Carried(c) PROVE Leaves'
<1>1. Effect(c) /\ Leaves /\ IInv /\ todo # <<>> /\ UNCHANGED depth
  BY DEF Carried, IInv, Effect, Moved
<1> SUFFICES ASSUME NEW k \in Steps', todo'[k].op = "leave"
             PROVE  /\ k = Len(todo') /\ depth' > 0
                    /\ \A r \in RegId : Cleared(Reg(depth, r), k)'
                    /\ \A i \in 0 .. Stack - 1 : Cleared(Stk(depth, i), k)'
                    /\ \A i \in 0 .. MaxArgs - 1 : val'[Arg(depth', i)] = Null
  BY DEF Leaves
<1>2. k > c
  BY <1>1, NotInFront
<1> DEFINE K == k + 1 - c
<1>3. K \in Steps /\ todo[K].op = "leave" /\ K = k + 1 - c
  BY <1>1, <1>2, Before
<1>4. /\ K = Len(todo) /\ depth > 0 /\ Leaving
      /\ \A r \in RegId : Cleared(Reg(depth, r), K)
      /\ \A i \in 0 .. Stack - 1 : Cleared(Stk(depth, i), K)
      /\ \A i \in 0 .. MaxArgs - 1 : val[Arg(depth, i)] = Null
  BY <1>1, <1>3 DEF Leaves, Leaving
<1>5. k = Len(todo')
  BY <1>1, <1>4 DEF Effect, Moved
<1> HIDE DEF K
<1>6. depth \in Frame /\ depth - 1 # depth
  <2>1. TypeOK
    BY <1>1 DEF IInv, Heap
  <2> QED BY <1>4, <2>1, Numbers DEF TypeOK, Frame
<1>7. ASSUME NEW r \in RegId PROVE Cleared(Reg(depth, r), k)'
  <2>1. PICK l \in Root : l = Reg(depth, r)
    BY <1>6, Locations DEF Root
  <2>2. Fills(todo[1]) => todo[1].at # l
    BY <1>1, <1>4, <1>6, <2>1, Filled
  <2>3. Cleared(l, k)'
    BY <1>2, <1>3, <1>4, <2>1, <2>2, StaysCleared
  <2>4. l = Reg(depth, r)'
    BY <1>1, <2>1
  <2> QED BY <2>3, <2>4 DEF Cleared, Dropped
<1>8. ASSUME NEW i \in 0 .. Stack - 1 PROVE Cleared(Stk(depth, i), k)'
  <2>1. PICK l \in Root : l = Stk(depth, i)
    BY <1>6, Locations DEF Root
  <2>2. Fills(todo[1]) => todo[1].at # l
    BY <1>1, <1>4, <2>1, Filled
  <2>3. Cleared(l, k)'
    BY <1>2, <1>3, <1>4, <2>1, <2>2, StaysCleared
  <2>4. l = Stk(depth, i)'
    BY <1>1, <2>1
  <2> QED BY <2>3, <2>4 DEF Cleared, Dropped
<1>9. ASSUME NEW i \in 0 .. MaxArgs - 1 PROVE val'[Arg(depth, i)] = Null
  <2>1. PICK l \in Root : l = Arg(depth, i)
    BY <1>6, Locations DEF Root
  <2>2. Fills(todo[1]) => todo[1].at # l
    BY <1>1, <1>4, <2>1, Filled
  <2> QED BY <1>4, <2>1, <2>2, Stays
<1> QED BY <1>1, <1>4, <1>5, <1>7, <1>8, <1>9

(* Steps that are pending still fill locations of the frame on top only.   *)
LEMMA FillsLocalKept == ASSUME NEW c, Carried(c) PROVE FillsLocal'
<1>1. Effect(c) /\ FillsLocal /\ UNCHANGED <<depth, sp, call>> /\ (Leaving' <=> Leaving)
  BY LeavingKept DEF Carried, IInv, Effect, Moved
<1> SUFFICES ASSUME NEW k \in Steps', Fills(todo'[k]) PROVE depth' > 0 /\ Local(todo[k].at, k)'
  BY DEF FillsLocal, Fills
<1>2. k > c
  BY <1>1, NotInFront
<1> DEFINE K == k + 1 - c
<1>3. K \in Steps /\ Fills(todo[K]) /\ todo'[k] = todo[K] /\ K > 1
  BY <1>1, <1>2, Before
<1>4. depth > 0 /\ Local(todo[K].at, K)
  BY <1>1, <1>3 DEF FillsLocal
<1>5. ASSUME NEW m \in Steps, m > K, NEW i, Clears(todo[m], i)
      PROVE  \E n \in Steps' : n > k /\ Clears(todo[n], i)'
  <2>1. m > 1 /\ m - 1 + c > k
    BY <1>1, <1>3, <1>5 DEF Effect, Moved
  <2>2. m - 1 + c \in Steps' /\ todo'[m - 1 + c] = todo[m]
    BY <1>1, <2>1, After
  <2>3. Drop(Arg(depth', i)) = Drop(Arg(depth, i))
    BY <1>1
  <2> QED BY <1>5, <2>1, <2>2, <2>3 DEF Clears
<1>6. /\ ResultOf(depth)' = ResultOf(depth) /\ Arg(depth, 0)' = Arg(depth, 0)
      /\ \A i : Reg(depth, i)' = Reg(depth, i) /\ Stk(depth, i)' = Stk(depth, i) /\ Arg(depth, i)' = Arg(depth, i)
  BY <1>1 DEF ResultOf
<1> HIDE DEF K
<1>7. PICK a : a = todo[K].at
  OBVIOUS
<1>8. Local(a, k)'
  <2>1. Local(a, K)
    BY <1>4, <1>7
  <2>2. CASE a \in Anywhere
    BY <2>2 DEF Local
  <2>3. CASE Leaving /\ a = ResultOf(depth)
    BY <1>1, <1>6, <2>3 DEF Local
  <2>4. CASE ~Leaving /\ \E r \in RegId : a = Reg(depth, r)
    BY <1>1, <1>6, <2>4 DEF Local
  <2>5. CASE ~Leaving /\ \E i \in 0 .. Stack - 1 : i < sp[depth] /\ a = Stk(depth, i)
    BY <1>1, <1>6, <2>5 DEF Local
  <2>6. CASE ~Leaving /\ \E i \in 0 .. MaxArgs - 1 : a = Arg(depth, i) /\ \E m \in Steps : m > K /\ Clears(todo[m], i)
    <3>1. PICK i \in 0 .. MaxArgs - 1 : a = Arg(depth, i) /\ \E m \in Steps : m > K /\ Clears(todo[m], i)
      BY <2>6
    <3>2. \E n \in Steps' : n > k /\ Clears(todo[n], i)'
      BY <1>5, <3>1
    <3> QED BY <1>1, <1>6, <2>6, <3>1, <3>2 DEF Local
  <2> QED BY <2>1, <2>2, <2>3, <2>4, <2>5, <2>6 DEF Local
<1>9. a = todo'[k].at
  BY <1>3, <1>7
<1> QED BY <1>1, <1>4, <1>8, <1>9 DEF Local

(* Nothing is put in another frame or above a stack pointer.               *)
LEMMA FramesKept == ASSUME NEW c, Carried(c) PROVE Frames'
<1>1. Effect(c) /\ Frames /\ IInv /\ todo # <<>> /\ UNCHANGED <<depth, sp, call>> /\ TypeOK
  BY DEF Carried, IInv, Heap, Effect, Moved
<1>2. ASSUME NEW f \in Frame, f > depth
      PROVE  /\ \A r \in RegId : val'[Reg(f, r)] = Null
             /\ \A i \in 0 .. MaxArgs - 1 : val'[Arg(f, i)] = Null
  <2>1. f # depth /\ f # depth - 1
    BY <1>1, <1>2 DEF TypeOK, Frame
  <2>2. ASSUME NEW r \in RegId PROVE val'[Reg(f, r)] = Null
    <3>1. Reg(f, r) \in Root /\ val[Reg(f, r)] = Null
      BY <1>1, <1>2, Locations DEF Root, Frames
    <3>2. Fills(todo[1]) => todo[1].at # Reg(f, r)
      BY <1>1, <2>1, Filled
    <3> QED BY <3>1, <3>2, Stays
  <2>3. ASSUME NEW i \in 0 .. MaxArgs - 1 PROVE val'[Arg(f, i)] = Null
    <3>1. Arg(f, i) \in Root /\ val[Arg(f, i)] = Null
      BY <1>1, <1>2, Locations DEF Root, Frames
    <3>2. Fills(todo[1]) => todo[1].at # Arg(f, i)
      BY <1>1, <2>1, Filled
    <3> QED BY <3>1, <3>2, Stays
  <2> QED BY <2>2, <2>3
<1>3. ASSUME NEW f \in Frame, NEW i \in 0 .. Stack - 1, i >= sp[f] PROVE val'[Stk(f, i)] = Null
  <2>1. Stk(f, i) \in Root /\ val[Stk(f, i)] = Null
    BY <1>1, <1>3, Locations DEF Root, Frames
  <2>2. sp[f] \in Nat /\ i \in Nat
    BY <1>1, Numbers DEF TypeOK
  <2>3. Fills(todo[1]) => todo[1].at # Stk(f, i)
    BY <1>1, <1>3, <2>2, Filled
  <2> QED BY <2>1, <2>3, Stays
<1>4. ASSUME NEW f \in Frame, NEW i \in 0 .. MaxArgs - 1, f < depth, val'[Arg(f, i)] # Null
      PROVE  i < call[f + 1].nargs
  <2>1. Arg(f, i) \in Root
    BY Locations DEF Root
  <2>2. f # depth
    BY <1>1, <1>4 DEF TypeOK, Frame
  <2>3. Fills(todo[1]) => todo[1].at # Arg(f, i)
    BY <1>1, <2>2, Filled
  <2>4. val[Arg(f, i)] # Null
    BY <1>4, <2>1, <2>3, Stays
  <2> QED BY <1>1, <1>4, <2>4 DEF Frames
<1>5. call[1].nargs = 0 /\ \A f \in Frame : f > depth => sp[f] = 0
  BY <1>1 DEF Frames
<1> QED BY <1>1, <1>2, <1>3, <1>4, <1>5 DEF Frames

(* What is put in the vector of arguments is on its way out.               *)
LEMMA ArgsClearedKept == ASSUME NEW c, Carried(c) PROVE ArgsCleared'
<1>1. /\ Effect(c) /\ Memory(c) /\ ArgsCleared /\ IInv /\ todo # <<>> /\ UNCHANGED depth
      /\ TypeOK
  BY DEF Carried, IInv, Heap, Effect, Moved
<1> SUFFICES ASSUME depth > 0, NEW i \in 0 .. MaxArgs - 1, val'[Arg(depth, i)] # Null
             PROVE  \E k \in Steps' : Clears(todo[k], i)'
  BY <1>1 DEF ArgsCleared, Clears
<1>2. Arg(depth, i) \in Root /\ Arg(depth, i) \in Location
  BY <1>1, Locations, Numbers DEF Root, TypeOK, Frame
<1>3. \E m \in Steps : m > 1 /\ Clears(todo[m], i)
  <2>1. CASE Fills(todo[1]) /\ todo[1].at = Arg(depth, i)
    BY <1>1, <2>1, Filled
  <2>2. CASE ~(Fills(todo[1]) /\ todo[1].at = Arg(depth, i))
    <3>1. val[Arg(depth, i)] # Null
      BY <1>2, <2>2, Stays
    <3>2. PICK m \in Steps : Clears(todo[m], i)
      BY <1>1, <3>1 DEF ArgsCleared
    <3>3. m # 1
      BY <1>1, <1>2, <3>2 DEF Clears, Memory, Effect
    <3> QED BY <1>1, <3>2, <3>3 DEF Effect, Moved
  <2> QED BY <2>1, <2>2
<1>4. PICK m \in Steps : m > 1 /\ Clears(todo[m], i)
  BY <1>3
<1>5. m - 1 + c \in Steps' /\ todo'[m - 1 + c] = todo[m]
  BY <1>1, <1>4, After
<1>6. Drop(Arg(depth', i)) = Drop(Arg(depth, i))
  BY <1>1
<1> QED BY <1>4, <1>5, <1>6 DEF Clears

(* A result goes to a register of the frame below, or to the host's        *)
(* variable.                                                               *)
LEMMA ResultIsRoot ==
  ASSUME TypeOK, NEW f \in 1 .. depth
  PROVE  ResultOf(f) \in Root /\ ResultOf(f) \in Location
<1>1. CASE f = 1
  BY <1>1, Locations DEF ResultOf, Root
<1>2. CASE f # 1
  <2>1. f - 1 \in Frame /\ f \in Frame
    BY <1>2, Numbers DEF TypeOK, Frame
  <2>2. call[f].dst \in RegId
    BY <2>1 DEF TypeOK
  <2> QED BY <1>2, <2>1, <2>2, Locations DEF ResultOf, Root
<1> QED BY <1>1, <1>2

(* Nothing but the frame's own return fills the location of its result.    *)
LEMMA ResultsNullKept == ASSUME NEW c, Carried(c) PROVE ResultsNull'
<1>1. /\ ResultsNull /\ IInv /\ todo # <<>> /\ UNCHANGED <<depth, call>> /\ TypeOK /\ (Leaving' <=> Leaving)
  BY LeavingKept DEF Carried, IInv, Heap, Effect, Moved
<1> SUFFICES ASSUME NEW f \in 1 .. depth, f < depth \/ ~Leaving
             PROVE  val'[ResultOf(f)] = Null
  BY <1>1 DEF ResultsNull, ResultOf
<1>2. val[ResultOf(f)] = Null /\ ResultOf(f) \in Root
  BY <1>1, ResultIsRoot DEF ResultsNull
<1>3. Fills(todo[1]) => todo[1].at # ResultOf(f)
  BY <1>1, Filled DEF TypeOK
<1> QED BY <1>2, <1>3, Stays

(* A step that does what Effect, Memory and Objects say keeps what is      *)
(* claimed of the steps that are pending.                                  *)
LEMMA Kept == ASSUME NEW c, Carried(c), Heap' PROVE IInv'
<1>1. todo' \in Seq(StepSet)
  BY DEF Carried, Effect, Moved
<1> QED
  BY <1>1, FillsApartKept, FillsClearedKept, SlotsOpenKept, SlotsFilledKept, PutsHeldKept,
     ExtendsKept, ShrinksKept, FreesKept, EntersKept, LeavesKept, FillsLocalKept, FramesKept,
     ArgsClearedKept, ResultsNullKept
     DEF IInv

-----------------------------------------------------------------------------
(* The heap at one step. *)
LEMMA HeapFacts ==
  ASSUME IInv, todo # <<>>
  PROVE  /\ Types /\ CountsExact /\ TypeOK /\ todo \in Seq(StepSet) /\ 1 \in Steps /\ todo[1] \in StepSet
         /\ \A l \in Location : val[l] \in Variable /\ (val[l] # Null => val[l] \in live /\ val[l] \in Obj)
         /\ \A o \in Obj : size[o] \in 0 .. Width /\ size[o] \in Nat
         /\ \A o \in Obj, i \in Places : i >= size[o] => val[Slot(o, i)] = Null
         /\ \A o \in Obj : o \notin live => size[o] = 0 /\ Holders(o) = {}
         /\ \A l \in Location : l \in Holders(val[l])
         /\ \A l : ~Dropped(l, 1)
         /\ \A l : Cleared(l, 1) => val[l] = Null
<1>1. /\ TypeOK /\ CountsExact /\ NoDangling /\ todo \in Seq(StepSet)
      /\ \A o \in Obj, i \in Places : i >= size[o] => val[Slot(o, i)] = Null
      /\ \A o \in Obj : o \notin live => size[o] = 0
  BY DEF IInv, Heap
<1>2. 1 \in Steps /\ todo[1] \in StepSet
  BY <1>1 DEF Steps
<1>3. Types
  BY <1>1 DEF TypeOK, Types, Variable
<1>4. \A l \in Location : val[l] \in Variable /\ (val[l] # Null => val[l] \in live /\ val[l] \in Obj)
  BY <1>1, <1>3 DEF Types, NoDangling, Variable
<1>5. \A o \in Obj : size[o] \in 0 .. Width /\ size[o] \in Nat
  BY <1>1, Numbers DEF TypeOK
<1>6. \A o \in Obj : o \notin live => Holders(o) = {}
  BY <1>4, Numbers DEF Holders
<1>7. \A l \in Location : l \in Holders(val[l])
  BY DEF Holders
<1>8. \A l : ~Dropped(l, 1)
  BY <1>1 DEF Dropped, Steps
<1>9. \A l : Cleared(l, 1) => val[l] = Null
  BY <1>8 DEF Cleared
<1> QED BY <1>1, <1>2, <1>3, <1>4, <1>5, <1>6, <1>7, <1>8, <1>9

(* The first step is done and nothing takes its place.                     *)
LEMMA MovesOn ==
  ASSUME todo \in Seq(StepSet), todo # <<>>, todo' = Tail(todo)
  PROVE  Moved(0)
<1>1. /\ Len(todo) \in Nat /\ Len(todo) >= 1 /\ Steps = 1 .. Len(todo)
      /\ Tail(todo) \in Seq(StepSet) /\ Len(Tail(todo)) = Len(todo) - 1
      /\ \A k \in 1 .. Len(todo) - 1 : Tail(todo)[k] = todo[k + 1]
  BY DEF Steps
<1>2. Steps' = 1 .. Len(todo') /\ Len(todo') = Len(todo) - 1
  BY <1>1 DEF Steps
<1>3. \A k \in Steps' : todo'[k] = todo[k + 1 - 0]
  BY <1>1, <1>2
<1>4. \A k \in Steps : k > 1 => todo'[k - 1 + 0] = todo[k]
  <2> SUFFICES ASSUME NEW k \in Steps, k > 1 PROVE todo'[k - 1] = todo[k]
    BY <1>1
  <2>1. k - 1 \in 1 .. Len(todo) - 1 /\ (k - 1) + 1 = k
    BY <1>1
  <2> QED BY <1>1, <2>1
<1> QED BY <1>1, <1>2, <1>3, <1>4 DEF Moved

(* A counted copy to a null location keeps the counters exact.             *)
LEMMA AcquireCounts ==
  ASSUME Types, CountsExact, NEW w \in Location, NEW v \in Variable, val[w] = Null, Acquire(v, w)
  PROVE  /\ Types' /\ CountsExact'
         /\ \A l \in Location : val'[l] = IF l = w THEN v ELSE val[l]
         /\ \A p \in Obj : Holders(p)' = IF p = v THEN Holders(p) \cup {w} ELSE Holders(p)
<1>1. /\ \A l \in Location : val'[l] = IF l = w THEN v ELSE val[l]
      /\ val' = [val EXCEPT ![w] = v]
  BY DEF Types, Acquire
<1>2. CASE v = Null
  <2>1. val' = val /\ refc' = refc
    BY <1>2 DEF Types, Acquire
  <2>2. \A p : Holders(p)' = Holders(p)
    BY <2>1 DEF Holders
  <2> QED BY <1>1, <1>2, <2>1, <2>2, Numbers DEF Types, CountsExact
<1>3. CASE v # Null
  <2>1. v \in Obj /\ refc' = [refc EXCEPT ![v] = @ + 1]
    BY <1>3 DEF Variable, Acquire
  <2>2. /\ Types' /\ CountsExact' /\ Holders(v)' = Holders(v) \cup {w}
        /\ \A p \in Obj \ {v} : Holders(p)' = Holders(p)
    BY <1>1, <2>1, FillCounts
  <2> QED BY <1>1, <2>2
<1> QED BY <1>2, <1>3

(* The location a release or a copy is about.                              *)
LEMMA Where ==
  ASSUME IInv, todo # <<>>, todo[1].op \in {"drop", "share"}
  PROVE  \E w \in Location :
           /\ w = At(todo[1].at)
           /\ \/ todo[1].at = w
              \/ \E l \in Registers, i \in Places :
                   todo[1].at = SlotOf(l, i) /\ val[l] \in Obj /\ w = Slot(val[l], i)
           /\ todo[1].op = "share" => val[w] = Null
           /\ todo[1].op = "share" => \A o \in Obj, i \in Places :
                                        w = Slot(o, i) => i < size[o] /\ Holders(o) # {}
<1>1. todo[1].at \in Location \cup SlotNames
  BY HeapFacts, Shapes
<1>2. FillsCleared /\ SlotsOpen /\ SlotsFilled /\ 1 \in Steps
  BY HeapFacts DEF IInv
<1>3. CASE todo[1].at \in Location
  <2>1. PICK w \in Location : w = todo[1].at
    BY <1>3
  <2>2. w = At(todo[1].at)
    BY <2>1, Named
  <2>3. todo[1].op = "share" => val[w] = Null
    <3>1. todo[1].op = "share" => Cleared(w, 1)
      BY <1>2, <2>1 DEF FillsCleared, Fills
    <3> QED BY <3>1, HeapFacts
  <2>4. ASSUME todo[1].op = "share", NEW o \in Obj, NEW i \in Places, w = Slot(o, i)
        PROVE  i < size[o] /\ Holders(o) # {}
    <3>1. PICK l \in Root : val[l] = o /\ i < size[o]
      BY <1>2, <2>1, <2>4 DEF SlotsFilled
    <3>2. l \in Holders(o)
      BY <3>1 DEF Root, Holders
    <3> QED BY <3>1, <3>2
  <2> QED BY <2>1, <2>2, <2>3, <2>4
<1>4. CASE todo[1].at \in SlotNames
  <2>1. PICK l \in Registers, i \in Places : todo[1].at = SlotOf(l, i)
    BY <1>4 DEF SlotNames, Places
  <2>2. SlotOpen(l, i, 1)
    BY <1>2, <2>1 DEF SlotsOpen
  <2>3. val[l] \in Obj /\ i < size[val[l]] /\ (todo[1].op = "share" => val[Slot(val[l], i)] = Null)
    <3>1. ~ \E j \in Steps : j < 1
      BY HeapFacts DEF Steps
    <3> QED BY <2>2, <3>1 DEF SlotOpen
  <2>4. PICK w \in Location : w = Slot(val[l], i)
    BY <2>3, Locations DEF Slots, Places
  <2>5. w = At(todo[1].at)
    BY <2>1, <2>4, Named
  <2>6. l \in Holders(val[l])
    BY Locations DEF Holders, Registers
  <2>7. \A o \in Obj, n \in Places : w = Slot(o, n) => n < size[o] /\ Holders(o) # {}
    BY <2>3, <2>4, <2>6, Distinct
  <2> QED BY <2>1, <2>3, <2>4, <2>5, <2>7
<1> QED BY <1>1, <1>3, <1>4

-----------------------------------------------------------------------------
(* A copy that is counted keeps the invariant.                             *)
LEMMA FillKeeps ==
  ASSUME IInv, todo # <<>>, todo[1].op \in {"share", "put"}, NEW w \in Location, NEW v \in Variable,
         val[w] = Null, Acquire(v, w), todo' = Tail(todo), UNCHANGED <<size, live, frame, err>>,
         v # Null => v \in live /\ Holders(v) # {},
         \/ todo[1].at = w
         \/ \E l \in Registers, i \in Places : todo[1].at = SlotOf(l, i) /\ val[l] \in Obj /\ w = Slot(val[l], i),
         \A o \in Obj, i \in Places : w = Slot(o, i) => i < size[o] /\ Holders(o) # {},
         todo[1].op = "share" => v = val[todo[1].from]
  PROVE  IInv'
<1>1. /\ Types' /\ CountsExact'
      /\ \A l \in Location : val'[l] = IF l = w THEN v ELSE val[l]
      /\ \A p \in Obj : Holders(p)' = IF p = v THEN Holders(p) \cup {w} ELSE Holders(p)
  BY HeapFacts, AcquireCounts
<1>2. \A l \in Location : val[l] # Null => val'[l] = val[l]
  BY <1>1
<1>3. Heap'
  <2>1. TypeOK'
    BY <1>1, HeapFacts DEF TypeOK, Types, Variable, frame
  <2>2. NoDangling'
    BY <1>1, HeapFacts DEF NoDangling, Variable
  <2>3. \A o \in Obj, i \in Places : i >= size'[o] => val'[Slot(o, i)] = Null
    <3> SUFFICES ASSUME NEW o \in Obj, NEW i \in Places, i >= size[o] PROVE val'[Slot(o, i)] = Null
      OBVIOUS
    <3>1. Slot(o, i) \in Location /\ val[Slot(o, i)] = Null
      BY HeapFacts, Locations DEF Slots, Places
    <3>2. i \in Nat /\ size[o] \in Nat
      BY HeapFacts, Numbers DEF Places
    <3>3. w # Slot(o, i)
      BY <3>2
    <3> QED BY <1>1, <3>1, <3>3
  <2>4. \A o \in Obj : o \notin live' => size'[o] = 0
    BY HeapFacts
  <2> QED BY <1>1, <2>1, <2>2, <2>3, <2>4 DEF Heap
<1>4. Effect(0)
  <2>1. Moved(0)
    BY MovesOn, HeapFacts
  <2> QED BY <2>1 DEF Effect, frame
<1>5. Fills(todo[1]) /\ todo[1].op \notin {"drop", "new", "extend", "free"}
  BY DEF Fills
<1>6. Memory(0)
  <2>1. \A l \in Root : val[l] # Null => val'[l] = val[l]
    BY <1>2 DEF Root
  <2>2. \A l : todo[1] # Drop(l)
    BY <1>5, Constructed
  <2>3. \A l \in Location : val'[l] = val[l] \/ l = w
    BY <1>1
  <2>4. \A o \in Obj, i \in Places : val'[Slot(o, i)] = val[Slot(o, i)] \/ Holders(o) # {}
    <3> SUFFICES ASSUME NEW o \in Obj, NEW i \in Places, Holders(o) = {}
                 PROVE  val'[Slot(o, i)] = val[Slot(o, i)]
      OBVIOUS
    <3>1. Slot(o, i) \in Location
      BY Locations DEF Slots, Places
    <3> QED BY <2>3, <3>1
  <2>5. ~OnlyDrops(2)
    BY <1>5, HeapFacts DEF OnlyDrops
  <2>6. ASSUME NEW l, NEW m, todo[1] = Share(l, m), m \in Root PROVE val'[m] = val[l]
    <3>1. todo[1].at = m /\ todo[1].from = l /\ todo[1].op = "share" /\ m \in Location
      BY <2>6, Constructed DEF Root
    <3>2. w = m
      BY <3>1, Named DEF SlotNames, Places
    <3> QED BY <1>1, <3>1, <3>2
  <2>7. \A l \in Location :
          \/ val'[l] = val[l]
          \/ Fills(todo[1]) /\ todo[1].at = l
          \/ \E m \in Registers, i \in Places :
               Fills(todo[1]) /\ todo[1].at = SlotOf(m, i) /\ val[m] \in Obj /\ l = Slot(val[m], i)
    BY <1>5, <2>3
  <2> QED BY <1>5, <2>1, <2>2, <2>4, <2>5, <2>6, <2>7 DEF Memory
<1>7. Objects(0)
  <2>1. \A o \in Obj : Holders(o) = {} => Holders(o)' = {}
    BY <1>1, Numbers
  <2>2. \A o \in Obj : Holders(o)' = {} => Holders(o) = {}
    BY <1>1
  <2>3. live \subseteq Obj /\ \A o : todo[1] # Free(o)
    BY <1>5, HeapFacts, Constructed DEF TypeOK
  <2>4. \A k \in 1 .. 0 : FALSE
    OBVIOUS
  <2> QED BY <1>5, <2>1, <2>2, <2>3, <2>4 DEF Objects
<1> QED BY <1>3, <1>4, <1>6, <1>7, Kept DEF Carried

(* Copying a variable keeps the invariant.                                 *)
LEMMA DoShareKeeps == ASSUME IInv, DoShare PROVE IInv'
<1>1. /\ todo # <<>> /\ todo[1].op = "share" /\ Acquire(val[At(todo[1].from)], At(todo[1].at))
      /\ todo' = Tail(todo) /\ UNCHANGED <<size, live, frame, err>>
  BY DEF DoShare, Doing
<1>2. PICK w \in Location :
        /\ w = At(todo[1].at)
        /\ \/ todo[1].at = w
           \/ \E l \in Registers, i \in Places :
                todo[1].at = SlotOf(l, i) /\ val[l] \in Obj /\ w = Slot(val[l], i)
        /\ val[w] = Null
        /\ \A o \in Obj, i \in Places : w = Slot(o, i) => i < size[o] /\ Holders(o) # {}
  BY <1>1, Where
<1>3. PICK f \in Location : f = todo[1].from /\ f = At(todo[1].from)
  <2>1. todo[1].from \in Root
    BY <1>1, HeapFacts, Shapes
  <2> QED BY <2>1, Named DEF Root
<1>4. PICK v \in Variable : v = val[f] /\ (v # Null => v \in live /\ Holders(v) # {})
  BY <1>1, HeapFacts
<1>5. Acquire(v, w)
  BY <1>1, <1>2, <1>3, <1>4
<1> QED BY <1>1, <1>2, <1>3, <1>4, <1>5, FillKeeps

(* Copying a value read before keeps it: the value is still kept in its    *)
(* container.                                                              *)
LEMMA DoPutKeeps == ASSUME IInv, DoPut PROVE IInv'
<1>1. /\ todo # <<>> /\ todo[1].op = "put" /\ Acquire(todo[1].value, todo[1].at)
      /\ todo' = Tail(todo) /\ UNCHANGED <<size, live, frame, err>>
  BY DEF DoPut, Doing
<1>2. todo[1].value \in Variable /\ todo[1].at \in Root /\ 1 \in Steps
  BY <1>1, HeapFacts, Shapes
<1>3. PICK w \in Root : w = todo[1].at
  BY <1>2
<1>4. w \in Location /\ \A o \in Obj, i \in Places : w # Slot(o, i)
  BY <1>3 DEF Root, Slots, Places
<1>5. val[w] = Null
  <2>1. Cleared(w, 1)
    BY <1>1, <1>2, <1>3, <1>4 DEF IInv, FillsCleared, Fills
  <2> QED BY <1>1, <2>1, HeapFacts
<1>6. PICK v \in Variable : v = todo[1].value
  BY <1>2
<1>7. v # Null => v \in live /\ Holders(v) # {}
  <2> SUFFICES ASSUME v # Null PROVE v \in live /\ Holders(v) # {}
    OBVIOUS
  <2>1. PICK o \in Obj, i \in Places : val[Slot(o, i)] = v
    BY <1>1, <1>2, <1>6 DEF IInv, PutsHeld
  <2>2. Slot(o, i) \in Location
    BY Locations DEF Slots, Places
  <2>3. Slot(o, i) \in Holders(v)
    BY <2>1, <2>2 DEF Holders
  <2> QED BY <1>1, <2>1, <2>2, <2>3, HeapFacts
<1>8. Acquire(v, w)
  BY <1>1, <1>3, <1>6
<1> QED BY <1>1, <1>3, <1>4, <1>5, <1>6, <1>7, <1>8, FillKeeps

(* Making an object keeps it: nothing refers to what the pool hands out.   *)
LEMMA DoNewKeeps == ASSUME IInv, DoNew PROVE IInv'
<1>1. /\ todo # <<>> /\ todo[1].op = "new" /\ todo' = Tail(todo) /\ UNCHANGED <<frame, err>>
      /\ \E o \in Obj \ live :
           /\ live' = live \cup {o} /\ val' = [val EXCEPT ![todo[1].at] = o]
           /\ refc' = [refc EXCEPT ![o] = 1] /\ size' = [size EXCEPT ![o] = todo[1].slots]
  BY DEF DoNew, Doing
<1>2. todo[1].slots \in 0 .. Width /\ todo[1].at \in Root /\ 1 \in Steps
  BY <1>1, HeapFacts, Shapes
<1>3. PICK w \in Root : w = todo[1].at
  BY <1>2
<1>4. w \in Location /\ w \notin Slots /\ \A o \in Obj, i \in Places : w # Slot(o, i)
  BY <1>3 DEF Root, Slots, Places
<1>5. PICK o \in Obj :
        /\ o \notin live /\ live' = live \cup {o} /\ val' = [val EXCEPT ![w] = o]
        /\ refc' = [refc EXCEPT ![o] = 1] /\ size' = [size EXCEPT ![o] = todo[1].slots]
  BY <1>1, <1>3
<1>6. val[w] = Null
  <2>1. Cleared(w, 1)
    BY <1>1, <1>2, <1>3, <1>4 DEF IInv, FillsCleared, Fills
  <2> QED BY <1>1, <2>1, HeapFacts
<1>7. size[o] = 0 /\ Holders(o) = {} /\ \A i \in Places : val[Slot(o, i)] = Null
  <2>1. size[o] = 0 /\ Holders(o) = {}
    BY <1>1, <1>5, HeapFacts
  <2>2. \A i \in Places : i >= 0
    BY DEF Places
  <2> QED BY <1>1, <2>1, <2>2, HeapFacts
<1>8. Acquire(o, w) /\ o \in Variable
  <2>1. refc[o] = 0 /\ refc[o] \in Nat
    <3>1. Cardinality(Holders(o)) = 0
      BY <1>7, FS_EmptySet
    <3> QED BY <1>1, <3>1, HeapFacts DEF CountsExact, Types
  <2>2. refc' = [refc EXCEPT ![o] = @ + 1]
    BY <1>5, <2>1
  <2> QED BY <1>5, <2>2, Numbers DEF Acquire, Variable
<1>9. /\ Types' /\ CountsExact'
      /\ \A l \in Location : val'[l] = IF l = w THEN o ELSE val[l]
      /\ \A p \in Obj : Holders(p)' = IF p = o THEN Holders(p) \cup {w} ELSE Holders(p)
  BY <1>1, <1>4, <1>6, <1>8, HeapFacts, AcquireCounts
<1>10. /\ \A p \in Obj : size'[p] = IF p = o THEN todo[1].slots ELSE size[p]
       /\ size' \in [Obj -> 0 .. Width]
  BY <1>1, <1>2, <1>5, HeapFacts DEF TypeOK
<1>11. \A p \in Obj, i \in Places : val'[Slot(p, i)] = val[Slot(p, i)]
  <2> SUFFICES ASSUME NEW p \in Obj, NEW i \in Places PROVE val'[Slot(p, i)] = val[Slot(p, i)]
    OBVIOUS
  <2>1. Slot(p, i) \in Location
    BY Locations DEF Slots, Places
  <2> QED BY <1>4, <1>9, <2>1
<1>12. Heap'
  <2>1. TypeOK'
    BY <1>1, <1>5, <1>9, <1>10, HeapFacts DEF TypeOK, Types, Variable, frame
  <2>2. NoDangling'
    BY <1>1, <1>5, <1>9, HeapFacts DEF NoDangling, Variable
  <2>3. \A p \in Obj, i \in Places : i >= size'[p] => val'[Slot(p, i)] = Null
    BY <1>1, <1>7, <1>10, <1>11, HeapFacts
  <2>4. \A p \in Obj : p \notin live' => size'[p] = 0
    BY <1>1, <1>5, <1>10, HeapFacts
  <2> QED BY <1>9, <2>1, <2>2, <2>3, <2>4 DEF Heap
<1>13. Effect(0)
  <2>1. Moved(0)
    BY <1>1, MovesOn, HeapFacts
  <2> QED BY <1>1, <2>1 DEF Effect, frame
<1>14. Fills(todo[1]) /\ \A l, m : todo[1] # Drop(l) /\ todo[1] # Share(l, m) /\ todo[1] # Free(l)
  BY <1>1, Constructed DEF Fills
<1>15. Memory(0)
  <2>1. \A l \in Root : val[l] # Null => val'[l] = val[l]
    BY <1>6, <1>9 DEF Root
  <2>2. \A l \in Location : val'[l] = val[l] \/ (Fills(todo[1]) /\ todo[1].at = l)
    BY <1>3, <1>9, <1>14
  <2>3. \A l \in Slots : val'[l] = val[l]
    BY <1>4, <1>9, Locations
  <2>4. /\ val'[todo[1].at] \in Obj /\ size'[val'[todo[1].at]] = todo[1].slots
        /\ \A i \in Places : val'[Slot(val'[todo[1].at], i)] = Null
    BY <1>3, <1>4, <1>7, <1>9, <1>10, <1>11
  <2> QED BY <1>11, <1>14, <2>1, <2>2, <2>3, <2>4 DEF Memory
<1>16. Objects(0)
  <2>1. \A p \in live : p \in Obj /\ p # o
    BY <1>1, <1>5, HeapFacts DEF TypeOK
  <2>2. \A p \in live' : Holders(p)' = {} => p \in live /\ Holders(p) = {}
    BY <1>5, <1>9, <2>1
  <2>3. \A p \in Obj : Holders(p) # {} => size'[p] = size[p]
    BY <1>7, <1>10
  <2>4. \A p \in live : Holders(p) = {} => Holders(p)' = {}
    BY <1>9, <2>1
  <2>5. \A k \in 1 .. 0 : FALSE
    OBVIOUS
  <2> QED BY <1>1, <1>5, <1>14, <2>2, <2>3, <2>4, <2>5 DEF Objects
<1> QED BY <1>12, <1>13, <1>15, <1>16, Kept DEF Carried

(* A step that leaves every variable and counter alone.                    *)
LEMMA SameHolders ==
  ASSUME UNCHANGED val
  PROVE  \A o : Holders(o)' = Holders(o)
BY DEF Holders

(* A step that only changes an object's size or frees it, seen in memory.  *)
LEMMA SameMemory ==
  ASSUME UNCHANGED val, todo[1].op \in {"free", "shrink"}
  PROVE  /\ Memory(0) /\ \A l \in Root : \A m : todo[1] # Drop(l) /\ todo[1] # Share(l, m)
         /\ \A o : Holders(o)' = Holders(o)
<1>1. \A l, m : todo[1] # Drop(l) /\ todo[1] # Share(l, m)
  BY Constructed
<1> QED BY <1>1, SameHolders DEF Memory

(* Giving an object back to the pool keeps the invariant: nothing refers   *)
(* to it, its slots are null.                                              *)
LEMMA DoFreeKeeps == ASSUME IInv, DoFree PROVE IInv'
<1>1. /\ todo # <<>> /\ todo[1].op = "free" /\ todo' = Tail(todo) /\ UNCHANGED <<val, refc, frame, err>>
      /\ live' = live \ {todo[1].obj} /\ size' = [size EXCEPT ![todo[1].obj] = 0]
  BY DEF DoFree, Doing
<1>2. todo[1] = Free(todo[1].obj) /\ todo[1].obj \in Obj /\ 1 \in Steps
  BY <1>1, HeapFacts, Shapes
<1>3. PICK o \in Obj : o = todo[1].obj /\ todo[1] = Free(o)
  BY <1>2
<1>4. o \in live /\ Holders(o) = {} /\ \A i \in Places : val[Slot(o, i)] = Null
  <2>1. o \in live /\ Holders(o) = {} /\ \A i \in Places : Cleared(Slot(o, i), 1)
    BY <1>2, <1>3 DEF IInv, Frees
  <2> QED BY <1>1, <2>1, HeapFacts
<1>5. /\ \A p \in Obj : size'[p] = IF p = o THEN 0 ELSE size[p]
      /\ size' \in [Obj -> 0 .. Width]
  BY <1>1, <1>3, HeapFacts, Numbers DEF TypeOK
<1>6. Memory(0) /\ \A p : Holders(p)' = Holders(p)
  BY <1>1, SameMemory
<1>7. Heap'
  <2>1. TypeOK'
    BY <1>1, <1>5, HeapFacts DEF TypeOK, frame
  <2>2. NoDangling'
    <3>1. \A l \in Location : val[l] # o
      BY <1>4 DEF Holders
    <3> QED BY <1>1, <1>3, <3>1, HeapFacts DEF NoDangling, Variable
  <2>3. CountsExact'
    BY <1>1, <1>6, HeapFacts DEF CountsExact
  <2>4. \A p \in Obj, i \in Places : i >= size'[p] => val'[Slot(p, i)] = Null
    BY <1>1, <1>4, <1>5, HeapFacts
  <2>5. \A p \in Obj : p \notin live' => size'[p] = 0
    BY <1>1, <1>3, <1>5, HeapFacts
  <2> QED BY <2>1, <2>2, <2>3, <2>4, <2>5 DEF Heap
<1>8. Effect(0)
  <2>1. Moved(0)
    BY <1>1, MovesOn, HeapFacts
  <2> QED BY <1>1, <2>1 DEF Effect, frame
<1>9. Objects(0)
  <2>1. \A p \in live : todo[1] # Free(p) => p \in live'
    BY <1>1, <1>3
  <2>2. \A p \in live' : p \in live /\ todo[1] # Free(p)
    BY <1>1, <1>3, Constructed
  <2>3. \A p \in Obj : Holders(p) # {} => size'[p] = size[p]
    BY <1>4, <1>5
  <2>4. \A k \in 1 .. 0 : FALSE
    OBVIOUS
  <2> QED BY <1>1, <1>6, <2>1, <2>2, <2>3, <2>4 DEF Objects
<1> QED BY <1>6, <1>7, <1>8, <1>9, Kept DEF Carried

(* Taking the last slot from a container keeps it: the slot is null.       *)
LEMMA DoShrinkKeeps == ASSUME IInv, DoShrink PROVE IInv'
<1>1. /\ todo # <<>> /\ todo[1].op = "shrink" /\ todo' = Tail(todo) /\ UNCHANGED <<val, refc, live, frame, err>>
      /\ size' = [size EXCEPT ![val[todo[1].at]] = @ - 1]
  BY DEF DoShrink, Doing
<1>2. todo[1].at \in Root /\ 1 \in Steps
  BY <1>1, HeapFacts, Shapes
<1>3. PICK o \in Obj : Refers(todo[1].at, 1, o) /\ size[o] > 0 /\ Cleared(Slot(o, size[o] - 1), 1)
  BY <1>1, <1>2 DEF IInv, Shrinks
<1>4. val[todo[1].at] = o
  <2>1. ~ \E j \in Steps : j < 1
    BY <1>1, HeapFacts DEF Steps
  <2> QED BY <1>3, <2>1 DEF Refers
<1>5. val[Slot(o, size[o] - 1)] = Null
  BY <1>1, <1>3, HeapFacts
<1>6. /\ \A p \in Obj : size'[p] = IF p = o THEN size[p] - 1 ELSE size[p]
      /\ size' \in [Obj -> 0 .. Width] /\ size[o] \in 1 .. Width /\ o \in live
  <2>1. size[o] \in 0 .. Width /\ size[o] - 1 \in 0 .. Width /\ size[o] \in 1 .. Width
    BY <1>1, <1>3, HeapFacts, Numbers
  <2>2. o \in live
    BY <1>1, <2>1, HeapFacts
  <2> QED BY <1>1, <1>4, <2>1, <2>2, HeapFacts DEF TypeOK
<1>7. Memory(0) /\ \A p : Holders(p)' = Holders(p)
  BY <1>1, SameMemory
<1>8. Heap'
  <2>1. TypeOK'
    BY <1>1, <1>6, HeapFacts DEF TypeOK, frame
  <2>2. NoDangling'
    BY <1>1, HeapFacts DEF NoDangling, Variable
  <2>3. CountsExact'
    BY <1>1, <1>7, HeapFacts DEF CountsExact
  <2>4. \A p \in Obj, i \in Places : i >= size'[p] => val'[Slot(p, i)] = Null
    <3> SUFFICES ASSUME NEW p \in Obj, NEW i \in Places, i >= size'[p] PROVE val[Slot(p, i)] = Null
      BY <1>1
    <3>1. CASE p = o
      <4>1. i = size[o] - 1 \/ i >= size[o]
        BY <1>6, <3>1, Numbers DEF Places
      <4> QED BY <1>1, <1>5, <3>1, <4>1, HeapFacts
    <3>2. CASE p # o
      BY <1>1, <1>6, <3>2, HeapFacts
    <3> QED BY <3>1, <3>2
  <2>5. \A p \in Obj : p \notin live' => size'[p] = 0
    BY <1>1, <1>6, HeapFacts
  <2> QED BY <2>1, <2>2, <2>3, <2>4, <2>5 DEF Heap
<1>9. Effect(0)
  <2>1. Moved(0)
    BY <1>1, MovesOn, HeapFacts
  <2> QED BY <1>1, <2>1 DEF Effect, frame
<1>10. Objects(0)
  <2>1. \A p : todo[1] # Free(p)
    BY <1>1, Constructed
  <2>2. \A k \in 1 .. 0 : FALSE
    OBVIOUS
  <2> QED BY <1>1, <1>7, <2>1, <2>2 DEF Objects
<1> QED BY <1>7, <1>8, <1>9, <1>10, Kept DEF Carried

(* Appending to a container keeps it: the container is there and has room. *)
LEMMA DoExtendKeeps == ASSUME IInv, DoExtend PROVE IInv'
<1>1. /\ todo # <<>> /\ todo[1].op = "extend" /\ todo' = Tail(todo) /\ UNCHANGED <<live, frame, err>>
      /\ size' = [size EXCEPT ![val[todo[1].at]] = @ + 1]
      /\ Acquire(val[todo[1].from], Slot(val[todo[1].at], size[val[todo[1].at]]))
  BY DEF DoExtend, Doing
<1>2. todo[1].at \in Root /\ todo[1].from \in Root /\ 1 \in Steps
  BY <1>1, HeapFacts, Shapes
<1>3. PICK o \in Obj : Refers(todo[1].at, 1, o) /\ size[o] < Width
  BY <1>1, <1>2 DEF IInv, Extends
<1>4. val[todo[1].at] = o
  <2>1. ~ \E j \in Steps : j < 1
    BY <1>1, HeapFacts DEF Steps
  <2> QED BY <1>3, <2>1 DEF Refers
<1>5. PICK i \in Places : i = size[o]
  BY <1>1, <1>3, HeapFacts, Numbers DEF Places
<1>6. PICK w \in Slots : w = Slot(o, i)
  BY DEF Slots, Places
<1>7. w \in Location /\ val[w] = Null
  <2>1. i >= size[o]
    BY <1>5, Numbers DEF Places
  <2> QED BY <1>1, <1>6, <2>1, HeapFacts, Locations
<1>8. PICK v \in Variable : v = val[todo[1].from] /\ (v # Null => todo[1].from \in Holders(v) /\ v \in live)
  <2>1. todo[1].from \in Location
    BY <1>2 DEF Root
  <2> QED BY <1>1, <2>1, HeapFacts
<1>9. /\ Types' /\ CountsExact'
      /\ \A l \in Location : val'[l] = IF l = w THEN v ELSE val[l]
      /\ \A p \in Obj : Holders(p)' = IF p = v THEN Holders(p) \cup {w} ELSE Holders(p)
  <2>1. Acquire(v, w)
    BY <1>1, <1>4, <1>5, <1>6, <1>8
  <2> QED BY <1>1, <1>7, <2>1, HeapFacts, AcquireCounts
<1>10. /\ \A p \in Obj : size'[p] = IF p = o THEN size[p] + 1 ELSE size[p]
       /\ size' \in [Obj -> 0 .. Width] /\ o \in live /\ Holders(o) # {}
  <2>1. size[o] \in 0 .. Width /\ size[o] + 1 \in 0 .. Width
    BY <1>1, <1>3, HeapFacts, Numbers
  <2>2. o \in live /\ Holders(o) # {}
    <3>1. todo[1].at \in Location
      BY <1>2 DEF Root
    <3> QED BY <1>1, <1>4, <3>1, HeapFacts, Numbers
  <2> QED BY <1>1, <1>4, <2>1, <2>2, HeapFacts DEF TypeOK
<1>11. \A p \in Obj, m \in Places : p # o \/ m # i => val'[Slot(p, m)] = val[Slot(p, m)]
  <2> SUFFICES ASSUME NEW p \in Obj, NEW m \in Places, p # o \/ m # i
               PROVE  val'[Slot(p, m)] = val[Slot(p, m)]
    OBVIOUS
  <2>1. Slot(p, m) \in Location
    BY Locations DEF Slots, Places
  <2>2. Slot(p, m) # w
    BY <1>6, Distinct
  <2> QED BY <1>9, <2>1, <2>2
<1>12. Heap'
  <2>1. TypeOK'
    BY <1>1, <1>9, <1>10, HeapFacts DEF TypeOK, Types, Variable, frame
  <2>2. NoDangling'
    BY <1>1, <1>8, <1>9, HeapFacts DEF NoDangling, Variable
  <2>3. \A p \in Obj, m \in Places : m >= size'[p] => val'[Slot(p, m)] = Null
    <3> SUFFICES ASSUME NEW p \in Obj, NEW m \in Places, m >= size'[p] PROVE val'[Slot(p, m)] = Null
      OBVIOUS
    <3>1. m \in Nat /\ size[p] \in Nat
      BY <1>1, HeapFacts, Numbers DEF Places
    <3>2. m >= size[p] /\ (p # o \/ m # i)
      BY <1>5, <1>10, <3>1
    <3> QED BY <1>1, <1>11, <3>2, HeapFacts
  <2>4. \A p \in Obj : p \notin live' => size'[p] = 0
    BY <1>1, <1>10, HeapFacts
  <2> QED BY <1>9, <2>1, <2>2, <2>3, <2>4 DEF Heap
<1>13. Effect(0)
  <2>1. Moved(0)
    BY <1>1, MovesOn, HeapFacts
  <2> QED BY <1>1, <2>1 DEF Effect, frame
<1>14. \A l, m : todo[1] # Drop(l) /\ todo[1] # Share(l, m) /\ todo[1] # Free(l)
  BY <1>1, Constructed
<1>15. Memory(0)
  <2>1. \A l \in Root : val'[l] = val[l]
    BY <1>9 DEF Root
  <2>2. \A l \in Location : val'[l] = val[l] \/ l \in Slots
    BY <1>9
  <2>3. ~OnlyDrops(2)
    BY <1>1, <1>2 DEF OnlyDrops
  <2>4. \A p \in Obj, m \in Places : val'[Slot(p, m)] = val[Slot(p, m)] \/ Holders(p) # {}
    BY <1>10, <1>11
  <2> QED BY <1>1, <1>14, <2>1, <2>2, <2>3, <2>4 DEF Memory
<1>16. Objects(0)
  <2>1. \A p \in Obj : Holders(p) = {} => Holders(p)' = {}
    BY <1>8, <1>9, Numbers
  <2>2. \A p \in Obj : Holders(p)' = {} => Holders(p) = {}
    BY <1>9
  <2>3. live \subseteq Obj
    BY <1>1, HeapFacts DEF TypeOK
  <2>4. \A k \in 1 .. 0 : FALSE
    OBVIOUS
  <2> QED BY <1>1, <1>4, <1>10, <1>14, <2>1, <2>2, <2>3, <2>4 DEF Objects
<1> QED BY <1>12, <1>13, <1>15, <1>16, Kept DEF Carried

(* A variable that is made null, and how that is seen in memory.           *)
LEMMA DropMemory ==
  ASSUME IInv, todo # <<>>, todo[1].op = "drop", NEW w \in Location,
         \/ todo[1].at = w
         \/ \E l \in Registers, i \in Places : todo[1].at = SlotOf(l, i) /\ val[l] \in Obj /\ w = Slot(val[l], i),
         \A l \in Location : val'[l] = IF l = w THEN Null ELSE val[l], NEW c
  PROVE  Memory(c)
<1>1. \A l : todo[1] = Drop(l) => todo[1].at = l
  BY Constructed
<1>2. todo[1].at = w => todo[1] = Drop(w)
  BY HeapFacts, Shapes
<1>3. todo[1].at # w => todo[1].at \notin Location /\ w \in Slots
  BY Named DEF SlotNames, Slots, Places
<1>4. \A l \in Location : todo[1] = Drop(l) => val'[l] = Null
  BY <1>1, <1>3
<1>5. \A l \in Root : val[l] # Null /\ todo[1] # Drop(l) => val'[l] = val[l]
  BY <1>2, <1>3 DEF Root
<1>6. \A l \in Slots : val'[l] = val[l] \/ todo[1] = Drop(l) \/ ~OnlyDrops(2)
  <2>1. todo[1].at \notin Location => ~OnlyDrops(2)
    BY HeapFacts DEF OnlyDrops
  <2> QED BY <1>2, <1>3, <2>1, Locations
<1>7. \A o \in Obj, i \in Places : val'[Slot(o, i)] = val[Slot(o, i)] \/ val'[Slot(o, i)] = Null
  <2>1. \A o \in Obj, i \in Places : Slot(o, i) \in Location
    BY Locations DEF Slots, Places
  <2> QED BY <2>1
<1>8. \A l, m : todo[1] # Share(l, m)
  BY Constructed
<1> QED BY <1>4, <1>5, <1>6, <1>7, <1>8 DEF Memory

(* What is left of the heap.                                               *)
LEMMA DropHeap ==
  ASSUME IInv, todo # <<>>, NEW w \in Location, Types', CountsExact',
         \A l \in Location : val'[l] = IF l = w THEN Null ELSE val[l],
         UNCHANGED <<size, live, frame, err>>
  PROVE  Heap'
<1>1. TypeOK'
  BY HeapFacts DEF TypeOK, Types, Variable, frame
<1>2. NoDangling'
  BY HeapFacts DEF NoDangling, Variable
<1>3. \A o \in Obj, i \in Places : i >= size'[o] => val'[Slot(o, i)] = Null
  <2>1. \A o \in Obj, i \in Places : Slot(o, i) \in Location
    BY Locations DEF Slots, Places
  <2> QED BY <2>1, HeapFacts
<1>4. \A o \in Obj : o \notin live' => size'[o] = 0
  BY HeapFacts
<1> QED BY <1>1, <1>2, <1>3, <1>4 DEF Heap

(* Nothing is released below the variable: its object is still referred to,*)
(* or it referred to none.                                                 *)
LEMMA DropOnly ==
  ASSUME IInv, todo # <<>>, todo[1].op = "drop", Memory(0), Heap', todo' = Tail(todo),
         UNCHANGED <<size, live, frame, err>>,
         \A o \in Obj : Holders(o)' = {} <=> Holders(o) = {}
  PROVE  IInv'
<1>1. Effect(0)
  <2>1. Moved(0)
    BY MovesOn, HeapFacts
  <2> QED BY <2>1 DEF Effect, frame
<1>2. Objects(0)
  <2>1. \A o : todo[1] # Free(o)
    BY Constructed
  <2>2. live \subseteq Obj
    BY HeapFacts DEF TypeOK
  <2>3. \A k \in 1 .. 0 : FALSE
    OBVIOUS
  <2> QED BY <2>1, <2>2, <2>3 DEF Objects
<1> QED BY <1>1, <1>2, Kept DEF Carried

(* The steps that release the slots of an object and free it.              *)
LEMMA DropSteps ==
  ASSUME todo \in Seq(StepSet), todo # <<>>, NEW o \in Obj, NEW n \in 0 .. Width,
         todo' = [i \in 1 .. n |-> Drop(Slot(o, i - 1))] \o <<Free(o)>> \o Tail(todo)
  PROVE  /\ Moved(n + 1) /\ \A k \in 1 .. n + 1 : k \in Steps'
         /\ \A k \in 1 .. n : todo'[k] = Drop(Slot(o, k - 1))
         /\ todo'[n + 1] = Free(o)
<1> DEFINE e == [i \in 1 .. n |-> Drop(Slot(o, i - 1))]
           s == e \o <<Free(o)>>
<1>1. todo' = s \o Tail(todo)
  OBVIOUS
<1>2. n \in Nat /\ n + 1 \in Nat
  BY Numbers
<1>3. \A i \in 1 .. n : Drop(Slot(o, i - 1)) \in StepSet
  <2>1. \A i \in 1 .. n : i - 1 \in 0 .. Width - 1
    BY Numbers
  <2> QED BY <2>1, Locations DEF Slots, StepSet
<1>4. e \in Seq(StepSet) /\ Len(e) = n
  BY <1>2, <1>3
<1>5. <<Free(o)>> \in Seq(StepSet) /\ Len(<<Free(o)>>) = 1 /\ <<Free(o)>>[1] = Free(o)
  BY DEF StepSet
<1>6. \A k \in 1 .. n : e[k] = Drop(Slot(o, k - 1))
  OBVIOUS
<1> HIDE DEF e
<1>7. /\ s \in Seq(StepSet) /\ Len(s) = n + 1
      /\ \A k \in 1 .. n + 1 : s[k] = IF k <= n THEN e[k] ELSE <<Free(o)>>[k - n]
  BY <1>2, <1>4, <1>5, Concatenated
<1>8. /\ \A k \in 1 .. n : s[k] = Drop(Slot(o, k - 1))
      /\ s[n + 1] = Free(o)
  <2>1. \A k \in 1 .. n : k \in 1 .. n + 1 /\ k <= n
    BY <1>2
  <2>2. n + 1 \in 1 .. n + 1 /\ ~(n + 1 <= n) /\ (n + 1) - n = 1
    BY <1>2
  <2> QED BY <1>5, <1>6, <1>7, <2>1, <2>2
<1> HIDE DEF s
<1>9. /\ Moved(n + 1)
      /\ \A k \in 1 .. n + 1 : k \in Steps' /\ todo'[k] = s[k]
  BY <1>1, <1>7, Moves
<1>10. n + 1 \in 1 .. n + 1 /\ \A k \in 1 .. n : k \in 1 .. n + 1
  BY <1>2
<1> QED BY <1>8, <1>9, <1>10

(* The object goes: its slots are released next, then it is freed.         *)
LEMMA DropLast ==
  ASSUME IInv, todo # <<>>, todo[1].op = "drop", NEW w \in Location, NEW o \in Obj, val[w] = o,
         NEW n \in 0 .. Width, n = size[o],
         Memory(n + 1), Heap', UNCHANGED <<size, live, frame, err>>,
         \A l \in Location : val'[l] = IF l = w THEN Null ELSE val[l],
         \A p \in Obj \ {o} : Holders(p)' = Holders(p), Holders(o)' = {},
         Moved(n + 1), \A k \in 1 .. n + 1 : k \in Steps',
         \A k \in 1 .. n : todo'[k] = Drop(Slot(o, k - 1)), todo'[n + 1] = Free(o)
  PROVE  IInv'
<1>2. n \in Nat /\ n + 1 \in Nat
  BY Numbers
<1>3. \A i \in 1 .. n : i - 1 \in Places /\ Slot(o, i - 1) \in Slots
  <2>1. \A i \in 1 .. n : i - 1 \in 0 .. Width - 1
    BY Numbers
  <2> QED BY <2>1 DEF Places, Slots
<1>11. \A k \in 1 .. n + 1 : k = n + 1 \/ k \in 1 .. n
  BY <1>2
<1>12. Effect(n + 1)
  <2>1. \A k \in 1 .. n + 1 : todo'[k].op = "free" \/ \E l \in Slots : todo'[k] = Drop(l)
    BY <1>3, <1>11, Constructed
  <2> QED BY <2>1 DEF Effect, frame
<1>13. o \in live /\ Holders(o) # {}
  BY HeapFacts, Numbers
<1>14. \A i \in Places : Cleared(Slot(o, i), n + 1)'
  <2> SUFFICES ASSUME NEW i \in Places PROVE Cleared(Slot(o, i), n + 1)'
    OBVIOUS
  <2>1. CASE i < n
    <3>1. i + 1 \in 1 .. n /\ (i + 1) - 1 = i /\ i + 1 < n + 1
      BY <1>2, <2>1 DEF Places
    <3>2. i + 1 \in Steps' /\ todo'[i + 1] = Drop(Slot(o, i))
      BY <1>11, <3>1
    <3> QED BY <3>1, <3>2 DEF Cleared, Dropped
  <2>2. CASE i >= n
    <3>1. val[Slot(o, i)] = Null /\ Slot(o, i) \in Location
      BY <2>2, HeapFacts, Locations DEF Slots, Places
    <3> QED BY <3>1 DEF Cleared
  <2>3. i \in Int
    BY DEF Places
  <2> QED BY <1>2, <2>1, <2>2, <2>3
<1>15. \A k \in 1 .. n + 1, p \in Obj : todo'[k] = Free(p) => k = n + 1 /\ p = o
  <2>1. \A k \in 1 .. n, p \in Obj : todo'[k] # Free(p)
    BY Constructed
  <2>2. \A p : Free(p) = Free(o) => p = o
    BY Constructed
  <2> QED BY <1>11, <2>1, <2>2
<1>16. \A k \in 1 .. n + 1, p \in Obj, i \in Places : todo'[k] = Drop(Slot(p, i)) => p = o
  <2>1. \A p, i : todo'[n + 1] # Drop(Slot(p, i))
    BY Constructed
  <2>2. \A k \in 1 .. n : \A p, i : todo'[k] = Drop(Slot(p, i)) => Slot(p, i) = Slot(o, k - 1)
    BY Constructed
  <2> QED BY <1>11, <2>1, <2>2, Distinct
<1>17. Objects(n + 1)
  <2>1. \A p : todo[1] # Free(p)
    BY Constructed
  <2>2. live \subseteq Obj
    BY HeapFacts DEF TypeOK
  <2>3. n + 1 \in 1 .. n + 1
    BY <1>2
  <2>4. \A p \in live : Holders(p) = {} => Holders(p)' = {}
    BY <1>13, <2>2
  <2>5. \A p \in live' : Holders(p)' = {} =>
          \/ p \in live /\ Holders(p) = {} /\ todo[1] # Free(p)
          \/ \E k \in 1 .. n + 1 : todo'[k] = Free(p)
    BY <2>1, <2>2, <2>3
  <2>6. \A k \in 1 .. n + 1, p \in Obj : todo'[k] = Free(p) =>
          /\ k = n + 1 /\ p \in live' /\ Holders(p) # {} /\ Holders(p)' = {}
          /\ \A i \in Places : Cleared(Slot(p, i), n + 1)'
    BY <1>13, <1>14, <1>15
  <2>7. \A k \in 1 .. n + 1, p \in Obj, i \in Places : todo'[k] = Drop(Slot(p, i)) => Holders(p)' = {}
    BY <1>16
  <2> QED BY <2>4, <2>5, <2>6, <2>7 DEF Objects
<1> QED BY <1>12, <1>17, Kept DEF Carried

(* Releasing a variable keeps it, whether the object stays or goes.        *)
LEMMA DoDropKeeps == ASSUME IInv, DoDrop PROVE IInv'
<1>1. todo # <<>> /\ todo[1].op = "drop" /\ UNCHANGED <<size, live, frame, err>>
  BY DEF DoDrop, Doing
<1>2. PICK w \in Location :
        /\ w = At(todo[1].at)
        /\ \/ todo[1].at = w
           \/ \E l \in Registers, i \in Places :
                todo[1].at = SlotOf(l, i) /\ val[l] \in Obj /\ w = Slot(val[l], i)
  BY <1>1, Where
<1>3. val' = [val EXCEPT ![w] = Null]
  BY <1>2 DEF DoDrop
<1>4. \A l \in Location : val'[l] = IF l = w THEN Null ELSE val[l]
  BY <1>1, <1>3, HeapFacts DEF Types
<1>5. \A c : Memory(c)
  BY <1>1, <1>2, <1>4, DropMemory
<1>6. CASE val[w] = Null
  <2>1. todo' = Tail(todo) /\ UNCHANGED refc
    BY <1>2, <1>6 DEF DoDrop
  <2>2. val' = val
    BY <1>1, <1>3, <1>6, HeapFacts DEF Types
  <2>3. \A o : Holders(o)' = Holders(o)
    BY <2>2, SameHolders
  <2>4. Types' /\ CountsExact'
    BY <1>1, <2>1, <2>2, <2>3, HeapFacts DEF Types, CountsExact
  <2>5. Heap'
    BY <1>1, <1>4, <2>4, DropHeap
  <2> QED BY <1>1, <1>5, <2>1, <2>3, <2>5, DropOnly
<1>7. CASE val[w] # Null
  <2>1. PICK o \in Obj : val[w] = o
    BY <1>1, <1>7, HeapFacts
  <2>2. /\ refc' = [refc EXCEPT ![o] = @ - 1]
        /\ todo' = IF refc[o] > 1 THEN Tail(todo)
                   ELSE [i \in 1 .. size[o] |-> Drop(Slot(o, i - 1))] \o <<Free(o)>> \o Tail(todo)
    BY <1>2, <1>7, <2>1 DEF DoDrop, Each
  <2>3. /\ Types' /\ CountsExact' /\ Holders(o)' = Holders(o) \ {w}
        /\ \A p \in Obj \ {o} : Holders(p)' = Holders(p)
        /\ refc[o] > 1 <=> Holders(o)' # {}
    BY <1>1, <1>3, <2>1, <2>2, HeapFacts, DropCounts
  <2>4. Heap'
    BY <1>1, <1>4, <2>3, DropHeap
  <2>5. CASE refc[o] > 1
    <3>1. \A p \in Obj : Holders(p)' = {} <=> Holders(p) = {}
      BY <2>3, <2>5
    <3> QED BY <1>1, <1>5, <2>2, <2>4, <2>5, <3>1, DropOnly
  <2>6. CASE ~(refc[o] > 1)
    <3>1. todo' = [i \in 1 .. size[o] |-> Drop(Slot(o, i - 1))] \o <<Free(o)>> \o Tail(todo)
      BY <2>2, <2>6
    <3>2. PICK n \in 0 .. Width : n = size[o]
      BY <1>1, HeapFacts
    <3>3. /\ Moved(n + 1) /\ \A k \in 1 .. n + 1 : k \in Steps'
          /\ \A k \in 1 .. n : todo'[k] = Drop(Slot(o, k - 1))
          /\ todo'[n + 1] = Free(o)
      <4>1. todo \in Seq(StepSet)
        BY <1>1, HeapFacts
      <4>2. todo' = [i \in 1 .. n |-> Drop(Slot(o, i - 1))] \o <<Free(o)>> \o Tail(todo)
        BY <3>1, <3>2
      <4> QED BY <1>1, <4>1, <4>2, DropSteps
    <3> QED BY <1>1, <1>4, <1>5, <2>1, <2>3, <2>4, <2>6, <3>2, <3>3, DropLast
  <2> QED BY <2>5, <2>6
<1> QED BY <1>6, <1>7

-----------------------------------------------------------------------------
(* Steps that put and release variables outside the containers only.       *)
LEMMA Quiet ==
  ASSUME \A k \in Steps' : /\ todo'[k].op \in {"drop", "share", "new", "enter", "leave"}
                           /\ todo'[k].op \in {"drop", "share", "new"} => todo'[k].at \in Root,
         \A o \in live' : Holders(o)' # {}
  PROVE  SlotsOpen' /\ SlotsFilled' /\ PutsHeld' /\ Extends' /\ Shrinks' /\ Frees'
<1>1. \A l \in Registers, i \in Places : SlotOf(l, i) \notin Root
  BY Named DEF SlotNames, Places, Root
<1>2. \A o \in Obj, i \in Places : Slot(o, i) \notin Root
  BY DEF Root, Slots, Places
<1>3. SlotsOpen'
  BY <1>1 DEF SlotsOpen
<1>4. SlotsFilled'
  BY <1>2 DEF SlotsFilled
<1>5. PutsHeld' /\ Extends' /\ Shrinks'
  BY DEF PutsHeld, Extends, Shrinks
<1>6. Frees'
  BY Constructed DEF Frees
<1> QED BY <1>3, <1>4, <1>5, <1>6

(* The frame of a call: what the arguments' places are.                    *)
LEMMA DoEnterSteps ==
  ASSUME IInv, DoEnter
  PROVE  \E d \in RegId, n \in 0 .. MaxArgs :
           /\ todo[1] = Enter(d, n) /\ Steps = {1} /\ depth \in 0 .. MaxDepth - 1
           /\ depth' = depth + 1 /\ UNCHANGED <<heap, err>>
           /\ call' = [call EXCEPT ![depth + 1] = [dst |-> d, nargs |-> n]]
           /\ sp' = [sp EXCEPT ![depth + 1] = IF n > ArgRegs THEN n - ArgRegs ELSE 0]
           /\ Steps' = 1 .. n /\ todo' \in Seq(StepSet) /\ (n > 0 => depth > 0)
           /\ \A k \in 1 .. n :
                /\ todo'[k].op = "share" /\ todo'[k].at \in Root
                /\ \/ k <= ArgRegs /\ todo'[k].at = Reg(depth + 1, k - 1) /\ k - 1 \in RegId
                   \/ /\ k > ArgRegs /\ todo'[k].at = Stk(depth + 1, k - 1 - ArgRegs)
                      /\ k - 1 - ArgRegs \in 0 .. Stack - 1
<1>1. todo # <<>> /\ todo[1].op = "enter" /\ UNCHANGED <<heap, err>>
  BY DEF DoEnter, Doing
<1>2. PICK d \in RegId, n \in 0 .. MaxArgs : todo[1] = Enter(d, n)
  BY <1>1, HeapFacts, Shapes
<1>3. /\ Len(todo) = 1 /\ depth < MaxDepth /\ (depth = 0 => n = 0)
  <2>1. Enters /\ 1 \in Steps
    BY <1>1, HeapFacts DEF IInv
  <2>2. todo[1].nargs = n
    BY <1>2, Constructed
  <2> QED BY <1>1, <2>1, <2>2 DEF Enters
<1>4. depth \in 0 .. MaxDepth - 1 /\ depth + 1 \in Frame
  BY <1>1, <1>3, HeapFacts, Numbers DEF TypeOK, Frame
<1>5. todo \in Seq(StepSet) /\ Steps = {1}
  BY <1>1, <1>3, HeapFacts DEF Steps
<1> DEFINE Place(i) == IF i < ArgRegs THEN Reg(depth + 1, i) ELSE Stk(depth + 1, i - ArgRegs)
           p == [i \in 1 .. n |-> Share(Arg(depth, i - 1), Place(i - 1))]
<1>6. /\ todo' = p \o Tail(todo) /\ depth' = depth + 1
      /\ call' = [call EXCEPT ![depth + 1] = [dst |-> d, nargs |-> n]]
      /\ sp' = [sp EXCEPT ![depth + 1] = IF n > ArgRegs THEN n - ArgRegs ELSE 0]
  <2>1. todo[1].nargs = n /\ todo[1].dst = d
    BY <1>2, Constructed
  <2>2. /\ todo' = [i \in 1 .. todo[1].nargs |->
                     Share(Arg(depth, i - 1), IF i - 1 < ArgRegs THEN Reg(depth + 1, i - 1)
                                              ELSE Stk(depth + 1, i - 1 - ArgRegs))] \o Tail(todo)
        /\ depth' = depth + 1
        /\ call' = [call EXCEPT ![depth + 1] = [dst |-> todo[1].dst, nargs |-> todo[1].nargs]]
        /\ sp' = [sp EXCEPT ![depth + 1] = IF todo[1].nargs > ArgRegs THEN todo[1].nargs - ArgRegs ELSE 0]
    BY DEF DoEnter, Each
  <2> QED BY <2>1, <2>2
<1>8. ASSUME NEW k \in 1 .. n
      PROVE  /\ Arg(depth, k - 1) \in Root /\ Place(k - 1) \in Root
             /\ \/ k <= ArgRegs /\ Place(k - 1) = Reg(depth + 1, k - 1) /\ k - 1 \in RegId
                \/ /\ k > ArgRegs /\ Place(k - 1) = Stk(depth + 1, k - 1 - ArgRegs)
                   /\ k - 1 - ArgRegs \in 0 .. Stack - 1
  <2>1. depth \in Frame /\ k - 1 \in 0 .. MaxArgs - 1
    BY <1>3, <1>4, Numbers DEF Frame
  <2>2. Arg(depth, k - 1) \in Root
    BY <2>1, Locations DEF Root
  <2>3. CASE k <= ArgRegs
    <3>1. k - 1 \in RegId /\ k - 1 < ArgRegs
      BY <2>3, Numbers DEF RegId
    <3>2. Place(k - 1) = Reg(depth + 1, k - 1)
      BY <3>1
    <3> QED BY <1>4, <2>2, <2>3, <3>1, <3>2, Locations DEF Root
  <2>4. CASE k > ArgRegs
    <3>1. k - 1 - ArgRegs \in 0 .. Stack - 1 /\ ~(k - 1 < ArgRegs)
      BY <2>4, Numbers
    <3>2. Place(k - 1) = Stk(depth + 1, k - 1 - ArgRegs)
      BY <3>1
    <3> QED BY <1>4, <2>2, <2>4, <3>1, <3>2, Locations DEF Root
  <2> QED BY <2>3, <2>4, Numbers
<1>9. \A k \in 1 .. n : Share(Arg(depth, k - 1), Place(k - 1)) \in StepSet
  BY <1>8 DEF StepSet, Root
<1>10. n \in Nat
  BY Numbers
<1>11. p \in Seq(StepSet) /\ Len(p) = n /\ \A k \in 1 .. n : p[k] = Share(Arg(depth, k - 1), Place(k - 1))
  BY <1>9, <1>10
<1> HIDE DEF p
<1>12. todo' \in Seq(StepSet) /\ Steps' = 1 .. n /\ \A k \in 1 .. n : todo'[k] = p[k]
  <2>1. Moved(n) /\ \A k \in 1 .. n : todo'[k] = p[k]
    BY <1>1, <1>5, <1>6, <1>11, Moves
  <2>2. todo' \in Seq(StepSet) /\ Steps' = 1 .. Len(todo') /\ Len(todo') = Len(todo) - 1 + n
    BY <2>1 DEF Moved
  <2>3. Len(todo') = n
    <3>1. Len(todo') = 1 - 1 + n
      BY <1>3, <2>2
    <3> QED BY <1>10, <3>1
  <2> QED BY <2>1, <2>2, <2>3
<1> HIDE DEF Place
<1>13. \A k \in 1 .. n : todo'[k].op = "share" /\ todo'[k].at = Place(k - 1)
  BY <1>11, <1>12, Constructed
<1>14. n > 0 => depth > 0
  BY <1>3, <1>4
<1> QED BY <1>1, <1>2, <1>4, <1>5, <1>6, <1>8, <1>12, <1>13, <1>14

(* The heap is not touched by a call or a return.                          *)
LEMMA SameHeap ==
  ASSUME IInv, UNCHANGED <<val, refc, size, live>>, TypeOK'
  PROVE  Heap' /\ \A o : Holders(o)' = Holders(o)
<1>1. \A o : Holders(o)' = Holders(o)
  BY SameHolders
<1>2. /\ CountsExact /\ NoDangling
      /\ \A o \in Obj, i \in Places : i >= size[o] => val[Slot(o, i)] = Null
      /\ \A o \in Obj : o \notin live => size[o] = 0
  BY DEF IInv, Heap
<1>3. CountsExact' /\ NoDangling'
  BY <1>1, <1>2 DEF CountsExact, NoDangling
<1> QED BY <1>1, <1>2, <1>3 DEF Heap

(* With no object on its way to be freed, every object is referred to.     *)
LEMMA AllHeld ==
  ASSUME IInv, \A k \in Steps : todo[k].op # "free"
  PROVE  \A o \in live : Holders(o) # {}
<1>1. Frees
  BY DEF IInv
<1> QED BY <1>1, Constructed DEF Frees

(* Entering a frame keeps it: the registers and stack that the arguments   *)
(* go to are null.                                                         *)
LEMMA DoEnterKeeps == ASSUME IInv, DoEnter PROVE IInv'
<1>1. PICK d \in RegId, n \in 0 .. MaxArgs :
        /\ todo[1] = Enter(d, n) /\ Steps = {1} /\ depth \in 0 .. MaxDepth - 1
        /\ depth' = depth + 1 /\ UNCHANGED <<heap, err>>
        /\ call' = [call EXCEPT ![depth + 1] = [dst |-> d, nargs |-> n]]
        /\ sp' = [sp EXCEPT ![depth + 1] = IF n > ArgRegs THEN n - ArgRegs ELSE 0]
        /\ Steps' = 1 .. n /\ todo' \in Seq(StepSet) /\ (n > 0 => depth > 0)
        /\ \A k \in 1 .. n :
             /\ todo'[k].op = "share" /\ todo'[k].at \in Root
             /\ \/ k <= ArgRegs /\ todo'[k].at = Reg(depth + 1, k - 1) /\ k - 1 \in RegId
                \/ /\ k > ArgRegs /\ todo'[k].at = Stk(depth + 1, k - 1 - ArgRegs)
                   /\ k - 1 - ArgRegs \in 0 .. Stack - 1
  BY DoEnterSteps
<1>2. /\ todo[1].op = "enter" /\ todo[1].dst = d /\ todo[1].nargs = n
      /\ n \in Nat /\ depth \in Nat /\ depth + 1 \in Frame /\ 1 \in Frame
  BY <1>1, Constructed, Numbers DEF Frame
<1>3. TypeOK /\ Frames /\ Enters /\ ArgsCleared /\ ResultsNull
  BY DEF IInv, Heap
<1>4. /\ \A f \in Frame : f # depth + 1 => call'[f] = call[f] /\ sp'[f] = sp[f]
      /\ call'[depth + 1].nargs = n /\ call'[depth + 1].dst = d
      /\ sp'[depth + 1] = IF n > ArgRegs THEN n - ArgRegs ELSE 0
  BY <1>1, <1>2, <1>3 DEF TypeOK
<1>5. /\ UNCHANGED <<val, refc, size, live>>
  BY <1>1 DEF heap
<1>6. Heap' /\ \A o : Holders(o)' = Holders(o)
  <2>1. TypeOK'
    <3>1. sp' \in [Frame -> 0 .. Stack]
      <4>1. n > ArgRegs => n - ArgRegs \in 0 .. Stack
        BY Numbers
      <4> QED BY <1>1, <1>2, <1>3, <4>1, Numbers DEF TypeOK
    <3>2. call' \in [Frame -> [dst : RegId, nargs : 0 .. MaxArgs]]
      BY <1>1, <1>2, <1>3 DEF TypeOK
    <3>3. depth' \in 0 .. MaxDepth
      BY <1>1, Numbers
    <3> QED BY <1>1, <1>3, <1>5, <3>1, <3>2, <3>3 DEF TypeOK
  <2> QED BY <1>5, <2>1, SameHeap
<1>7. \A o \in live' : Holders(o)' # {}
  <2>1. \A k \in Steps : todo[k].op # "free"
    BY <1>1, <1>2
  <2> QED BY <1>5, <1>6, <2>1, AllHeld
<1>8. SlotsOpen' /\ SlotsFilled' /\ PutsHeld' /\ Extends' /\ Shrinks' /\ Frees'
  BY <1>1, <1>7, Quiet
<1>9. Enters' /\ Leaves' /\ ~Leaving' /\ ~Leaving
  BY <1>1, <1>2 DEF Enters, Leaves, Leaving
<1>10. FillsApart'
  <2> SUFFICES ASSUME NEW j \in 1 .. n, NEW k \in 1 .. n, j # k PROVE todo'[j].at # todo'[k].at
    BY <1>1 DEF FillsApart
  <2>1. j - 1 # k - 1 /\ j - 1 - ArgRegs # k - 1 - ArgRegs
    BY Numbers
  <2>2. \/ todo'[j].at = Reg(depth + 1, j - 1)
        \/ todo'[j].at = Stk(depth + 1, j - 1 - ArgRegs)
    BY <1>1
  <2>3. \/ todo'[k].at = Reg(depth + 1, k - 1)
        \/ todo'[k].at = Stk(depth + 1, k - 1 - ArgRegs)
    BY <1>1
  <2> QED BY <2>1, <2>2, <2>3, Distinct, Kinds
<1>11. FillsCleared'
  <2> SUFFICES ASSUME NEW k \in 1 .. n PROVE val[todo'[k].at] = Null
    BY <1>1, <1>5 DEF FillsCleared, Cleared
  <2>1. depth + 1 > depth /\ sp[depth + 1] = 0
    BY <1>2, <1>3 DEF Frames
  <2>2. \A i \in 0 .. Stack - 1 : i >= sp[depth + 1]
    BY <2>1
  <2> QED BY <1>1, <1>2, <1>3, <2>1, <2>2 DEF Frames
<1>12. FillsLocal'
  <2> SUFFICES ASSUME NEW k \in 1 .. n PROVE depth' > 0 /\ Local(todo[k].at, k)'
    BY <1>1 DEF FillsLocal
  <2>1. depth' > 0
    BY <1>1, <1>2
  <2>2. PICK a : a = todo'[k].at
    OBVIOUS
  <2>3. CASE k <= ArgRegs /\ a = Reg(depth + 1, k - 1) /\ k - 1 \in RegId
    <3>1. Local(a, k)'
      BY <1>1, <1>9, <2>3 DEF Local
    <3> QED BY <2>1, <2>2, <3>1 DEF Local
  <2>4. CASE k > ArgRegs /\ a = Stk(depth + 1, k - 1 - ArgRegs) /\ k - 1 - ArgRegs \in 0 .. Stack - 1
    <3>1. k - 1 - ArgRegs < sp'[depth + 1]
      BY <1>2, <1>4, <2>4, Numbers
    <3>2. Local(a, k)'
      BY <1>1, <1>9, <2>4, <3>1 DEF Local
    <3> QED BY <2>1, <2>2, <3>2 DEF Local
  <2> QED BY <1>1, <2>2, <2>3, <2>4
<1>13. Frames'
  <2>1. \A f \in Frame : f > depth + 1 =>
          /\ \A r \in RegId : val[Reg(f, r)] = Null
          /\ \A i \in 0 .. MaxArgs - 1 : val[Arg(f, i)] = Null
          /\ sp'[f] = 0
    BY <1>2, <1>3, <1>4 DEF Frames, Frame
  <2>2. ASSUME NEW f \in Frame, NEW i \in 0 .. Stack - 1, i >= sp'[f] PROVE val[Stk(f, i)] = Null
    <3>1. CASE f = depth + 1
      <4>1. sp[f] = 0 /\ i >= 0
        BY <1>2, <1>3, <3>1 DEF Frames
      <4> QED BY <1>3, <4>1 DEF Frames
    <3>2. CASE f # depth + 1
      BY <1>3, <1>4, <2>2, <3>2 DEF Frames
    <3> QED BY <3>1, <3>2
  <2>3. ASSUME NEW f \in Frame, NEW i \in 0 .. MaxArgs - 1, f < depth + 1, val[Arg(f, i)] # Null
        PROVE  i < call'[f + 1].nargs
    <3>1. CASE f = depth
      <4>1. depth > 0
        BY <3>1 DEF Frame
      <4>2. Clears(todo[1], i)
        BY <1>1, <1>3, <2>3, <3>1, <4>1 DEF ArgsCleared
      <4>3. i < n
        BY <1>2, <4>2, Constructed DEF Clears
      <4> QED BY <1>4, <3>1, <4>3
    <3>2. CASE f # depth
      <4>1. f < depth /\ f + 1 \in Frame /\ f + 1 # depth + 1
        BY <1>2, <2>3, <3>2, Numbers DEF Frame
      <4> QED BY <1>3, <1>4, <2>3, <4>1 DEF Frames
    <3> QED BY <3>1, <3>2
  <2>4. call'[1].nargs = 0
    <3>1. CASE depth = 0
      <4>1. n = 0 /\ depth + 1 = 1
        BY <1>1, <1>2, <3>1
      <4> QED BY <1>4, <4>1
    <3>2. CASE depth # 0
      <4>1. 1 # depth + 1
        BY <1>2, <3>2
      <4> QED BY <1>2, <1>3, <1>4, <4>1 DEF Frames
    <3> QED BY <3>1, <3>2
  <2> QED BY <1>1, <1>5, <2>1, <2>2, <2>3, <2>4 DEF Frames
<1>14. ArgsCleared'
  <2>1. \A i \in 0 .. MaxArgs - 1 : val[Arg(depth + 1, i)] = Null
    BY <1>2, <1>3 DEF Frames
  <2> QED BY <1>1, <1>5, <2>1 DEF ArgsCleared
<1>15. ResultsNull'
  <2> SUFFICES ASSUME NEW f \in 1 .. depth + 1 PROVE val[ResultOf(f)'] = Null
    BY <1>1, <1>5 DEF ResultsNull
  <2>1. CASE f # depth + 1
    <3>1. f \in 1 .. depth /\ f \in Frame
      BY <1>2, <2>1, Numbers DEF Frame
    <3>2. ResultOf(f)' = ResultOf(f)
      BY <1>4, <2>1, <3>1 DEF ResultOf
    <3> QED BY <1>3, <1>9, <3>1, <3>2 DEF ResultsNull
  <2>2. CASE f = depth + 1 /\ depth = 0
    <3>1. ResultOf(f)' = Result
      BY <2>2 DEF ResultOf
    <3> QED BY <1>1, <1>2, <1>3, <2>2, <3>1 DEF Enters
  <2>3. CASE f = depth + 1 /\ depth # 0
    <3>1. ResultOf(f)' = Reg(depth, d) /\ depth > 0
      BY <1>2, <1>4, <2>3 DEF ResultOf
    <3>2. Cleared(Reg(depth, d), 1)
      BY <1>1, <1>2, <1>3, <3>1 DEF Enters
    <3>3. todo # <<>>
      BY DEF DoEnter, Doing
    <3> QED BY <3>1, <3>2, <3>3, HeapFacts
  <2> QED BY <2>1, <2>2, <2>3
<1> QED BY <1>1, <1>6, <1>8, <1>9, <1>10, <1>11, <1>12, <1>13, <1>14, <1>15 DEF IInv

(* What leaving a frame does.                                              *)
LEMMA DoLeaveSteps ==
  ASSUME IInv, DoLeave
  PROVE  \E n \in 0 .. MaxArgs :
           /\ todo[1] = Leave /\ Steps = {1} /\ depth \in 1 .. MaxDepth /\ n = call[depth].nargs
           /\ depth' = depth - 1 /\ UNCHANGED <<heap, err>>
           /\ call' = [call EXCEPT ![depth] = [dst |-> 0, nargs |-> 0]]
           /\ sp' = [sp EXCEPT ![depth] = 0]
           /\ Steps' = 1 .. n /\ todo' \in Seq(StepSet)
           /\ \A k \in 1 .. n : todo'[k] = Drop(Arg(depth - 1, k - 1)) /\ Arg(depth - 1, k - 1) \in Root
<1>1. /\ todo # <<>> /\ todo[1].op = "leave" /\ UNCHANGED <<heap, err>>
  BY DEF DoLeave, Doing
<1>2. /\ depth' = depth - 1
      /\ call' = [call EXCEPT ![depth] = [dst |-> 0, nargs |-> 0]]
      /\ sp' = [sp EXCEPT ![depth] = 0]
      /\ todo' = Tail(todo) \o [i \in 1 .. call[depth].nargs |-> Drop(Arg(depth - 1, i - 1))]
  BY DEF DoLeave, Each
<1>3. todo[1] = Leave /\ Len(todo) = 1 /\ Steps = {1} /\ depth > 0 /\ todo \in Seq(StepSet)
  <2>1. todo \in Seq(StepSet) /\ 1 \in Steps /\ Leaves /\ todo[1] = Leave
    BY <1>1, HeapFacts, Shapes DEF IInv
  <2>2. Len(todo) = 1 /\ depth > 0
    BY <1>1, <2>1 DEF Leaves
  <2>3. Steps = {1}
    BY <2>1, <2>2 DEF Steps
  <2> QED BY <2>1, <2>2, <2>3
<1>4. depth \in 1 .. MaxDepth /\ depth \in Frame
  BY <1>1, <1>3, HeapFacts, Numbers DEF TypeOK, Frame
<1>5. PICK n \in 0 .. MaxArgs : n = call[depth].nargs
  BY <1>1, <1>4, HeapFacts DEF TypeOK
<1> DEFINE p == [i \in 1 .. n |-> Drop(Arg(depth - 1, i - 1))]
<1>6. todo' = Tail(todo) \o p
  BY <1>2, <1>5
<1>7. \A k \in 1 .. n : Arg(depth - 1, k - 1) \in Root
  <2> SUFFICES ASSUME NEW k \in 1 .. n PROVE Arg(depth - 1, k - 1) \in Root
    OBVIOUS
  <2>1. depth # 1
    <3>1. call[1].nargs = 0
      BY DEF IInv, Frames
    <3> QED BY <1>5, <3>1
  <2>2. depth - 1 \in Frame /\ k - 1 \in 0 .. MaxArgs - 1
    BY <1>4, <2>1, Numbers DEF Frame
  <2> QED BY <2>2, Locations DEF Root
<1>8. \A k \in 1 .. n : Drop(Arg(depth - 1, k - 1)) \in StepSet
  BY <1>7 DEF StepSet, Root
<1>9. n \in Nat
  BY Numbers
<1>10. p \in Seq(StepSet) /\ Len(p) = n /\ \A k \in 1 .. n : p[k] = Drop(Arg(depth - 1, k - 1))
  BY <1>8, <1>9
<1> HIDE DEF p
<1>11. Tail(todo) \in Seq(StepSet) /\ Len(Tail(todo)) = 0
  BY <1>1, <1>3
<1> DEFINE t == Tail(todo)
<1> HIDE DEF t
<1>12. t \in Seq(StepSet) /\ Len(t) = 0 /\ todo' = t \o p
  BY <1>6, <1>11 DEF t
<1>13. todo' \in Seq(StepSet) /\ Steps' = 1 .. n /\ \A k \in 1 .. n : todo'[k] = p[k]
  <2>1. t \o p \in Seq(StepSet) /\ DOMAIN (t \o p) = 1 .. n /\ \A k \in 1 .. n : (t \o p)[k] = p[k]
    BY <1>9, <1>10, <1>12, Concatenated
  <2> QED BY <1>12, <2>1 DEF Steps
<1> QED BY <1>1, <1>2, <1>3, <1>4, <1>5, <1>7, <1>10, <1>13

(* Leaving a frame keeps the invariant: all of it is null.                 *)
LEMMA DoLeaveKeeps == ASSUME IInv, DoLeave PROVE IInv'
<1>1. PICK n \in 0 .. MaxArgs :
        /\ todo[1] = Leave /\ Steps = {1} /\ depth \in 1 .. MaxDepth /\ n = call[depth].nargs
        /\ depth' = depth - 1 /\ UNCHANGED <<heap, err>>
        /\ call' = [call EXCEPT ![depth] = [dst |-> 0, nargs |-> 0]]
        /\ sp' = [sp EXCEPT ![depth] = 0]
        /\ Steps' = 1 .. n /\ todo' \in Seq(StepSet)
        /\ \A k \in 1 .. n : todo'[k] = Drop(Arg(depth - 1, k - 1)) /\ Arg(depth - 1, k - 1) \in Root
  BY DoLeaveSteps
<1>2. todo[1].op = "leave" /\ todo # <<>> /\ n \in Nat /\ depth \in Frame /\ 1 \in Frame
  BY <1>1, Constructed, Numbers DEF Frame, DoLeave, Doing
<1>3. TypeOK /\ Frames /\ Leaves /\ ArgsCleared /\ ResultsNull
  BY DEF IInv, Heap
<1>4. /\ \A f \in Frame : f # depth => call'[f] = call[f] /\ sp'[f] = sp[f]
      /\ call'[depth].nargs = 0 /\ sp'[depth] = 0
  BY <1>1, <1>2, <1>3 DEF TypeOK
<1>5. UNCHANGED <<val, refc, size, live>>
  BY <1>1 DEF heap
<1>6. Heap' /\ \A o : Holders(o)' = Holders(o)
  <2>1. TypeOK'
    <3>1. sp' \in [Frame -> 0 .. Stack]
      <4>1. 0 \in 0 .. Stack
        BY Numbers
      <4> QED BY <1>1, <1>3, <4>1 DEF TypeOK
    <3>2. 0 \in RegId /\ 0 \in 0 .. MaxArgs
      BY Numbers DEF RegId
    <3>3. call' \in [Frame -> [dst : RegId, nargs : 0 .. MaxArgs]]
      BY <1>1, <1>3, <3>2 DEF TypeOK
    <3>4. depth' \in 0 .. MaxDepth
      BY <1>1, Numbers
    <3> QED BY <1>1, <1>3, <1>5, <3>1, <3>3, <3>4 DEF TypeOK
  <2> QED BY <1>5, <2>1, SameHeap
<1>7. \A o \in live' : Holders(o)' # {}
  <2>1. \A k \in Steps : todo[k].op # "free"
    BY <1>1, <1>2
  <2> QED BY <1>5, <1>6, <2>1, AllHeld
<1>8. \A k \in Steps' : todo'[k].op = "drop" /\ todo'[k].at \in Root
  BY <1>1, Constructed
<1>9. SlotsOpen' /\ SlotsFilled' /\ PutsHeld' /\ Extends' /\ Shrinks' /\ Frees'
  BY <1>7, <1>8, Quiet
<1>10. /\ Enters' /\ Leaves' /\ ~Leaving' /\ FillsApart' /\ FillsCleared' /\ FillsLocal'
  BY <1>8 DEF Enters, Leaves, Leaving, FillsApart, FillsCleared, FillsLocal, Fills
<1>11. /\ \A r \in RegId : val[Reg(depth, r)] = Null
       /\ \A i \in 0 .. Stack - 1 : val[Stk(depth, i)] = Null
       /\ \A i \in 0 .. MaxArgs - 1 : val[Arg(depth, i)] = Null
  <2>1. /\ \A r \in RegId : Cleared(Reg(depth, r), 1)
        /\ \A i \in 0 .. Stack - 1 : Cleared(Stk(depth, i), 1)
        /\ \A i \in 0 .. MaxArgs - 1 : val[Arg(depth, i)] = Null
    BY <1>1, <1>2, <1>3 DEF Leaves
  <2> QED BY <1>2, <2>1, HeapFacts
<1>12. Frames'
  <2>1. ASSUME NEW f \in Frame, f > depth - 1
        PROVE  /\ \A r \in RegId : val[Reg(f, r)] = Null
               /\ \A i \in 0 .. MaxArgs - 1 : val[Arg(f, i)] = Null
               /\ sp'[f] = 0
    <3>1. f = depth \/ (f > depth /\ f # depth)
      BY <1>1, <2>1, Numbers DEF Frame
    <3> QED BY <1>3, <1>4, <1>11, <3>1 DEF Frames
  <2>2. \A f \in Frame, i \in 0 .. Stack - 1 : i >= sp'[f] => val[Stk(f, i)] = Null
    BY <1>3, <1>4, <1>11 DEF Frames
  <2>3. ASSUME NEW f \in Frame, NEW i \in 0 .. MaxArgs - 1, f < depth - 1, val[Arg(f, i)] # Null
        PROVE  i < call'[f + 1].nargs
    <3>1. f < depth /\ f + 1 \in Frame /\ f + 1 # depth
      BY <1>1, <2>3, Numbers DEF Frame
    <3> QED BY <1>3, <1>4, <2>3, <3>1 DEF Frames
  <2>4. call'[1].nargs = 0
    BY <1>2, <1>3, <1>4 DEF Frames
  <2> QED BY <1>1, <1>5, <2>1, <2>2, <2>3, <2>4 DEF Frames
<1>13. ArgsCleared'
  <2> SUFFICES ASSUME depth - 1 > 0, NEW i \in 0 .. MaxArgs - 1, val[Arg(depth - 1, i)] # Null
               PROVE  \E k \in Steps' : Clears(todo[k], i)'
    BY <1>1, <1>5 DEF ArgsCleared, Clears
  <2>1. depth - 1 \in Frame /\ depth - 1 < depth /\ (depth - 1) + 1 = depth
    BY <1>1, Numbers DEF Frame
  <2>2. i < n
    BY <1>1, <1>3, <2>1 DEF Frames
  <2>3. i + 1 \in 1 .. n /\ (i + 1) - 1 = i
    BY <1>2, <2>2
  <2>4. i + 1 \in Steps' /\ todo'[i + 1] = Drop(Arg(depth - 1, i))
    BY <1>1, <2>3
  <2> QED BY <1>1, <2>4 DEF Clears
<1>14. ResultsNull'
  <2> SUFFICES ASSUME NEW f \in 1 .. depth - 1 PROVE val[ResultOf(f)'] = Null
    BY <1>1, <1>5 DEF ResultsNull
  <2>1. f \in Frame /\ f # depth /\ f \in 1 .. depth /\ f < depth
    BY <1>1, Numbers DEF Frame
  <2>2. ResultOf(f)' = ResultOf(f)
    BY <1>4, <2>1 DEF ResultOf
  <2> QED BY <1>3, <2>1, <2>2 DEF ResultsNull
<1> QED BY <1>1, <1>6, <1>9, <1>10, <1>12, <1>13, <1>14 DEF IInv

(* Whatever step of an instruction is done, the invariant stays.           *)
LEMMA StepKeeps == ASSUME IInv, Step PROVE IInv'
BY DoDropKeeps, DoShareKeeps, DoPutKeeps, DoNewKeeps, DoFreeKeeps, DoExtendKeeps, DoShrinkKeeps,
   DoEnterKeeps, DoLeaveKeeps DEF Step

=============================================================================
