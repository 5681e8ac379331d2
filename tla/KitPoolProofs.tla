---------------------------- MODULE KitPoolProofs ----------------------------
(***************************************************************************)
(* Proofs about the slab pool, for every number of leaves in a branch,     *)
(* every initial number of branches and every bound on the growth.         *)
(*                                                                         *)
(* The inductive invariant is the conjunction of the two invariants TLC    *)
(* checks.  Everything else follows from what each action does to InUse,   *)
(* the one thing the clients of the pool see, so these are the lemmas.     *)
(***************************************************************************)
EXTENDS KitPool, TLAPS

Inv == TypeOK /\ InUseIsBacked

-----------------------------------------------------------------------------
(* A free leaf's branch exists: the leaf taken was not in use, and it is   *)
(* the only one whose use changes; or nothing is taken.                    *)
LEMMA FoundInUse ==
  ASSUME TypeOK, NEW b \in Branch, NEW l \in Leaf, AcquireFound(b, l)
  PROVE  /\ TypeOK'
         /\ \/ last' = None /\ InUse' = InUse
            \/ /\ last' = <<b, l>> /\ present[b]
               /\ <<b, l>> \notin InUse
               /\ InUse' = InUse \cup {<<b, l>>}
<1> USE PoolAssumption
<1>1. CASE present[b]
  <2>1. /\ mask' = [mask EXCEPT ![b] = @ \cup {l}]
        /\ handed' = handed \cup {<<b, l>>}
        /\ last' = <<b, l>>
        /\ nbranches' = nbranches /\ present' = present
    BY <1>1 DEF AcquireFound
  <2>2. l \notin mask[b]
    BY DEF AcquireFound, IsFirstUnsetBit
  <2>3. <<b, l>> \in Address
    BY DEF Address, Branch, TypeOK
  <2>4. TypeOK'
    BY <2>1, <2>3 DEF TypeOK, Branch
  <2>5. <<b, l>> \notin InUse
    BY <2>2 DEF InUse
  <2>6. InUse' = InUse \cup {<<b, l>>}
    BY <2>1 DEF InUse, TypeOK, Branch
  <2> QED BY <1>1, <2>1, <2>4, <2>5, <2>6
<1>2. CASE ~present[b]
  <2>1. /\ last' = None /\ mask' = mask /\ handed' = handed
        /\ nbranches' = nbranches /\ present' = present
    BY <1>2 DEF AcquireFound
  <2> QED BY <2>1 DEF TypeOK, InUse, Branch
<1> QED BY <1>1, <1>2

(* The doubling keeps every object in use in use, and the leaf it returns  *)
(* is in a branch that did not exist.                                      *)
LEMMA GrowInUse ==
  ASSUME TypeOK, AcquireGrow
  PROVE  /\ TypeOK'
         /\ last' = <<nbranches, 0>>
         /\ <<nbranches, 0>> \notin InUse
         /\ InUse' = InUse \cup {<<nbranches, 0>>}
<1> USE PoolAssumption
<1>1. /\ nbranches' = 2 * nbranches
      /\ last' = <<nbranches, 0>>
      /\ handed' = handed \cup {<<nbranches, 0>>}
      /\ present' = [b \in Branch' |-> b < nbranches => present[b]]
      /\ mask' = [b \in Branch' |-> IF b < nbranches THEN mask[b]
                                    ELSE IF b = nbranches THEN {0} ELSE {}]
  BY DEF AcquireGrow
<1>2. nbranches \in Nat \ {0} /\ nbranches' \in Nat \ {0} /\ 0 \in Leaf
  BY <1>1 DEF TypeOK, Leaf
<1>3. \A b \in Branch' : b \in Branch <=> b < nbranches
  BY <1>2 DEF Branch
<1>4. Branch \subseteq Branch' /\ nbranches \in Branch' \ Branch
  BY <1>1, <1>2 DEF Branch
<1>5. present' \in [Branch' -> BOOLEAN]
  BY <1>1, <1>3 DEF TypeOK
<1>6. \A b \in Branch' : mask'[b] \in SUBSET Leaf
  BY <1>1, <1>2, <1>3 DEF TypeOK
<1>7. mask' \in [Branch' -> SUBSET Leaf]
  BY <1>1, <1>6
<1>8. handed' \subseteq Address /\ last' \in Address
  BY <1>1, <1>2 DEF TypeOK, Address
<1>9. TypeOK'
  BY <1>2, <1>5, <1>7, <1>8 DEF TypeOK
<1>10. <<nbranches, 0>> \notin InUse
  BY <1>4 DEF InUse
<1>11. InUse' = InUse \cup {<<nbranches, 0>>}
  <2>1. \A b \in Branch : mask'[b] = mask[b]
    BY <1>1, <1>3, <1>4
  <2>2. \A b \in Branch' \ Branch : mask'[b] = IF b = nbranches THEN {0} ELSE {}
    BY <1>1, <1>3
  <2>3. InUse' = {o \in Branch' \X Leaf : o[2] \in mask'[o[1]]}
    BY DEF InUse, Leaf
  <2>4. ASSUME NEW b \in Branch', NEW l \in Leaf
        PROVE  l \in mask'[b] <=> (<<b, l>> \in InUse \/ (b = nbranches /\ l = 0))
    BY <1>4, <2>1, <2>2 DEF InUse
  <2>5. InUse \subseteq Branch' \X Leaf
    BY <1>4 DEF InUse
  <2>6. InUse' = {o \in Branch' \X Leaf : o \in InUse \/ o = <<nbranches, 0>>}
    BY <2>3, <2>4
  <2>7. <<nbranches, 0>> \in Branch' \X Leaf
    BY <1>2, <1>4
  <2> QED BY <2>5, <2>6, <2>7
<1> QED BY <1>1, <1>9, <1>10, <1>11

(* Returning takes the object, and no other, out of use.                   *)
LEMMA ReturnInUse ==
  ASSUME TypeOK, NEW o \in handed, Return(o)
  PROVE  /\ TypeOK'
         /\ o \in InUse /\ InUse' = InUse \ {o}
<1>1. PICK b \in Nat, l \in Leaf : o = <<b, l>>
  BY DEF TypeOK, Address
<1>2. /\ b < nbranches /\ l \in mask[b]
      /\ mask' = [mask EXCEPT ![b] = @ \ {l}]
      /\ nbranches' = nbranches /\ present' = present
      /\ handed' = handed /\ last' = last
  BY <1>1 DEF Return
<1>3. b \in Branch
  BY <1>2 DEF Branch, TypeOK
<1>4. TypeOK'
  BY <1>2, <1>3 DEF TypeOK, Branch
<1>5. o \in InUse
  BY <1>1, <1>2, <1>3 DEF InUse
<1>6. InUse' = InUse \ {o}
  BY <1>1, <1>2, <1>3 DEF InUse, TypeOK, Branch
<1> QED BY <1>4, <1>5, <1>6

(* Trimming changes nothing that a client can see.                         *)
LEMMA TrimInUse ==
  ASSUME TypeOK, Trim
  PROVE  TypeOK' /\ InUse' = InUse /\ last' = last
BY DEF TypeOK, Trim, InUse, Branch

-----------------------------------------------------------------------------
(* The invariant holds when the pool has been set up.                      *)
LEMMA InitInv == Init => Inv
<1> SUFFICES ASSUME Init PROVE Inv
  OBVIOUS
<1>1. TypeOK
  BY PoolAssumption DEF Init, TypeOK, Branch
<1>2. InUse = {}
  BY DEF Init, InUse
<1> QED BY <1>1, <1>2 DEF Inv, InUseIsBacked

(* Every action keeps it.                                                  *)
LEMMA NextInv == Inv /\ [Next]_vars => Inv'
<1> SUFFICES ASSUME Inv, [Next]_vars PROVE Inv'
  OBVIOUS
<1> USE DEF Inv
<1>1. ASSUME NEW b \in Branch, NEW l \in Leaf, AcquireFound(b, l)
      PROVE  Inv'
  <2>1. TypeOK'
    BY <1>1, FoundInUse
  <2>2. CASE ~present[b]
    BY <1>1, <2>1, <2>2 DEF AcquireFound, InUseIsBacked, InUse, Branch
  <2>3. CASE present[b]
    <3>1. present' = present /\ handed' = handed \cup {<<b, l>>}
      BY <1>1, <2>3 DEF AcquireFound
    <3>2. InUse' \subseteq InUse \cup {<<b, l>>}
      BY <1>1, FoundInUse
    <3> QED BY <2>1, <2>3, <3>1, <3>2 DEF InUseIsBacked
  <2> QED BY <2>2, <2>3
<1>2. CASE AcquireGrow
  <2>1. TypeOK' /\ InUse' = InUse \cup {<<nbranches, 0>>}
    BY <1>2, GrowInUse
  <2>2. /\ present' = [b \in Branch' |-> b < nbranches => present[b]]
        /\ handed' = handed \cup {<<nbranches, 0>>}
        /\ nbranches' = 2 * nbranches
    BY <1>2 DEF AcquireGrow
  <2>3. nbranches \in Branch' /\ Branch \subseteq Branch'
    BY <2>2 DEF TypeOK, Branch
  <2>4. present'[nbranches] /\ \A b \in Branch : present[b] => present'[b]
    <3>1. \A b \in Branch' : present'[b] = (b < nbranches => present[b])
      BY <2>2, Zenon
    <3>2. ~(nbranches < nbranches) /\ \A b \in Branch : b < nbranches
      BY DEF TypeOK, Branch
    <3> QED BY <2>3, <3>1, <3>2
  <2>5. \A o \in InUse : o[1] \in Branch
    BY DEF InUse
  <2> QED BY <2>1, <2>2, <2>4, <2>5 DEF InUseIsBacked
<1>3. CASE AcquireOutOfMemory
  BY <1>3, PoolAssumption
     DEF AcquireOutOfMemory, TypeOK, InUseIsBacked, InUse, Branch
<1>4. ASSUME NEW o \in handed, Return(o)
      PROVE  Inv'
  <2>1. TypeOK' /\ InUse' \subseteq InUse
    BY <1>4, ReturnInUse
  <2>2. present' = present /\ handed' = handed
    BY <1>4 DEF Return
  <2> QED BY <2>1, <2>2 DEF InUseIsBacked
<1>5. CASE Trim
  <2>1. TypeOK' /\ InUse' = InUse
    BY <1>5, TrimInUse
  <2>2. \A o \in InUse : o[1] \in Branch /\ mask[o[1]] # {}
    BY DEF InUse
  <2> QED BY <1>5, <2>1, <2>2 DEF Trim, InUseIsBacked
<1>6. CASE UNCHANGED vars
  BY <1>6 DEF vars, TypeOK, InUseIsBacked, InUse, Branch
<1> QED BY <1>1, <1>2, <1>3, <1>4, <1>5, <1>6 DEF Next, Acquire

(* The pool's arrays always have their lengths and its words their width.  *)
THEOREM TypeCorrect == Spec => []TypeOK
<1>1. Inv => TypeOK
  BY DEF Inv
<1> QED BY <1>1, InitInv, NextInv, PTL DEF Spec

(* No object in use ever loses the memory it lives in.                     *)
THEOREM Backed == Spec => []InUseIsBacked
<1>1. Inv => InUseIsBacked
  BY DEF Inv
<1> QED BY <1>1, InitInv, NextInv, PTL DEF Spec

(* What Acquire does to the objects in use, its three outcomes together.   *)
LEMMA AcquireInUse ==
  ASSUME TypeOK, Acquire
  PROVE  \/ last' = None /\ InUse' = InUse
         \/ last' \notin InUse /\ InUse' = InUse \cup {last'}
<1>1. ASSUME NEW b \in Branch, NEW l \in Leaf, AcquireFound(b, l)
      PROVE  \/ last' = None /\ InUse' = InUse
             \/ last' \notin InUse /\ InUse' = InUse \cup {last'}
  BY <1>1, FoundInUse
<1>2. CASE AcquireGrow
  BY <1>2, GrowInUse
<1>3. CASE AcquireOutOfMemory
  BY <1>3 DEF AcquireOutOfMemory, InUse, Branch
<1> QED BY <1>1, <1>2, <1>3 DEF Acquire

(* An acquired object was free, and acquiring disturbs no other object.    *)
THEOREM Fresh == Spec => AcquireIsFresh
<1>1. Inv /\ [Next]_vars
        => [Acquire => \/ last' = None /\ InUse' = InUse
                       \/ last' \notin InUse /\ InUse' = InUse \cup {last'}]_vars
  BY AcquireInUse DEF Inv
<1> QED BY <1>1, InitInv, NextInv, PTL DEF Spec, AcquireIsFresh

(* Nothing but its own return takes an object out of use.                  *)
THEOREM KeptUntilReturned == Spec => InUseUntilReturned
<1>1. ASSUME TypeOK, Acquire
      PROVE  InUse \subseteq InUse'
  BY <1>1, AcquireInUse
<1>2. ASSUME TypeOK, NEW o \in handed, Return(o), NEW p \in InUse, p \notin InUse'
      PROVE  Return(p)
  <2>1. p = o
    BY <1>2, ReturnInUse
  <2> QED BY <2>1, <1>2
<1>3. ASSUME TypeOK, Trim
      PROVE  InUse' = InUse
  BY <1>3, TrimInUse
<1>4. Inv /\ [Next]_vars
        => [\A o \in InUse : o \notin InUse' => Return(o)]_vars
  BY <1>1, <1>2, <1>3 DEF Inv, Next
<1> QED BY <1>4, InitInv, NextInv, PTL DEF Spec, InUseUntilReturned

(* The array grows only when there is nothing left in it.                  *)
THEOREM NoEarlyGrowth == Spec => GrowsOnlyWhenFull
<1>1. ASSUME TypeOK, ~HasUnsetBit
      PROVE  InUse = Branch \X Leaf
  BY <1>1 DEF HasUnsetBit, InUse, TypeOK
<1>2. ASSUME TypeOK, Next, nbranches' # nbranches
      PROVE  ~HasUnsetBit
  <2>1. AcquireGrow
    BY <1>2 DEF Next, Acquire, AcquireFound, AcquireOutOfMemory, Return, Trim
  <2> QED BY <2>1 DEF AcquireGrow
<1>3. Inv /\ [Next]_vars
        => [nbranches' # nbranches => InUse = Branch \X Leaf]_vars
  BY <1>1, <1>2 DEF Inv, vars
<1> QED BY <1>3, InitInv, NextInv, PTL DEF Spec, GrowsOnlyWhenFull

-----------------------------------------------------------------------------
(* Every step of the pool is a step of the abstract allocator, or none.    *)
LEMMA StepRefines ==
  Inv /\ [Next]_vars => [Allocator!Next]_<<InUse, last>>
<1> SUFFICES ASSUME Inv, [Next]_vars
             PROVE  [Allocator!Next]_<<InUse, last>>
  OBVIOUS
<1> USE DEF Inv
<1>1. CASE Acquire
  <2>1. CASE last' = None /\ InUse' = InUse
    BY <2>1 DEF Allocator!Next, Allocator!Refuse
  <2>2. CASE last' # None /\ last' \notin InUse /\ InUse' = InUse \cup {last'}
    <3>1. TypeOK'
      BY NextInv
    <3>2. last' \in Address
      BY <2>2, <3>1 DEF TypeOK, Address, Leaf
    <3> QED BY <2>2, <3>2 DEF Allocator!Next, Allocator!Grant
  <2>3. last' = None \/ last' # None
    OBVIOUS
  <2>4. last' = None => InUse' = InUse
    <3>1. TypeOK'
      BY NextInv
    <3>2. InUse' \subseteq Address
      BY <3>1 DEF InUse, Address, TypeOK, Branch, Leaf
    <3> QED BY <1>1, <3>2, AcquireInUse, PoolAssumption
  <2> QED BY <1>1, <2>1, <2>2, <2>4, AcquireInUse
<1>2. ASSUME NEW o \in handed, Return(o)
      PROVE  Allocator!Next
  <2>1. o \in InUse /\ InUse' = InUse \ {o}
    BY <1>2, ReturnInUse
  <2>2. last' = last
    BY <1>2 DEF Return
  <2> QED BY <2>1, <2>2 DEF Allocator!Next, Allocator!Release
<1>3. CASE Trim
  BY <1>3, TrimInUse
<1>4. CASE UNCHANGED vars
  BY <1>4 DEF vars, InUse, Branch
<1> QED BY <1>1, <1>2, <1>3, <1>4 DEF Next

(* The slab pool implements the allocator the interpreter relies on.       *)
THEOREM Refinement == Spec => ImplementsAllocator
<1>1. Init => Allocator!Init
  BY DEF Init, InUse, Allocator!Init
<1> QED
  BY <1>1, StepRefines, InitInv, NextInv, PTL
     DEF Spec, ImplementsAllocator, Allocator!Spec
=============================================================================
