------------------------------- MODULE KitPool -------------------------------
(***************************************************************************)
(* The slab pool of reference counted objects, src/src/kit.pool.c.         *)
(*                                                                         *)
(* A pool is an array of branches.  A branch holds LeafCount leaves, and   *)
(* one word of bits records which of them are in use.  Acquiring takes the *)
(* first leaf whose bit is clear and doubles the array when there is none; *)
(* returning clears the bit; trimming frees the branches with no leaf in   *)
(* use.  A leaf's address is the pair <<branch, leaf>>, which the leaf     *)
(* also stores (branch_idx, leaf_idx) so that returning it finds its bit.  *)
(***************************************************************************)
EXTENDS Naturals

CONSTANTS
  LeafCount,      (* KIT_REFLEAVE_COUNT, also the bits of a mask word: 32 *)
  InitBranches,   (* branches kit_refdobj_pool_init is asked for *)
  MaxBranches,    (* bound: the array never grows beyond this many *)
  None            (* the null pointer *)

Leaf    == 0 .. LeafCount - 1
Address == Nat \X Leaf

(* A pool of no branch would double zero for ever. *)
ASSUME PoolAssumption ==
  /\ LeafCount \in Nat \ {0}
  /\ InitBranches \in Nat \ {0}
  /\ MaxBranches \in Nat
  /\ None \notin Address

VARIABLES
  nbranches,  (* number of entries of the two arrays below *)
  present,    (* branches[i] # NULL *)
  mask,       (* in_use_masks[i], the set of the leaves whose bit is set *)
  handed,     (* history: addresses handed out whose memory still exists *)
  last        (* what the last acquire returned *)

vars == <<nbranches, present, mask, handed, last>>

Branch == 0 .. nbranches - 1

InUse == {o \in Branch \X Leaf : o[2] \in mask[o[1]]}

Init ==
  /\ nbranches = InitBranches
  /\ present = [b \in Branch |-> TRUE]
  /\ mask = [b \in Branch |-> {}]
  /\ handed = {}
  /\ last = None

-----------------------------------------------------------------------------
(* first_unset_bit_in_array: the first word that is not all ones, and the  *)
(* lowest clear bit of it.                                                 *)
\* Mutant: the loop stops one word early.
HasUnsetBitBeforeLast ==
  \E b \in Branch : b < nbranches - 1 /\ mask[b] # Leaf

HasUnsetBit == \E b \in Branch : mask[b] # Leaf

\* Mutant: counts the trailing zeros of x[i], not of its complement.
IsFirstSetBit(b, l) ==
  /\ l \in Leaf
  /\ \A c \in Branch : c < b => mask[c] = Leaf
  /\ mask[b] # Leaf
  /\ \A k \in Leaf : k < l => k \notin mask[b]

IsFirstUnsetBit(b, l) ==
  /\ l \in Leaf \ mask[b]
  /\ \A c \in Branch : c < b => mask[c] = Leaf
  /\ \A k \in Leaf : k < l => k \in mask[b]

(* A free leaf was found.  Its branch may have been freed by a trim.       *)
AcquireFound(b, l) ==
  /\ IsFirstUnsetBit(b, l)
  /\ IF present[b]
       THEN /\ mask' = [mask EXCEPT ![b] = @ \cup {l}]
            /\ handed' = handed \cup {<<b, l>>}
            /\ last' = <<b, l>>
       ELSE /\ last' = None
            /\ UNCHANGED <<mask, handed>>
  /\ UNCHANGED <<nbranches, present>>

\* Mutant: the loop that clears the new words starts at 0.
AcquireGrowClearsAll ==
  /\ ~HasUnsetBit
  /\ 2 * nbranches <= MaxBranches
  /\ nbranches' = 2 * nbranches
  /\ present' = [b \in Branch' |-> b < nbranches => present[b]]
  /\ mask' = [b \in Branch' |-> IF b = nbranches THEN {0} ELSE {}]
  /\ handed' = handed \cup {<<nbranches, 0>>}
  /\ last' = <<nbranches, 0>>

\* Mutant: the array of the masks is not grown with the array of branches.
AcquireGrowForgetsMasks ==
  /\ ~HasUnsetBit
  /\ 2 * nbranches <= MaxBranches
  /\ nbranches' = 2 * nbranches
  /\ present' = [b \in Branch' |-> b < nbranches => present[b]]
  /\ mask' = mask
  /\ handed' = handed \cup {<<nbranches, 0>>}
  /\ last' = <<nbranches, 0>>

(* No leaf is free: double the arrays, set up the new branches, and take   *)
(* the first leaf of the first new branch (the recursive call).            *)
AcquireGrow ==
  /\ ~HasUnsetBit
  /\ 2 * nbranches <= MaxBranches
  /\ nbranches' = 2 * nbranches
  /\ present' = [b \in Branch' |-> b < nbranches => present[b]]
  /\ mask' = [b \in Branch' |-> IF b < nbranches THEN mask[b]
                                ELSE IF b = nbranches THEN {0} ELSE {}]
  /\ handed' = handed \cup {<<nbranches, 0>>}
  /\ last' = <<nbranches, 0>>

(* One of the allocations of the doubling failed.  nbranches is written    *)
(* last, so the pool still has the branches it had.                        *)
AcquireOutOfMemory ==
  /\ ~HasUnsetBit
  /\ last' = None
  /\ UNCHANGED <<nbranches, present, mask, handed>>

Acquire ==
  \/ \E b \in Branch, l \in Leaf : AcquireFound(b, l)
  \/ AcquireGrow
  \/ AcquireOutOfMemory

\* Mutant: the mask is not complemented.
ReturnUncomplemented(o) ==
  LET b == o[1] l == o[2]
  IN  /\ b < nbranches /\ present[b] /\ l \in mask[b]
      /\ mask' = [mask EXCEPT ![b] = @ \cap {l}]
      /\ UNCHANGED <<nbranches, present, handed, last>>

(* kit_refdobj_pool_return.  The caller may hold any address that was ever *)
(* handed out, so an object can be returned twice.                         *)
Return(o) ==
  LET b == o[1] l == o[2]
  IN  /\ b < nbranches /\ present[b] /\ l \in mask[b]
      /\ mask' = [mask EXCEPT ![b] = @ \ {l}]
      /\ UNCHANGED <<nbranches, present, handed, last>>

\* Mutant: frees the branches with a free leaf.
TrimNotFull ==
  /\ present' = [b \in Branch |-> present[b] /\ mask[b] = Leaf]
  /\ handed' = {o \in handed : mask[o[1]] = Leaf}
  /\ UNCHANGED <<nbranches, mask, last>>

(* kit_refdobj_pool_trim.  The masks keep their length and their zeros.    *)
Trim ==
  /\ present' = [b \in Branch |-> present[b] /\ mask[b] # {}]
  /\ handed' = {o \in handed : mask[o[1]] # {}}
  /\ UNCHANGED <<nbranches, mask, last>>

Next ==
  \/ Acquire
  \/ \E o \in handed : Return(o)
  \/ Trim

Spec == Init /\ [][Next]_vars

-----------------------------------------------------------------------------
(* The variables keep their types: the two arrays have nbranches entries.  *)
TypeOK ==
  /\ nbranches \in Nat \ {0}
  /\ present \in [Branch -> BOOLEAN]
  /\ mask \in [Branch -> SUBSET Leaf]
  /\ handed \subseteq Address
  /\ last \in Address \cup {None}

(* An object in use is in memory that exists, and its address was handed   *)
(* out: neither a trim nor a doubling ever takes the branch from under it. *)
InUseIsBacked ==
  \A o \in InUse : present[o[1]] /\ o \in handed

(* Acquiring returns an object nobody uses, marks exactly that one, and    *)
(* leaves every other object of the pool as it was, at the same address.   *)
AcquireIsFresh ==
  [][Acquire => \/ last' = None /\ InUse' = InUse
                \/ last' \notin InUse /\ InUse' = InUse \cup {last'}]_vars

(* Memory is asked for only when every leaf of every branch is in use.     *)
GrowsOnlyWhenFull ==
  [][nbranches' # nbranches => InUse = Branch \X Leaf]_vars

(* An object in use stays in use, whatever is acquired, grown, trimmed or  *)
(* returned a second time, until the call that returns it.                 *)
InUseUntilReturned ==
  [][\A o \in InUse : o \notin InUse' => Return(o)]_vars

(* The pool is an allocator whose objects in use are those whose bit is    *)
(* set.                                                                    *)
Allocator == INSTANCE KitAllocator WITH live <- InUse

ImplementsAllocator == Allocator!Spec
=============================================================================
