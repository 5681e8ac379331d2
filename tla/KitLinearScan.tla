---------------------------- MODULE KitLinearScan ----------------------------
(***************************************************************************)
(* The allocation of registers to live ranges: era_allocate of             *)
(* src/src/compiler/codegraph/codegraph.register.allocation.c.             *)
(*                                                                         *)
(* A range is the part of the code, from the instruction `start` to the    *)
(* instruction `end`, in which a virtual register needs a physical one.    *)
(* The ranges are taken in the order in which they start.  Those that      *)
(* ended before are expired, and the range gets the first free register;   *)
(* when there is none, the range that ends last of those that hold a       *)
(* register and this one is spilled.                                       *)
(*                                                                         *)
(* Whoever computes the ranges calls Begin; KitRegAlloc does.              *)
(***************************************************************************)
EXTENDS Naturals, Sequences

CONSTANTS
  Vreg,       (* the virtual registers *)
  Phys,       (* the registers ranges are given: 19 .. 127 without 126 *)
  Spilled     (* ERA_SPILL_FLAG, with the number of the slot *)

ASSUME ScanAssumption ==
  /\ Vreg \subseteq Nat
  /\ Phys \subseteq Nat \ {0}
  /\ Spilled \notin Phys \cup {0}

LiveRange == [vreg : Vreg, start : Nat, end : Nat]

VARIABLES
  ranges,      (* ra->ranges *)
  pending,     (* the ranges that have not had their turn *)
  phys,        (* phys of each range, 0 before its turn *)
  active,      (* the ranges that hold a register *)
  free,        (* phys_free *)
  vregToPhys   (* ra->vreg_to_phys, what the code is rewritten with *)

scan == <<ranges, pending, phys, active, free, vregToPhys>>

Start(k) == ranges[k].start
End(k)   == ranges[k].end

ScanInit ==
  /\ ranges = <<>>
  /\ pending = {}
  /\ phys = <<>>
  /\ active = {}
  /\ free = Phys
  /\ vregToPhys = [v \in Vreg |-> 0]

Begin(rs) ==
  /\ ranges' = rs
  /\ pending' = DOMAIN rs
  /\ phys' = [k \in DOMAIN rs |-> 0]
  /\ active' = {}
  /\ free' = Phys
  /\ vregToPhys' = [v \in Vreg |-> 0]

(* The ranges are sorted by their start; qsort may put those with the same *)
(* start in any order.                                                     *)
InTurn(k) == k \in pending /\ \A j \in pending : Start(k) <= Start(j)

\* Mutant: a range that ends where this one starts is expired too.
ExpiredAtStart(k) == {j \in active : End(j) <= Start(k)}

Expired(k) == {j \in active : End(j) < Start(k)}

Remaining(k) == active \ Expired(k)

\* Mutant: the registers of the expired ranges are not marked as free.
FreeAtBefore(k) == free

FreeAt(k) == free \cup {phys[j] : j \in Expired(k)}

Turn(k) ==
  /\ pending' = pending \ {k}
  /\ UNCHANGED ranges

(* The first free register. *)
Place(k) ==
  /\ InTurn(k)
  /\ \E p \in FreeAt(k) :
       /\ \A q \in FreeAt(k) : p <= q
       /\ phys' = [phys EXCEPT ![k] = p]
       /\ vregToPhys' = [vregToPhys EXCEPT ![ranges[k].vreg] = p]
       /\ free' = FreeAt(k) \ {p}
  /\ active' = Remaining(k) \cup {k}
  /\ Turn(k)

\* Mutant: the range that is evicted keeps its register.
EvictKeeps(k, s) ==
  /\ InTurn(k) /\ FreeAt(k) = {}
  /\ s \in Remaining(k)
  /\ \A j \in Remaining(k) : End(j) <= End(s)
  /\ End(k) < End(s)
  /\ phys' = [phys EXCEPT ![k] = phys[s]]
  /\ vregToPhys' = [vregToPhys EXCEPT ![ranges[k].vreg] = phys[s]]
  /\ active' = (Remaining(k) \ {s}) \cup {k}
  /\ free' = {}
  /\ Turn(k)

(* The range takes the register of one that ends later than it, the last   *)
(* to end.  What vregToPhys says of that one is not changed.               *)
Evict(k, s) ==
  /\ InTurn(k) /\ FreeAt(k) = {}
  /\ s \in Remaining(k)
  /\ \A j \in Remaining(k) : End(j) <= End(s)
  /\ End(k) < End(s)
  /\ phys' = [phys EXCEPT ![k] = phys[s], ![s] = Spilled]
  /\ vregToPhys' = [vregToPhys EXCEPT ![ranges[k].vreg] = phys[s]]
  /\ active' = (Remaining(k) \ {s}) \cup {k}
  /\ free' = {}
  /\ Turn(k)

(* The range itself is spilled. *)
Spill(k) ==
  /\ InTurn(k) /\ FreeAt(k) = {}
  /\ \A j \in Remaining(k) : End(j) <= End(k)
  /\ phys' = [phys EXCEPT ![k] = Spilled]
  /\ vregToPhys' = [vregToPhys EXCEPT ![ranges[k].vreg] = Spilled]
  /\ active' = Remaining(k)
  /\ free' = {}
  /\ Turn(k)

Allocate ==
  \E k \in pending : Place(k) \/ Spill(k) \/ \E s \in active : Evict(k, s)

ScanNext == Allocate \/ \E rs \in Seq(LiveRange) : Begin(rs)

ScanSpec == ScanInit /\ [][ScanNext]_scan

-----------------------------------------------------------------------------
ScanTypeOK ==
  /\ ranges \in Seq(LiveRange)
  /\ pending \subseteq DOMAIN ranges
  /\ phys \in [DOMAIN ranges -> Phys \cup {0, Spilled}]
  /\ active \subseteq DOMAIN ranges
  /\ free \subseteq Phys
  /\ vregToPhys \in [Vreg -> Phys \cup {0, Spilled}]

Done == DOMAIN ranges \ pending

(* Two ranges that were given the same register have no instruction in     *)
(* common, not even the one that ends the first and starts the second: an  *)
(* instruction never writes to a register it reads something else from.    *)
(* Evictions, which take a register away later, keep it so.                *)
RangesDisjoint ==
  \A j, k \in Done :
    j # k /\ phys[j] = phys[k] /\ phys[j] \in Phys
      => End(j) < Start(k) \/ End(k) < Start(j)

(* Nothing is spilled while a register could be had: at the instruction    *)
(* where the range starts, each is held by a range that reaches it.        *)
NoNeedlessSpill ==
  [][\A k \in pending :
       Spill(k) \/ (\E s \in active : Evict(k, s))
         => \A p \in Phys : \E j \in active :
              phys[j] = p /\ Start(j) <= Start(k) /\ Start(k) <= End(j)]_scan
=============================================================================
