--------------------------- MODULE KitRegAllocProofs ---------------------------
(***************************************************************************)
(* Proofs about the allocation of the registers of a function, for every   *)
(* code the compiler can emit, however long, with any number of registers. *)
(*                                                                         *)
(* First the scan by itself, for every sequence of ranges, however they    *)
(* were computed.  RangesDisjoint is not inductive: that a register which  *)
(* is free, or that an evicted range gives up, may be given to the next    *)
(* range depends on what has become of the ranges that had it before.      *)
(* They are expired, so they ended before anything that is still to come   *)
(* starts (Past), because the ranges come in order (Ordered); or they are  *)
(* spilled.                                                                *)
(*                                                                         *)
(* Then the allocation around it.                                          *)
(* The code before and after the rewriting is related by what the ranges   *)
(* are: one for each register that is written, reaching from its first     *)
(* access to its last (Covering).  The first pass over the code makes them *)
(* so because no register but the special ones is read before, in the      *)
(* text, it is written (CodeInv); the second only makes them longer, even  *)
(* where it lengthens the entry of another register.  With that and        *)
(* RangesDisjoint the registers of one instruction are told apart, since   *)
(* what the code is rewritten with is the register of the range            *)
(* (Rewritable).                                                           *)
(*                                                                         *)
(* That values survive on every path needs one thing more: a range that a  *)
(* jump leads back to, or before the end of, ends no earlier than the jump *)
(* (Behind), so once an execution has passed the end of a range it never   *)
(* comes back to it (NoReturn).  Neither the liveness nor the entries that *)
(* are lengthened with it are needed.                                      *)
(***************************************************************************)
EXTENDS KitRegAlloc, KitNaturals

(* An active range holds a register of its own.                            *)
Held ==
  /\ \A j \in active : j \notin pending /\ phys[j] \in Phys \ free
  /\ \A j, k \in active : phys[j] = phys[k] => j = k

(* A register that is not free is held.                                    *)
Accounted == \A p \in Phys : p \in free \/ \E j \in active : phys[j] = p

(* The ranges that had their turn do not start after one that has not.     *)
Ordered == \A j \in Done, k \in pending : Start(j) <= Start(k)

(* A range that had a register and holds none any more is over.            *)
Past ==
  \A j \in Done \ active, k \in pending : phys[j] \in Phys => End(j) < Start(k)

Inv == ScanTypeOK /\ Held /\ Accounted /\ Ordered /\ Past /\ RangesDisjoint

-----------------------------------------------------------------------------
(* The invariant holds at the beginning.                                   *)
LEMMA InitInv == ScanInit => Inv
BY ScanAssumption
   DEF ScanInit, Inv, ScanTypeOK, Held, Accounted, Ordered, Past,
       RangesDisjoint, Done, LiveRange

(* It holds when the ranges arrive.                                        *)
LEMMA BeginInv ==
  ASSUME Inv, NEW rs \in Seq(LiveRange), Begin(rs)
  PROVE  Inv'
<1>1. ScanTypeOK'
  BY DEF Begin, ScanTypeOK
<1>2. Done' = {}
  BY DEF Begin, Done
<1> QED
  BY <1>1, <1>2 DEF Begin, Inv, Held, Accounted, Ordered, Past, RangesDisjoint

(* What every turn has in common.                                          *)
LEMMA RangeFacts ==
  ASSUME ScanTypeOK
  PROVE  \A j \in DOMAIN ranges :
           Start(j) \in Nat /\ End(j) \in Nat /\ ranges[j].vreg \in Vreg
<1>1. \A j \in DOMAIN ranges : ranges[j] \in LiveRange
  BY DEF ScanTypeOK
<1> QED BY <1>1 DEF Start, End, LiveRange

(* What every turn of the loop does besides giving a register.             *)
LEMMA TurnFacts ==
  ASSUME Inv, NEW k \in pending, InTurn(k), Turn(k)
  PROVE  /\ k \in DOMAIN ranges /\ k \notin active /\ k \notin Done
         /\ pending' = pending \ {k} /\ pending' \subseteq DOMAIN ranges
         /\ ranges' = ranges /\ Done' = Done \cup {k}
         /\ \A j \in DOMAIN ranges : Start(j)' = Start(j) /\ End(j)' = End(j)
         /\ Ordered'
<1>1. /\ k \in DOMAIN ranges /\ k \notin active /\ k \notin Done
      /\ pending' = pending \ {k} /\ pending' \subseteq DOMAIN ranges
      /\ ranges' = ranges
  BY DEF Inv, ScanTypeOK, Held, Turn, Done
<1>2. Done' = Done \cup {k}
  BY <1>1 DEF Done
<1>3. \A j \in DOMAIN ranges : Start(j)' = Start(j) /\ End(j)' = End(j)
  BY <1>1 DEF Start, End
<1>4. Ordered'
  <2>1. \A j \in pending' : Start(k) <= Start(j)
    BY <1>1 DEF InTurn
  <2> QED BY <1>1, <1>2, <2>1 DEF Ordered, Inv, Start
<1> QED BY <1>1, <1>2, <1>3, <1>4

(* A range that had its turn and whose register is free at this one, or    *)
(* that holds none, ends before this one starts.                           *)
LEMMA ReleasedIsPast ==
  ASSUME Inv, NEW k \in pending, NEW j \in Done, phys[j] \in Phys,
         j \notin Remaining(k) \/ phys[j] \in FreeAt(k)
  PROVE  End(j) < Start(k)
<1>1. CASE j \notin active
  BY <1>1 DEF Inv, Past
<1>2. CASE j \in Expired(k)
  BY <1>2 DEF Expired
<1>3. CASE j \in Remaining(k)
  <2>1. j \in active /\ phys[j] \notin free
    BY <1>3 DEF Remaining, Inv, Held
  <2>2. PICK i \in Expired(k) : phys[j] = phys[i]
    BY <1>3, <2>1 DEF FreeAt
  <2>3. i = j
    BY <2>1, <2>2 DEF Expired, Inv, Held
  <2> QED BY <2>2, <2>3 DEF Expired
<1> QED BY <1>1, <1>2, <1>3 DEF Remaining

(* The expired ranges of the others that are still to come end before them *)
(* too, since those start no earlier.                                      *)
LEMMA PastLater ==
  ASSUME Inv, NEW k \in pending, InTurn(k), NEW j \in Done, NEW i \in pending,
         phys[j] \in Phys, j \notin Remaining(k)
  PROVE  End(j) < Start(i)
<1>1. End(j) < Start(k)
  BY ReleasedIsPast
<1>2. Start(k) <= Start(i)
  BY DEF InTurn
<1> QED BY <1>1, <1>2, RangeFacts DEF Inv, Done, ScanTypeOK

-----------------------------------------------------------------------------
(* The actions, each with what it leaves of every part of the invariant.   *)
LEMMA PlaceInv ==
  ASSUME Inv, NEW k \in pending, Place(k)
  PROVE  Inv'
<1> USE DEF Inv
<1>1. PICK p \in FreeAt(k) :
        /\ phys' = [phys EXCEPT ![k] = p]
        /\ vregToPhys' = [vregToPhys EXCEPT ![ranges[k].vreg] = p]
        /\ free' = FreeAt(k) \ {p}
  BY DEF Place
<1>2. InTurn(k) /\ Turn(k) /\ active' = Remaining(k) \cup {k}
  BY DEF Place
<1>3. p \in Phys /\ FreeAt(k) \subseteq Phys
  BY DEF FreeAt, Expired, Held, ScanTypeOK
<1>4. /\ \A j \in DOMAIN ranges : j # k => phys'[j] = phys[j]
      /\ phys'[k] = p
  BY <1>1, <1>2, TurnFacts DEF ScanTypeOK
<1>5. \A j \in Remaining(k) : phys[j] \in Phys \ FreeAt(k) /\ j \in Done
  BY DEF Remaining, FreeAt, Expired, Held, Done, ScanTypeOK
<1>6. ScanTypeOK'
  BY <1>1, <1>2, <1>3, TurnFacts DEF ScanTypeOK, Remaining
<1>7. Held'
  BY <1>1, <1>2, <1>3, <1>4, <1>5, TurnFacts DEF Held, Remaining, ScanTypeOK, Done
<1>8. Accounted'
  <2>1. ASSUME NEW q \in Phys, q \notin FreeAt(k)
        PROVE  \E j \in Remaining(k) : phys[j] = q
    BY <2>1 DEF Accounted, FreeAt, Remaining
  <2> QED BY <1>1, <1>2, <1>4, <1>5, <2>1 DEF Accounted, Done
<1>9. Past'
  BY <1>2, <1>4, TurnFacts, PastLater DEF Past, Done
<1>10. RangesDisjoint'
  <2>1. ASSUME NEW j \in Done, phys[j] = p
        PROVE  End(j) < Start(k)
    BY <2>1, <1>3, ReleasedIsPast
  <2> QED BY <1>2, <1>3, <1>4, <2>1, TurnFacts DEF RangesDisjoint, Done
<1> QED BY <1>2, <1>6, <1>7, <1>8, <1>9, <1>10, TurnFacts

(* A range takes the register of another, which is spilled.                *)
LEMMA EvictInv ==
  ASSUME Inv, NEW k \in pending, NEW s \in active, Evict(k, s)
  PROVE  Inv'
<1> USE DEF Inv
<1>1. /\ InTurn(k) /\ Turn(k) /\ FreeAt(k) = {} /\ s \in Remaining(k)
      /\ phys' = [phys EXCEPT ![k] = phys[s], ![s] = Spilled]
      /\ vregToPhys' = [vregToPhys EXCEPT ![ranges[k].vreg] = phys[s]]
      /\ active' = (Remaining(k) \ {s}) \cup {k}
      /\ free' = {}
  BY DEF Evict
<1>2. /\ k \in DOMAIN ranges /\ k \notin active /\ k \notin Done
      /\ pending' = pending \ {k} /\ Done' = Done \cup {k}
      /\ \A j \in DOMAIN ranges : Start(j)' = Start(j) /\ End(j)' = End(j)
      /\ Ordered'
  BY <1>1, TurnFacts
<1>3. /\ s # k /\ s \in Done /\ s \in DOMAIN ranges /\ phys[s] \in Phys
  BY <1>2 DEF Held, Done, ScanTypeOK
<1>4. /\ \A j \in DOMAIN ranges : j # k /\ j # s => phys'[j] = phys[j]
      /\ phys'[k] = phys[s] /\ phys'[s] = Spilled /\ Spilled \notin Phys
  BY <1>1, <1>2, <1>3, ScanAssumption DEF ScanTypeOK
<1>5. \A j \in Remaining(k) \ {s} :
        /\ j \in Done /\ j \in DOMAIN ranges /\ j \notin pending
        /\ j # k /\ phys'[j] = phys[j] /\ phys[j] \in Phys
        /\ phys[j] # phys[s]
  BY <1>2, <1>4 DEF Remaining, Held, Done, ScanTypeOK
<1>6. ScanTypeOK'
  BY <1>1, <1>3, TurnFacts DEF ScanTypeOK, Remaining
<1>7. Held'
  <2>1. ASSUME NEW j \in active'
        PROVE  j \notin pending' /\ phys'[j] \in Phys \ free'
    BY <2>1, <1>1, <1>2, <1>3, <1>4, <1>5
  <2>2. ASSUME NEW i \in active', NEW j \in active', phys'[i] = phys'[j]
        PROVE  i = j
    <3>1. CASE i = k
      BY <2>2, <3>1, <1>1, <1>4, <1>5
    <3>2. CASE j = k
      BY <2>2, <3>2, <1>1, <1>4, <1>5
    <3>3. CASE i \in Remaining(k) \ {s} /\ j \in Remaining(k) \ {s}
      BY <2>2, <3>3, <1>5 DEF Remaining, Held
    <3> QED BY <3>1, <3>2, <3>3, <1>1
  <2> QED BY <2>1, <2>2 DEF Held
<1>8. Accounted'
  <2>1. \A q \in Phys : \E j \in Remaining(k) : phys[j] = q
    BY <1>1 DEF Accounted, FreeAt, Remaining
  <2>2. ASSUME NEW q \in Phys
        PROVE  \E j \in active' : phys'[j] = q
    <3>1. PICK j \in Remaining(k) : phys[j] = q
      BY <2>1
    <3>2. CASE j = s
      BY <3>1, <3>2, <1>1, <1>4
    <3>3. CASE j # s
      BY <3>1, <3>3, <1>1, <1>5
    <3> QED BY <3>2, <3>3
  <2> QED BY <2>2 DEF Accounted
<1>9. Past'
  <2>1. ASSUME NEW j \in Done' \ active', NEW i \in pending', phys'[j] \in Phys
        PROVE  End(j) < Start(i) /\ i \in DOMAIN ranges /\ j \in DOMAIN ranges
    <3>1. j \in Done /\ j # k /\ j # s /\ j \notin Remaining(k)
      BY <2>1, <1>1, <1>2, <1>4
    <3>2. phys[j] \in Phys
      BY <2>1, <3>1, <1>4 DEF Done
    <3> QED BY <2>1, <3>1, <3>2, <1>1, <1>2, PastLater DEF Done, ScanTypeOK
  <2> QED BY <2>1, <1>2 DEF Past
<1>10. RangesDisjoint'
  <2>1. ASSUME NEW j \in Done, j # s, phys[j] = phys[s]
        PROVE  End(j) < Start(k)
    <3>1. j \notin Remaining(k)
      BY <2>1, <1>5
    <3> QED BY <2>1, <3>1, <1>1, <1>3, ReleasedIsPast
  <2>2. ASSUME NEW i \in Done', NEW j \in Done', i # j,
               phys'[i] = phys'[j], phys'[i] \in Phys
        PROVE  End(i) < Start(j) \/ End(j) < Start(i)
    <3>1. i # s /\ j # s
      BY <2>2, <1>4
    <3>2. CASE i = k
      BY <2>1, <2>2, <3>1, <3>2, <1>2, <1>4 DEF Done
    <3>3. CASE j = k
      BY <2>1, <2>2, <3>1, <3>3, <1>2, <1>4 DEF Done
    <3>4. CASE i # k /\ j # k
      BY <2>2, <3>1, <3>4, <1>2, <1>4 DEF RangesDisjoint, Done
    <3> QED BY <3>2, <3>3, <3>4
  <2>3. \A j \in Done' : j \in DOMAIN ranges
    BY <1>2 DEF Done
  <2> QED BY <2>2, <2>3, <1>2 DEF RangesDisjoint
<1> QED BY <1>2, <1>6, <1>7, <1>8, <1>9, <1>10

(* A range is spilled itself.                                              *)
LEMMA SpillInv ==
  ASSUME Inv, NEW k \in pending, Spill(k)
  PROVE  Inv'
<1> USE DEF Inv
<1>1. /\ InTurn(k) /\ Turn(k) /\ FreeAt(k) = {}
      /\ phys' = [phys EXCEPT ![k] = Spilled]
      /\ vregToPhys' = [vregToPhys EXCEPT ![ranges[k].vreg] = Spilled]
      /\ active' = Remaining(k)
      /\ free' = {}
  BY DEF Spill
<1>2. /\ \A j \in DOMAIN ranges : j # k => phys'[j] = phys[j]
      /\ phys'[k] = Spilled /\ Spilled \notin Phys
  BY <1>1, TurnFacts, ScanAssumption DEF ScanTypeOK
<1>3. \A j \in Remaining(k) : phys[j] \in Phys /\ j \in Done /\ j # k
  BY <1>1, TurnFacts DEF Remaining, Held, Done, ScanTypeOK
<1>4. ScanTypeOK'
  BY <1>1, TurnFacts DEF ScanTypeOK, Remaining
<1>5. Held'
  BY <1>1, <1>2, <1>3, TurnFacts DEF Held, Remaining, Done
<1>6. Accounted'
  <2>1. \A q \in Phys : \E j \in Remaining(k) : phys[j] = q
    BY <1>1 DEF Accounted, FreeAt, Remaining
  <2> QED BY <1>1, <1>2, <1>3, <2>1, TurnFacts DEF Accounted, Done
<1>7. Past'
  BY <1>1, <1>2, TurnFacts, PastLater DEF Past, Done
<1>8. RangesDisjoint'
  BY <1>1, <1>2, TurnFacts DEF RangesDisjoint, Done
<1> QED BY <1>1, <1>4, <1>5, <1>6, <1>7, <1>8, TurnFacts

(* Every step keeps the invariant.                                         *)
LEMMA NextInv == Inv /\ [ScanNext]_scan => Inv'
<1> SUFFICES ASSUME Inv, [ScanNext]_scan PROVE Inv'
  OBVIOUS
<1>1. ASSUME NEW k \in pending, Place(k) PROVE Inv'
  BY <1>1, PlaceInv
<1>2. ASSUME NEW k \in pending, Spill(k) PROVE Inv'
  BY <1>2, SpillInv
<1>3. ASSUME NEW k \in pending, NEW s \in active, Evict(k, s) PROVE Inv'
  BY <1>3, EvictInv
<1>4. ASSUME NEW rs \in Seq(LiveRange), Begin(rs) PROVE Inv'
  BY <1>4, BeginInv
<1>5. CASE UNCHANGED scan
  BY <1>5 DEF scan, Inv, ScanTypeOK, Held, Accounted, Ordered, Past,
              RangesDisjoint, Done, Start, End
<1> QED BY <1>1, <1>2, <1>3, <1>4, <1>5 DEF ScanNext, Allocate

-----------------------------------------------------------------------------
(* The arrays keep their types.                                            *)
THEOREM ScanTypeCorrect == ScanSpec => []ScanTypeOK
<1>1. Inv => ScanTypeOK
  BY DEF Inv
<1> QED BY <1>1, InitInv, NextInv, PTL DEF ScanSpec

(* Ranges that share a register share no instruction, whatever the ranges, *)
(* however few the registers and however many evictions.                   *)
THEOREM Disjoint == ScanSpec => []RangesDisjoint
<1>1. Inv => RangesDisjoint
  BY DEF Inv
<1> QED BY <1>1, InitInv, NextInv, PTL DEF ScanSpec

(* A range is spilled only where as many ranges as there are registers     *)
(* reach the instruction it starts at.                                     *)
THEOREM SpillsAreNeeded == ScanSpec => NoNeedlessSpill
<1>1. ASSUME Inv, NEW k \in pending, InTurn(k), FreeAt(k) = {}, NEW p \in Phys
      PROVE  \E j \in active : phys[j] = p /\ Start(j) <= Start(k) /\ Start(k) <= End(j)
  <2>1. PICK j \in active : phys[j] = p
    BY <1>1 DEF Inv, Accounted, FreeAt
  <2>2. j \notin Expired(k)
    BY <1>1 DEF FreeAt
  <2>3. j \in Done /\ j \in DOMAIN ranges /\ k \in DOMAIN ranges
    BY <1>1 DEF Inv, Held, Done, ScanTypeOK
  <2>4. Start(j) <= Start(k)
    BY <1>1, <2>3 DEF Inv, Ordered
  <2>5. Start(k) <= End(j)
    BY <1>1, <2>2, <2>3, RangeFacts DEF Expired, Inv
  <2> QED BY <2>1, <2>4, <2>5
<1>2. ASSUME Inv, NEW k \in pending, Spill(k) \/ \E s \in active : Evict(k, s)
      PROVE  InTurn(k) /\ FreeAt(k) = {}
  BY <1>2 DEF Spill, Evict
<1>3. Inv /\ [ScanNext]_scan
        => [\A k \in pending :
              Spill(k) \/ (\E s \in active : Evict(k, s))
                => \A p \in Phys : \E j \in active :
                     phys[j] = p /\ Start(j) <= Start(k) /\ Start(k) <= End(j)]_scan
  BY <1>1, <1>2
<1> QED BY <1>3, InitInv, NextInv, PTL DEF ScanSpec, NoNeedlessSpill
-----------------------------------------------------------------------------
Instruction ==
  [op : {"plain", "jump", "branch", "ret"},
   defs : SUBSET Vreg, uses : SUBSET Vreg, to : Nat]

(* The code is typed, and what is read was written further up in the text. *)
CodeInv ==
  /\ code \in Seq(Instruction)
  /\ \A i \in Ins : IsJump(i) => code[i].to # 0
  /\ \A i \in Ins : \A v \in Uses(i) \ Special : \E j \in Ins : j < i /\ v \in Defs(j)

(* What the ranges of the code are: one of each register that is written,  *)
(* and from the first access to the last for all but the special ones.     *)
Covering(rs) ==
  /\ rs \in Seq(LiveRange)
  /\ \A j, k \in DOMAIN rs : rs[j].vreg = rs[k].vreg => j = k
  /\ \A k \in DOMAIN rs : rs[k].start <= rs[k].end /\ rs[k].end <= Len(code) + 1
  /\ \A v \in Written : \E k \in DOMAIN rs : rs[k].vreg = v
  /\ \A k \in DOMAIN rs : rs[k].vreg \notin Special =>
       \A i \in Ins : rs[k].vreg \in Defs(i) \cup Uses(i)
                        => rs[k].start <= i /\ i <= rs[k].end

(* A jump, of the first n instructions, to where a range has not ended yet *)
(* is not behind its end.                                                  *)
Behind(rs, n) ==
  \A i \in 1 .. n : IsJump(i) =>
    \A k \in DOMAIN rs : code[i].to <= rs[k].end => i <= rs[k].end

-----------------------------------------------------------------------------
(* The types that CodeInv has in it.                                       *)
LEMMA CodeFacts ==
  ASSUME CodeInv
  PROVE  /\ Len(code) \in Nat /\ Ins = 1 .. Len(code) /\ Ins \subseteq Nat
         /\ \A i \in Ins : /\ Defs(i) \subseteq Vreg /\ Uses(i) \subseteq Vreg
                           /\ code[i].to \in Nat /\ i <= Len(code)
         /\ Written \subseteq Vreg /\ Written \subseteq Nat /\ IsFiniteSet(Written)
<1>1. Len(code) \in Nat /\ Ins = 1 .. Len(code) /\ \A i \in Ins : code[i] \in Instruction
  BY DEF CodeInv, Ins
<1>2. \A i \in Ins : /\ Defs(i) \subseteq Vreg /\ Uses(i) \subseteq Vreg
                     /\ code[i].to \in Nat /\ i <= Len(code)
  BY <1>1 DEF Instruction, Defs, Uses
<1>3. Written \subseteq Vreg
  BY <1>2 DEF Written
<1>4. IsFiniteSet(Written)
  BY <1>3, FS_Subset, RegAllocAssumption
<1> QED BY <1>1, <1>2, <1>3, <1>4, ScanAssumption

(* The entry of a register, as the first pass over the code leaves it.     *)
Entry(v) ==
  [vreg |-> v, start |-> Min({i \in Ins : v \in Defs(i)}),
   end |-> Max({i \in Ins : v \in Defs(i) \cup Uses(i)})]

(* The range of a register reaches from its first access to its last.      *)
LEMMA EntryCovers ==
  ASSUME CodeInv, NEW v \in Written
  PROVE  /\ Entry(v) \in LiveRange /\ Entry(v).vreg = v
         /\ Entry(v).start <= Entry(v).end /\ Entry(v).end <= Len(code) + 1
         /\ v \notin Special => \A i \in Ins : v \in Defs(i) \cup Uses(i)
                                  => Entry(v).start <= i /\ i <= Entry(v).end
<1> DEFINE writes == {i \in Ins : v \in Defs(i)}
           accesses == {i \in Ins : v \in Defs(i) \cup Uses(i)}
<1>1. writes \in SUBSET Nat /\ writes # {} /\ accesses \in SUBSET Nat /\ accesses # {}
      /\ writes \subseteq accesses
  BY CodeFacts DEF Written
<1>2. \A i \in accesses : i <= Len(code)
  BY CodeFacts
<1>3. Min(writes) \in writes /\ \A j \in writes : Min(writes) <= j
  BY <1>1, MinIsLeast
<1>4. Max(accesses) \in accesses /\ \A j \in accesses : j <= Max(accesses)
  BY <1>1, <1>2, CodeFacts, MaxIsGreatest
<1>5. Entry(v) = [vreg |-> v, start |-> Min(writes), end |-> Max(accesses)]
  BY DEF Entry
<1>6. ASSUME v \notin Special, NEW i \in accesses
      PROVE  Min(writes) <= i
  <2>1. \E j \in Ins : j <= i /\ v \in Defs(j)
    <3>1. CASE v \in Defs(i)
      BY <3>1, CodeFacts
    <3>2. CASE v \in Uses(i)
      <4>1. PICK j \in Ins : j < i /\ v \in Defs(j)
        BY <1>6, <3>2 DEF CodeInv
      <4> QED BY <4>1, CodeFacts
    <3> QED BY <3>1, <3>2
  <2>2. PICK j \in writes : j <= i
    BY <2>1
  <2>3. j \in Nat /\ i \in Nat /\ Min(writes) \in Nat /\ Min(writes) <= j
    BY <2>2, <1>1, <1>3
  <2> QED BY <2>2, <2>3
<1> HIDE DEF writes, accesses
<1>7. Min(writes) \in Nat /\ Max(accesses) \in Nat /\ Min(writes) <= Max(accesses)
      /\ Max(accesses) <= Len(code)
  BY <1>1, <1>2, <1>3, <1>4
<1>8. /\ Entry(v) \in LiveRange /\ Entry(v).vreg = v
      /\ Entry(v).start <= Entry(v).end /\ Entry(v).end <= Len(code) + 1
  BY <1>5, <1>7, CodeFacts DEF LiveRange
<1>9. v \notin Special => \A i \in accesses : Entry(v).start <= i /\ i <= Entry(v).end
  BY <1>4, <1>5, <1>6
<1> QED BY <1>8, <1>9 DEF accesses

(* So the ranges computed from the text cover the code.                    *)
LEMMA LinearCovers == ASSUME CodeInv PROVE Covering(LinearRanges)
<1> DEFINE n == Cardinality(Written)
           rank(u) == Cardinality({w \in Written : w < u})
           at(k) == CHOOSE u \in Written : rank(u) = k - 1
<1>1. Written \in SUBSET Nat /\ IsFiniteSet(Written) /\ n \in Nat
  BY CodeFacts, FS_CardinalityType
<1>2. /\ \A u, v \in Written : rank(u) = rank(v) => u = v
      /\ \A k \in 1 .. n : \E u \in Written : rank(u) = k - 1
      /\ \A u \in Written : rank(u) + 1 \in 1 .. n
  BY <1>1, RankIsBijective
<1>3. LinearRanges = [k \in 1 .. n |-> Entry(at(k))]
  BY DEF LinearRanges, Entry
<1>4. \A u \in Written : rank(u) \in Int
  <2>1. ASSUME NEW u \in Written PROVE rank(u) \in Int
    <3>1. {w \in Written : w < u} \in SUBSET Written
      OBVIOUS
    <3> QED BY <1>1, <3>1, FS_Subset, FS_CardinalityType
  <2> QED BY <2>1
<1> HIDE DEF n, rank
<1>5. \A k \in 1 .. n : at(k) \in Written /\ rank(at(k)) = k - 1
  BY <1>2
<1> HIDE DEF at
<1>6. ASSUME NEW u \in Written PROVE \E k \in 1 .. n : at(k) = u
  <2>1. PICK k \in 1 .. n : k = rank(u) + 1
    BY <1>2
  <2>2. rank(u) = k - 1
    BY <1>4, <2>1
  <2> QED BY <1>2, <1>5, <2>2
<1>7. \A v \in Written : Entry(v) \in LiveRange /\ Entry(v).vreg = v
  BY EntryCovers
<1>8. /\ LinearRanges \in Seq(LiveRange) /\ DOMAIN LinearRanges = 1 .. n
      /\ \A k \in 1 .. n : LinearRanges[k] = Entry(at(k)) /\ LinearRanges[k].vreg = at(k)
  <2>1. [k \in 1 .. n |-> Entry(at(k))] \in [1 .. n -> LiveRange]
    BY <1>5, <1>7
  <2>2. LinearRanges \in [1 .. n -> LiveRange]
    BY <1>3, <2>1
  <2>3. DOMAIN LinearRanges = 1 .. n /\ \A k \in 1 .. n : LinearRanges[k] = Entry(at(k))
    BY <1>3
  <2>4. \A k \in 1 .. n : Entry(at(k)).vreg = at(k)
    BY <1>5, <1>7
  <2>5. LinearRanges \in Seq(LiveRange)
    BY <1>1, <2>2
  <2> QED BY <2>3, <2>4, <2>5
<1>9. \A j, k \in 1 .. n : at(j) = at(k) => j = k
  BY <1>5
<1> QED BY <1>5, <1>6, <1>8, <1>9, EntryCovers DEF Covering

-----------------------------------------------------------------------------
(* The types that Covering has in it.                                      *)
LEMMA CoveringFacts ==
  ASSUME CodeInv, NEW rs, Covering(rs)
  PROVE  /\ DOMAIN rs = 1 .. Len(rs) /\ Len(rs) \in Nat
         /\ \A k \in DOMAIN rs : /\ rs[k] \in LiveRange /\ rs[k].start \in Nat
                                 /\ rs[k].end \in Nat /\ rs[k].start <= rs[k].end
                                 /\ rs[k].end <= Len(code) + 1
<1>1. /\ DOMAIN rs = 1 .. Len(rs) /\ Len(rs) \in Nat
      /\ \A k \in DOMAIN rs : rs[k] \in LiveRange
  BY DEF Covering
<1>2. \A r \in LiveRange : r.start \in Nat /\ r.end \in Nat
  BY DEF LiveRange
<1> QED BY <1>1, <1>2 DEF Covering

(* Ranges made longer are still what the code's ranges are.                *)
LEMMA LongerCovers ==
  ASSUME CodeInv, NEW rs, Covering(rs), NEW new, DOMAIN new = DOMAIN rs,
         NEW n, new \in [1 .. n -> LiveRange], n = Len(rs),
         \A k \in DOMAIN rs : /\ new[k].vreg = rs[k].vreg
                              /\ new[k].start <= rs[k].start /\ rs[k].end <= new[k].end
                              /\ new[k].end <= Len(code) + 1
  PROVE  Covering(new)
<1>1. n \in Nat /\ DOMAIN rs = 1 .. n
  BY CoveringFacts
<1>2. new \in Seq(LiveRange)
  BY <1>1
<1>3. \A k \in DOMAIN rs : new[k].start \in Nat /\ new[k].end \in Nat
  BY <1>1 DEF LiveRange
<1>4. \A k \in DOMAIN new : new[k].start <= new[k].end /\ new[k].end <= Len(code) + 1
  BY <1>3, CoveringFacts
<1>5. ASSUME NEW k \in DOMAIN rs, new[k].vreg \notin Special,
             NEW i \in Ins, new[k].vreg \in Defs(i) \cup Uses(i)
      PROVE  new[k].start <= i /\ i <= new[k].end
  <2>1. rs[k].start <= i /\ i <= rs[k].end
    BY <1>5 DEF Covering
  <2>2. i \in Nat
    BY CodeFacts
  <2> QED BY <1>3, <2>1, <2>2, CoveringFacts
<1> QED BY <1>2, <1>4, <1>5 DEF Covering

(* The first part of the pass over the graph only makes the ranges longer, *)
(* and to instructions, whichever registers' places it takes.              *)
LEMMA LengthenedCovers ==
  ASSUME CodeInv, NEW r \in LiveRange, r.start <= r.end, r.end <= Len(code) + 1,
         NEW starts \in SUBSET Ins, NEW ends \in SUBSET Ins
  PROVE  LET l == Lengthened(r, starts, ends)
         IN  /\ l \in LiveRange /\ l.vreg = r.vreg
             /\ l.start <= r.start /\ r.end <= l.end /\ l.end <= Len(code) + 1
<1>1. r.start \in Nat /\ r.end \in Nat /\ Len(code) \in Nat
      /\ \A i \in Ins : i \in Nat /\ i <= Len(code)
  BY CodeFacts DEF LiveRange
<1> DEFINE S == {r.start} \cup starts
           E == {r.end} \cup ends
<1>2. S \in SUBSET Nat /\ S # {} /\ E \in SUBSET Nat /\ E # {} /\ r.start \in S /\ r.end \in E
      /\ \A i \in E : i <= Len(code) + 1
  BY <1>1
<1>3. Lengthened(r, starts, ends) = [r EXCEPT !.start = Min(S), !.end = Max(E)]
  BY DEF Lengthened
<1> HIDE DEF S, E
<1>4. Min(S) \in S /\ \A j \in S : Min(S) <= j
  BY <1>2, MinIsLeast
<1>5. Max(E) \in E /\ \A j \in E : j <= Max(E)
  <2>1. Len(code) + 1 \in Nat
    BY <1>1
  <2> QED BY <1>2, <2>1, MaxIsGreatest
<1>6. Min(S) \in Nat /\ Max(E) \in Nat /\ Min(S) <= r.start /\ r.end <= Max(E)
      /\ Max(E) <= Len(code) + 1
  BY <1>2, <1>4, <1>5
<1> QED BY <1>3, <1>6 DEF LiveRange

(* Lengthening to whole blocks keeps the code covered.                     *)
LEMMA ToBlocksCovers ==
  ASSUME CodeInv, NEW rs, Covering(rs)
  PROVE  Covering(ExtendToBlocks(rs))
<1> DEFINE new == ExtendToBlocks(rs)
<1>1. PICK S, E : /\ new = [k \in DOMAIN rs |-> Lengthened(rs[k], S[k], E[k])]
                  /\ \A k \in DOMAIN rs : S[k] \subseteq Ins /\ E[k] \subseteq Ins
  <2> DEFINE liveOut == LiveOut
             live == CHOOSE live : live =
                       [i \in Ins |-> IF IsBlockEnd(i) THEN liveOut[i]
                                      ELSE (live[i + 1] \cup Uses(i + 1)) \ Defs(i + 1)]
             lastReads(v) == {i \in Ins : v \in Uses(i) /\ v \notin live[i]}
             ends(v)      == {i \in Ins : IsBlockEnd(i) /\ v \in liveOut[i]}
             S == [k \in DOMAIN rs |-> lastReads(k - 1)]
             E == [k \in DOMAIN rs |-> ends(k - 1)]
  <2>1. new = [k \in DOMAIN rs |-> Lengthened(rs[k], lastReads(k - 1), ends(k - 1))]
    BY DEF ExtendToBlocks
  <2>2. \A k \in DOMAIN rs : S[k] = lastReads(k - 1) /\ E[k] = ends(k - 1)
    OBVIOUS
  <2>3. \A v : lastReads(v) \subseteq Ins /\ ends(v) \subseteq Ins
    OBVIOUS
  <2> HIDE DEF lastReads, ends, S, E, new
  <2>4. new = [k \in DOMAIN rs |-> Lengthened(rs[k], S[k], E[k])]
    BY <2>1, <2>2
  <2> QED BY <2>2, <2>3, <2>4
<1> HIDE DEF new
<1>2. DOMAIN new = DOMAIN rs
  BY <1>1
<1>3. ASSUME NEW k \in DOMAIN rs
      PROVE  /\ new[k] \in LiveRange /\ new[k].vreg = rs[k].vreg
             /\ new[k].start <= rs[k].start /\ rs[k].end <= new[k].end
             /\ new[k].end <= Len(code) + 1
  <2>1. new[k] = Lengthened(rs[k], S[k], E[k]) /\ S[k] \in SUBSET Ins /\ E[k] \in SUBSET Ins
    BY <1>1
  <2> QED BY <2>1, CoveringFacts, LengthenedCovers
<1>4. new \in [1 .. Len(rs) -> LiveRange]
  BY <1>1, <1>2, <1>3, CoveringFacts
<1>5. Covering(new)
  BY <1>2, <1>3, <1>4, LongerCovers
<1> QED BY <1>5 DEF new

(* One jump back to the start of a loop.                                   *)
LEMMA OverLoopCovers ==
  ASSUME CodeInv, NEW rs, Covering(rs), NEW i \in 1 .. Len(code), Behind(rs, i - 1)
  PROVE  Covering(OverLoop(rs, i)) /\ Behind(OverLoop(rs, i), i)
<1> DEFINE new == OverLoop(rs, i)
<1>1. CASE ~IsJump(i) \/ code[i].to > i
  <2>1. new = rs
    BY <1>1 DEF OverLoop
  <2> HIDE DEF new
  <2>2. Behind(new, i)
    <3> SUFFICES ASSUME NEW j \in 1 .. i, IsJump(j), NEW k \in DOMAIN rs,
                        code[j].to <= rs[k].end
                 PROVE  j <= rs[k].end
      BY <2>1 DEF Behind
    <3>1. rs[k].end \in Nat /\ code[j].to \in Nat /\ i \in Nat
      BY CoveringFacts, CodeFacts
    <3>2. CASE j = i
      BY <1>1, <3>1, <3>2
    <3>3. CASE j # i
      <4>1. j \in 1 .. i - 1
        BY <3>3
      <4> QED BY <4>1 DEF Behind
    <3> QED BY <3>2, <3>3
  <2> QED BY <2>1, <2>2 DEF new
<1>2. CASE ~(~IsJump(i) \/ code[i].to > i)
  <2> DEFINE Inside(r) == r.end >= code[i].to /\ r.end < i
  <2>1. new = [k \in DOMAIN rs |->
                 IF Inside(rs[k]) THEN [rs[k] EXCEPT !.end = i + 1] ELSE rs[k]]
    BY <1>2 DEF OverLoop
  <2> HIDE DEF new
  <2>2. i \in Nat /\ i + 1 <= Len(code) + 1 /\ Len(code) \in Nat
    BY CodeFacts
  <2>3. ASSUME NEW k \in DOMAIN rs
        PROVE  /\ new[k] \in LiveRange /\ new[k].vreg = rs[k].vreg
               /\ new[k].start <= rs[k].start /\ rs[k].end <= new[k].end
               /\ new[k].end <= Len(code) + 1
    <3>1. rs[k] \in LiveRange /\ rs[k].end \in Nat /\ rs[k].start \in Nat
          /\ rs[k].end <= Len(code) + 1
      BY CoveringFacts
    <3>2. CASE Inside(rs[k])
      <4>1. new[k] = [rs[k] EXCEPT !.end = i + 1]
        BY <2>1, <3>2
      <4>2. rs[k].end <= i + 1
        BY <2>2, <3>1, <3>2
      <4> QED BY <2>2, <3>1, <4>1, <4>2 DEF LiveRange
    <3>3. CASE ~Inside(rs[k])
      BY <2>1, <3>1, <3>3
    <3> QED BY <3>2, <3>3
  <2>4. DOMAIN new = DOMAIN rs
    BY <2>1
  <2>5. new \in [1 .. Len(rs) -> LiveRange]
    BY <2>1, <2>3, <2>4, CoveringFacts
  <2>6. Covering(new)
    BY <2>3, <2>4, <2>5, LongerCovers
  <2>7. Behind(new, i)
    <3> SUFFICES ASSUME NEW j \in 1 .. i, IsJump(j), NEW k \in DOMAIN rs,
                        code[j].to <= new[k].end
                 PROVE  j <= new[k].end
      BY <2>4 DEF Behind
    <3>1. /\ rs[k].end \in Nat /\ code[j].to \in Nat /\ code[i].to \in Nat /\ j \in Nat
          /\ j <= i /\ rs[k] \in LiveRange
      BY <2>2, CoveringFacts, CodeFacts
    <3>2. CASE Inside(rs[k])
      <4>1. new[k].end = i + 1
        BY <2>1, <3>1, <3>2 DEF LiveRange
      <4> QED BY <2>2, <3>1, <4>1
    <3>3. CASE ~Inside(rs[k])
      <4>1. new[k] = rs[k]
        BY <2>1, <3>3
      <4>2. CASE j = i
        BY <2>2, <3>1, <3>3, <4>1, <4>2
      <4>3. CASE j # i
        <5>1. j \in 1 .. i - 1
          BY <2>2, <3>1, <4>3
        <5> QED BY <4>1, <5>1 DEF Behind
      <4> QED BY <4>2, <4>3
    <3> QED BY <3>2, <3>3
  <2> QED BY <2>6, <2>7 DEF new
<1> QED BY <1>1, <1>2

(* The jumps one after the other: the function that is defined by the      *)
(* recursion exists, because there is no least number of jumps without it. *)
LEMMA OverLoopsCovers ==
  ASSUME CodeInv, NEW rs, Covering(rs)
  PROVE  /\ Covering(ExtendOverLoops(rs))
         /\ Behind(ExtendOverLoops(rs), Len(code))
<1> DEFINE Upto(f, n) ==
             f = [i \in 0 .. n |-> IF i = 0 THEN rs ELSE OverLoop(f[i - 1], i)]
           missing == {n \in Nat : ~ \E f : Upto(f, n)}
<1>1. missing = {}
  <2> SUFFICES ASSUME missing # {} PROVE FALSE
    OBVIOUS
  <2>1. PICK n \in missing : \A m \in missing : n <= m
    BY LeastNatural
  <2>2. n \in Nat /\ n # 0
    <3>1. Upto([i \in 0 .. 0 |-> rs], 0)
      OBVIOUS
    <3> QED BY <3>1
  <2>3. n - 1 \in Nat /\ n - 1 \notin missing
    <3> HIDE DEF missing
    <3>1. n - 1 \in Nat /\ ~(n <= n - 1)
      BY <2>2
    <3> QED BY <2>1, <3>1
  <2>4. PICK f : Upto(f, n - 1)
    BY <2>3
  <2> DEFINE g == [i \in 0 .. n |-> IF i < n THEN f[i] ELSE OverLoop(f[n - 1], n)]
  <2>5. Upto(g, n)
    <3>1. ASSUME NEW i \in 0 .. n
          PROVE  g[i] = IF i = 0 THEN rs ELSE OverLoop(g[i - 1], i)
      <4>1. CASE i = 0
        BY <2>2, <2>4, <4>1
      <4>2. CASE i # 0 /\ i < n
        <5>1. i \in 0 .. n - 1 /\ i - 1 \in 0 .. n /\ i - 1 < n
          BY <2>2, <4>2
        <5>2. g[i] = f[i] /\ g[i - 1] = f[i - 1]
          BY <4>2, <5>1
        <5>3. f[i] = OverLoop(f[i - 1], i)
          BY <2>4, <4>2, <5>1
        <5> QED BY <4>2, <5>2, <5>3
      <4>3. CASE i = n
        <5>1. n - 1 \in 0 .. n /\ n - 1 < n
          BY <2>2
        <5>2. g[n] = OverLoop(f[n - 1], n) /\ g[n - 1] = f[n - 1]
          BY <2>2, <5>1
        <5> QED BY <2>2, <4>3, <5>2
      <4> QED BY <2>2, <4>1, <4>2, <4>3
    <3> HIDE DEF g
    <3>2. g = [i \in 0 .. n |-> g[i]]
      BY DEF g
    <3> QED BY <3>1, <3>2
  <2> QED BY <2>1, <2>5
<1> DEFINE upTo == CHOOSE f : Upto(f, Len(code))
<1>2. ExtendOverLoops(rs) = upTo[Len(code)]
  BY DEF ExtendOverLoops
<1>3. Len(code) \in Nat
  BY CodeFacts
<1>4. Upto(upTo, Len(code))
  BY <1>1, <1>3
<1> HIDE DEF upTo
<1> DEFINE bad == {i \in 0 .. Len(code) : ~ (Covering(upTo[i]) /\ Behind(upTo[i], i))}
<1>5. bad = {}
  <2> SUFFICES ASSUME bad # {} PROVE FALSE
    OBVIOUS
  <2>1. bad \subseteq Nat
    BY <1>3
  <2>2. PICK i \in bad : \A j \in bad : i <= j
    BY <2>1, LeastNatural
  <2>3. i # 0
    <3>1. upTo[0] = rs
      BY <1>3, <1>4
    <3>2. Behind(rs, 0)
      BY DEF Behind
    <3> QED BY <2>2, <3>1, <3>2
  <2>4. i \in 1 .. Len(code) /\ i - 1 \in 0 .. Len(code) /\ i - 1 < i
    BY <1>3, <2>3
  <2>5. i - 1 \notin bad
    BY <1>3, <2>2, <2>4
  <2>6. upTo[i] = OverLoop(upTo[i - 1], i)
    BY <1>4, <2>3, <2>4
  <2> QED BY <2>4, <2>5, <2>6, OverLoopCovers
<1> QED BY <1>2, <1>3, <1>5

-----------------------------------------------------------------------------
(* What the rewriting reads of a range that was not spilled is its         *)
(* register.                                                               *)
Rewritable ==
  \A k \in Done : phys[k] # Spilled =>
    phys[k] \in Phys /\ vregToPhys[ranges[k].vreg] = phys[k]

(* The inductive invariant of the allocation of a function.                *)
RInv ==
  /\ CodeInv
  /\ Inv
  /\ Rewritable
  /\ phase \in {"emit", "allocate", "run"}
  /\ phase = "emit" => ranges = <<>>
  /\ phase # "emit" => Covering(ranges) /\ Behind(ranges, Len(code)) /\ code # <<>>
                       /\ \A i \in Ins : code[i].to <= Len(code)
  /\ phase # "run" => pc = 1
  /\ phase = "run" =>
       /\ pending = {}
       /\ pc \in Ins
       /\ DOMAIN out = Ins
       /\ \A i \in Ins : /\ out[i].defs = {Location(v) : v \in Defs(i)}
                         /\ out[i].uses = {Location(v) : v \in Uses(i)}

(* The invariant holds at the beginning.                                   *)
LEMMA RInit == Init => RInv
<1> SUFFICES ASSUME Init PROVE RInv
  OBVIOUS
<1>1. Inv
  BY InitInv DEF Init
<1>2. CodeInv
  BY DEF Init, CodeInv, Ins
<1>3. Done = {} /\ ranges = <<>>
  BY DEF Init, ScanInit, Done
<1> QED BY <1>1, <1>2, <1>3 DEF Init, RInv, Rewritable

(* What an instruction of the compiler looks like.                         *)
LEMMA EmitInv ==
  ASSUME RInv, NEW ins \in Instruction, Emit(ins),
         ins.op \in {"jump", "branch"} => ins.to # 0
  PROVE  RInv'
<1>1. phase = "emit" /\ phase' = "emit" /\ ranges = <<>> /\ code' = Append(code, ins)
      /\ code \in Seq(Instruction) /\ ins.uses \subseteq Special \cup Written
      /\ pc' = pc /\ pc = 1 /\ UNCHANGED scan
  BY DEF Emit, RInv, CodeInv
<1>2. Len(code) \in Nat /\ Ins = 1 .. Len(code) /\ Ins' = 1 .. Len(code) + 1
      /\ code' \in Seq(Instruction) /\ code'[Len(code) + 1] = ins
      /\ \A i \in Ins : code'[i] = code[i]
  BY <1>1 DEF Ins
<1>3. \A i \in Ins : Defs(i)' = Defs(i) /\ Uses(i)' = Uses(i) /\ IsJump(i)' = IsJump(i)
  BY <1>2 DEF Defs, Uses, IsJump
<1>4. ASSUME NEW i \in Ins', IsJump(i)' PROVE code'[i].to # 0
  <2>1. CASE i \in Ins
    BY <1>2, <1>3, <1>4, <2>1 DEF RInv, CodeInv
  <2>2. CASE i = Len(code) + 1
    BY <1>2, <1>4, <2>2 DEF IsJump
  <2> QED BY <1>2, <2>1, <2>2
<1>5. ASSUME NEW i \in Ins', NEW v \in Uses(i)' \ Special
      PROVE  \E j \in Ins' : j < i /\ v \in Defs(j)'
  <2>1. CASE i \in Ins
    <3>1. PICK j \in Ins : j < i /\ v \in Defs(j)
      BY <1>3, <1>5, <2>1 DEF RInv, CodeInv
    <3> QED BY <1>2, <1>3, <3>1
  <2>2. CASE i = Len(code) + 1
    <3>1. v \in Written
      BY <1>1, <1>2, <1>5, <2>2 DEF Uses
    <3>2. PICK j \in Ins : v \in Defs(j)
      BY <3>1 DEF Written
    <3> QED BY <1>2, <1>3, <2>2, <3>2
  <2> QED BY <1>2, <2>1, <2>2
<1>6. CodeInv'
  BY <1>2, <1>4, <1>5 DEF CodeInv
<1>7. Inv' /\ Rewritable' /\ ranges' = <<>>
  <2>1. Inv'
    BY <1>1, NextInv DEF RInv
  <2>2. Done' = {} /\ ranges' = <<>>
    BY <1>1 DEF Done, scan
  <2> QED BY <2>1, <2>2 DEF Rewritable
<1> QED BY <1>1, <1>6, <1>7 DEF RInv

(* Whatever the compiler emits, it keeps the invariant.                    *)
LEMMA EmitAnyInv ==
  ASSUME RInv, EmitAny
  PROVE  RInv'
<1>1. \A d, s \in SUBSET Vreg : Plain(d, s) \in Instruction /\ Plain(d, s).op = "plain"
  BY DEF Plain, Instruction
<1>2. \A i \in 1 .. MaxIns : /\ Jump(i) \in Instruction /\ Jump(i).to # 0
                             /\ \A s \in Vreg : Branch(s, i) \in Instruction
                                                /\ Branch(s, i).to # 0
  BY RegAllocAssumption DEF Jump, Branch, Instruction
<1>3. \A s \in Vreg : Ret(s) \in Instruction /\ Ret(s).op = "ret"
  BY DEF Ret, Instruction
<1>4. Condition \subseteq Vreg
  BY RegAllocAssumption
<1>5. ASSUME NEW d \in SUBSET Vreg, NEW s \in SUBSET Vreg, Emit(Plain(d, s))
      PROVE  RInv'
  BY <1>1, <1>5, EmitInv
<1>6. ASSUME NEW s \in Vreg, Emit(Ret(s)) PROVE RInv'
  BY <1>3, <1>6, EmitInv
<1>7. ASSUME NEW i \in 1 .. MaxIns,
             Emit(Jump(i)) \/ \E s \in Condition : Emit(Branch(s, i))
      PROVE  RInv'
  BY <1>2, <1>4, <1>7, EmitInv
<1>8. CASE \E d \in Vreg \ Special : Emit(Plain({d}, {})) \/ Emit(Plain({}, {d}))
  BY <1>5, <1>8
<1>9. CASE \E d, s \in Vreg : d # s /\ Emit(Plain({d}, {s}))
  BY <1>5, <1>9
<1> QED BY <1>4, <1>6, <1>7, <1>8, <1>9 DEF EmitAny

(* What the code and the ranges are is not changed after the ranges are    *)
(* computed.                                                               *)
LEMMA SameCode ==
  ASSUME RInv, phase # "emit", UNCHANGED <<code, ranges>>
  PROVE  /\ CodeInv' /\ Covering(ranges)' /\ Behind(ranges, Len(code))'
         /\ code' # <<>> /\ Ins' = Ins
         /\ (\A i \in Ins : code[i].to <= Len(code))'
         /\ \A i \in Ins : Defs(i)' = Defs(i) /\ Uses(i)' = Uses(i)
<1>1. CodeInv /\ Covering(ranges) /\ Behind(ranges, Len(code)) /\ code # <<>>
      /\ \A i \in Ins : code[i].to <= Len(code)
  BY DEF RInv
<1>2. CodeInv'
  BY <1>1 DEF CodeInv, Ins, IsJump, Uses, Defs
<1>3. Covering(ranges)'
  BY <1>1 DEF Covering, Ins, Uses, Defs, Written
<1>4. Behind(ranges, Len(code))'
  BY <1>1 DEF Behind, IsJump
<1> QED BY <1>1, <1>2, <1>3, <1>4 DEF Ins, Uses, Defs

(* The ranges that are computed cover the code.                            *)
LEMMA ComputeInv ==
  ASSUME RInv, ComputeRanges
  PROVE  RInv'
<1> DEFINE rs == ExtendOverLoops(ExtendToBlocks(LinearRanges))
<1>1. phase = "emit" /\ phase' = "allocate" /\ Begin(rs) /\ code # <<>> /\ pc = 1
      /\ UNCHANGED <<code, out, pc>> /\ \A i \in Ins : code[i].to <= Len(code)
  BY DEF ComputeRanges, RInv
<1>2. Covering(rs) /\ Behind(rs, Len(code)) /\ CodeInv
  BY LinearCovers, ToBlocksCovers, OverLoopsCovers DEF RInv
<1> HIDE DEF rs
<1>3. rs \in Seq(LiveRange) /\ ranges' = rs /\ pending' = DOMAIN rs
  BY <1>1, <1>2 DEF Covering, Begin
<1>4. Inv'
  BY <1>1, <1>3, BeginInv DEF RInv
<1>5. Rewritable'
  BY <1>3 DEF Rewritable, Done
<1>6. CodeInv' /\ Covering(ranges)' /\ (\A i \in Ins : code[i].to <= Len(code))'
  BY <1>1, <1>2, <1>3 DEF CodeInv, Covering, Ins, IsJump, Uses, Defs, Written
<1>7. Behind(ranges, Len(code))'
  BY <1>1, <1>2, <1>3 DEF Behind, IsJump
<1> QED BY <1>1, <1>4, <1>5, <1>6, <1>7 DEF RInv

(* A turn of the scan keeps the ranges, and the code.                      *)
LEMMA AllocateInv ==
  ASSUME RInv, AllocateNext
  PROVE  RInv'
<1>1. phase = "allocate" /\ Allocate /\ UNCHANGED <<phase, code, out, pc>>
      /\ Inv /\ CodeInv /\ pc = 1
  BY DEF AllocateNext, RInv
<1>2. Inv'
  BY <1>1, NextInv DEF ScanNext
<1>3. PICK k \in pending : Place(k) \/ Spill(k) \/ \E s \in active : Evict(k, s)
  BY <1>1 DEF Allocate
<1>4. InTurn(k) /\ Turn(k)
  BY <1>3 DEF Place, Spill, Evict
<1>5. k \in DOMAIN ranges /\ k \notin Done /\ Done' = Done \cup {k} /\ ranges' = ranges
  BY <1>1, <1>4, TurnFacts
<1>6. \A j \in DOMAIN ranges :
        ranges[j].vreg \in Vreg /\ (j # k => ranges[j].vreg # ranges[k].vreg)
  BY <1>1, <1>5, RangeFacts DEF Inv, RInv, Covering
<1>7. phys \in [DOMAIN ranges -> Phys \cup {0, Spilled}]
      /\ vregToPhys \in [Vreg -> Phys \cup {0, Spilled}] /\ Done \subseteq DOMAIN ranges
      /\ Spilled \notin Phys
  BY <1>1, ScanAssumption DEF Inv, ScanTypeOK, Done
<1>8. ASSUME NEW p, phys'[k] = p, p = Spilled \/ p \in Phys,
             vregToPhys' = [vregToPhys EXCEPT ![ranges[k].vreg] = p],
             \A j \in Done : phys'[j] = phys[j] \/ phys'[j] = Spilled
      PROVE  Rewritable'
  <2>1. ASSUME NEW j \in Done', phys'[j] # Spilled
        PROVE  phys'[j] \in Phys /\ vregToPhys'[ranges'[j].vreg] = phys'[j]
    <3>1. CASE j = k
      BY <1>5, <1>6, <1>7, <1>8, <2>1, <3>1
    <3>2. CASE j # k
      <4>1. j \in Done /\ phys'[j] = phys[j] /\ phys[j] # Spilled
        BY <1>5, <1>8, <2>1, <3>2
      <4>2. phys[j] \in Phys /\ vregToPhys[ranges[j].vreg] = phys[j]
        BY <4>1 DEF RInv, Rewritable
      <4> QED BY <1>5, <1>6, <1>7, <1>8, <3>2, <4>1, <4>2
    <3> QED BY <3>1, <3>2
  <2> QED BY <2>1 DEF Rewritable
<1>9. ASSUME Place(k) PROVE Rewritable'
  <2>1. PICK p \in FreeAt(k) :
          /\ phys' = [phys EXCEPT ![k] = p]
          /\ vregToPhys' = [vregToPhys EXCEPT ![ranges[k].vreg] = p]
    BY <1>9 DEF Place
  <2>2. p \in Phys
    BY <1>1, <2>1 DEF FreeAt, Expired, Inv, Held, ScanTypeOK
  <2> QED BY <1>5, <1>7, <1>8, <2>1, <2>2
<1>10. ASSUME Spill(k) PROVE Rewritable'
  <2>1. phys' = [phys EXCEPT ![k] = Spilled]
        /\ vregToPhys' = [vregToPhys EXCEPT ![ranges[k].vreg] = Spilled]
    BY <1>10 DEF Spill
  <2>2. phys'[k] = Spilled /\ \A j \in Done : phys'[j] = phys[j]
    BY <1>5, <1>7, <2>1
  <2> QED BY <1>8, <2>1, <2>2
<1>11. ASSUME NEW s \in active, Evict(k, s) PROVE Rewritable'
  <2>1. s \in DOMAIN ranges /\ s # k /\ phys[s] \in Phys
    BY <1>1, <1>3 DEF Inv, Held, ScanTypeOK
  <2>2. phys' = [phys EXCEPT ![k] = phys[s], ![s] = Spilled]
        /\ vregToPhys' = [vregToPhys EXCEPT ![ranges[k].vreg] = phys[s]]
    BY <1>11 DEF Evict
  <2> QED BY <1>5, <1>7, <1>8, <2>1, <2>2
<1>12. Rewritable'
  BY <1>3, <1>9, <1>10, <1>11
<1> QED BY <1>1, <1>2, <1>5, <1>12, SameCode DEF RInv

(* The code is rewritten with what the scan gave.                          *)
LEMMA RewriteInv ==
  ASSUME RInv, Rewrite
  PROVE  RInv'
<1>1. phase = "allocate" /\ phase' = "run" /\ pending = {}
      /\ UNCHANGED <<scan, code, pc>> /\ pc = 1 /\ code # <<>>
      /\ out' = [i \in Ins |-> [code[i] EXCEPT !.defs = {Location(v) : v \in @},
                                               !.uses = {Location(v) : v \in @}]]
  BY DEF Rewrite, RInv
<1>2. Inv' /\ Rewritable'
  <2>1. Inv'
    BY <1>1, NextInv DEF RInv
  <2> QED BY <1>1, <2>1 DEF RInv, Rewritable, Done, scan
<1>3. /\ CodeInv' /\ Covering(ranges)' /\ Behind(ranges, Len(code))'
      /\ code' # <<>> /\ Ins' = Ins
      /\ (\A i \in Ins : code[i].to <= Len(code))'
      /\ \A i \in Ins : Defs(i)' = Defs(i) /\ Uses(i)' = Uses(i)
  <2>1. UNCHANGED <<code, ranges>> /\ phase # "emit"
    BY <1>1 DEF scan
  <2> QED BY <2>1, SameCode
<1>4. pc' \in Ins'
  <2>1. Ins = 1 .. Len(code) /\ Len(code) \in Nat /\ code \in Seq(Instruction)
    BY CodeFacts DEF RInv, CodeInv
  <2>2. code # <<>> /\ pc' = 1
    BY <1>1
  <2>3. Len(code) # 0
    BY <2>1, <2>2
  <2> QED BY <1>3, <2>1, <2>2, <2>3
<1>5. ASSUME NEW i \in Ins
      PROVE  /\ out'[i].defs = {Location(v) : v \in Defs(i)}
             /\ out'[i].uses = {Location(v) : v \in Uses(i)}
  <2>1. code[i] \in Instruction
    BY DEF RInv, CodeInv, Ins
  <2>2. out'[i] = [code[i] EXCEPT !.defs = {Location(v) : v \in code[i].defs},
                                  !.uses = {Location(v) : v \in code[i].uses}]
    BY <1>1
  <2> QED BY <2>1, <2>2 DEF Instruction, Defs, Uses
<1>6. \A v : Location(v)' = Location(v)
  BY <1>1 DEF Location, scan
<1>7. DOMAIN out' = Ins /\ pending' = {}
  BY <1>1 DEF scan
<1>8. \A i \in Ins' : /\ out'[i].defs = {Location(v)' : v \in Defs(i)'}
                      /\ out'[i].uses = {Location(v)' : v \in Uses(i)'}
  BY <1>3, <1>5, <1>6
<1> QED BY <1>1, <1>2, <1>3, <1>4, <1>7, <1>8 DEF RInv

(* An execution stays in the code.                                         *)
LEMMA ExecuteInv ==
  ASSUME RInv, Execute
  PROVE  RInv'
<1>1. phase = "run" /\ phase' = "run" /\ pc' \in Succ(pc) /\ pc \in Ins
      /\ UNCHANGED <<scan, code, out>> /\ pending = {}
  BY DEF Execute, RInv
<1>2. Inv' /\ Rewritable'
  <2>1. Inv'
    BY <1>1, NextInv DEF RInv
  <2> QED BY <1>1, <2>1 DEF RInv, Rewritable, Done, scan
<1>3. /\ CodeInv' /\ Covering(ranges)' /\ Behind(ranges, Len(code))'
      /\ code' # <<>> /\ Ins' = Ins
      /\ (\A i \in Ins : code[i].to <= Len(code))'
      /\ \A i \in Ins : Defs(i)' = Defs(i) /\ Uses(i)' = Uses(i)
  <2>1. UNCHANGED <<code, ranges>> /\ phase # "emit"
    BY <1>1 DEF scan
  <2> QED BY <2>1, SameCode
<1>4. Succ(pc) \subseteq Ins
  <2>1. IsJump(pc) => code[pc].to \in Ins
    <3>1. code[pc].to \in Nat /\ code[pc].to <= Len(code) /\ Ins = 1 .. Len(code)
          /\ Len(code) \in Nat
      BY <1>1, CodeFacts DEF RInv
    <3>2. IsJump(pc) => code[pc].to # 0
      BY <1>1 DEF RInv, CodeInv
    <3> QED BY <3>1, <3>2
  <2> QED BY <2>1 DEF Succ, IsJump
<1>5. \A i \in Ins' : /\ out'[i].defs = {Location(v)' : v \in Defs(i)'}
                      /\ out'[i].uses = {Location(v)' : v \in Uses(i)'}
  BY <1>1, <1>3 DEF RInv, Location, Defs, Uses, scan
<1> QED BY <1>1, <1>2, <1>3, <1>4, <1>5 DEF RInv, scan

(* Every step keeps the invariant.                                         *)
LEMMA RNext == RInv /\ [Next]_vars => RInv'
<1> SUFFICES ASSUME RInv, [Next]_vars PROVE RInv'
  OBVIOUS
<1>1. CASE EmitAny
  BY <1>1, EmitAnyInv
<1>2. CASE ComputeRanges
  BY <1>2, ComputeInv
<1>3. CASE AllocateNext
  BY <1>3, AllocateInv
<1>4. CASE Rewrite
  BY <1>4, RewriteInv
<1>5. CASE Execute
  BY <1>5, ExecuteInv
<1>6. CASE UNCHANGED vars
  <2>1. Inv'
    BY <1>6, NextInv DEF RInv, vars
  <2>2. UNCHANGED <<ranges, pending, phys, active, free, vregToPhys>>
        /\ UNCHANGED <<phase, code, out, pc>>
    BY <1>6 DEF vars, scan
  <2> QED BY <2>1, <2>2 DEF RInv, CodeInv, Rewritable, Done, Covering, Behind, Ins, IsJump,
                          Uses, Defs, Written, Location
<1> QED BY <1>1, <1>2, <1>3, <1>4, <1>5, <1>6 DEF Next, Returned

-----------------------------------------------------------------------------
(* Two ranges of one instruction have different registers.                 *)
LEMMA SharedInstruction ==
  ASSUME RInv, phase = "run", NothingSpilled, NEW i \in Ins,
         NEW d \in Defs(i), NEW u \in Uses(i), d # u
  PROVE  Location(d) # Location(u)
<1>1. /\ CodeInv /\ Covering(ranges) /\ Inv /\ pending = {}
      /\ Done = DOMAIN ranges
  BY DEF RInv, Done
<1>2. ASSUME NEW v \in Defs(i) \cup Uses(i), v \notin Special
      PROVE  \E k \in DOMAIN ranges :
               /\ ranges[k].vreg = v /\ Location(v) = phys[k] /\ phys[k] \in Phys
               /\ Start(k) <= i /\ i <= End(k)
  <2>1. v \in Written
    BY <1>1, <1>2 DEF Written, CodeInv
  <2>2. PICK k \in DOMAIN ranges : ranges[k].vreg = v
    BY <1>1, <2>1 DEF Covering
  <2>3. Start(k) <= i /\ i <= End(k)
    BY <1>1, <1>2, <2>2 DEF Covering, Start, End
  <2>4. phys[k] \in Phys /\ vregToPhys[v] = phys[k]
    BY <1>1, <2>2 DEF RInv, Rewritable, NothingSpilled
  <2> QED BY <1>2, <2>2, <2>3, <2>4 DEF Location
<1>3. \A v \in Special : Location(v) = v /\ v \notin Phys
  BY RegAllocAssumption DEF Location
<1>4. CASE d \in Special \/ u \in Special
  BY <1>2, <1>3, <1>4
<1>5. CASE d \notin Special /\ u \notin Special
  <2>1. PICK j \in DOMAIN ranges :
          /\ ranges[j].vreg = d /\ Location(d) = phys[j] /\ phys[j] \in Phys
          /\ Start(j) <= i /\ i <= End(j)
    BY <1>2, <1>5
  <2>2. PICK k \in DOMAIN ranges :
          /\ ranges[k].vreg = u /\ Location(u) = phys[k] /\ phys[k] \in Phys
          /\ Start(k) <= i /\ i <= End(k)
    BY <1>2, <1>5
  <2>3. j # k
    BY <2>1, <2>2
  <2>4. ~(End(j) < Start(k)) /\ ~(End(k) < Start(j))
    <3>1. /\ Start(j) \in Nat /\ End(j) \in Nat /\ Start(k) \in Nat /\ End(k) \in Nat
          /\ i \in Nat
      BY <1>1, RangeFacts, CodeFacts DEF Inv
    <3> QED BY <2>1, <2>2, <3>1
  <2>5. phys[j] # phys[k]
    BY <1>1, <2>1, <2>3, <2>4 DEF Inv, RangesDisjoint
  <2> QED BY <2>1, <2>2, <2>5
<1> QED BY <1>4, <1>5

(* The allocation is between its passes, the execution stays within the    *)
(* code, and a range ends at most one past it.                             *)
THEOREM RegAllocTypeCorrect == Spec => []TypeOK
<1>1. RInv => TypeOK
  <2> SUFFICES ASSUME RInv PROVE TypeOK
    OBVIOUS
  <2>1. phase # "emit" => \A k \in DOMAIN ranges : Start(k) <= End(k) /\ End(k) <= Len(code) + 1
    BY DEF RInv, Covering, Start, End
  <2>2. phase = "emit" => DOMAIN ranges = {}
    BY DEF RInv
  <2> QED BY <2>1, <2>2 DEF RInv, Inv, TypeOK
<1> QED BY <1>1, RInit, RNext, PTL DEF Spec

(* However the code was emitted, its allocation is one of the allocations  *)
(* of ranges: the passes that compute the ranges give ranges of registers, *)
(* and nothing else touches them.                                          *)
THEOREM AllocatesRanges == Spec => ScanSpec
<1>1. Init => ScanInit
  BY DEF Init
<1>2. RInv /\ [Next]_vars => [ScanNext]_scan
  <2> SUFFICES ASSUME RInv, [Next]_vars PROVE [ScanNext]_scan
    OBVIOUS
  <2>1. CASE EmitAny
    BY <2>1 DEF EmitAny, Emit
  <2>2. CASE ComputeRanges
    <3>1. Covering(ExtendOverLoops(ExtendToBlocks(LinearRanges)))
      BY LinearCovers, ToBlocksCovers, OverLoopsCovers DEF RInv
    <3>2. ExtendOverLoops(ExtendToBlocks(LinearRanges)) \in Seq(LiveRange)
      BY <3>1 DEF Covering
    <3>3. Begin(ExtendOverLoops(ExtendToBlocks(LinearRanges)))
      BY <2>2 DEF ComputeRanges
    <3> QED BY <3>2, <3>3 DEF ScanNext
  <2>3. CASE AllocateNext
    BY <2>3 DEF AllocateNext, ScanNext
  <2>4. CASE Rewrite \/ Execute \/ Returned \/ UNCHANGED vars
    BY <2>4 DEF Rewrite, Execute, Returned, vars
  <2> QED BY <2>1, <2>2, <2>3, <2>4 DEF Next
<1> QED BY <1>1, <1>2, RInit, RNext, PTL DEF Spec, ScanSpec

(* No two ranges of a function that share a register share an instruction. *)
THEOREM FunctionDisjoint == Spec => []RangesDisjoint
BY AllocatesRanges, Disjoint, PTL

(* In the rewritten code, a destination is apart from the sources it was   *)
(* apart from, whatever the code, unless a range was spilled.              *)
THEOREM DestinationsApart == Spec => []DestinationApart
<1>1. RInv => DestinationApart
  <2> SUFFICES ASSUME RInv, phase = "run", NothingSpilled, NEW i \in Ins,
                      Defs(i) \cap Uses(i) = {}
               PROVE  out[i].defs \cap out[i].uses = {}
    BY DEF DestinationApart
  <2>1. /\ out[i].defs = {Location(v) : v \in Defs(i)}
        /\ out[i].uses = {Location(v) : v \in Uses(i)}
    BY DEF RInv
  <2>2. \A d \in Defs(i), u \in Uses(i) : Location(d) # Location(u)
    BY SharedInstruction
  <2> QED BY <2>1, <2>2
<1> QED BY <1>1, RInit, RNext, PTL DEF Spec

-----------------------------------------------------------------------------
(* Where an instruction leads stays in the code, and does not come back to *)
(* a range that has ended.                                                 *)
LEMMA SuccessorsStay ==
  ASSUME CodeInv, \A i \in Ins : code[i].to <= Len(code), NEW i \in Ins
  PROVE  Succ(i) \subseteq Ins
<1>1. IsJump(i) => code[i].to \in Ins
  <2>1. code[i].to \in Nat /\ code[i].to <= Len(code) /\ Ins = 1 .. Len(code)
        /\ Len(code) \in Nat
    BY CodeFacts
  <2>2. IsJump(i) => code[i].to # 0
    BY DEF CodeInv
  <2> QED BY <2>1, <2>2
<1> QED BY <1>1 DEF Succ, IsJump

LEMMA NoReturn ==
  ASSUME CodeInv, Covering(ranges), Behind(ranges, Len(code)), NEW i \in Ins,
         NEW j \in Succ(i), NEW k \in DOMAIN ranges, End(k) < i
  PROVE  End(k) < j
<1>1. i \in 1 .. Len(code) /\ Len(code) \in Nat /\ code[i].to \in Nat /\ End(k) \in Nat
  BY CodeFacts, CoveringFacts DEF End
<1>2. j = i + 1 \/ (IsJump(i) /\ j = code[i].to)
  BY DEF Succ, IsJump
<1>3. IsJump(i) /\ code[i].to <= End(k) => i <= End(k)
  BY <1>1 DEF Behind, End
<1>4. CASE j = i + 1
  BY <1>1, <1>4
<1>5. CASE IsJump(i) /\ j = code[i].to
  BY <1>1, <1>3, <1>5
<1> QED BY <1>2, <1>4, <1>5

(* What Reached finds in as many rounds as there are instructions is       *)
(* closed: a round that adds nothing is the last that could.               *)
LEMMA ReachedIsClosed ==
  ASSUME CodeInv, code # <<>>, \A i \in Ins : code[i].to <= Len(code),
         NEW Stop, NEW R, R = Reached(Stop)
  PROVE  /\ R \subseteq Ins /\ 1 \in R
         /\ \A i \in R \ Stop : Succ(i) \subseteq R
<1> DEFINE L == Len(code)
           Further(S) == S \cup UNION {Succ(i) : i \in S \ Stop}
           Upto(f) == f = [n \in 0 .. L |-> IF n = 0 THEN {1} ELSE Further(f[n - 1])]
           step == [x \in (1 .. L) \X SUBSET Ins |-> Further(x[2])]
<1>1. L \in Nat /\ Ins = 1 .. L /\ 1 \in Ins
  <2>1. L \in Nat /\ Ins = 1 .. L /\ code \in Seq(Instruction)
    BY CodeFacts DEF CodeInv
  <2>2. L # 0
    BY <2>1
  <2> QED BY <2>1, <2>2
<1>2. \A S \in SUBSET Ins : Further(S) \in SUBSET Ins
  <2>1. \A i \in Ins : Succ(i) \subseteq Ins
    BY SuccessorsStay
  <2> QED BY <2>1
<1>3. \A S : S \subseteq Further(S)
  OBVIOUS
<1>4. \A S : Further(S) = S => \A i \in S \ Stop : Succ(i) \subseteq S
  <2> SUFFICES ASSUME NEW S, Further(S) = S, NEW i \in S \ Stop PROVE Succ(i) \subseteq S
    OBVIOUS
  <2>1. Succ(i) \subseteq Further(S)
    OBVIOUS
  <2> QED BY <2>1
<1> HIDE DEF Further
<1>5. \E f : Upto(f)
  <2>1. step \in [(1 .. L) \X SUBSET Ins -> SUBSET Ins]
    BY <1>2
  <2>2. {1} \in SUBSET Ins
    BY <1>1
  <2>3. PICK f : Recursive(f, SUBSET Ins, {1}, L, step)
    BY <1>1, <2>1, <2>2, RecursionExists
  <2>4. /\ f \in [0 .. L -> SUBSET Ins] /\ f[0] = {1}
        /\ \A n \in 1 .. L : f[n] = step[<<n, f[n - 1]>>]
    BY <2>3 DEF Recursive
  <2>5. ASSUME NEW n \in 0 .. L PROVE f[n] = IF n = 0 THEN {1} ELSE Further(f[n - 1])
    <3>1. CASE n = 0
      BY <2>4, <3>1
    <3>2. CASE n # 0
      <4>1. n \in 1 .. L /\ n - 1 \in 0 .. L
        BY <1>1, <3>2
      <4>2. <<n, f[n - 1]>> \in (1 .. L) \X SUBSET Ins
        BY <2>4, <4>1
      <4>3. step[<<n, f[n - 1]>>] = Further(f[n - 1])
        BY <4>2
      <4> QED BY <2>4, <3>2, <4>1, <4>3
    <3> QED BY <3>1, <3>2
  <2>6. Upto(f)
    BY <2>4, <2>5
  <2> QED BY <2>6
<1> DEFINE rounds == CHOOSE f : Upto(f)
<1>6. R = rounds[L]
  BY DEF Reached, Further
<1>7. Upto(rounds)
  BY <1>5
<1> HIDE DEF rounds
<1>8. rounds[0] = {1} /\ \A n \in 1 .. L : rounds[n] = Further(rounds[n - 1])
  <2>1. \A n \in 0 .. L : rounds[n] = IF n = 0 THEN {1} ELSE Further(rounds[n - 1])
    BY <1>7
  <2>2. 0 \in 0 .. L /\ \A n \in 1 .. L : n \in 0 .. L /\ n # 0
    BY <1>1
  <2> QED BY <2>1, <2>2
<1> HIDE DEF Upto, step
<1> DEFINE Known(S, n) == /\ S \in SUBSET Ins /\ 1 \in S
                          /\ Further(S) = S \/ Cardinality(S) >= n + 1
           good == {n \in 0 .. L : Known(rounds[n], n)}
<1>9. IsFiniteSet(Ins) /\ Cardinality(Ins) = L
  <2>1. IsFiniteSet(1 .. L) /\ Cardinality(1 .. L) = IF 1 > L THEN 0 ELSE L - 1 + 1
    BY <1>1, FS_Interval
  <2> QED BY <1>1, <2>1
<1>10. 0 \in good
  <2>1. Cardinality({1}) = 1
    BY FS_Singleton
  <2>2. Known({1}, 0)
    BY <1>1, <2>1
  <2>3. 0 \in 0 .. L
    BY <1>1
  <2> HIDE DEF Known
  <2> QED BY <1>8, <2>2, <2>3
<1>11. ASSUME NEW n \in 1 .. L, n - 1 \in good PROVE n \in good
  <2> DEFINE before == rounds[n - 1]
             after == rounds[n]
  <2>1. /\ before \in SUBSET Ins /\ 1 \in before /\ after = Further(before)
        /\ Further(before) = before \/ Cardinality(before) >= n - 1 + 1
    BY <1>8, <1>11
  <2> HIDE DEF before, after
  <2>2. after \in SUBSET Ins /\ before \subseteq after /\ n \in 0 .. L /\ n \in Nat
    <3>1. n \in 0 .. L /\ n \in Nat
      BY <1>1
    <3> QED BY <1>2, <1>3, <2>1, <3>1
  <2>3. CASE after = before
    BY <2>1, <2>2, <2>3 DEF after
  <2>4. CASE after # before
    <3>1. IsFiniteSet(after)
      BY <1>9, <2>2, FS_Subset
    <3>2. Cardinality(before) <= Cardinality(after) /\ Cardinality(after) # Cardinality(before)
          /\ IsFiniteSet(before)
      BY <2>2, <2>4, <3>1, FS_Subset
    <3>3. Cardinality(before) \in Nat /\ Cardinality(after) \in Nat
      BY <3>1, <3>2, FS_CardinalityType
    <3>4. Cardinality(before) >= n - 1 + 1
      BY <2>1, <2>4
    <3>5. Cardinality(after) >= n + 1
      BY <2>2, <3>2, <3>3, <3>4
    <3> QED BY <2>1, <2>2, <3>5 DEF after
  <2> QED BY <2>3, <2>4
<1>12. L \in good
  <2> HIDE DEF good
  <2>1. \A n \in 0 .. L : n \in good
    BY <1>1, <1>10, <1>11, Upward
  <2> QED BY <1>1, <2>1
<1>13. R \in SUBSET Ins /\ 1 \in R
       /\ (Further(R) = R \/ Cardinality(R) >= L + 1)
  BY <1>6, <1>12
<1>14. Cardinality(R) <= L /\ Cardinality(R) \in Nat
  BY <1>9, <1>13, FS_Subset, FS_CardinalityType
<1>15. Further(R) = R
  BY <1>1, <1>13, <1>14
<1> QED BY <1>4, <1>13, <1>15

(* From here no path reads v before it writes it.                          *)
Sheltered(v, i) ==
  \E R \in SUBSET Ins :
    /\ i \in R
    /\ \A j \in R : v \notin Uses(j) /\ (v \notin Defs(j) => Succ(j) \subseteq R)

LEMMA DefinedIsSheltered ==
  ASSUME CodeInv, code # <<>>, \A i \in Ins : code[i].to <= Len(code), UsesAreDefined,
         NEW v \in Written \ Special
  PROVE  Sheltered(v, 1)
<1>1. PICK Stop : Stop = {j \in Ins : v \in Defs(j)}
  OBVIOUS
<1>2. PICK R : R = Reached(Stop)
  OBVIOUS
<1>3. R \in SUBSET Ins /\ 1 \in R /\ \A i \in R \ Stop : Succ(i) \subseteq R
  BY <1>2, ReachedIsClosed
<1>4. \A i \in R : v \notin Uses(i)
  BY <1>1, <1>2 DEF UsesAreDefined
<1>5. \A i \in R : v \notin Defs(i) => i \notin Stop
  BY <1>1
<1>6. \A i \in R : v \notin Uses(i) /\ (v \notin Defs(i) => Succ(i) \subseteq R)
  BY <1>3, <1>4, <1>5
<1> QED BY <1>3, <1>6 DEF Sheltered

-----------------------------------------------------------------------------
(* What has been written: by which instruction, and that every range which *)
(* ended before it is passed for ever.                                     *)
History ==
  /\ vval \in [Vreg -> Nat]
  /\ DOMAIN pval = Phys \cup Special \cup {Spilled}
  /\ phase # "run" => (\A v \in Vreg : vval[v] = 0) /\ (\A v \in Special : pval[v] = 0)
  /\ phase = "run" => \A v \in Vreg : vval[v] # 0 =>
       /\ vval[v] \in Ins /\ v \in Defs(vval[v])
       /\ \A k \in DOMAIN ranges : End(k) < vval[v] => End(k) < pc
  /\ phase # "emit" => \A v \in Written \ Special : vval[v] = 0 => Sheltered(v, pc)

(* A range that was entered and has not been passed holds its value.       *)
Holding ==
  phase = "run" /\ NothingSpilled =>
    /\ \A v \in Special : pval[v] = vval[v]
    /\ \A k \in DOMAIN ranges : \A v \in Vreg \ Special :
         v = ranges[k].vreg /\ vval[v] # 0 /\ pc <= End(k) => pval[phys[k]] = vval[v]

(* The range of a register that is written, of which none was spilled.     *)
LEMMA RangeOf ==
  ASSUME RInv, phase = "run", NothingSpilled, NEW v \in Written \ Special
  PROVE  \E k \in DOMAIN ranges :
           /\ ranges[k].vreg = v /\ Location(v) = phys[k] /\ phys[k] \in Phys
           /\ \A i \in Ins : v \in Defs(i) \cup Uses(i) => Start(k) <= i /\ i <= End(k)
<1>1. Covering(ranges) /\ pending = {} /\ Done = DOMAIN ranges
  BY DEF RInv, Done
<1>2. PICK k \in DOMAIN ranges : ranges[k].vreg = v
  BY <1>1 DEF Covering
<1>3. \A i \in Ins : v \in Defs(i) \cup Uses(i) => Start(k) <= i /\ i <= End(k)
  BY <1>1, <1>2 DEF Covering, Start, End
<1>4. phys[k] \in Phys /\ vregToPhys[v] = phys[k]
  BY <1>1, <1>2 DEF RInv, Rewritable, NothingSpilled
<1> QED BY <1>2, <1>3, <1>4 DEF Location

(* An instruction that writes to the register of a range which still holds *)
(* a value writes that value's virtual register.                           *)
LEMMA NoClobber ==
  ASSUME RInv, phase = "run", NothingSpilled, History,
         NEW k \in DOMAIN ranges, NEW v \in Vreg \ Special, v = ranges[k].vreg,
         vval[v] # 0, pc <= End(k), NEW w \in Defs(pc), w # v
  PROVE  Location(w) # phys[k]
<1>1. CodeInv /\ Covering(ranges) /\ Inv /\ pc \in Ins /\ Done = DOMAIN ranges
  BY DEF RInv, Done
<1>2. vval[v] \in Ins /\ v \in Defs(vval[v])
      /\ \A j \in DOMAIN ranges : End(j) < vval[v] => End(j) < pc
  BY DEF History
<1>3. v \in Written /\ w \in Written
  BY <1>1, <1>2 DEF Written
<1>4. PICK i \in DOMAIN ranges :
        /\ ranges[i].vreg = v /\ Location(v) = phys[i] /\ phys[i] \in Phys
        /\ \A x \in Ins : v \in Defs(x) \cup Uses(x) => Start(i) <= x /\ x <= End(i)
  BY <1>3, RangeOf
<1>5. i = k
  BY <1>1, <1>4 DEF Covering
<1>6. CASE w \in Special
  BY <1>4, <1>5, <1>6, RegAllocAssumption DEF Location
<1>7. CASE w \notin Special
  <2>1. PICK j \in DOMAIN ranges :
          /\ ranges[j].vreg = w /\ Location(w) = phys[j] /\ phys[j] \in Phys
          /\ \A x \in Ins : w \in Defs(x) \cup Uses(x) => Start(j) <= x /\ x <= End(j)
    BY <1>3, <1>7, RangeOf
  <2>2. j # k /\ Start(j) <= pc /\ pc <= End(j) /\ Start(k) <= vval[v]
    BY <1>1, <1>2, <1>4, <1>5, <2>1
  <2>3. /\ Start(j) \in Nat /\ End(j) \in Nat /\ Start(k) \in Nat /\ End(k) \in Nat
        /\ pc \in Nat /\ vval[v] \in Nat
    BY <1>1, <1>2, RangeFacts, CodeFacts DEF Inv
  <2>4. ~(End(k) < Start(j))
    BY <2>2, <2>3
  <2>5. ~(End(j) < Start(k))
    <3>1. End(j) < vval[v] => End(j) < pc
      BY <1>2
    <3> QED BY <2>2, <2>3, <3>1
  <2>6. phys[j] # phys[k]
    BY <1>1, <2>1, <2>2, <2>4, <2>5 DEF Inv, RangesDisjoint
  <2> QED BY <2>1, <2>6
<1> QED BY <1>6, <1>7

(* What an execution does to both kinds of registers.                      *)
LEMMA ExecuteWrites ==
  ASSUME RInv, History, Execute
  PROVE  /\ phase = "run" /\ pc \in Ins /\ pc \in Nat /\ pc # 0 /\ pc' \in Succ(pc)
         /\ UNCHANGED <<scan, phase, code, out>>
         /\ DOMAIN vval' = Vreg /\ DOMAIN pval' = DOMAIN pval
         /\ \A v \in Vreg : vval'[v] = IF v \in Defs(pc) THEN pc ELSE vval[v]
         /\ \A p \in DOMAIN pval :
              pval'[p] = IF \E w \in Defs(pc) : p = Location(w) THEN pc ELSE pval[p]
         /\ \A k \in DOMAIN ranges : End(k) < pc => End(k) < pc'
<1>1. /\ phase = "run" /\ pc \in Ins /\ pc' \in Succ(pc) /\ CodeInv /\ Covering(ranges)
      /\ Behind(ranges, Len(code)) /\ UNCHANGED <<scan, phase, code, out>>
      /\ out[pc].defs = {Location(v) : v \in Defs(pc)}
  BY DEF Execute, RInv
<1>2. vval' = [v \in DOMAIN vval |-> IF v \in Defs(pc) THEN pc ELSE vval[v]]
      /\ pval' = [p \in DOMAIN pval |-> IF p \in out[pc].defs THEN pc ELSE pval[p]]
      /\ DOMAIN vval = Vreg
  BY DEF Execute, History
<1>3. pc \in Nat /\ pc # 0
  BY <1>1, CodeFacts
<1>4. \A k \in DOMAIN ranges : End(k) < pc => End(k) < pc'
  BY <1>1, NoReturn
<1>5. \A p : p \in out[pc].defs <=> \E w \in Defs(pc) : p = Location(w)
  BY <1>1
<1> QED BY <1>1, <1>2, <1>3, <1>4, <1>5

(* The names of the code and of the ranges in the next state.              *)
LEMMA SameNames ==
  ASSUME UNCHANGED <<scan, code>>
  PROVE  /\ Ins' = Ins /\ Written' = Written /\ ranges' = ranges /\ phys' = phys
         /\ NothingSpilled' = NothingSpilled
         /\ \A i : Defs(i)' = Defs(i) /\ Uses(i)' = Uses(i) /\ End(i)' = End(i)
         /\ \A v, i : Sheltered(v, i) => Sheltered(v, i)'
<1>1. /\ ranges' = ranges /\ phys' = phys /\ code' = code
  BY DEF scan
<1>2. Ins' = Ins /\ Written' = Written /\ NothingSpilled' = NothingSpilled
      /\ \A i : /\ Defs(i)' = Defs(i) /\ Uses(i)' = Uses(i) /\ End(i)' = End(i)
                /\ Succ(i)' = Succ(i)
  BY <1>1 DEF Ins, Written, NothingSpilled, Defs, Uses, End, Succ
<1>3. ASSUME NEW v, NEW i, Sheltered(v, i) PROVE Sheltered(v, i)'
  BY <1>2, <1>3 DEF Sheltered
<1> QED BY <1>1, <1>2, <1>3

LEMMA ExecuteHistory ==
  ASSUME RInv, History, Execute
  PROVE  History'
<1>1. /\ phase = "run" /\ pc \in Ins /\ pc \in Nat /\ pc # 0 /\ pc' \in Succ(pc)
      /\ UNCHANGED <<scan, phase, code, out>>
      /\ DOMAIN pval' = DOMAIN pval
      /\ \A v \in Vreg : vval'[v] = IF v \in Defs(pc) THEN pc ELSE vval[v]
      /\ \A k \in DOMAIN ranges : End(k) < pc => End(k) < pc'
  BY ExecuteWrites
<1>2. /\ Ins' = Ins /\ Written' = Written /\ ranges' = ranges
      /\ \A i : Defs(i)' = Defs(i) /\ Uses(i)' = Uses(i) /\ End(i)' = End(i)
      /\ \A v, i : Sheltered(v, i) => Sheltered(v, i)'
  BY <1>1, SameNames
<1>3. vval' \in [Vreg -> Nat]
  BY <1>1 DEF Execute, History
<1>4. ASSUME NEW v \in Vreg, vval'[v] # 0
      PROVE  /\ vval'[v] \in Ins /\ v \in Defs(vval'[v])
             /\ \A k \in DOMAIN ranges : End(k) < vval'[v] => End(k) < pc'
  <2>1. CASE v \in Defs(pc)
    BY <1>1, <2>1
  <2>2. CASE v \notin Defs(pc)
    BY <1>1, <1>4, <2>2 DEF History
  <2> QED BY <2>1, <2>2
<1>5. ASSUME NEW v \in Written \ Special, vval'[v] = 0 PROVE Sheltered(v, pc')
  <2>1. v \in Vreg
    BY CodeFacts DEF RInv
  <2>2. v \notin Defs(pc) /\ vval[v] = 0
    BY <1>1, <1>5, <2>1
  <2>3. PICK R \in SUBSET Ins :
          /\ pc \in R
          /\ \A j \in R : v \notin Uses(j) /\ (v \notin Defs(j) => Succ(j) \subseteq R)
    BY <1>1, <2>2 DEF History, Sheltered
  <2>4. pc' \in R
    BY <1>1, <2>2, <2>3
  <2> QED BY <2>3, <2>4 DEF Sheltered
<1>6. \A v \in Written' \ Special : vval'[v] = 0 => Sheltered(v, pc)'
  <2> SUFFICES ASSUME NEW v \in Written \ Special, vval'[v] = 0 PROVE Sheltered(v, pc)'
    BY <1>2
  <2>1. PICK i : i = pc'
    OBVIOUS
  <2>2. Sheltered(v, i)
    BY <1>5, <2>1
  <2>3. PICK R \in SUBSET Ins :
          /\ i \in R
          /\ \A j \in R : v \notin Uses(j) /\ (v \notin Defs(j) => Succ(j) \subseteq R)
    BY <2>2 DEF Sheltered
  <2>4. \A j : Succ(j)' = Succ(j)
    BY <1>1 DEF Succ, Ins
  <2> QED BY <1>2, <2>1, <2>3, <2>4 DEF Sheltered
<1> QED BY <1>1, <1>2, <1>3, <1>4, <1>6 DEF History

LEMMA ExecuteHolds ==
  ASSUME RInv, History, Holding, Execute
  PROVE  Holding'
<1>1. /\ phase = "run" /\ pc \in Ins /\ pc \in Nat /\ pc # 0 /\ pc' \in Succ(pc)
      /\ UNCHANGED <<scan, phase, code, out>>
      /\ \A v \in Vreg : vval'[v] = IF v \in Defs(pc) THEN pc ELSE vval[v]
      /\ \A p \in DOMAIN pval :
           pval'[p] = IF \E w \in Defs(pc) : p = Location(w) THEN pc ELSE pval[p]
      /\ \A k \in DOMAIN ranges : End(k) < pc => End(k) < pc'
  BY ExecuteWrites
<1>2. ranges' = ranges /\ phys' = phys /\ NothingSpilled' = NothingSpilled
      /\ \A i : End(i)' = End(i)
  BY <1>1, SameNames
<1>3. DOMAIN pval = Phys \cup Special \cup {Spilled} /\ Special \subseteq Vreg
  BY RegAllocAssumption DEF History
<1> SUFFICES ASSUME NothingSpilled
             PROVE  /\ \A v \in Special : pval'[v] = vval'[v]
                    /\ \A k \in DOMAIN ranges : \A v \in Vreg \ Special :
                         v = ranges[k].vreg /\ vval'[v] # 0 /\ pc' <= End(k)
                           => pval'[phys[k]] = vval'[v]
  BY <1>1, <1>2 DEF Holding
<1>4. CodeInv /\ Covering(ranges) /\ Defs(pc) \subseteq Vreg /\ Inv
      /\ \A w \in Defs(pc) : w \in Written
  BY <1>1, CodeFacts DEF RInv, Written
<1>5. ASSUME NEW v \in Special PROVE pval'[v] = vval'[v]
  <2>1. \A w \in Defs(pc) : v = Location(w) => w = v
    <3> SUFFICES ASSUME NEW w \in Defs(pc), v = Location(w), w # v PROVE FALSE
      OBVIOUS
    <3>1. CASE w \in Special
      BY <3>1 DEF Location
    <3>2. CASE w \notin Special
      <4>1. Location(w) \in Phys
        BY <1>1, <1>4, <3>2, RangeOf
      <4> QED BY <4>1, RegAllocAssumption
    <3> QED BY <3>1, <3>2
  <2>2. Location(v) = v
    BY DEF Location
  <2>3. (\E w \in Defs(pc) : v = Location(w)) <=> v \in Defs(pc)
    BY <2>1, <2>2
  <2>4. pval[v] = vval[v]
    BY <1>1 DEF Holding
  <2> QED BY <1>1, <1>3, <2>3, <2>4
<1>6. ASSUME NEW k \in DOMAIN ranges, NEW v \in Vreg \ Special, v = ranges[k].vreg,
             vval'[v] # 0, pc' <= End(k)
      PROVE  pval'[phys[k]] = vval'[v]
  <2>1. pc <= End(k)
    <3>1. pc' \in Nat /\ End(k) \in Nat
      <4>1. pc' \in Ins
        BY <1>1, SuccessorsStay DEF RInv
      <4> QED BY <1>4, <4>1, CodeFacts, CoveringFacts DEF End
    <3>2. ~(End(k) < pc)
      BY <1>1, <1>6, <3>1
    <3> QED BY <1>1, <3>1, <3>2
  <2>2. phys[k] \in Phys /\ Location(v) = phys[k]
    <3>1. k \in Done
      BY <1>1 DEF RInv, Done
    <3>2. phys[k] \in Phys /\ vregToPhys[v] = phys[k]
      BY <1>6, <3>1 DEF RInv, Rewritable, NothingSpilled
    <3> QED BY <3>2 DEF Location
  <2>3. phys[k] \in DOMAIN pval
    BY <1>3, <2>2
  <2>4. CASE v \in Defs(pc)
    BY <1>1, <2>2, <2>3, <2>4
  <2>5. CASE v \notin Defs(pc)
    <3>1. vval'[v] = vval[v] /\ vval[v] # 0
      BY <1>1, <1>6, <2>5
    <3>2. \A w \in Defs(pc) : phys[k] # Location(w)
      BY <1>1, <1>6, <2>1, <2>5, <3>1, NoClobber
    <3>3. pval[phys[k]] = vval[v]
      BY <1>1, <1>6, <2>1, <3>1 DEF Holding
    <3> QED BY <1>1, <2>3, <3>1, <3>2, <3>3
  <2> QED BY <2>4, <2>5
<1> QED BY <1>5, <1>6

-----------------------------------------------------------------------------
(* The inductive invariant of the execution.                               *)
VInv == RInv /\ History /\ Holding

LEMMA VInit == Init => VInv
<1> SUFFICES ASSUME Init PROVE VInv
  OBVIOUS
<1>1. phase = "emit" /\ vval = [v \in Vreg |-> 0]
      /\ pval = [p \in Phys \cup Special \cup {Spilled} |-> 0]
  BY DEF Init
<1>2. History
  BY <1>1 DEF History
<1>3. Holding
  BY <1>1 DEF Holding
<1> QED BY <1>2, <1>3, RInit DEF VInv

LEMMA VNext == VInv /\ [Next]_vars => VInv'
<1> SUFFICES ASSUME VInv, [Next]_vars PROVE VInv'
  OBVIOUS
<1>1. RInv /\ RInv' /\ History /\ Holding
  BY RNext DEF VInv
<1>2. CASE EmitAny
  <2>1. phase = "emit" /\ phase' = "emit" /\ UNCHANGED <<vval, pval>>
    BY <1>2 DEF EmitAny, Emit
  <2> QED BY <1>1, <2>1 DEF VInv, History, Holding
<1>3. CASE ComputeRanges
  <2>1. /\ phase = "emit" /\ phase' = "allocate" /\ UNCHANGED <<vval, pval, code, pc>>
        /\ code # <<>> /\ (\A i \in Ins : code[i].to <= Len(code)) /\ UsesAreDefined
        /\ pc = 1 /\ CodeInv
    BY <1>1, <1>3 DEF ComputeRanges, RInv
  <2>2. \A v \in Written \ Special : Sheltered(v, 1)
    BY <2>1, DefinedIsSheltered
  <2>3. \A v \in Written' \ Special : Sheltered(v, pc)'
    <3>1. Written' = Written /\ Ins' = Ins
          /\ \A i : Defs(i)' = Defs(i) /\ Uses(i)' = Uses(i) /\ Succ(i)' = Succ(i)
      BY <2>1 DEF Written, Ins, Defs, Uses, Succ
    <3> QED BY <2>1, <2>2, <3>1 DEF Sheltered
  <2> QED BY <1>1, <2>1, <2>3 DEF VInv, History, Holding
<1>4. CASE AllocateNext
  <2>1. phase = "allocate" /\ phase' = "allocate" /\ UNCHANGED <<vval, pval, code, pc>>
    BY <1>4 DEF AllocateNext
  <2>2. Written' = Written /\ \A v : Sheltered(v, pc) => Sheltered(v, pc)'
    <3>1. Written' = Written /\ Ins' = Ins
          /\ \A i : Defs(i)' = Defs(i) /\ Uses(i)' = Uses(i) /\ Succ(i)' = Succ(i)
      BY <2>1 DEF Written, Ins, Defs, Uses, Succ
    <3> QED BY <2>1, <3>1 DEF Sheltered
  <2> QED BY <1>1, <2>1, <2>2 DEF VInv, History, Holding
<1>5. CASE Rewrite
  <2>1. phase = "allocate" /\ phase' = "run" /\ UNCHANGED <<scan, vval, pval, code, pc>>
    BY <1>5 DEF Rewrite
  <2>2. Written' = Written /\ \A v : Sheltered(v, pc) => Sheltered(v, pc)'
    <3>1. Written' = Written /\ Ins' = Ins
          /\ \A i : Defs(i)' = Defs(i) /\ Uses(i)' = Uses(i) /\ Succ(i)' = Succ(i)
      BY <2>1 DEF Written, Ins, Defs, Uses, Succ
    <3> QED BY <2>1, <3>1 DEF Sheltered
  <2>3. (\A v \in Vreg : vval[v] = 0) /\ (\A v \in Special : pval[v] = 0)
        /\ Special \subseteq Vreg
    BY <1>1, <2>1, RegAllocAssumption DEF History
  <2>4. History'
    BY <1>1, <2>1, <2>2, <2>3 DEF History
  <2>5. Holding'
    BY <2>1, <2>3 DEF Holding
  <2> QED BY <1>1, <2>4, <2>5 DEF VInv
<1>6. CASE Execute
  BY <1>1, <1>6, ExecuteHistory, ExecuteHolds DEF VInv
<1>7. CASE Returned \/ UNCHANGED vars
  <2>1. UNCHANGED <<scan, phase, code, pc, vval, pval>>
    BY <1>7 DEF Returned, vars
  <2>2. /\ Ins' = Ins /\ Written' = Written /\ ranges' = ranges /\ phys' = phys
        /\ NothingSpilled' = NothingSpilled
        /\ \A i : Defs(i)' = Defs(i) /\ Uses(i)' = Uses(i) /\ End(i)' = End(i)
        /\ \A v, i : Sheltered(v, i) => Sheltered(v, i)'
    BY <2>1, SameNames
  <2>3. \A v : Sheltered(v, pc) => Sheltered(v, pc)'
    <3>1. \A i : Succ(i)' = Succ(i)
      BY <2>1 DEF Succ, Ins
    <3> QED BY <2>1, <2>2, <3>1 DEF Sheltered
  <2>4. History'
    BY <1>1, <2>1, <2>2, <2>3 DEF History
  <2>5. Holding'
    BY <1>1, <2>1, <2>2 DEF Holding
  <2> QED BY <1>1, <2>4, <2>5 DEF VInv
<1> QED BY <1>2, <1>3, <1>4, <1>5, <1>6, <1>7 DEF Next

(* Every read of the rewritten code finds, in the physical register, the   *)
(* value that the code as it was emitted reads from the virtual one: on    *)
(* every path through any function of which nothing was spilled, in every  *)
(* iteration of its loops (era_compute_ranges_from_cfg, era_allocate and   *)
(* era_rewrite of codegraph.register.allocation.c).                        *)
THEOREM ValuesAlwaysSurvive == Spec => []ValuesSurvive
<1>1. VInv => ValuesSurvive
  <2> SUFFICES ASSUME VInv, phase = "run", NothingSpilled, NEW v \in Uses(pc)
               PROVE  pval[Location(v)] = vval[v]
    BY DEF ValuesSurvive
  <2>1. RInv /\ History /\ Holding /\ CodeInv /\ pc \in Ins
    BY DEF VInv, RInv
  <2>2. v \in Vreg
    BY <2>1, CodeFacts
  <2>3. CASE v \in Special
    BY <2>1, <2>3 DEF Holding, Location
  <2>4. CASE v \notin Special
    <3>1. v \in Written
      BY <2>1, <2>4 DEF CodeInv, Written
    <3>2. PICK k \in DOMAIN ranges :
            /\ ranges[k].vreg = v /\ Location(v) = phys[k] /\ phys[k] \in Phys
            /\ \A i \in Ins : v \in Defs(i) \cup Uses(i) => Start(k) <= i /\ i <= End(k)
      BY <2>1, <2>4, <3>1, RangeOf
    <3>3. pc <= End(k)
      BY <2>1, <3>2
    <3>4. vval[v] # 0
      BY <2>1, <2>4, <3>1 DEF History, Sheltered
    <3> QED BY <2>1, <2>2, <2>4, <3>2, <3>3, <3>4 DEF Holding
  <2> QED BY <2>3, <2>4
<1> QED BY <1>1, VInit, VNext, PTL DEF Spec
================================================================================
