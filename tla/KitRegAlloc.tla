----------------------------- MODULE KitRegAlloc -----------------------------
(***************************************************************************)
(* The register allocation of a function: era_register_allocation_pass of  *)
(* src/src/compiler/codegraph/codegraph.register.allocation.c, with the    *)
(* graph of the code and the liveness it takes from codegraph.c and        *)
(* codegraph.liveliness.c.                                                 *)
(*                                                                         *)
(* The compiler emits any code whose registers are written before they are *)
(* read, in the text and on every path, which the scopes of the language   *)
(* see to.  The ranges are computed, KitLinearScan allocates, the code is  *)
(* rewritten, and the code before and after is executed in lockstep: a     *)
(* value is named by the instruction that wrote it, and a read must find   *)
(* the same one in the virtual register and in the physical.               *)
(*                                                                         *)
(* A label is the instruction that follows it.                             *)
(***************************************************************************)
EXTENDS KitLinearScan, FiniteSetsExt

CONSTANTS
  Special,    (* registers that are what they are: arguments, null *)
  Condition,  (* bound: the registers that are branched on and returned *)
  MaxIns      (* bound: the instructions of the function *)

ASSUME RegAllocAssumption ==
  /\ Special \subseteq Vreg /\ 0 \in Special /\ Special \cap Phys = {}
  /\ Condition \subseteq Vreg
  /\ IsFiniteSet(Vreg) /\ Vreg = 0 .. Cardinality(Vreg) - 1
  /\ MaxIns \in Nat

VARIABLES
  phase,      (* emit, then allocate, then run *)
  code,       (* cc.instructions, with virtual registers *)
  out,        (* the same, rewritten *)
  pc,         (* the instruction pointer of both executions *)
  vval,       (* the instruction that last wrote each virtual register *)
  pval        (* and each physical one *)

vars == <<scan, phase, code, out, pc, vval, pval>>

-----------------------------------------------------------------------------
(* Instructions: get_destination_reg, get_source_registers, the target.    *)
Plain(d, s)  == [op |-> "plain", defs |-> d, uses |-> s, to |-> 0]
Jump(i)      == [op |-> "jump", defs |-> {}, uses |-> {}, to |-> i]
Branch(s, i) == [op |-> "branch", defs |-> {}, uses |-> {s}, to |-> i]
Ret(s)       == [op |-> "ret", defs |-> {}, uses |-> {s}, to |-> 0]

Ins       == DOMAIN code
Defs(i)   == code[i].defs
Uses(i)   == code[i].uses
IsJump(i) == code[i].op \in {"jump", "branch"}
Written   == UNION {Defs(i) : i \in Ins}

(* codegraph_init and codegraph_build_successor_list. *)
Succ(i) ==
  CASE code[i].op = "jump"   -> {code[i].to}
    [] code[i].op = "branch" -> {code[i].to, i + 1} \cap Ins
    [] code[i].op = "ret"    -> {}
    [] OTHER                 -> {i + 1} \cap Ins

IsBlockEnd(i) ==
  \/ i = Len(code) \/ code[i].op # "plain"
  \/ \E j \in Ins : IsJump(j) /\ code[j].to = i + 1

(* What is reached from the first instruction without leaving one of Stop. *)
Reached(Stop) ==
  LET rounds[n \in 0 .. Len(code)] ==
        IF n = 0 THEN {1}
        ELSE LET before == rounds[n - 1]
             IN  before \cup UNION {Succ(i) : i \in before \ Stop}
  IN  rounds[Len(code)]

-----------------------------------------------------------------------------
(* codegraph_block_level_liveliness_analysis: the registers alive before   *)
(* each instruction, the equations taken round until nothing can change.   *)
LiveIn ==
  LET rounds[n \in 0 .. Len(code)] ==
        IF n = 0 THEN [i \in Ins |-> {}]
        ELSE LET before == rounds[n - 1]
             IN  [i \in Ins |-> Uses(i) \cup (UNION {before[j] : j \in Succ(i)} \ Defs(i))]
  IN  rounds[Len(code)]

(* Blocks that are not reached keep what they are set up with.             *)
LiveOut ==
  LET live == LiveIn  reached == Reached({})
      returned == UNION {Uses(i) : i \in {j \in Ins : code[j].op = "ret"}}
  IN  [i \in Ins |-> IF i \in reached THEN UNION {live[j] : j \in Succ(i)}
                     ELSE IF code[i].op = "ret" THEN returned ELSE {}]

(* era_compute_ranges: from the first write to the last access, of the     *)
(* registers that are written, in the order of the registers.              *)
LinearRanges ==
  [k \in 1 .. Cardinality(Written) |->
     LET v == CHOOSE u \in Written : Cardinality({w \in Written : w < u}) = k - 1
     IN  [vreg |-> v, start |-> Min({i \in Ins : v \in Defs(i)}),
          end |-> Max({i \in Ins : v \in Defs(i) \cup Uses(i)})]]

\* Mutant: the comparison that moves the start is the wrong way round.
ExtendToBlocksLater(rs) ==
  LET liveOut == LiveOut
      live[i \in Ins] == IF IsBlockEnd(i) THEN liveOut[i]
                         ELSE (live[i + 1] \cup Uses(i + 1)) \ Defs(i + 1)
      lastReads(v) == {i \in Ins : v \in Uses(i) /\ v \notin live[i]}
      ends(v)      == {i \in Ins : IsBlockEnd(i) /\ v \in liveOut[i]}
  IN  [k \in DOMAIN rs |->
         [rs[k] EXCEPT !.start = Max({@} \cup lastReads(k - 1)),
                       !.end = Max({@} \cup ends(k - 1))]]

(* A range with the places given in it.                                    *)
Lengthened(r, starts, ends) ==
  [r EXCEPT !.start = Min({@} \cup starts), !.end = Max({@} \cup ends)]

(* era_compute_ranges_from_cfg, first part: to the end of the blocks the   *)
(* register is alive after, and from the reads that are its last.  The     *)
(* array is indexed by the register, but its entries are no longer in the  *)
(* registers' places: the entry that is lengthened is the one at the       *)
(* register's place.                                                       *)
ExtendToBlocks(rs) ==
  LET liveOut == LiveOut
      live[i \in Ins] == IF IsBlockEnd(i) THEN liveOut[i]
                         ELSE (live[i + 1] \cup Uses(i + 1)) \ Defs(i + 1)
      lastReads(v) == {i \in Ins : v \in Uses(i) /\ v \notin live[i]}
      ends(v)      == {i \in Ins : IsBlockEnd(i) /\ v \in liveOut[i]}
  IN  [k \in DOMAIN rs |-> Lengthened(rs[k], lastReads(k - 1), ends(k - 1))]

\* Mutant: the loops are forgotten.
ExtendOverNoLoop(rs) == rs

(* Second part: what reaches into the loop that i jumps back to the start  *)
(* of reaches to its end, one jump after the other.                        *)
OverLoop(rs, i) ==
  LET Inside(r) == r.end >= code[i].to /\ r.end < i
  IN  IF ~IsJump(i) \/ code[i].to > i THEN rs
      ELSE [k \in DOMAIN rs |->
              IF Inside(rs[k]) THEN [rs[k] EXCEPT !.end = i + 1] ELSE rs[k]]

ExtendOverLoops(rs) ==
  LET upTo[i \in 0 .. Len(code)] ==
        IF i = 0 THEN rs ELSE OverLoop(upTo[i - 1], i)
  IN  upTo[Len(code)]

-----------------------------------------------------------------------------
Init ==
  /\ ScanInit
  /\ phase = "emit"
  /\ code = <<>>
  /\ out = <<>>
  /\ pc = 1
  /\ vval = [v \in Vreg |-> 0]
  /\ pval = [p \in Phys \cup Special \cup {Spilled} |-> 0]

Emit(instruction) ==
  /\ phase = "emit" /\ Len(code) < MaxIns
  /\ Len(code) = MaxIns - 1 => instruction.op \in {"ret", "jump"}
  /\ instruction.uses \subseteq Special \cup Written
  /\ code' = Append(code, instruction)
  /\ UNCHANGED <<scan, phase, out, pc, vval, pval>>

(* Bound: a special register is an operand of moves only.                  *)
EmitAny ==
  \/ \E d \in Vreg \ Special : Emit(Plain({d}, {})) \/ Emit(Plain({}, {d}))
  \/ \E d, s \in Vreg : d # s /\ Emit(Plain({d}, {s}))
  \/ \E s \in Condition : Emit(Ret(s))
  \/ \E i \in 1 .. MaxIns : Emit(Jump(i)) \/ \E s \in Condition : Emit(Branch(s, i))

(* No register but the special ones is read before it is written.          *)
UsesAreDefined ==
  \A v \in Written \ Special :
    \A i \in Reached({j \in Ins : v \in Defs(j)}) : v \notin Uses(i)

ComputeRanges ==
  /\ phase = "emit" /\ code # <<>>
  /\ code[Len(code)].op \in {"ret", "jump"}
  /\ \A i \in Ins : code[i].to <= Len(code)
  /\ UsesAreDefined
  /\ phase' = "allocate"
  /\ Begin(ExtendOverLoops(ExtendToBlocks(LinearRanges)))
  /\ UNCHANGED <<code, out, pc, vval, pval>>

AllocateNext ==
  /\ phase = "allocate"
  /\ Allocate
  /\ UNCHANGED <<phase, code, out, pc, vval, pval>>

(* era_rewrite. *)
Location(v) == IF v \in Special THEN v ELSE vregToPhys[v]

Rewrite ==
  /\ phase = "allocate" /\ pending = {}
  /\ phase' = "run"
  /\ out' = [i \in Ins |-> [code[i] EXCEPT !.defs = {Location(v) : v \in @},
                                           !.uses = {Location(v) : v \in @}]]
  /\ UNCHANGED <<scan, code, pc, vval, pval>>

Execute ==
  /\ phase = "run"
  /\ vval' = [v \in DOMAIN vval |-> IF v \in Defs(pc) THEN pc ELSE vval[v]]
  /\ pval' = [p \in DOMAIN pval |-> IF p \in out[pc].defs THEN pc ELSE pval[p]]
  /\ pc' \in Succ(pc)
  /\ UNCHANGED <<scan, phase, code, out>>

Returned == phase = "run" /\ code[pc].op = "ret" /\ UNCHANGED vars

Next == EmitAny \/ ComputeRanges \/ AllocateNext \/ Rewrite \/ Execute \/ Returned

Spec == Init /\ [][Next]_vars

-----------------------------------------------------------------------------
(* The allocation is between the passes that surround it, and a range ends *)
(* at most one past the code.                                              *)
TypeOK ==
  /\ ScanTypeOK
  /\ phase \in {"emit", "allocate", "run"}
  /\ \A k \in DOMAIN ranges : Start(k) <= End(k) /\ End(k) <= Len(code) + 1
  /\ phase = "run" => pc \in Ins /\ pending = {}

NothingSpilled == \A k \in DOMAIN ranges : phys[k] # Spilled

(* The rewritten code computes what the code did: every read finds in its  *)
(* physical register the value that the virtual one has, on every path and *)
(* in every iteration, although two virtual registers may share one and    *)
(* the ranges were lengthened in the wrong places.  A function for which   *)
(* the registers do not suffice is not promised it: vreg_to_phys keeps the *)
(* register a range was evicted from, and a spilled one is never reloaded. *)
ValuesSurvive ==
  phase = "run" /\ NothingSpilled =>
    \A v \in Uses(pc) : pval[Location(v)] = vval[v]

(* No instruction of the rewritten code has its destination among its      *)
(* sources if it did not have it there before: the interpreter releases    *)
(* the destination of INDEX and others before it counts what it copied.    *)
DestinationApart ==
  phase = "run" /\ NothingSpilled =>
    \A i \in Ins : Defs(i) \cap Uses(i) = {} => out[i].defs \cap out[i].uses = {}
=============================================================================
