--------------------------- MODULE KitPassesProofs ---------------------------
(***************************************************************************)
(* Proofs about the optimiser's passes, for code of any length, with any   *)
(* labels, jumps, registers and constants, any table of functions to       *)
(* inline from, any level and any number of rounds.                        *)
(*                                                                         *)
(* LabelsResolve is not inductive by itself.  A call is replaced by the    *)
(* code of a function of the table, so the functions there must be right   *)
(* as well (PassesInv).  The passes look for the operands of an            *)
(* instruction by what its operation has, so code must stay made of        *)
(* instructions with the operands they need (Instruction): a return that   *)
(* is inlined moves its first operand.                                     *)
(*                                                                         *)
(* All passes but two put, in the place of an instruction, one that is a   *)
(* label only if it was the same label, and jumps only where it jumped     *)
(* before (Replaces), however the graph and the liveness come out: copies, *)
(* constants and moves are followed an instruction at a time through a     *)
(* recursive function, with what each step needs of the one before         *)
(* (Copying, Folding, Rewritten).  The other two put code together from    *)
(* pieces: stripping no-ops leaves pieces out, and inlining pastes the     *)
(* callee's, whose labels come to lie between the caller's and the one at  *)
(* the end (BodyParts).                                                    *)
(***************************************************************************)
EXTENDS KitPasses, KitNaturals, SequenceTheorems

(* The registers of an instruction are below n; KIT_REG_NIL is one of      *)
(* them.                                                                   *)
RegsBelow(ins, n) == \A r \in Range(ins.srcs) \cup {ins.dst} : r < n

(* What may stand where an instruction stood.                              *)
Replaces(new, old, n) ==
  /\ new \in Instruction /\ RegsBelow(new, n)
  /\ (new.op = "LABEL") = (old.op = "LABEL")
  /\ new.op = "LABEL" => new.x = old.x
  /\ new.op \in Jumps => old.op \in Jumps /\ new.x = old.x

(* The conditions of Resolves, for any piece of code.                      *)
LabelsOf(s) == {s[i].x : i \in {j \in DOMAIN s : s[j].op = "LABEL"}}
JumpsOf(s)  == {s[i].x : i \in {j \in DOMAIN s : s[j].op \in Jumps}}
Once(s) ==
  \A i, j \in DOMAIN s :
    s[i].op = "LABEL" /\ s[j].op = "LABEL" /\ s[i].x = s[j].x => i = j
Below(s, n) == \A i \in DOMAIN s : RegsBelow(s[i], n)

(* Resolves, by the labels and the jumps that code has.                    *)
LEMMA ResolvesByParts ==
  ASSUME NEW f
  PROVE  Resolves(f) <=> /\ Once(f.code) /\ JumpsOf(f.code) \subseteq LabelsOf(f.code)
                         /\ \A x \in LabelsOf(f.code) : x[2] < f.labels
                         /\ Below(f.code, f.vregs)
<1> DEFINE code == f.code
           labels == {i \in DOMAIN code : code[i].op = "LABEL"}
           jumps  == {i \in DOMAIN code : code[i].op \in Jumps}
<1>1. LabelsOf(code) = {code[i].x : i \in labels} /\ JumpsOf(code) = {code[i].x : i \in jumps}
  BY DEF LabelsOf, JumpsOf
<1>2. (\A i, j \in labels : code[i].x = code[j].x => i = j) <=> Once(code)
  BY DEF Once
<1>3. (\A i \in labels : code[i].x[2] < f.labels) <=> \A x \in LabelsOf(code) : x[2] < f.labels
  BY <1>1, Zenon
<1>4. (\A i \in jumps : \E j \in labels : code[j].x = code[i].x)
        <=> JumpsOf(code) \subseteq LabelsOf(code)
  BY <1>1, Zenon
<1>5. (\A i \in DOMAIN code : \A r \in Range(code[i].srcs) \cup {code[i].dst} : r < f.vregs)
        <=> Below(code, f.vregs)
  BY DEF Below, RegsBelow
<1> QED BY <1>2, <1>3, <1>4, <1>5 DEF Resolves

(* Code whose instructions were replaced has its labels and no new jumps.  *)
LEMMA ReplacedResolves ==
  ASSUME NEW s \in Seq(Instruction), NEW t \in Seq(Instruction), NEW n, Len(s) = Len(t),
         \A i \in 1 .. Len(t) : Replaces(t[i], s[i], n)
  PROVE  /\ LabelsOf(t) = LabelsOf(s) /\ JumpsOf(t) \subseteq JumpsOf(s)
         /\ Once(s) => Once(t)
         /\ Below(t, n)
<1>1. DOMAIN s = 1 .. Len(s) /\ DOMAIN t = 1 .. Len(s)
  OBVIOUS
<1>2. \A i \in 1 .. Len(s) : /\ (t[i].op = "LABEL") = (s[i].op = "LABEL")
                             /\ t[i].op = "LABEL" => t[i].x = s[i].x
                             /\ t[i].op \in Jumps => s[i].op \in Jumps /\ t[i].x = s[i].x
                             /\ RegsBelow(t[i], n)
  BY DEF Replaces
<1> QED BY <1>1, <1>2, Zenon DEF LabelsOf, JumpsOf, Once, Below

(* Two pieces of code, one after the other.                                *)
LEMMA JoinedParts ==
  ASSUME NEW s \in Seq(Instruction), NEW t \in Seq(Instruction)
  PROVE  /\ s \o t \in Seq(Instruction)
         /\ LabelsOf(s \o t) = LabelsOf(s) \cup LabelsOf(t)
         /\ JumpsOf(s \o t) = JumpsOf(s) \cup JumpsOf(t)
         /\ Once(s) /\ Once(t) /\ LabelsOf(s) \cap LabelsOf(t) = {} => Once(s \o t)
         /\ \A n : Below(s, n) /\ Below(t, n) => Below(s \o t, n)
<1> DEFINE c == s \o t
           m == Len(s)
           k == Len(t)
<1>1. c \in Seq(Instruction) /\ m \in Nat /\ k \in Nat
  OBVIOUS
<1>2. DOMAIN s = 1 .. m /\ DOMAIN t = 1 .. k /\ DOMAIN c = 1 .. m + k
  OBVIOUS
<1>3. \A i \in 1 .. m : c[i] = s[i] /\ i \in 1 .. m + k
  OBVIOUS
<1>4. \A j \in 1 .. k : c[m + j] = t[j] /\ m + j \in 1 .. m + k
  OBVIOUS
<1>5. \A i \in 1 .. m + k : i \in 1 .. m \/ \E j \in 1 .. k : i = m + j
  <2> SUFFICES ASSUME NEW i \in 1 .. m + k, i \notin 1 .. m PROVE \E j \in 1 .. k : i = m + j
    OBVIOUS
  <2>1. i - m \in 1 .. k /\ i = m + (i - m)
    BY <1>1
  <2> QED BY <2>1
<1> HIDE DEF c, m, k
<1>6. LabelsOf(c) = LabelsOf(s) \cup LabelsOf(t)
  BY <1>2, <1>3, <1>4, <1>5, SMTT(60) DEF LabelsOf
<1>7. JumpsOf(c) = JumpsOf(s) \cup JumpsOf(t)
  BY <1>2, <1>3, <1>4, <1>5, SMTT(60) DEF JumpsOf
<1>8. ASSUME Once(s), Once(t), LabelsOf(s) \cap LabelsOf(t) = {} PROVE Once(c)
  <2> SUFFICES ASSUME NEW i \in 1 .. m + k, NEW j \in 1 .. m + k,
                      c[i].op = "LABEL", c[j].op = "LABEL", c[i].x = c[j].x
               PROVE  i = j
    BY <1>2 DEF Once
  <2>1. CASE i \in 1 .. m /\ j \in 1 .. m
    BY <2>1, <1>2, <1>3, <1>8 DEF Once
  <2>2. CASE \E u, v \in 1 .. k : i = m + u /\ j = m + v
    BY <2>2, <1>2, <1>4, <1>8 DEF Once
  <2>3. CASE i \in 1 .. m /\ \E v \in 1 .. k : j = m + v
    <3>1. c[i].x \in LabelsOf(s) /\ c[j].x \in LabelsOf(t)
      BY <2>3, <1>2, <1>3, <1>4 DEF LabelsOf
    <3> QED BY <3>1, <1>8
  <2>4. CASE j \in 1 .. m /\ \E u \in 1 .. k : i = m + u
    <3>1. c[j].x \in LabelsOf(s) /\ c[i].x \in LabelsOf(t)
      BY <2>4, <1>2, <1>3, <1>4 DEF LabelsOf
    <3> QED BY <3>1, <1>8
  <2> QED BY <1>5, <2>1, <2>2, <2>3, <2>4
<1>9. ASSUME NEW n, Below(s, n), Below(t, n) PROVE Below(c, n)
  BY <1>2, <1>3, <1>4, <1>5, <1>9 DEF Below
<1> QED BY <1>1, <1>6, <1>7, <1>8, <1>9 DEF c
-----------------------------------------------------------------------------
(* Instructions that are left as they are or become a no-op.               *)
LEMMA InstructionFields ==
  ASSUME NEW ins \in Instruction
  PROVE  /\ ins \in [op : Opcodes, dst : Nat \cup {None}, srcs : Seq(Nat), x : Operand]
         /\ ins.op \in Opcodes /\ ins.dst \in Nat \cup {None}
         /\ ins.srcs \in Seq(Nat) /\ ins.x \in Operand
         /\ Len(ins.srcs) >= Arity(ins.op)
         /\ ins.op \in Jumps \cup {"LABEL"} => ins.x[1] = "label"
<1>1. ins \in [op : Opcodes, dst : Nat \cup {None}, srcs : Seq(Nat), x : Operand]
  BY DEF Instruction
<1>2. Len(ins.srcs) >= Arity(ins.op) /\ (ins.op \in Jumps \cup {"LABEL"} => ins.x[1] = "label")
  BY DEF Instruction
<1> QED BY <1>1, <1>2

(* What makes an instruction.                                              *)
LEMMA InstructionType ==
  ASSUME NEW ins \in [op : Opcodes, dst : Nat \cup {None}, srcs : Seq(Nat), x : Operand],
         Len(ins.srcs) >= Arity(ins.op),
         ins.op \in Jumps \cup {"LABEL"} => ins.x[1] = "label"
  PROVE  ins \in Instruction
BY DEF Instruction

(* No operation needs more than two registers.                             *)
LEMMA ArityType == \A op : Arity(op) \in 0 .. 2
BY DEF Arity

(* A no-op may stand for anything but a label.                             *)
LEMMA NopReplaces ==
  ASSUME NEW old \in Instruction, NEW n \in Nat, old.op # "LABEL"
  PROVE  Replaces(Nop, old, n)
<1>1. /\ Nop.op = "NOP" /\ Nop.dst = None /\ Nop.srcs = <<>> /\ Nop.x = Plain
      /\ Nop = [op |-> "NOP", dst |-> None, srcs |-> <<>>, x |-> Plain]
  BY DEF Nop, Ins
<1>2. Plain \in Operand
  BY DEF Operand
<1>3. Arity("NOP") = 0
  BY DEF Arity, Binary, Unary
<1>4. Nop \in Instruction
  <2>1. Nop \in [op : Opcodes, dst : Nat \cup {None}, srcs : Seq(Nat), x : Operand]
    <3>1. "NOP" \in Opcodes
      BY DEF Opcodes
    <3>2. None \in Nat \cup {None}
      OBVIOUS
    <3>3. <<>> \in Seq(Nat)
      OBVIOUS
    <3> QED BY <1>1, <1>2, <3>1, <3>2, <3>3, Zenon
  <2>2. Len(Nop.srcs) >= Arity(Nop.op) /\ Nop.op \notin Jumps \cup {"LABEL"}
    BY <1>1, <1>3 DEF Jumps
  <2> QED BY <2>1, <2>2, InstructionType
<1>5. RegsBelow(Nop, n)
  <2>1. Range(<<>>) = {}
    BY DEF Range
  <2> QED BY <1>1, <2>1 DEF RegsBelow, None
<1> QED BY <1>1, <1>4, <1>5 DEF Replaces, Jumps

(* An instruction may stand for itself.                                    *)
LEMMA SameReplaces ==
  ASSUME NEW old \in Instruction, NEW n, RegsBelow(old, n)
  PROVE  Replaces(old, old, n)
BY DEF Replaces

(* A pass that replaces instructions keeps labels and registers right.     *)
LEMMA ReplacedCompiled ==
  ASSUME NEW f \in Function, Callable(f), NEW t \in Seq(Instruction), Len(t) = Len(f.code),
         \A i \in 1 .. Len(t) : Replaces(t[i], f.code[i], f.vregs)
  PROVE  LET g == [f EXCEPT !.code = t]
         IN /\ g \in Function /\ Callable(g) /\ g.code = t
            /\ g.vregs = f.vregs /\ g.labels = f.labels
<1> DEFINE g == [f EXCEPT !.code = t]
<1>1. g \in Function /\ g.code = t /\ g.vregs = f.vregs /\ g.labels = f.labels
  BY DEF Function
<1> HIDE DEF g
<1>2. f.code \in Seq(Instruction) /\ Resolves(f)
  BY DEF Callable
<1>3. /\ LabelsOf(t) = LabelsOf(f.code) /\ JumpsOf(t) \subseteq JumpsOf(f.code)
      /\ Once(f.code) => Once(t)
      /\ Below(t, f.vregs)
  BY <1>2, ReplacedResolves
<1>4. Resolves(g)
  BY <1>1, <1>2, <1>3, ResolvesByParts, Zenon
<1>5. Callable(g)
  BY <1>1, <1>4 DEF Callable
<1> QED BY <1>1, <1>5 DEF g

(* What is known of a function that may be called or compiled further.     *)
LEMMA CallableFacts ==
  ASSUME NEW f, Callable(f)
  PROVE  /\ f.code \in Seq(Instruction) /\ f.labels \in Nat
         /\ f.vregs \in Nat /\ General <= f.vregs
         /\ \A i \in 1 .. Len(f.code) : f.code[i] \in Instruction /\ RegsBelow(f.code[i], f.vregs)
<1>1. f.code \in Seq(Instruction) /\ f.labels \in Nat /\ f.vregs \in Nat /\ General <= f.vregs
  BY ArgRegsAssumption DEF Callable, General
<1>2. Below(f.code, f.vregs)
  BY ResolvesByParts DEF Callable
<1>3. \A i \in 1 .. Len(f.code) : f.code[i] \in Instruction /\ RegsBelow(f.code[i], f.vregs)
  BY <1>1, <1>2 DEF Below
<1> QED BY <1>1, <1>3

(* Some instructions, none of them a label, have become no-ops.            *)
LEMMA SomeBecomeNoops ==
  ASSUME NEW f \in Function, Callable(f), NEW t,
         t = [i \in DOMAIN f.code |-> t[i]],
         \A i \in DOMAIN f.code : \/ t[i] = f.code[i]
                                  \/ t[i] = Nop /\ f.code[i].op # "LABEL"
  PROVE  [f EXCEPT !.code = t] \in Function /\ Callable([f EXCEPT !.code = t])
<1>1. /\ f.code \in Seq(Instruction) /\ f.vregs \in Nat
      /\ \A i \in 1 .. Len(f.code) : f.code[i] \in Instruction /\ RegsBelow(f.code[i], f.vregs)
  BY CallableFacts
<1>2. DOMAIN f.code = 1 .. Len(f.code) /\ Len(f.code) \in Nat
  BY <1>1
<1>3. \A i \in 1 .. Len(f.code) : Replaces(t[i], f.code[i], f.vregs)
  BY <1>1, <1>2, NopReplaces, SameReplaces
<1>4. \A i \in 1 .. Len(f.code) : t[i] \in Instruction
  BY <1>3 DEF Replaces
<1>5. t \in Seq(Instruction) /\ Len(t) = Len(f.code)
  <2>1. t \in [1 .. Len(f.code) -> Instruction]
    BY <1>2, <1>4
  <2> QED BY <1>2, <2>1
<1> QED BY <1>3, <1>5, ReplacedCompiled

(* Dead store elimination.                                                 *)
LEMMA StoresKeep ==
  ASSUME NEW f \in Function, Callable(f)
  PROVE  LET g == [f EXCEPT !.code = EliminateDeadStores(@)] IN g \in Function /\ Callable(g)
<1> DEFINE t == EliminateDeadStores(f.code)
<1>1. t = [i \in DOMAIN f.code |-> t[i]]
  BY DEF EliminateDeadStores
<1>2. \A i \in DOMAIN f.code : t[i] = f.code[i] \/ (t[i] = Nop /\ f.code[i].op # "LABEL")
  BY DEF EliminateDeadStores, Impure
<1>3. [f EXCEPT !.code = EliminateDeadStores(@)] = [f EXCEPT !.code = t]
  BY DEF Function
<1> HIDE DEF t
<1> QED BY <1>1, <1>2, <1>3, SomeBecomeNoops

(* Elimination of unreachable code.                                        *)
LEMMA UnreachableKeeps ==
  ASSUME NEW f \in Function, Callable(f)
  PROVE  LET g == [f EXCEPT !.code = EliminateUnreachable(@)] IN g \in Function /\ Callable(g)
<1> DEFINE t == EliminateUnreachable(f.code)
<1>1. t = [i \in DOMAIN f.code |-> t[i]]
  BY DEF EliminateUnreachable
<1>2. \A i \in DOMAIN f.code : t[i] = f.code[i] \/ (t[i] = Nop /\ f.code[i].op # "LABEL")
  BY DEF EliminateUnreachable
<1>3. [f EXCEPT !.code = EliminateUnreachable(@)] = [f EXCEPT !.code = t]
  BY DEF Function
<1> HIDE DEF t
<1> QED BY <1>1, <1>2, <1>3, SomeBecomeNoops

(* Removal of jumps that fall through.                                     *)
LEMMA RemovedJumpsKeep ==
  ASSUME NEW f \in Function, Callable(f)
  PROVE  LET g == [f EXCEPT !.code = RemoveJumps(@)] IN g \in Function /\ Callable(g)
<1> DEFINE t == RemoveJumps(f.code)
<1>1. t = [i \in DOMAIN f.code |-> t[i]]
  BY DEF RemoveJumps
<1>2. \A i \in DOMAIN f.code : t[i] = f.code[i] \/ (t[i] = Nop /\ f.code[i].op # "LABEL")
  BY DEF RemoveJumps
<1>3. [f EXCEPT !.code = RemoveJumps(@)] = [f EXCEPT !.code = t]
  BY DEF Function
<1> HIDE DEF t
<1> QED BY <1>1, <1>2, <1>3, SomeBecomeNoops

-----------------------------------------------------------------------------
(* Code that is put together from pieces.                                  *)
LEMMA EmptyParts ==
  /\ <<>> \in Seq(Instruction) /\ LabelsOf(<<>>) = {} /\ JumpsOf(<<>>) = {}
  /\ Once(<<>>) /\ \A n : Below(<<>>, n)
BY DEF LabelsOf, JumpsOf, Once, Below

(* A piece of one instruction.                                             *)
LEMMA SingleParts ==
  ASSUME NEW ins \in Instruction
  PROVE  /\ <<ins>> \in Seq(Instruction)
         /\ LabelsOf(<<ins>>) = IF ins.op = "LABEL" THEN {ins.x} ELSE {}
         /\ JumpsOf(<<ins>>) = IF ins.op \in Jumps THEN {ins.x} ELSE {}
         /\ Once(<<ins>>)
         /\ \A n : RegsBelow(ins, n) => Below(<<ins>>, n)
<1> DEFINE s == <<ins>>
<1>1. s \in Seq(Instruction) /\ DOMAIN s = {1} /\ s[1] = ins
  OBVIOUS
<1> HIDE DEF s
<1>2. {i \in DOMAIN s : s[i].op = "LABEL"} = IF ins.op = "LABEL" THEN {1} ELSE {}
  BY <1>1
<1>3. {i \in DOMAIN s : s[i].op \in Jumps} = IF ins.op \in Jumps THEN {1} ELSE {}
  BY <1>1
<1>4. LabelsOf(s) = IF ins.op = "LABEL" THEN {ins.x} ELSE {}
  BY <1>1, <1>2 DEF LabelsOf
<1>5. JumpsOf(s) = IF ins.op \in Jumps THEN {ins.x} ELSE {}
  BY <1>1, <1>3 DEF JumpsOf
<1>6. Once(s) /\ \A n : RegsBelow(ins, n) => Below(s, n)
  BY <1>1 DEF Once, Below
<1> QED BY <1>1, <1>4, <1>5, <1>6 DEF s

(* Pieces, as many as there are, that share no label.                      *)
LEMMA FlattenParts ==
  ASSUME NEW ss \in Seq(Seq(Instruction)), NEW n,
         \A i \in 1 .. Len(ss) : Once(ss[i]) /\ Below(ss[i], n),
         \A i, j \in 1 .. Len(ss) : i # j => LabelsOf(ss[i]) \cap LabelsOf(ss[j]) = {}
  PROVE  /\ FlattenSeq(ss) \in Seq(Instruction)
         /\ Once(FlattenSeq(ss)) /\ Below(FlattenSeq(ss), n)
         /\ LabelsOf(FlattenSeq(ss)) = UNION {LabelsOf(ss[i]) : i \in 1 .. Len(ss)}
         /\ JumpsOf(FlattenSeq(ss)) = UNION {JumpsOf(ss[i]) : i \in 1 .. Len(ss)}
<1> DEFINE N == Len(ss)
           Labels(k) == UNION {LabelsOf(ss[i]) : i \in 1 .. k}
           Goes(k)   == UNION {JumpsOf(ss[i]) : i \in 1 .. k}
           Good(c, k) == /\ c \in Seq(Instruction) /\ Once(c) /\ Below(c, n)
                         /\ LabelsOf(c) = Labels(k) /\ JumpsOf(c) = Goes(k)
<1>1. N \in Nat /\ \A i \in 1 .. N : ss[i] \in Seq(Instruction)
  OBVIOUS
<1>2. PICK f : /\ \A i \in 1 .. N : f[i] = IF i = 1 THEN ss[i] ELSE f[i - 1] \o ss[i]
               /\ FlattenSeq(ss) = IF N = 0 THEN ss ELSE f[N]
  <2>1. Len(ss) \in Nat
    BY <1>1
  <2> QED BY <2>1, FlattenExists
<1>3. N = 0 => ss = <<>>
  OBVIOUS
<1> HIDE DEF N
<1>4. CASE N = 0
  <2>1. FlattenSeq(ss) = <<>> /\ 1 .. N = {}
    BY <1>2, <1>3, <1>4
  <2> QED BY <2>1, EmptyParts DEF N
<1>5. CASE N # 0
  <2> DEFINE good == {k \in 0 .. N - 1 : Good(f[k + 1], k + 1)}
  <2>1. N - 1 \in Nat
    BY <1>1, <1>5
  <2>2. 0 \in good
    <3>1. 1 \in 1 .. N /\ 0 \in 0 .. N - 1 /\ 0 + 1 = 1
      BY <1>1, <1>5
    <3>2. f[1] = ss[1] /\ ss[1] \in Seq(Instruction) /\ Once(ss[1]) /\ Below(ss[1], n)
      BY <1>1, <1>2, <3>1 DEF N
    <3>3. Labels(1) = LabelsOf(ss[1]) /\ Goes(1) = JumpsOf(ss[1])
      OBVIOUS
    <3> QED BY <3>1, <3>2, <3>3
  <2>3. ASSUME NEW k \in 1 .. N - 1, k - 1 \in good PROVE k \in good
    <3>1. k + 1 \in 1 .. N /\ k \in 1 .. N /\ k + 1 # 1 /\ k + 1 - 1 = k /\ k - 1 + 1 = k
          /\ k \in 0 .. N - 1
      BY <1>1
    <3>2. Good(f[k], k)
      BY <2>3, <3>1
    <3>3. f[k + 1] = f[k] \o ss[k + 1]
      <4>1. PICK j : j = k + 1
        OBVIOUS
      <4>2. j \in 1 .. N /\ j # 1 /\ j - 1 = k
        BY <3>1, <4>1
      <4>3. f[j] = f[j - 1] \o ss[j]
        BY <1>2, <4>2, Zenon
      <4> QED BY <4>1, <4>2, <4>3, Zenon
    <3>4. ss[k + 1] \in Seq(Instruction) /\ Once(ss[k + 1]) /\ Below(ss[k + 1], n)
      BY <1>1, <3>1 DEF N
    <3>5. 1 .. k + 1 = (1 .. k) \cup {k + 1} /\ \A i \in 1 .. k : i \in 1 .. N /\ i # k + 1
      BY <3>1, <1>1
    <3>6. Labels(k + 1) = Labels(k) \cup LabelsOf(ss[k + 1])
      BY <3>5
    <3>7. Goes(k + 1) = Goes(k) \cup JumpsOf(ss[k + 1])
      BY <3>5
    <3>8. Labels(k) \cap LabelsOf(ss[k + 1]) = {}
      <4>1. \A i \in 1 .. k : LabelsOf(ss[i]) \cap LabelsOf(ss[k + 1]) = {}
        BY <3>1, <3>5 DEF N
      <4> QED BY <4>1
    <3> HIDE DEF Labels, Goes
    <3>9. Good(f[k + 1], k + 1)
      <4> DEFINE c == f[k]
                 d == ss[k + 1]
      <4>1. c \in Seq(Instruction) /\ d \in Seq(Instruction)
        BY <3>2, <3>4
      <4> HIDE DEF c, d
      <4>2. /\ c \o d \in Seq(Instruction)
            /\ LabelsOf(c \o d) = LabelsOf(c) \cup LabelsOf(d)
            /\ JumpsOf(c \o d) = JumpsOf(c) \cup JumpsOf(d)
            /\ Once(c) /\ Once(d) /\ LabelsOf(c) \cap LabelsOf(d) = {} => Once(c \o d)
            /\ Below(c, n) /\ Below(d, n) => Below(c \o d, n)
        BY <4>1, JoinedParts
      <4> USE DEF c, d
      <4> QED BY <3>2, <3>3, <3>4, <3>6, <3>7, <3>8, <4>2
    <3> QED BY <3>1, <3>9
  <2>4. N - 1 \in good
    <3> HIDE DEF good
    <3>1. \A k \in 0 .. N - 1 : k \in good
      BY <2>1, <2>2, <2>3, Upward
    <3> QED BY <2>1, <3>1
  <2>5. N - 1 + 1 = N
    BY <1>1
  <2>6. Good(f[N], N)
    BY <2>4, <2>5
  <2> QED BY <1>2, <1>5, <2>6 DEF N
<1> QED BY <1>4, <1>5

(* What the pieces of a strip or of an inlining need, for a function that  *)
(* is put together from them.                                              *)
LEMMA RecodedCompiled ==
  ASSUME NEW f \in Function, Callable(f), NEW t \in Seq(Instruction), Once(t),
         JumpsOf(t) \subseteq LabelsOf(t), \A x \in LabelsOf(t) : x[2] < f.labels,
         Below(t, f.vregs)
  PROVE  [f EXCEPT !.code = t] \in Function /\ Callable([f EXCEPT !.code = t])
<1> DEFINE g == [f EXCEPT !.code = t]
<1>1. g \in Function /\ g.code = t /\ g.vregs = f.vregs /\ g.labels = f.labels
  BY DEF Function
<1> HIDE DEF g
<1>2. Resolves(g)
  BY <1>1, ResolvesByParts, Zenon
<1>3. Callable(g)
  BY <1>1, <1>2 DEF Callable
<1> QED BY <1>1, <1>3 DEF g

(* Stripping of no-ops.                                                    *)
LEMMA StripKeeps ==
  ASSUME NEW f \in Function, Callable(f)
  PROVE  LET g == [f EXCEPT !.code = StripNoops(@)] IN g \in Function /\ Callable(g)
<1> DEFINE code == f.code
           n == f.vregs
           Piece(i) == IF code[i].op = "NOP" THEN <<>> ELSE <<code[i]>>
           ss == [i \in DOMAIN code |-> Piece(i)]
           t == FlattenSeq(ss)
<1>1. /\ code \in Seq(Instruction) /\ n \in Nat
      /\ \A i \in 1 .. Len(code) : code[i] \in Instruction /\ RegsBelow(code[i], n)
  BY CallableFacts
<1>2. /\ Once(code) /\ JumpsOf(code) \subseteq LabelsOf(code)
      /\ \A x \in LabelsOf(code) : x[2] < f.labels
  BY ResolvesByParts DEF Callable
<1>3. DOMAIN code = 1 .. Len(code) /\ Len(code) \in Nat
  BY <1>1
<1> HIDE DEF code, n
<1>4. ASSUME NEW i \in 1 .. Len(code)
      PROVE  /\ Piece(i) \in Seq(Instruction) /\ Once(Piece(i)) /\ Below(Piece(i), n)
             /\ LabelsOf(Piece(i)) = IF code[i].op = "LABEL" THEN {code[i].x} ELSE {}
             /\ JumpsOf(Piece(i)) = IF code[i].op \in Jumps THEN {code[i].x} ELSE {}
  <2>1. CASE code[i].op = "NOP"
    BY <2>1, EmptyParts DEF Jumps
  <2>2. CASE code[i].op # "NOP"
    BY <2>2, <1>1, SingleParts
  <2> QED BY <2>1, <2>2
<1>5. ss \in Seq(Seq(Instruction)) /\ Len(ss) = Len(code)
  <2>1. ss \in [1 .. Len(code) -> Seq(Instruction)]
    BY <1>3, <1>4
  <2> QED BY <1>3, <2>1
<1>6. \A i \in 1 .. Len(ss) : ss[i] = Piece(i)
  BY <1>3, <1>5
<1> HIDE DEF ss, Piece
<1>7. \A i, j \in 1 .. Len(ss) : i # j => LabelsOf(ss[i]) \cap LabelsOf(ss[j]) = {}
  <2> SUFFICES ASSUME NEW i \in 1 .. Len(code), NEW j \in 1 .. Len(code), i # j
               PROVE  LabelsOf(Piece(i)) \cap LabelsOf(Piece(j)) = {}
    BY <1>5, <1>6
  <2>1. ~(code[i].op = "LABEL" /\ code[j].op = "LABEL" /\ code[i].x = code[j].x)
    BY <1>2, <1>3 DEF Once
  <2> QED BY <1>4, <2>1
<1>8. \A i \in 1 .. Len(ss) : Once(ss[i]) /\ Below(ss[i], n)
  BY <1>4, <1>5, <1>6
<1>9. /\ t \in Seq(Instruction) /\ Once(t) /\ Below(t, n)
      /\ LabelsOf(t) = UNION {LabelsOf(ss[i]) : i \in 1 .. Len(ss)}
      /\ JumpsOf(t) = UNION {JumpsOf(ss[i]) : i \in 1 .. Len(ss)}
  BY <1>5, <1>7, <1>8, FlattenParts
<1>10. LabelsOf(t) = LabelsOf(code) /\ JumpsOf(t) = JumpsOf(code)
  <2>1. \A i \in 1 .. Len(code) :
          /\ LabelsOf(ss[i]) = IF code[i].op = "LABEL" THEN {code[i].x} ELSE {}
          /\ JumpsOf(ss[i]) = IF code[i].op \in Jumps THEN {code[i].x} ELSE {}
    BY <1>4, <1>5, <1>6
  <2>2. /\ LabelsOf(t) = UNION {LabelsOf(ss[i]) : i \in 1 .. Len(code)}
        /\ JumpsOf(t) = UNION {JumpsOf(ss[i]) : i \in 1 .. Len(code)}
    BY <1>5, <1>9
  <2>3. ASSUME NEW x PROVE x \in LabelsOf(t) <=> x \in LabelsOf(code)
    <3>1. x \in LabelsOf(t) <=> \E i \in 1 .. Len(code) : x \in LabelsOf(ss[i])
      BY <2>2
    <3>2. x \in LabelsOf(code)
            <=> \E i \in 1 .. Len(code) : code[i].op = "LABEL" /\ x = code[i].x
      BY <1>3 DEF LabelsOf
    <3> QED BY <2>1, <3>1, <3>2
  <2>4. ASSUME NEW x PROVE x \in JumpsOf(t) <=> x \in JumpsOf(code)
    <3>1. x \in JumpsOf(t) <=> \E i \in 1 .. Len(code) : x \in JumpsOf(ss[i])
      BY <2>2
    <3>2. x \in JumpsOf(code)
            <=> \E i \in 1 .. Len(code) : code[i].op \in Jumps /\ x = code[i].x
      BY <1>3 DEF JumpsOf
    <3> QED BY <2>1, <3>1, <3>2
  <2> QED BY <2>3, <2>4
<1>11. [f EXCEPT !.code = StripNoops(@)] = [f EXCEPT !.code = t]
  BY DEF Function, StripNoops, t, ss, Piece, code
<1> HIDE DEF t
<1> QED BY <1>2, <1>9, <1>10, <1>11, RecodedCompiled DEF n

-----------------------------------------------------------------------------
(* The values that constants are folded to.                                *)
LEMMA ScalarNumber ==
  ASSUME NEW v \in Operand
  PROVE  AsNumber(v) \in Int /\ (IsScalar(v) => v[2] \in Int)
<1>1. CASE v \in {"int", "float", "bool", "global", "args"} \X Int
  BY <1>1 DEF AsNumber, IsScalar
<1>2. CASE v \in {"label"} \X Nat
  BY <1>2 DEF AsNumber, IsScalar
<1>3. CASE v \in {"fn", "member"} \X STRING
  BY <1>3 DEF AsNumber, IsScalar
<1>4. CASE v \in {"vec"} \X [1..2 -> Int]
  BY <1>4 DEF AsNumber, IsScalar
<1>5. CASE v \in {Null, Plain, Unknown}
  BY <1>5 DEF AsNumber, IsScalar, Null, Plain, Unknown
<1> QED BY <1>1, <1>2, <1>3, <1>4, <1>5 DEF Operand

(* A number is an operand.                                                 *)
LEMMA NumberOperand ==
  ASSUME NEW t \in {"int", "float", "bool"}, NEW n \in Int
  PROVE  <<t, n>> \in Operand
BY DEF Operand

(* A truth value is one.                                                   *)
LEMMA BoolOperand ==
  ASSUME NEW b PROVE BoolOf(b) \in Operand
<1>1. (IF b THEN 1 ELSE 0) \in Int
  OBVIOUS
<1> QED BY <1>1, NumberOperand DEF BoolOf

(* What an operator gives is one.                                          *)
LEMMA OperateType ==
  ASSUME NEW op \in Binary \cup Unary, NEW l \in Operand, NEW r \in Operand
  PROVE  Operate(op, l, r) \in Operand
<1>1. CASE op = "EQL"
  BY <1>1, BoolOperand DEF Operate
<1>2. CASE op = "NEQ"
  BY <1>2, BoolOperand DEF Operate
<1>3. CASE op = "NOT"
  BY <1>3, BoolOperand DEF Operate
<1>4. CASE op = "NEG"
  <2>1. Operate(op, l, r) = IF IsScalar(r) /\ r[1] # "bool" THEN <<r[1], -r[2]>> ELSE r
    BY <1>4 DEF Operate
  <2>2. IsScalar(r) => r[1] \in {"int", "float", "bool"} /\ r[2] \in Int
    BY ScalarNumber DEF IsScalar
  <2> QED BY <2>1, <2>2, NumberOperand
<1>5. CASE op \in {"ADD", "SUB", "MUL", "LT"}
  <2> DEFINE x == AsNumber(l)
             y == AsNumber(r)
             t == IF "float" \in {l[1], r[1]} THEN "float" ELSE "int"
             a == CASE op = "ADD" -> x + y [] op = "SUB" -> x - y [] op = "MUL" -> x * y
  <2>1. x \in Int /\ y \in Int
    BY ScalarNumber
  <2> HIDE DEF x, y
  <2>2. op # "LT" => a \in Int
    <3>1. op # "LT" => op \in {"ADD", "SUB", "MUL"}
      BY <1>5
    <3>2. x + y \in Int /\ x - y \in Int /\ x * y \in Int
      BY <2>1
    <3> QED BY <3>1, <3>2
  <2>3. t \in {"int", "float", "bool"}
    OBVIOUS
  <2>4. Operate(op, l, r) = IF "null" \in {l[1], r[1]} THEN Null
                            ELSE IF op = "LT" THEN BoolOf(x < y) ELSE <<t, a>>
    <3>1. CASE op \in {"ADD", "SUB", "MUL"}
      BY <3>1 DEF Operate, x, y, a, t
    <3>2. CASE op = "LT"
      BY <3>2 DEF Operate, x, y, BoolOf
    <3> QED BY <1>5, <3>1, <3>2
  <2> HIDE DEF t, a
  <2>5. Null \in Operand
    BY DEF Operand
  <2>6. op # "LT" => <<t, a>> \in Operand
    BY <2>2, <2>3, NumberOperand
  <2> QED BY <2>4, <2>5, <2>6, BoolOperand
<1> QED BY <1>1, <1>2, <1>3, <1>4, <1>5 DEF Binary, Unary

-----------------------------------------------------------------------------
(* Code that was rewritten an instruction at a time.                       *)
Rewritten(f) ==
  {c \in Seq(Instruction) :
     /\ Len(c) = Len(f.code)
     /\ \A i \in 1 .. Len(f.code) : Replaces(c[i], f.code[i], f.vregs)}

(* Its instructions, each in the place of one of the function.             *)
LEMMA RewrittenFacts ==
  ASSUME NEW f \in Function, Callable(f), NEW c \in Rewritten(f)
  PROVE  /\ c \in Seq(Instruction) /\ Len(c) = Len(f.code) /\ Len(f.code) \in Nat
         /\ DOMAIN c = 1 .. Len(f.code)
         /\ \A i \in 1 .. Len(f.code) : /\ Replaces(c[i], f.code[i], f.vregs)
                                        /\ c[i] \in Instruction /\ RegsBelow(c[i], f.vregs)
<1>1. /\ c \in Seq(Instruction) /\ Len(c) = Len(f.code)
      /\ \A i \in 1 .. Len(f.code) : Replaces(c[i], f.code[i], f.vregs)
  BY DEF Rewritten
<1>2. Len(f.code) \in Nat /\ DOMAIN c = 1 .. Len(f.code)
  BY <1>1
<1> QED BY <1>1, <1>2 DEF Replaces

(* The code of the function itself, of which nothing is rewritten yet.     *)
LEMMA RewrittenStart ==
  ASSUME NEW f \in Function, Callable(f)
  PROVE  f.code \in Rewritten(f)
<1>1. /\ f.code \in Seq(Instruction)
      /\ \A i \in 1 .. Len(f.code) : f.code[i] \in Instruction /\ RegsBelow(f.code[i], f.vregs)
  BY CallableFacts
<1>2. \A i \in 1 .. Len(f.code) : Replaces(f.code[i], f.code[i], f.vregs)
  BY <1>1, SameReplaces
<1> QED BY <1>1, <1>2 DEF Rewritten

(* Another instruction is rewritten.                                       *)
LEMMA RewrittenStep ==
  ASSUME NEW f \in Function, Callable(f), NEW c \in Rewritten(f),
         NEW i \in 1 .. Len(f.code), NEW new, Replaces(new, c[i], f.vregs)
  PROVE  [c EXCEPT ![i] = new] \in Rewritten(f)
<1> DEFINE d == [c EXCEPT ![i] = new]
<1>1. /\ c \in Seq(Instruction) /\ Len(c) = Len(f.code) /\ Len(f.code) \in Nat
      /\ DOMAIN c = 1 .. Len(f.code)
      /\ \A j \in 1 .. Len(f.code) : Replaces(c[j], f.code[j], f.vregs)
  BY RewrittenFacts
<1>2. Replaces(new, f.code[i], f.vregs) /\ new \in Instruction
  <2>1. Replaces(c[i], f.code[i], f.vregs)
    BY <1>1
  <2> QED BY <2>1 DEF Replaces
<1>3. d \in Seq(Instruction) /\ Len(d) = Len(f.code)
  BY <1>1, <1>2
<1>4. \A j \in 1 .. Len(f.code) : d[j] = IF j = i THEN new ELSE c[j]
  BY <1>1
<1> HIDE DEF d
<1>5. \A j \in 1 .. Len(f.code) : Replaces(d[j], f.code[j], f.vregs)
  BY <1>1, <1>2, <1>4
<1> QED BY <1>3, <1>5 DEF Rewritten, d

(* The function with such code.                                            *)
LEMMA RewrittenKeeps ==
  ASSUME NEW f \in Function, Callable(f), NEW c \in Rewritten(f)
  PROVE  LET g == [f EXCEPT !.code = c]
         IN /\ g \in Function /\ Callable(g) /\ g.code = c
            /\ g.vregs = f.vregs /\ g.labels = f.labels
<1>1. /\ c \in Seq(Instruction) /\ Len(c) = Len(f.code)
      /\ \A i \in 1 .. Len(c) : Replaces(c[i], f.code[i], f.vregs)
  BY DEF Rewritten
<1> QED BY <1>1, ReplacedCompiled

(* An instruction that writes the same register, reads none and jumps      *)
(* nowhere.                                                                *)
LEMMA LoadReplaces ==
  ASSUME NEW old \in Instruction, NEW n \in Nat, RegsBelow(old, n), old.op # "LABEL",
         NEW v \in Operand
  PROVE  Replaces(Ins(LoadOf(v), old.dst, <<>>, v), old, n)
<1> DEFINE op == LoadOf(v)
           new == Ins(op, old.dst, <<>>, v)
<1>1. op \in {"MOVI", "MOVF", "LOADK"}
  BY DEF LoadOf
<1> HIDE DEF op
<1>2. /\ new.op = op /\ new.dst = old.dst /\ new.srcs = <<>> /\ new.x = v
      /\ new = [op |-> op, dst |-> old.dst, srcs |-> <<>>, x |-> v]
  BY DEF Ins
<1> HIDE DEF new
<1>3. op \in Opcodes /\ old.dst \in Nat \cup {None} /\ <<>> \in Seq(Nat)
  BY <1>1, InstructionFields DEF Opcodes
<1>4. new \in [op : Opcodes, dst : Nat \cup {None}, srcs : Seq(Nat), x : Operand]
  BY <1>2, <1>3, Zenon
<1>5. Arity(op) = 0 /\ op \notin Jumps \cup {"LABEL"}
  BY <1>1 DEF Arity, Binary, Unary, Jumps
<1>6. Len(new.srcs) >= Arity(new.op) /\ new.op \notin Jumps \cup {"LABEL"}
  BY <1>2, <1>5
<1>7. new \in Instruction
  BY <1>4, <1>6, InstructionType
<1>8. RegsBelow(new, n)
  <2>1. Range(<<>>) = {} /\ old.dst < n
    BY DEF Range, RegsBelow
  <2> QED BY <1>2, <2>1 DEF RegsBelow
<1> QED BY <1>6, <1>7, <1>8 DEF Replaces, new, op

(* A conditional jump that is decided.                                     *)
LEMMA JumpReplaces ==
  ASSUME NEW old \in Instruction, NEW n \in Nat, old.op \in Jumps
  PROVE  Replaces(Jmp(old.x[2]), old, n)
<1> DEFINE new == Jmp(old.x[2])
<1>1. old.x \in Operand /\ old.x[1] = "label"
  BY InstructionFields
<1>2. old.x \in {"label"} \X Nat
  BY <1>1 DEF Operand, Null, Plain, Unknown
<1>3. old.x = <<"label", old.x[2]>>
  BY <1>2
<1>4. /\ new.op = "JMP" /\ new.dst = None /\ new.srcs = <<>> /\ new.x = old.x
      /\ new = [op |-> "JMP", dst |-> None, srcs |-> <<>>, x |-> old.x]
  BY <1>3 DEF Jmp, Ins
<1> HIDE DEF new
<1>5. new \in [op : Opcodes, dst : Nat \cup {None}, srcs : Seq(Nat), x : Operand]
  <2>1. "JMP" \in Opcodes /\ <<>> \in Seq(Nat)
    BY DEF Opcodes, Jumps
  <2> QED BY <1>1, <1>4, <2>1, Zenon
<1>6. new \in Instruction
  <2>1. Arity("JMP") = 0
    BY DEF Arity, Binary, Unary
  <2>2. Len(new.srcs) >= Arity(new.op) /\ new.x[1] = "label"
    BY <1>1, <1>4, <2>1
  <2> QED BY <1>5, <2>2, InstructionType
<1>7. RegsBelow(new, n)
  <2>1. Range(<<>>) = {}
    BY DEF Range
  <2> QED BY <1>4, <2>1 DEF RegsBelow, None
<1>8. new.op \in Jumps /\ new.op # "LABEL" /\ old.op # "LABEL"
  BY <1>4 DEF Jumps
<1> QED BY <1>4, <1>6, <1>7, <1>8 DEF Replaces, new

-----------------------------------------------------------------------------
(* Constant propagation, an instruction at a time: what is known are       *)
(* operands, and a call that is found is a call of a finished function.    *)
Known(f) == [0 .. f.vregs - 1 -> Operand]
Folding(f, functions) ==
  {a \in [code : Rewritten(f), known : Known(f), call : 0 .. Len(f.code),
          callee : DOMAIN functions \cup {""}] :
     a.call > 0 => a.code[a.call].op = "CALL" /\ a.callee \in DOMAIN functions}

(* The parts of such a state.                                              *)
LEMMA FoldingFacts ==
  ASSUME NEW f, NEW functions, NEW a \in Folding(f, functions)
  PROVE  /\ a \in [code : Rewritten(f), known : Known(f), call : 0 .. Len(f.code),
                   callee : DOMAIN functions \cup {""}]
         /\ a.code \in Rewritten(f) /\ a.known \in Known(f) /\ a.call \in 0 .. Len(f.code)
         /\ a.callee \in DOMAIN functions \cup {""}
         /\ a.call > 0 => a.code[a.call].op = "CALL" /\ a.callee \in DOMAIN functions
<1>1. /\ a \in [code : Rewritten(f), known : Known(f), call : 0 .. Len(f.code),
                callee : DOMAIN functions \cup {""}]
      /\ a.call > 0 => a.code[a.call].op = "CALL" /\ a.callee \in DOMAIN functions
  BY DEF Folding
<1> QED BY <1>1

(* What is known of a register changes, and perhaps the instruction.       *)
LEMMA KnownUpdate ==
  ASSUME NEW f \in Function, Callable(f), NEW known \in Known(f), NEW r, NEW v \in Operand
  PROVE  [known EXCEPT ![r] = v] \in Known(f)
BY DEF Known

(* What is known changes and the code does not.                            *)
LEMMA FoldingKnown ==
  ASSUME NEW f \in Function, Callable(f), NEW functions, NEW a \in Folding(f, functions),
         NEW known \in Known(f)
  PROVE  [a EXCEPT !.known = known] \in Folding(f, functions)
<1> DEFINE b == [a EXCEPT !.known = known]
<1>1. /\ a \in [code : Rewritten(f), known : Known(f), call : 0 .. Len(f.code),
                callee : DOMAIN functions \cup {""}]
      /\ a.call > 0 => a.code[a.call].op = "CALL" /\ a.callee \in DOMAIN functions
  BY FoldingFacts
<1>2. /\ b \in [code : Rewritten(f), known : Known(f), call : 0 .. Len(f.code),
                callee : DOMAIN functions \cup {""}]
      /\ b.code = a.code /\ b.call = a.call /\ b.callee = a.callee
  BY <1>1
<1> HIDE DEF b
<1>3. b.call > 0 => b.code[b.call].op = "CALL" /\ b.callee \in DOMAIN functions
  BY <1>1, <1>2
<1> QED BY <1>2, <1>3 DEF Folding, b

(* The code changes and what is known does not.                            *)
LEMMA FoldingCode ==
  ASSUME NEW f \in Function, Callable(f), NEW functions, NEW a \in Folding(f, functions),
         a.call = 0, NEW c \in Rewritten(f)
  PROVE  [a EXCEPT !.code = c] \in Folding(f, functions)
<1> DEFINE b == [a EXCEPT !.code = c]
<1>1. /\ a \in [code : Rewritten(f), known : Known(f), call : 0 .. Len(f.code),
                callee : DOMAIN functions \cup {""}]
  BY FoldingFacts
<1>2. /\ b \in [code : Rewritten(f), known : Known(f), call : 0 .. Len(f.code),
                callee : DOMAIN functions \cup {""}]
      /\ b.call = 0
  BY <1>1
<1> HIDE DEF b
<1>3. ~(b.call > 0)
  <2>1. b.call = 0
    BY <1>2
  <2> QED BY <2>1
<1> QED BY <1>2, <1>3 DEF Folding, b

(* A register is learned.                                                  *)
LEMMA LearnKeeps ==
  ASSUME NEW f \in Function, Callable(f), NEW functions, NEW a \in Folding(f, functions),
         NEW i, NEW v \in Operand
  PROVE  Learn(a, i, v) \in Folding(f, functions)
<1> DEFINE r == a.code[i].dst
           known == [a.known EXCEPT ![r] = v]
<1>1. a.known \in Known(f)
  BY FoldingFacts
<1>2. known \in Known(f)
  BY <1>1, KnownUpdate
<1>3. Learn(a, i, v) = [a EXCEPT !.known = known]
  <2>1. a \in [code : Rewritten(f), known : Known(f), call : 0 .. Len(f.code),
               callee : DOMAIN functions \cup {""}]
    BY FoldingFacts
  <2> QED BY <2>1 DEF Learn
<1> HIDE DEF known
<1> QED BY <1>2, <1>3, FoldingKnown

(* An instruction changes.                                                 *)
LEMMA RewriteKeeps ==
  ASSUME NEW f \in Function, Callable(f), NEW functions, NEW a \in Folding(f, functions),
         a.call = 0, NEW i \in 1 .. Len(f.code), NEW new, Replaces(new, a.code[i], f.vregs)
  PROVE  [a EXCEPT !.code[i] = new] \in Folding(f, functions)
<1> DEFINE c == [a.code EXCEPT ![i] = new]
<1>1. a.code \in Rewritten(f)
  BY FoldingFacts
<1>2. c \in Rewritten(f)
  BY <1>1, RewrittenStep
<1>3. [a EXCEPT !.code[i] = new] = [a EXCEPT !.code = c]
  <2>1. a \in [code : Rewritten(f), known : Known(f), call : 0 .. Len(f.code),
               callee : DOMAIN functions \cup {""}]
    BY FoldingFacts
  <2> QED BY <2>1
<1> HIDE DEF c
<1> QED BY <1>2, <1>3, FoldingCode

(* An instruction becomes the load of a value, which is known from then    *)
(* on.                                                                     *)
LEMMA FoldToKeeps ==
  ASSUME NEW f \in Function, Callable(f), NEW functions, NEW a \in Folding(f, functions),
         a.call = 0, NEW i \in 1 .. Len(f.code), a.code[i].op # "LABEL", NEW v \in Operand
  PROVE  FoldTo(a, i, v) \in Folding(f, functions)
<1> DEFINE b == Learn(a, i, v)
           old == a.code[i]
           new == Ins(LoadOf(v), old.dst, <<>>, v)
<1>1. a.code \in Rewritten(f) /\ f.vregs \in Nat
  BY FoldingFacts, CallableFacts
<1>2. old \in Instruction /\ RegsBelow(old, f.vregs)
  BY <1>1, RewrittenFacts
<1>3. Replaces(new, old, f.vregs)
  BY <1>1, <1>2, LoadReplaces
<1>4. b \in Folding(f, functions)
  BY LearnKeeps
<1>5. b.call = 0 /\ b.code = a.code
  <2>1. a \in [code : Rewritten(f), known : Known(f), call : 0 .. Len(f.code),
               callee : DOMAIN functions \cup {""}]
    BY FoldingFacts
  <2> QED BY <2>1 DEF Learn
<1>6. FoldTo(a, i, v) = [b EXCEPT !.code[i] = new]
  <2>1. a \in [code : Rewritten(f), known : Known(f), call : 0 .. Len(f.code),
               callee : DOMAIN functions \cup {""}]
    BY FoldingFacts
  <2>2. DOMAIN a.code = 1 .. Len(f.code)
    BY <1>1, RewrittenFacts
  <2> QED BY <2>1, <2>2 DEF FoldTo, Learn
<1> HIDE DEF b, new
<1>7. Replaces(new, b.code[i], f.vregs)
  BY <1>3, <1>5
<1>8. [b EXCEPT !.code[i] = new] \in Folding(f, functions)
  BY <1>4, <1>5, <1>7, RewriteKeeps
<1> QED BY <1>6, <1>8, Zenon

(* Where a block begins nothing is known.                                  *)
LEMMA ForgottenType ==
  ASSUME NEW f PROVE Forgotten(f.vregs) \in Known(f)
<1>1. Unknown \in Operand
  BY DEF Operand
<1> QED BY <1>1 DEF Forgotten, Known

(* A conditional jump is decided, or is left.                              *)
LEMMA DecideKeeps ==
  ASSUME NEW f \in Function, Callable(f), NEW functions, NEW a \in Folding(f, functions),
         a.call = 0, NEW i \in 1 .. Len(f.code), a.code[i].op \in {"JZ", "JNZ"}, NEW v,
         NEW forgotten \in Known(f)
  PROVE  Decide(a, i, v, forgotten) \in Folding(f, functions)
<1> DEFINE ins == a.code[i]
           taken == Truth(v) = (ins.op = "JNZ")
           new == IF v = Unknown THEN ins ELSE IF taken THEN Jmp(ins.x[2]) ELSE Nop
           b == [a EXCEPT !.known = forgotten]
<1>1. a.code \in Rewritten(f) /\ f.vregs \in Nat
  BY FoldingFacts, CallableFacts
<1>2. ins \in Instruction /\ RegsBelow(ins, f.vregs)
  BY <1>1, RewrittenFacts
<1>3. ins.op \in Jumps /\ ins.op # "LABEL"
  BY DEF Jumps
<1>4. /\ Replaces(ins, ins, f.vregs) /\ Replaces(Nop, ins, f.vregs)
      /\ Replaces(Jmp(ins.x[2]), ins, f.vregs)
  BY <1>1, <1>2, <1>3, SameReplaces, NopReplaces, JumpReplaces
<1>5. Replaces(new, ins, f.vregs)
  BY <1>4
<1>6. b \in Folding(f, functions)
  BY FoldingKnown
<1>7. b.call = 0 /\ b.code = a.code
  <2>1. a \in [code : Rewritten(f), known : Known(f), call : 0 .. Len(f.code),
               callee : DOMAIN functions \cup {""}]
    BY FoldingFacts
  <2> QED BY <2>1
<1>8. Decide(a, i, v, forgotten) = [b EXCEPT !.code[i] = new]
  <2>1. a \in [code : Rewritten(f), known : Known(f), call : 0 .. Len(f.code),
               callee : DOMAIN functions \cup {""}]
    BY FoldingFacts
  <2> QED BY <2>1 DEF Decide
<1> HIDE DEF b, new
<1>9. Replaces(new, b.code[i], f.vregs)
  BY <1>5, <1>7
<1>10. [b EXCEPT !.code[i] = new] \in Folding(f, functions)
  BY <1>6, <1>7, <1>9, RewriteKeeps
<1> QED BY <1>8, <1>10, Zenon

(* A call of a finished function is found.                                 *)
LEMMA CallFound ==
  ASSUME NEW f \in Function, Callable(f), NEW functions, NEW a \in Folding(f, functions),
         NEW i \in 1 .. Len(f.code), a.code[i].op = "CALL", NEW callee \in DOMAIN functions
  PROVE  [a EXCEPT !.call = i, !.callee = callee] \in Folding(f, functions)
<1> DEFINE b == [a EXCEPT !.call = i, !.callee = callee]
<1>1. a \in [code : Rewritten(f), known : Known(f), call : 0 .. Len(f.code),
             callee : DOMAIN functions \cup {""}]
  BY FoldingFacts
<1>2. i \in 0 .. Len(f.code)
  <2>1. Len(f.code) \in Nat
    BY CallableFacts
  <2> QED BY <2>1
<1>3. /\ b \in [code : Rewritten(f), known : Known(f), call : 0 .. Len(f.code),
                callee : DOMAIN functions \cup {""}]
      /\ b.call = i /\ b.callee = callee /\ b.code = a.code
  BY <1>1, <1>2
<1> HIDE DEF b
<1>4. b.call > 0 => b.code[b.call].op = "CALL" /\ b.callee \in DOMAIN functions
  BY <1>3
<1> QED BY <1>3, <1>4 DEF Folding, b

(* Every instruction, whatever its operation.                              *)
LEMMA ConstantStepKeeps ==
  ASSUME NEW f \in Function, Callable(f), NEW functions, NEW a \in Folding(f, functions),
         a.call = 0, NEW i \in 1 .. Len(f.code), NEW forgotten \in Known(f), NEW lvl
  PROVE  ConstantStep(a, i, forgotten, functions, lvl) \in Folding(f, functions)
<1> DEFINE ins   == a.code[i]
           K(k)  == a.known[ins.srcs[k]]
           all   == \A k \in DOMAIN ins.srcs : K(k) # Unknown
           known == a.known[ins.dst]
           S     == Folding(f, functions)
           new   == ConstantStep(a, i, forgotten, functions, lvl)
<1>1. a.code \in Rewritten(f) /\ f.vregs \in Nat /\ a.known \in Known(f)
  BY FoldingFacts, CallableFacts
<1>2. ins \in Instruction /\ RegsBelow(ins, f.vregs)
  BY <1>1, RewrittenFacts
<1>3. ins.srcs \in Seq(Nat) /\ Len(ins.srcs) >= Arity(ins.op) /\ ins.x \in Operand
  BY <1>2, InstructionFields
<1>4. \A k \in 1 .. Len(ins.srcs) : K(k) \in Operand
  <2>1. ASSUME NEW k \in 1 .. Len(ins.srcs) PROVE ins.srcs[k] \in 0 .. f.vregs - 1
    <3>1. ins.srcs[k] \in Nat /\ ins.srcs[k] \in Range(ins.srcs)
      BY <1>3 DEF Range
    <3>2. ins.srcs[k] < f.vregs
      BY <1>2, <3>1 DEF RegsBelow
    <3> QED BY <1>1, <3>1, <3>2
  <2> QED BY <1>1, <2>1 DEF Known
<1>5. /\ ins.op \in Binary => K(1) \in Operand /\ K(2) \in Operand
      /\ ins.op \in Unary \cup {"MOV"} => K(1) \in Operand
  <2>1. ins.op \in Binary => Arity(ins.op) = 2
    BY DEF Arity
  <2>2. ins.op \in Unary \cup {"MOV"} => Arity(ins.op) = 1
    BY DEF Arity, Unary, Binary
  <2>3. Len(ins.srcs) \in Nat
    BY <1>3
  <2> QED BY <1>3, <1>4, <2>1, <2>2, <2>3
<1>6. Unknown \in Operand /\ Null \in Operand
  BY DEF Operand
<1>7. \A v \in Operand : Learn(a, i, v) \in S
  BY LearnKeeps
<1>8. ins.op # "LABEL" => \A v \in Operand : FoldTo(a, i, v) \in S
  BY FoldToKeeps
<1>9. ins.op # "LABEL" => [a EXCEPT !.code[i] = Nop] \in S
  <2>1. ins.op # "LABEL" => Replaces(Nop, ins, f.vregs)
    BY <1>1, <1>2, NopReplaces
  <2> QED BY <2>1, RewriteKeeps
<1>10. [a EXCEPT !.known = forgotten] \in S
  BY FoldingKnown
<1>11. ASSUME ins.op \in {"JZ", "JNZ"} PROVE Decide(a, i, K(1), forgotten) \in S
  BY <1>11, DecideKeeps
<1>12. ASSUME ins.op = "CALL", NEW g \in DOMAIN functions
       PROVE  [a EXCEPT !.call = i, !.callee = g] \in S
  BY <1>12, CallFound
<1> HIDE DEF S
<1>13. CASE ins.op \in Flushes
  <2>1. new = [a EXCEPT !.known = forgotten]
    BY <1>13 DEF ConstantStep, Flushes, Binary, Unary
  <2> QED BY <1>10, <2>1 DEF S
<1>14. CASE ins.op \in {"JZ", "JNZ"}
  <2>1. new = Decide(a, i, K(1), forgotten)
    BY <1>14 DEF ConstantStep, Flushes, Binary, Unary
  <2> QED BY <1>11, <1>14, <2>1 DEF S
<1>15. CASE ins.op \in {"LOADFN", "MOVI", "MOVF"}
  <2>1. new = Learn(a, i, ins.x)
    BY <1>15 DEF ConstantStep, Flushes, Binary, Unary
  <2> QED BY <1>3, <1>7, <2>1 DEF S
<1>16. CASE ins.op = "MOV"
  <2>1. \/ new = Learn(a, i, Unknown)
        \/ new = [a EXCEPT !.code[i] = Nop]
        \/ new = FoldTo(a, i, K(1))
    BY <1>16 DEF ConstantStep, Flushes, Binary, Unary
  <2> QED BY <1>5, <1>6, <1>7, <1>8, <1>9, <1>16, <2>1 DEF S
<1>17. CASE ins.op \in Binary
  <2>1. \/ new = FoldTo(a, i, BoolOf(ins.op = "EQL"))
        \/ new = FoldTo(a, i, Operate(ins.op, K(1), K(2)))
        \/ new = Learn(a, i, Unknown)
    BY <1>17 DEF ConstantStep, Flushes, Binary, Unary
  <2>2. BoolOf(ins.op = "EQL") \in Operand /\ Operate(ins.op, K(1), K(2)) \in Operand
    BY <1>5, <1>17, BoolOperand, OperateType
  <2>3. ins.op # "LABEL"
    BY <1>17 DEF Binary
  <2> QED BY <1>6, <1>7, <1>8, <2>1, <2>2, <2>3 DEF S
<1>18. CASE ins.op \in Unary
  <2>1. new = FoldTo(a, i, Operate(ins.op, Null, K(1))) \/ new = Learn(a, i, Unknown)
    BY <1>18 DEF ConstantStep, Flushes, Binary, Unary
  <2>2. Operate(ins.op, Null, K(1)) \in Operand
    BY <1>5, <1>6, <1>18, OperateType
  <2>3. ins.op # "LABEL"
    BY <1>18 DEF Unary
  <2> QED BY <1>6, <1>7, <1>8, <2>1, <2>2, <2>3 DEF S
<1>19. CASE ins.op = "CALL"
  <2>1. \/ new = Learn(a, i, Unknown)
        \/ new = a
        \/ K(1)[2] \in DOMAIN functions /\ new = [a EXCEPT !.call = i, !.callee = K(1)[2]]
    BY <1>19 DEF ConstantStep, Flushes, Binary, Unary
  <2>2. PICK g : g = K(1)[2]
    OBVIOUS
  <2>3. g \in DOMAIN functions => [a EXCEPT !.call = i, !.callee = g] \in S
    BY <1>12, <1>19, Zenon
  <2>4. Learn(a, i, Unknown) \in S
    BY <1>6, <1>7
  <2>5. K(1)[2] \in DOMAIN functions => [a EXCEPT !.call = i, !.callee = K(1)[2]] \in S
    BY <2>2, <2>3, Zenon
  <2>6. a \in S
    BY DEF S
  <2> HIDE DEF K, new
  <2> QED BY <2>1, <2>4, <2>5, <2>6, Zenon DEF S, new
<1>20. CASE ins.op \notin Flushes \cup {"JZ", "JNZ", "LOADFN", "MOVI", "MOVF", "MOV", "CALL"}
                          \cup Binary \cup Unary
  <2>1. new = Learn(a, i, Unknown) \/ new = a
    BY <1>20 DEF ConstantStep
  <2> QED BY <1>6, <1>7, <2>1 DEF S
<1> QED BY <1>13, <1>14, <1>15, <1>16, <1>17, <1>18, <1>19, <1>20

(* The pass, up to its end or to the call that is to be inlined.           *)
FoldFrom(a, i, f, functions, lvl) ==
  IF a.call > 0 THEN a
  ELSE ConstantStep(IF i \in Headers(f.code) THEN [a EXCEPT !.known = Forgotten(f.vregs)] ELSE a,
                    i, Forgotten(f.vregs), functions, lvl)
FoldStart(f) == [code |-> f.code, known |-> Forgotten(f.vregs), call |-> 0, callee |-> ""]
Folds(g, f, functions, lvl) ==
  g = [i \in 0 .. Len(f.code) |->
         IF i = 0 THEN FoldStart(f) ELSE FoldFrom(g[i - 1], i, f, functions, lvl)]
FoldEnd(f, functions, lvl) == (CHOOSE g : Folds(g, f, functions, lvl))[Len(f.code)]

(* The pass is what this recursive function ends with, and an inlining.    *)
LEMMA PropagateConstantsIs ==
  ASSUME NEW f, NEW functions, NEW lvl
  PROVE  LET end    == FoldEnd(f, functions, lvl)
             folded == [f EXCEPT !.code = end.code]
         IN PropagateConstants(f, functions, lvl) =
              IF end.call > 0 THEN Inline(folded, end.call, functions[end.callee]) ELSE folded
BY DEF PropagateConstants, FoldEnd, Folds, FoldFrom, FoldStart

(* One step of it.                                                         *)
LEMMA FoldFromKeeps ==
  ASSUME NEW f \in Function, Callable(f), NEW functions, NEW a \in Folding(f, functions),
         NEW i \in 1 .. Len(f.code), NEW lvl
  PROVE  FoldFrom(a, i, f, functions, lvl) \in Folding(f, functions)
<1> DEFINE forgotten == Forgotten(f.vregs)
           b == IF i \in Headers(f.code) THEN [a EXCEPT !.known = forgotten] ELSE a
<1>1. forgotten \in Known(f)
  BY ForgottenType
<1>2. [a EXCEPT !.known = forgotten] \in Folding(f, functions)
  BY <1>1, FoldingKnown
<1>3. b \in Folding(f, functions)
  BY <1>2
<1>4. a.call \in Nat /\ b.call = a.call
  <2>1. a \in [code : Rewritten(f), known : Known(f), call : 0 .. Len(f.code),
               callee : DOMAIN functions \cup {""}]
    BY FoldingFacts
  <2>2. b.call = a.call
    BY <2>1
  <2>3. f.code \in Seq(Instruction)
    BY CallableFacts
  <2>4. a.call \in 0 .. Len(f.code)
    BY FoldingFacts
  <2> QED BY <2>2, <2>3, <2>4
<1>5. FoldFrom(a, i, f, functions, lvl)
        = IF a.call > 0 THEN a ELSE ConstantStep(b, i, forgotten, functions, lvl)
  BY DEF FoldFrom
<1> HIDE DEF b, forgotten
<1>6. a.call = 0 => ConstantStep(b, i, forgotten, functions, lvl) \in Folding(f, functions)
  BY <1>1, <1>3, <1>4, ConstantStepKeeps
<1>7. a.call > 0 \/ a.call = 0
  BY <1>4
<1> QED BY <1>4, <1>5, <1>6, <1>7

(* Its beginning.                                                          *)
LEMMA FoldStartType ==
  ASSUME NEW f \in Function, Callable(f), NEW functions
  PROVE  FoldStart(f) \in Folding(f, functions)
<1>1. f.code \in Rewritten(f) /\ Forgotten(f.vregs) \in Known(f) /\ Len(f.code) \in Nat
  BY RewrittenStart, ForgottenType, CallableFacts
<1>2. /\ FoldStart(f) \in [code : Rewritten(f), known : Known(f), call : 0 .. Len(f.code),
                           callee : DOMAIN functions \cup {""}]
      /\ FoldStart(f).call = 0
  BY <1>1 DEF FoldStart
<1>3. ~(FoldStart(f).call > 0)
  <2>1. FoldStart(f).call = 0
    BY <1>2
  <2> QED BY <2>1
<1> QED BY <1>2, <1>3 DEF Folding

(* Its end: the function exists because every step stays in the set.       *)
LEMMA FoldEndKeeps ==
  ASSUME NEW f \in Function, Callable(f), NEW functions, NEW lvl
  PROVE  FoldEnd(f, functions, lvl) \in Folding(f, functions)
<1> DEFINE n == Len(f.code)
           S == Folding(f, functions)
           base == FoldStart(f)
           Next(a, i) == FoldFrom(a, i, f, functions, lvl)
           step == [p \in (1 .. n) \X S |-> Next(p[2], p[1])]
           after == CHOOSE g : Folds(g, f, functions, lvl)
<1>1. n \in Nat /\ base \in S
  BY CallableFacts, FoldStartType
<1>2. \A a \in S, i \in 1 .. n : Next(a, i) \in S
  BY FoldFromKeeps
<1> HIDE DEF n, S, base, Next
<1>3. step \in [(1 .. n) \X S -> S]
  BY <1>2
<1>4. PICK g : Recursive(g, S, base, n, step)
  <2> HIDE DEF step
  <2> QED BY <1>1, <1>3, RecursionExists
<1>5. g \in [0 .. n -> S] /\ g[0] = base /\ \A i \in 1 .. n : g[i] = step[<<i, g[i - 1]>>]
  BY <1>4 DEF Recursive
<1>6. Folds(g, f, functions, lvl)
  <2>1. ASSUME NEW i \in 1 .. n PROVE g[i] = Next(g[i - 1], i)
    <3>1. g[i - 1] \in S
      BY <1>1, <1>5
    <3>2. g[i] = step[<<i, g[i - 1]>>]
      BY <1>5
    <3> QED BY <3>1, <3>2
  <2> HIDE DEF step
  <2>2. \A i \in 0 .. n : g[i] = IF i = 0 THEN base ELSE Next(g[i - 1], i)
    BY <1>1, <1>5, <2>1
  <2>3. g = [i \in 0 .. n |-> IF i = 0 THEN base ELSE Next(g[i - 1], i)]
    BY <1>5, <2>2
  <2> QED BY <2>3 DEF Folds, n, base, Next
<1>7. Folds(after, f, functions, lvl)
  BY <1>6
<1> HIDE DEF after
<1>8. after = [i \in 0 .. n |-> IF i = 0 THEN base ELSE Next(after[i - 1], i)]
  BY <1>7 DEF Folds, n, base, Next
<1>9. ASSUME NEW i \in 1 .. n, after[i - 1] \in S PROVE after[i] \in S
  <2>1. i \in 0 .. n /\ i # 0
    BY <1>1
  <2>2. after[i] = Next(after[i - 1], i)
    BY <1>8, <2>1
  <2> QED BY <1>2, <1>9, <2>2
<1>10. after[0] \in S
  BY <1>1, <1>8
<1>11. after[n] \in S
  BY <1>1, <1>9, <1>10, StaysIn
<1> QED BY <1>11 DEF FoldEnd, after, n, S

-----------------------------------------------------------------------------
(* Inlining.  The operand of a label or of a jump is a label.              *)
LEMMA LabelOperand ==
  ASSUME NEW x \in Operand, x[1] = "label"
  PROVE  x \in {"label"} \X Nat /\ x = <<"label", x[2]>> /\ x[2] \in Nat
<1>1. x \in {"label"} \X Nat
  BY DEF Operand, Null, Plain, Unknown
<1> QED BY <1>1

(* The labels and the jumps of code are labels.                            *)
LEMMA LabelParts ==
  ASSUME NEW s \in Seq(Instruction), NEW x \in LabelsOf(s) \cup JumpsOf(s)
  PROVE  x \in {"label"} \X Nat
<1>1. PICK i \in DOMAIN s : s[i].op \in Jumps \cup {"LABEL"} /\ x = s[i].x
  BY DEF LabelsOf, JumpsOf
<1>2. s[i] \in Instruction
  BY <1>1
<1>3. x \in Operand /\ x[1] = "label"
  BY <1>1, <1>2, InstructionFields
<1> QED BY <1>3, LabelOperand

(* The label at the end and the move of a returned value.                  *)
LEMMA LabelType ==
  ASSUME NEW l \in Nat, NEW n \in Nat
  PROVE  /\ Label(l) \in Instruction /\ RegsBelow(Label(l), n)
         /\ Label(l).op = "LABEL" /\ Label(l).x = <<"label", l>>
         /\ Jmp(l) \in Instruction /\ RegsBelow(Jmp(l), n)
         /\ Jmp(l).op = "JMP" /\ Jmp(l).x = <<"label", l>>
<1>1. <<"label", l>> \in Operand /\ <<"label", l>>[1] = "label"
  BY DEF Operand
<1>2. \A op \in {"LABEL", "JMP"} : op \in Opcodes /\ Arity(op) = 0
  BY DEF Opcodes, Arity, Binary, Unary, Jumps
<1>3. None \in Nat \cup {None} /\ <<>> \in Seq(Nat) /\ Len(<<>>) = 0 /\ Range(<<>>) = {}
  BY DEF Range
<1>4. ASSUME NEW op \in {"LABEL", "JMP"}
      PROVE  LET ins == Ins(op, None, <<>>, <<"label", l>>)
             IN ins \in Instruction /\ RegsBelow(ins, n) /\ ins.op = op /\ ins.x = <<"label", l>>
  <2> DEFINE ins == Ins(op, None, <<>>, <<"label", l>>)
  <2>1. /\ ins.op = op /\ ins.dst = None /\ ins.srcs = <<>> /\ ins.x = <<"label", l>>
        /\ ins = [op |-> op, dst |-> None, srcs |-> <<>>, x |-> <<"label", l>>]
    BY DEF Ins
  <2> HIDE DEF ins
  <2>2. ins \in [op : Opcodes, dst : Nat \cup {None}, srcs : Seq(Nat), x : Operand]
    BY <1>1, <1>2, <1>3, <2>1, Zenon
  <2>3. Len(ins.srcs) >= Arity(ins.op) /\ ins.x[1] = "label"
    BY <1>1, <1>2, <1>3, <2>1
  <2>4. ins \in Instruction
    BY <2>2, <2>3, InstructionType
  <2>5. RegsBelow(ins, n)
    BY <1>3, <2>1 DEF RegsBelow, None
  <2> QED BY <2>1, <2>4, <2>5 DEF ins
<1> QED BY <1>4 DEF Label, Jmp

(* The move of a returned value to where the call put it.                  *)
LEMMA MovType ==
  ASSUME NEW d \in Nat \cup {None}, NEW r \in Nat, NEW n \in Nat, d < n, r < n
  PROVE  Mov(d, r) \in Instruction /\ RegsBelow(Mov(d, r), n) /\ Mov(d, r).op = "MOV"
<1> DEFINE ins == Mov(d, r)
<1>1. /\ ins.op = "MOV" /\ ins.dst = d /\ ins.srcs = <<r>> /\ ins.x = Plain
      /\ ins = [op |-> "MOV", dst |-> d, srcs |-> <<r>>, x |-> Plain]
  BY DEF Mov, Ins
<1> HIDE DEF ins
<1>2. "MOV" \in Opcodes /\ Arity("MOV") = 1 /\ Plain \in Operand
  BY DEF Opcodes, Arity, Binary, Unary, Operand
<1>3. <<r>> \in Seq(Nat) /\ Len(<<r>>) = 1
  OBVIOUS
<1>4. ins \in [op : Opcodes, dst : Nat \cup {None}, srcs : Seq(Nat), x : Operand]
  BY <1>1, <1>2, <1>3, Zenon
<1>5. Len(ins.srcs) >= Arity(ins.op) /\ ins.op \notin Jumps \cup {"LABEL"}
  BY <1>1, <1>2, <1>3 DEF Jumps
<1>6. ins \in Instruction
  BY <1>4, <1>5, InstructionType
<1>7. Range(<<r>>) = {r}
  BY DEF Range
<1>8. RegsBelow(ins, n)
  BY <1>1, <1>7 DEF RegsBelow
<1> QED BY <1>1, <1>6, <1>8 DEF ins

(* Registers past the caller's.                                            *)
LEMMA MovedRegType ==
  ASSUME NEW m \in Nat, General <= m, NEW n \in Nat, NEW r, r < n
  PROVE  /\ r \in Nat => MovedReg(r, m) \in Nat
         /\ r \in Nat \cup {None} => MovedReg(r, m) \in Nat \cup {None} /\ MovedReg(r, m) < m + n
BY ArgRegsAssumption DEF MovedReg, General, None

(* An instruction of the callee in its new place.                          *)
LEMMA MovedType ==
  ASSUME NEW f, f.vregs \in Nat, General <= f.vregs, f.labels \in Nat, NEW n \in Nat,
         NEW ins \in Instruction, RegsBelow(ins, n)
  PROVE  /\ Moved(ins, f) \in Instruction /\ RegsBelow(Moved(ins, f), f.vregs + n)
         /\ Moved(ins, f).op = ins.op /\ Moved(ins, f).x = MovedLabel(ins.x, f.labels)
<1> DEFINE m == f.vregs
           k == f.labels
           new == Moved(ins, f)
           srcs == [i \in DOMAIN ins.srcs |-> MovedReg(ins.srcs[i], m)]
           dst == MovedReg(ins.dst, m)
           x == MovedLabel(ins.x, k)
<1>1. /\ ins \in [op : Opcodes, dst : Nat \cup {None}, srcs : Seq(Nat), x : Operand]
      /\ ins.op \in Opcodes /\ ins.dst \in Nat \cup {None}
      /\ ins.srcs \in Seq(Nat) /\ ins.x \in Operand
      /\ Len(ins.srcs) >= Arity(ins.op)
      /\ ins.op \in Jumps \cup {"LABEL"} => ins.x[1] = "label"
  BY InstructionFields
<1>2. new = [op |-> ins.op, dst |-> dst, srcs |-> srcs, x |-> x]
  <2>1. new = [ins EXCEPT !.dst = dst, !.srcs = srcs, !.x = x]
    <3>1. [ins EXCEPT !.srcs = [i \in DOMAIN @ |-> MovedReg(@[i], m)]] = [ins EXCEPT !.srcs = srcs]
      OBVIOUS
    <3> QED BY <3>1 DEF Moved
  <2> HIDE DEF dst, srcs, x, new
  <2> QED BY <1>1, <2>1
<1>3. dst \in Nat \cup {None} /\ dst < m + n
  <2>1. ins.dst < n
    BY DEF RegsBelow
  <2> QED BY <1>1, <2>1, MovedRegType
<1>4. /\ srcs \in Seq(Nat) /\ Len(srcs) = Len(ins.srcs)
      /\ \A i \in DOMAIN srcs : srcs[i] < m + n
  <2>1. DOMAIN ins.srcs = 1 .. Len(ins.srcs) /\ Len(ins.srcs) \in Nat
    BY <1>1
  <2>2. ASSUME NEW i \in 1 .. Len(ins.srcs) PROVE srcs[i] \in Nat /\ srcs[i] < m + n
    <3>1. ins.srcs[i] \in Nat /\ ins.srcs[i] \in Range(ins.srcs)
      BY <1>1, <2>1 DEF Range
    <3>2. ins.srcs[i] < n
      BY <3>1 DEF RegsBelow
    <3>3. MovedReg(ins.srcs[i], m) \in Nat /\ MovedReg(ins.srcs[i], m) < m + n
      BY <3>1, <3>2, MovedRegType
    <3> QED BY <2>1, <3>3
  <2>3. srcs \in [1 .. Len(ins.srcs) -> Nat]
    BY <2>1, <2>2
  <2>4. DOMAIN srcs = 1 .. Len(ins.srcs)
    BY <2>1
  <2> HIDE DEF srcs
  <2> QED BY <2>1, <2>2, <2>3, <2>4
<1>5. x \in Operand /\ (ins.x[1] = "label" => x[1] = "label")
  <2>1. CASE ins.x[1] = "label"
    <3>1. x = <<"label", ins.x[2] + k>> /\ ins.x[2] + k \in Nat
      BY <1>1, <2>1, LabelOperand DEF MovedLabel
    <3> QED BY <3>1 DEF Operand
  <2>2. CASE ins.x[1] # "label"
    BY <1>1, <2>2 DEF MovedLabel
  <2> QED BY <2>1, <2>2
<1> HIDE DEF dst, srcs, x, new
<1>6. /\ new.op = ins.op /\ new.dst = dst /\ new.srcs = srcs /\ new.x = x
      /\ new \in [op : Opcodes, dst : Nat \cup {None}, srcs : Seq(Nat), x : Operand]
  BY <1>1, <1>2, <1>3, <1>4, <1>5
<1>7. new \in Instruction
  <2>1. Len(new.srcs) >= Arity(new.op)
    BY <1>1, <1>4, <1>6
  <2>2. new.op \in Jumps \cup {"LABEL"} => new.x[1] = "label"
    BY <1>1, <1>5, <1>6
  <2> QED BY <1>6, <2>1, <2>2, InstructionType
<1>8. RegsBelow(new, m + n)
  BY <1>3, <1>4, <1>6 DEF RegsBelow, Range
<1> QED BY <1>6, <1>7, <1>8 DEF new, x

(* What an instruction of the callee becomes, a return included.           *)
LEMMA PastedParts ==
  ASSUME NEW f, f.vregs \in Nat, General <= f.vregs, f.labels \in Nat, NEW n \in Nat,
         NEW ins \in Instruction, RegsBelow(ins, n),
         NEW dst \in Nat \cup {None}, dst < f.vregs, NEW end \in Nat
  PROVE  LET p == Pasted(ins, f, dst, end)
             x == MovedLabel(ins.x, f.labels)
         IN /\ p \in Seq(Instruction) /\ Once(p) /\ Below(p, f.vregs + n)
            /\ LabelsOf(p) = IF ins.op = "LABEL" THEN {x} ELSE {}
            /\ JumpsOf(p) = IF ins.op = "RET" THEN {<<"label", end>>}
                            ELSE IF ins.op \in Jumps THEN {x} ELSE {}
<1> DEFINE p == Pasted(ins, f, dst, end)
           x == MovedLabel(ins.x, f.labels)
           m == f.vregs + n
<1>1. m \in Nat
  OBVIOUS
<1>2. CASE ins.op = "RET"
  <2> DEFINE r == MovedReg(ins.srcs[1], f.vregs)
             a == Mov(dst, r)
             b == Jmp(end)
  <2>1. p = <<a, b>> /\ <<a, b>> = <<a>> \o <<b>>
    BY <1>2 DEF Pasted
  <2>2. ins.srcs[1] \in Nat /\ ins.srcs[1] < n
    <3>1. Arity("RET") = 1
      BY DEF Arity, Binary, Unary
    <3>2. ins.srcs \in Seq(Nat) /\ Len(ins.srcs) >= 1
      BY <1>2, <3>1, InstructionFields
    <3>3. ins.srcs[1] \in Nat /\ ins.srcs[1] \in Range(ins.srcs)
      BY <3>2 DEF Range
    <3> QED BY <3>3 DEF RegsBelow
  <2>3. r \in Nat /\ r < m /\ dst < m
    <3>1. r \in Nat /\ MovedReg(ins.srcs[1], f.vregs) < f.vregs + n
      BY <2>2, MovedRegType
    <3>2. dst < m
      BY DEF None
    <3> QED BY <3>1, <3>2
  <2> HIDE DEF r, m, p
  <2>4. a \in Instruction /\ RegsBelow(a, m) /\ a.op = "MOV"
    BY <1>1, <2>3, MovType
  <2>5. b \in Instruction /\ RegsBelow(b, m) /\ b.op = "JMP" /\ b.x = <<"label", end>>
    BY <1>1, LabelType
  <2> HIDE DEF a, b
  <2>6. /\ <<a>> \in Seq(Instruction) /\ Once(<<a>>) /\ Below(<<a>>, m)
        /\ LabelsOf(<<a>>) = {} /\ JumpsOf(<<a>>) = {}
    BY <2>4, SingleParts DEF Jumps
  <2>7. /\ <<b>> \in Seq(Instruction) /\ Once(<<b>>) /\ Below(<<b>>, m)
        /\ LabelsOf(<<b>>) = {} /\ JumpsOf(<<b>>) = {<<"label", end>>}
    BY <2>5, SingleParts DEF Jumps
  <2>8. /\ p \in Seq(Instruction)
        /\ LabelsOf(p) = LabelsOf(<<a>>) \cup LabelsOf(<<b>>)
        /\ JumpsOf(p) = JumpsOf(<<a>>) \cup JumpsOf(<<b>>)
        /\ Once(p) /\ Below(p, m)
    <3> DEFINE s == <<a>>
               t == <<b>>
    <3>1. s \in Seq(Instruction) /\ t \in Seq(Instruction) /\ p = s \o t
      BY <2>1, <2>6, <2>7
    <3>2. /\ Once(s) /\ Once(t) /\ Below(s, m) /\ Below(t, m)
          /\ LabelsOf(s) \cap LabelsOf(t) = {}
      BY <2>6, <2>7
    <3> HIDE DEF s, t
    <3>3. /\ s \o t \in Seq(Instruction) /\ LabelsOf(s \o t) = LabelsOf(s) \cup LabelsOf(t)
          /\ JumpsOf(s \o t) = JumpsOf(s) \cup JumpsOf(t)
          /\ Once(s \o t) /\ Below(s \o t, m)
      BY <3>1, <3>2, JoinedParts
    <3> QED BY <3>1, <3>3 DEF s, t
  <2>9. LabelsOf(p) = {} /\ JumpsOf(p) = {<<"label", end>>} /\ ins.op # "LABEL"
    BY <1>2, <2>6, <2>7, <2>8
  <2> QED BY <1>2, <2>8, <2>9 DEF p, m
<1>3. CASE ins.op # "RET"
  <2> DEFINE new == Moved(ins, f)
  <2>1. p = <<new>>
    BY <1>3 DEF Pasted
  <2>2. new \in Instruction /\ RegsBelow(new, m) /\ new.op = ins.op /\ new.x = x
    BY MovedType
  <2> HIDE DEF new, p, x, m
  <2>3. p \in Seq(Instruction) /\ Once(p) /\ Below(p, m)
    BY <2>1, <2>2, SingleParts
  <2>4. /\ LabelsOf(p) = IF ins.op = "LABEL" THEN {x} ELSE {}
        /\ JumpsOf(p) = IF ins.op \in Jumps THEN {x} ELSE {}
    BY <2>1, <2>2, SingleParts
  <2> QED BY <1>3, <2>3, <2>4 DEF p, x, m
<1> QED BY <1>2, <1>3

(* The caller without its call.                                            *)
LEMMA CutParts ==
  ASSUME NEW s \in Seq(Instruction), NEW at \in 1 .. Len(s),
         s[at].op \notin Jumps \cup {"LABEL"}, Once(s), NEW n, Below(s, n)
  PROVE  LET a == SubSeq(s, 1, at - 1)
             b == SubSeq(s, at + 1, Len(s))
         IN /\ a \in Seq(Instruction) /\ b \in Seq(Instruction)
            /\ Once(a) /\ Once(b) /\ Below(a, n) /\ Below(b, n)
            /\ LabelsOf(a) \cap LabelsOf(b) = {}
            /\ LabelsOf(s) = LabelsOf(a) \cup LabelsOf(b)
            /\ JumpsOf(s) = JumpsOf(a) \cup JumpsOf(b)
<1> DEFINE a == SubSeq(s, 1, at - 1)
           b == SubSeq(s, at + 1, Len(s))
           N == Len(s)
           L == at - 1
           M == N - at
<1>1. N \in Nat /\ at \in Nat /\ L \in Nat /\ M \in Nat /\ DOMAIN s = 1 .. N
  OBVIOUS
<1>2. a \in Seq(Instruction) /\ DOMAIN a = 1 .. L /\ \A i \in 1 .. L : a[i] = s[i]
  OBVIOUS
<1>3. b \in Seq(Instruction) /\ DOMAIN b = 1 .. M /\ \A i \in 1 .. M : b[i] = s[at + i]
  OBVIOUS
<1>4. /\ \A i \in 1 .. L : i \in 1 .. N /\ i < at
      /\ \A i \in 1 .. M : at + i \in 1 .. N /\ at < at + i
      /\ \A i \in 1 .. N : i \in 1 .. L \/ i = at \/ \E j \in 1 .. M : i = at + j
  <2>1. \A i \in 1 .. L : i \in 1 .. N /\ i < at
    BY <1>1
  <2>2. \A i \in 1 .. M : at + i \in 1 .. N /\ at < at + i
    BY <1>1
  <2>3. ASSUME NEW i \in 1 .. N, i \notin 1 .. L, i # at PROVE \E j \in 1 .. M : i = at + j
    <3>1. i - at \in 1 .. M /\ i = at + (i - at)
      BY <1>1, <2>3
    <3> QED BY <3>1
  <2> QED BY <2>1, <2>2, <2>3
<1> HIDE DEF a, b, N, L, M
<1>5. ASSUME NEW x
      PROVE  x \in LabelsOf(s) <=> x \in LabelsOf(a) \/ x \in LabelsOf(b)
  <2>1. x \in LabelsOf(s) <=> \E i \in 1 .. N : s[i].op = "LABEL" /\ x = s[i].x
    BY <1>1 DEF LabelsOf
  <2>2. x \in LabelsOf(a) <=> \E i \in 1 .. L : s[i].op = "LABEL" /\ x = s[i].x
    BY <1>2 DEF LabelsOf
  <2>3. x \in LabelsOf(b) <=> \E i \in 1 .. M : s[at + i].op = "LABEL" /\ x = s[at + i].x
    BY <1>3 DEF LabelsOf
  <2> QED BY <1>4, <2>1, <2>2, <2>3
<1>6. ASSUME NEW x
      PROVE  x \in JumpsOf(s) <=> x \in JumpsOf(a) \/ x \in JumpsOf(b)
  <2>1. x \in JumpsOf(s) <=> \E i \in 1 .. N : s[i].op \in Jumps /\ x = s[i].x
    BY <1>1 DEF JumpsOf
  <2>2. x \in JumpsOf(a) <=> \E i \in 1 .. L : s[i].op \in Jumps /\ x = s[i].x
    BY <1>2 DEF JumpsOf
  <2>3. x \in JumpsOf(b) <=> \E i \in 1 .. M : s[at + i].op \in Jumps /\ x = s[at + i].x
    BY <1>3 DEF JumpsOf
  <2> QED BY <1>4, <2>1, <2>2, <2>3
<1>7. Below(a, n) /\ Below(b, n)
  BY <1>1, <1>2, <1>3, <1>4 DEF Below
<1>8. Once(a)
  BY <1>1, <1>2, <1>4 DEF Once
<1>9. Once(b)
  <2> SUFFICES ASSUME NEW i \in 1 .. M, NEW j \in 1 .. M,
                      b[i].op = "LABEL", b[j].op = "LABEL", b[i].x = b[j].x
               PROVE  i = j
    BY <1>3 DEF Once
  <2>1. at + i = at + j
    BY <1>1, <1>3, <1>4 DEF Once
  <2> QED BY <1>1, <2>1
<1>10. LabelsOf(a) \cap LabelsOf(b) = {}
  <2> SUFFICES ASSUME NEW i \in 1 .. L, NEW j \in 1 .. M,
                      s[i].op = "LABEL", s[at + j].op = "LABEL", s[i].x = s[at + j].x
               PROVE  FALSE
    BY <1>2, <1>3 DEF LabelsOf
  <2>1. i = at + j
    BY <1>1, <1>4 DEF Once
  <2> QED BY <1>1, <1>4, <2>1
<1> QED BY <1>2, <1>3, <1>5, <1>6, <1>7, <1>8, <1>9, <1>10 DEF a, b, N

(* The callee's code as it is pasted: its labels are its own moved past    *)
(* the caller's, its jumps go there or to the end.                         *)
Body(f, callee, dst) ==
  FlattenSeq([k \in DOMAIN callee.code |->
                Pasted(callee.code[k], f, dst, f.labels + callee.labels)])

(* Its labels lie between the caller's labels and the one at the end.      *)
LEMMA BodyParts ==
  ASSUME NEW f, f.vregs \in Nat, General <= f.vregs, f.labels \in Nat,
         NEW callee, Callable(callee), NEW dst \in Nat \cup {None}, dst < f.vregs
  PROVE  LET b   == Body(f, callee, dst)
             end == <<"label", f.labels + callee.labels>>
         IN /\ b \in Seq(Instruction) /\ Once(b) /\ Below(b, f.vregs + callee.vregs)
            /\ \A x \in LabelsOf(b) :
                 x[2] \in f.labels .. f.labels + callee.labels - 1
            /\ JumpsOf(b) \subseteq LabelsOf(b) \cup {end}
<1> DEFINE code == callee.code
           n == callee.vregs
           l == f.labels
           at == l + callee.labels
           Piece(i) == Pasted(code[i], f, dst, at)
           To(x) == MovedLabel(x, l)
           ss == [i \in DOMAIN code |-> Piece(i)]
           b == FlattenSeq(ss)
           m == f.vregs + n
<1>1. /\ code \in Seq(Instruction) /\ n \in Nat /\ callee.labels \in Nat
      /\ \A i \in 1 .. Len(code) : code[i] \in Instruction /\ RegsBelow(code[i], n)
  BY CallableFacts
<1>2. /\ Once(code) /\ JumpsOf(code) \subseteq LabelsOf(code)
      /\ \A x \in LabelsOf(code) : x[2] < callee.labels
  BY ResolvesByParts DEF Callable
<1>3. DOMAIN code = 1 .. Len(code) /\ Len(code) \in Nat /\ at \in Nat /\ l \in Nat
  BY <1>1
<1> HIDE DEF code, n, at, l
<1>4. ASSUME NEW i \in 1 .. Len(code)
      PROVE  /\ Piece(i) \in Seq(Instruction) /\ Once(Piece(i)) /\ Below(Piece(i), m)
             /\ LabelsOf(Piece(i)) = IF code[i].op = "LABEL" THEN {To(code[i].x)} ELSE {}
             /\ JumpsOf(Piece(i)) = IF code[i].op = "RET" THEN {<<"label", at>>}
                                    ELSE IF code[i].op \in Jumps THEN {To(code[i].x)} ELSE {}
  BY <1>1, <1>3, PastedParts DEF l
<1>5. ss \in Seq(Seq(Instruction)) /\ Len(ss) = Len(code)
  <2>1. ss \in [1 .. Len(code) -> Seq(Instruction)]
    BY <1>3, <1>4
  <2> QED BY <1>3, <2>1
<1>6. \A i \in 1 .. Len(code) : ss[i] = Piece(i)
  BY <1>3
<1>7. \A x \in LabelsOf(code) \cup JumpsOf(code) :
        x \in {"label"} \X Nat /\ To(x) = <<"label", x[2] + l>>
  <2>1. \A x \in LabelsOf(code) \cup JumpsOf(code) : x \in {"label"} \X Nat
    BY <1>1, LabelParts
  <2> QED BY <2>1 DEF MovedLabel
<1>8. \A x, y \in LabelsOf(code) : To(x) = To(y) => x = y
  <2> SUFFICES ASSUME NEW x \in LabelsOf(code), NEW y \in LabelsOf(code), To(x) = To(y)
               PROVE  x = y
    OBVIOUS
  <2>1. x \in {"label"} \X Nat /\ y \in {"label"} \X Nat /\ x[2] + l = y[2] + l
    BY <1>7
  <2>2. x[2] = y[2]
    BY <1>3, <2>1
  <2> QED BY <2>1, <2>2
<1>9. \A i \in 1 .. Len(code) :
        /\ code[i].op = "LABEL" => code[i].x \in LabelsOf(code)
        /\ code[i].op \in Jumps => code[i].x \in JumpsOf(code)
  BY <1>3 DEF LabelsOf, JumpsOf
<1> HIDE DEF ss, Piece, To, m
<1>10. ASSUME NEW i \in 1 .. Len(ss), NEW j \in 1 .. Len(ss), i # j
       PROVE  LabelsOf(ss[i]) \cap LabelsOf(ss[j]) = {}
  <2>1. i \in 1 .. Len(code) /\ j \in 1 .. Len(code) /\ ss[i] = Piece(i) /\ ss[j] = Piece(j)
    BY <1>5, <1>6
  <2>2. ~(code[i].op = "LABEL" /\ code[j].op = "LABEL" /\ To(code[i].x) = To(code[j].x))
    BY <1>2, <1>3, <1>8, <1>9, <1>10, <2>1 DEF Once
  <2> QED BY <1>4, <2>1, <2>2
<1>11. \A i \in 1 .. Len(ss) : Once(ss[i]) /\ Below(ss[i], m)
  BY <1>4, <1>5, <1>6
<1>12. /\ b \in Seq(Instruction) /\ Once(b) /\ Below(b, m)
       /\ LabelsOf(b) = UNION {LabelsOf(ss[i]) : i \in 1 .. Len(ss)}
       /\ JumpsOf(b) = UNION {JumpsOf(ss[i]) : i \in 1 .. Len(ss)}
  BY <1>5, <1>10, <1>11, FlattenParts
<1> HIDE DEF b
<1>13. ASSUME NEW x
       PROVE  x \in LabelsOf(b) <=> \E y \in LabelsOf(code) : x = To(y)
  <2>1. x \in LabelsOf(b) <=> \E i \in 1 .. Len(code) : x \in LabelsOf(ss[i])
    BY <1>5, <1>12
  <2>2. \A i \in 1 .. Len(code) :
          x \in LabelsOf(ss[i]) <=> code[i].op = "LABEL" /\ x = To(code[i].x)
    BY <1>4, <1>6
  <2>3. (\E y \in LabelsOf(code) : x = To(y))
          <=> \E i \in 1 .. Len(code) : code[i].op = "LABEL" /\ x = To(code[i].x)
    BY <1>3 DEF LabelsOf
  <2> QED BY <2>1, <2>2, <2>3
<1>14. ASSUME NEW x \in JumpsOf(b) PROVE x \in LabelsOf(b) \cup {<<"label", at>>}
  <2>1. PICK i \in 1 .. Len(code) : x \in JumpsOf(ss[i])
    BY <1>5, <1>12
  <2>2. x = <<"label", at>> \/ (code[i].op \in Jumps /\ x = To(code[i].x))
    BY <1>4, <1>6, <2>1
  <2>3. code[i].op \in Jumps => code[i].x \in LabelsOf(code)
    BY <1>2, <1>9
  <2> QED BY <1>13, <2>2, <2>3
<1>15. ASSUME NEW x \in LabelsOf(b) PROVE x[2] \in l .. at - 1
  <2>1. PICK y \in LabelsOf(code) : x = To(y)
    BY <1>13
  <2>2. y[2] \in Nat /\ x[2] = y[2] + l /\ y[2] < callee.labels
    BY <1>2, <1>7, <2>1
  <2> QED BY <1>1, <1>3, <2>2 DEF at
<1>16. Body(f, callee, dst) = b
  BY DEF Body, b, ss, Piece, code, at, l
<1>17. JumpsOf(b) \subseteq LabelsOf(b) \cup {<<"label", at>>}
  BY <1>14
<1>18. \A x \in LabelsOf(b) : x[2] \in l .. at - 1
  BY <1>15
<1>19. Below(b, f.vregs + callee.vregs)
  BY <1>12 DEF m, n
<1>20. at = f.labels + callee.labels /\ l = f.labels
  BY DEF at, l
<1>21. \A x \in LabelsOf(b) : x[2] \in f.labels .. f.labels + callee.labels - 1
  <2>1. l .. at - 1 = f.labels .. f.labels + callee.labels - 1
    <3>1. at - 1 = f.labels + callee.labels - 1
      BY <1>1, <1>20
    <3> QED BY <1>20, <3>1, Zenon
  <2> QED BY <1>18, <2>1, Zenon
<1>22. JumpsOf(b) \subseteq LabelsOf(b) \cup {<<"label", f.labels + callee.labels>>}
  BY <1>17, <1>20
<1>23. b \in Seq(Instruction) /\ Once(b)
  BY <1>12
<1> HIDE DEF n, l, at, code
<1> QED BY <1>16, <1>19, <1>21, <1>22, <1>23

(* Registers below the caller's are below both.                            *)
LEMMA BelowMore ==
  ASSUME NEW s \in Seq(Instruction), NEW m \in Nat, NEW n \in Nat, Below(s, m)
  PROVE  Below(s, m + n)
<1> SUFFICES ASSUME NEW i \in DOMAIN s, NEW r \in Range(s[i].srcs) \cup {s[i].dst}
             PROVE  r < m + n
  BY DEF Below, RegsBelow
<1>1. s[i] \in Instruction
  OBVIOUS
<1>2. s[i].srcs \in Seq(Nat) /\ s[i].dst \in Nat \cup {None}
  BY <1>1, InstructionFields
<1>3. r \in Int
  BY <1>2 DEF Range, None
<1>4. r < m
  BY DEF Below, RegsBelow
<1> QED BY <1>3, <1>4

(* Inlining a call.                                                        *)
LEMMA InlineKeeps ==
  ASSUME NEW f \in Function, Callable(f), NEW at \in 1 .. Len(f.code),
         f.code[at].op = "CALL", NEW callee, Callable(callee)
  PROVE  Inline(f, at, callee) \in Function /\ Callable(Inline(f, at, callee))
<1> DEFINE code == f.code
           dst  == code[at].dst
           m    == f.vregs + callee.vregs
           end  == f.labels + callee.labels
           last == <<"label", end>>
           a == SubSeq(code, 1, at - 1)
           b == Body(f, callee, dst)
           e == <<Label(end)>>
           c == SubSeq(code, at + 1, Len(code))
           t == a \o b \o e \o c
           g == Inline(f, at, callee)
<1>1. /\ code \in Seq(Instruction) /\ f.labels \in Nat /\ f.vregs \in Nat /\ General <= f.vregs
      /\ callee.labels \in Nat /\ callee.vregs \in Nat
      /\ \A i \in 1 .. Len(code) : code[i] \in Instruction /\ RegsBelow(code[i], f.vregs)
  BY CallableFacts
<1>2. /\ Once(code) /\ JumpsOf(code) \subseteq LabelsOf(code)
      /\ \A x \in LabelsOf(code) : x[2] < f.labels
      /\ Below(code, f.vregs)
  BY ResolvesByParts DEF Callable
<1>3. end \in Nat /\ m \in Nat /\ f.labels <= end
  BY <1>1
<1>4. dst \in Nat \cup {None} /\ dst < f.vregs
  <2>1. code[at] \in Instruction /\ RegsBelow(code[at], f.vregs)
    BY <1>1
  <2> QED BY <2>1, InstructionFields DEF RegsBelow
<1>5. /\ a \in Seq(Instruction) /\ c \in Seq(Instruction)
      /\ Once(a) /\ Once(c) /\ Below(a, m) /\ Below(c, m)
      /\ LabelsOf(a) \cap LabelsOf(c) = {}
      /\ LabelsOf(code) = LabelsOf(a) \cup LabelsOf(c)
      /\ JumpsOf(code) = JumpsOf(a) \cup JumpsOf(c)
  <2>1. code[at].op \notin Jumps \cup {"LABEL"}
    BY DEF Jumps
  <2>2. Below(code, m)
    BY <1>1, <1>2, BelowMore
  <2> HIDE DEF code, m
  <2> QED BY <1>1, <1>2, <2>1, <2>2, CutParts DEF code
<1>6. /\ b \in Seq(Instruction) /\ Once(b) /\ Below(b, m)
      /\ \A x \in LabelsOf(b) : x[2] \in f.labels .. end - 1
      /\ JumpsOf(b) \subseteq LabelsOf(b) \cup {last}
  BY <1>1, <1>4, BodyParts
<1>7. /\ e \in Seq(Instruction) /\ Once(e) /\ Below(e, m)
      /\ LabelsOf(e) = {last} /\ JumpsOf(e) = {}
  <2>1. /\ Label(end) \in Instruction /\ RegsBelow(Label(end), m)
        /\ Label(end).op = "LABEL" /\ Label(end).x = last
    BY <1>3, LabelType
  <2> HIDE DEF m, end
  <2> QED BY <2>1, SingleParts DEF Jumps
<1>8. \A x \in LabelsOf(code) : x \in {"label"} \X Nat
  BY <1>1, LabelParts
<1>9. \A x \in LabelsOf(b) : x \in {"label"} \X Nat
  BY <1>6, LabelParts
<1> HIDE DEF a, b, c, e, m, end
<1>10. last[2] = end
  OBVIOUS
<1> HIDE DEF last
<1>11. /\ LabelsOf(a) \cap LabelsOf(b) = {} /\ LabelsOf(b) \cap LabelsOf(c) = {}
       /\ last \notin LabelsOf(a) \cup LabelsOf(b) \cup LabelsOf(c)
  <2>1. \A x \in LabelsOf(code) : x[2] \in Nat /\ x[2] < f.labels
    BY <1>2, <1>8
  <2>2. \A x \in LabelsOf(b) : x[2] \in Nat /\ f.labels <= x[2] /\ x[2] < end
    BY <1>1, <1>3, <1>6, <1>9
  <2>3. \A x \in LabelsOf(code) : x \notin LabelsOf(b) /\ x # last
    BY <1>1, <1>3, <1>10, <2>1, <2>2
  <2>4. last \notin LabelsOf(b)
    BY <1>3, <1>10, <2>2
  <2> QED BY <1>5, <2>3, <2>4
<1>12. /\ a \o b \in Seq(Instruction) /\ Once(a \o b) /\ Below(a \o b, m)
       /\ LabelsOf(a \o b) = LabelsOf(a) \cup LabelsOf(b)
       /\ JumpsOf(a \o b) = JumpsOf(a) \cup JumpsOf(b)
  BY <1>5, <1>6, <1>11, JoinedParts
<1>13. /\ a \o b \o e \in Seq(Instruction) /\ Once(a \o b \o e) /\ Below(a \o b \o e, m)
       /\ LabelsOf(a \o b \o e) = LabelsOf(a) \cup LabelsOf(b) \cup {last}
       /\ JumpsOf(a \o b \o e) = JumpsOf(a) \cup JumpsOf(b)
  <2>1. LabelsOf(a \o b) \cap LabelsOf(e) = {}
    BY <1>7, <1>11, <1>12
  <2> DEFINE u == a \o b
  <2>2. /\ u \in Seq(Instruction) /\ Once(u) /\ Below(u, m)
        /\ LabelsOf(u) \cap LabelsOf(e) = {}
    BY <1>12, <2>1
  <2> HIDE DEF u
  <2>3. /\ u \o e \in Seq(Instruction) /\ Once(u \o e) /\ Below(u \o e, m)
        /\ LabelsOf(u \o e) = LabelsOf(u) \cup LabelsOf(e)
        /\ JumpsOf(u \o e) = JumpsOf(u) \cup JumpsOf(e)
    BY <1>7, <2>2, JoinedParts
  <2>4. /\ LabelsOf(u) = LabelsOf(a) \cup LabelsOf(b)
        /\ JumpsOf(u) = JumpsOf(a) \cup JumpsOf(b)
    BY <1>12 DEF u
  <2>5. /\ LabelsOf(u \o e) = LabelsOf(a) \cup LabelsOf(b) \cup {last}
        /\ JumpsOf(u \o e) = JumpsOf(a) \cup JumpsOf(b)
    BY <1>7, <2>3, <2>4
  <2> QED BY <2>3, <2>5 DEF u
<1>14. /\ t \in Seq(Instruction) /\ Once(t) /\ Below(t, m)
       /\ LabelsOf(t) = LabelsOf(code) \cup LabelsOf(b) \cup {last}
       /\ JumpsOf(t) = JumpsOf(code) \cup JumpsOf(b)
  <2>1. LabelsOf(a \o b \o e) \cap LabelsOf(c) = {}
    BY <1>5, <1>11, <1>13
  <2>2. /\ t \in Seq(Instruction) /\ Once(t) /\ Below(t, m)
        /\ LabelsOf(t) = LabelsOf(a \o b \o e) \cup LabelsOf(c)
        /\ JumpsOf(t) = JumpsOf(a \o b \o e) \cup JumpsOf(c)
    BY <1>5, <1>13, <2>1, JoinedParts
  <2> QED BY <1>5, <1>13, <2>2
<1>15. /\ g \in Function /\ g.code = t /\ g.vregs = m /\ g.labels = end + 1
  <2>1. f \in [ok : BOOLEAN, code : Seq(Instruction), vregs : Nat, labels : Nat]
    BY DEF Function
  <2>2. g = [f EXCEPT !.code = t, !.vregs = m, !.labels = end + 1]
    BY <2>1 DEF Inline, t, a, b, c, e, m, end, Body
  <2> HIDE DEF t, g
  <2>3. end + 1 \in Nat
    BY <1>3
  <2> QED BY <1>3, <1>14, <2>1, <2>2, <2>3 DEF Function
<1> HIDE DEF t, g
<1>16. \A x \in LabelsOf(t) : x[2] < end + 1
  <2>1. \A x \in LabelsOf(code) : x[2] < end + 1
    BY <1>1, <1>2, <1>3, <1>8
  <2>2. \A x \in LabelsOf(b) : x[2] < end + 1
    BY <1>1, <1>3, <1>6, <1>9
  <2>3. last[2] < end + 1
    BY <1>3, <1>10
  <2> QED BY <1>14, <2>1, <2>2, <2>3
<1>17. JumpsOf(t) \subseteq LabelsOf(t)
  BY <1>2, <1>6, <1>14
<1>18. Resolves(g)
  BY <1>14, <1>15, <1>16, <1>17, ResolvesByParts, Zenon
<1>19. m >= General
  BY <1>1, ArgRegsAssumption DEF m, General
<1>20. Callable(g)
  BY <1>3, <1>14, <1>15, <1>18, <1>19 DEF Callable
<1> QED BY <1>15, <1>20 DEF g

(* Constant propagation, with the call it inlines.                         *)
LEMMA ConstantsKeep ==
  ASSUME NEW f \in Function, Callable(f), NEW functions, NEW lvl,
         \A name \in DOMAIN functions : Callable(functions[name])
  PROVE  LET g == PropagateConstants(f, functions, lvl) IN g \in Function /\ Callable(g)
<1> DEFINE end == FoldEnd(f, functions, lvl)
           folded == [f EXCEPT !.code = end.code]
<1>1. end \in Folding(f, functions)
  BY FoldEndKeeps
<1> HIDE DEF end
<1>2. /\ end.code \in Rewritten(f) /\ end.call \in 0 .. Len(f.code)
      /\ end.call > 0 => end.code[end.call].op = "CALL" /\ end.callee \in DOMAIN functions
  BY <1>1, FoldingFacts
<1>3. folded \in Function /\ Callable(folded) /\ folded.code = end.code
  BY <1>2, RewrittenKeeps
<1>4. PropagateConstants(f, functions, lvl)
        = IF end.call > 0 THEN Inline(folded, end.call, functions[end.callee]) ELSE folded
  BY PropagateConstantsIs DEF end
<1> HIDE DEF folded
<1>5. ASSUME end.call > 0
      PROVE  LET g == Inline(folded, end.call, functions[end.callee])
             IN g \in Function /\ Callable(g)
  <2>1. end.call \in 1 .. Len(folded.code)
    <3>1. Len(end.code) = Len(f.code) /\ Len(f.code) \in Nat
      BY <1>2, RewrittenFacts
    <3> QED BY <1>2, <1>3, <1>5, <3>1
  <2>2. folded.code[end.call].op = "CALL" /\ Callable(functions[end.callee])
    BY <1>2, <1>3, <1>5
  <2> QED BY <1>3, <2>1, <2>2, InlineKeeps
<1> QED BY <1>3, <1>4, <1>5

-----------------------------------------------------------------------------
(* Copy propagation: an instruction reads other registers that the         *)
(* function has.                                                           *)
Regs(f) == 0 .. f.vregs - 1
Copying(f) == [map : [Regs(f) -> Regs(f)], code : Rewritten(f)]

(* Where a block begins every register is its own copy.                    *)
LEMMA IdentityType ==
  ASSUME NEW f PROVE Identity(f.vregs) \in [Regs(f) -> Regs(f)]
BY DEF Identity, Regs

(* An instruction that reads the registers that hold the same values.      *)
LEMMA SourcesReplaced ==
  ASSUME NEW old \in Instruction, old.op # "LABEL", NEW n \in Nat, RegsBelow(old, n),
         NEW map \in [0 .. n - 1 -> 0 .. n - 1]
  PROVE  LET new == [old EXCEPT !.srcs = [k \in DOMAIN @ |-> map[@[k]]]]
         IN /\ Replaces(new, old, n) /\ new.op = old.op /\ new.dst = old.dst
            /\ \A k \in 1 .. Arity(old.op) : new.srcs[k] \in 0 .. n - 1
<1> DEFINE srcs == [k \in DOMAIN old.srcs |-> map[old.srcs[k]]]
           new == [old EXCEPT !.srcs = srcs]
<1>1. /\ old \in [op : Opcodes, dst : Nat \cup {None}, srcs : Seq(Nat), x : Operand]
      /\ old.op \in Opcodes /\ old.dst \in Nat \cup {None}
      /\ old.srcs \in Seq(Nat) /\ old.x \in Operand
      /\ Len(old.srcs) >= Arity(old.op)
      /\ old.op \in Jumps \cup {"LABEL"} => old.x[1] = "label"
  BY InstructionFields
<1>2. DOMAIN old.srcs = 1 .. Len(old.srcs) /\ Len(old.srcs) \in Nat
  BY <1>1
<1>3. ASSUME NEW k \in 1 .. Len(old.srcs) PROVE srcs[k] \in 0 .. n - 1
  <2>1. old.srcs[k] \in Nat /\ old.srcs[k] \in Range(old.srcs)
    BY <1>1, <1>2 DEF Range
  <2>2. old.srcs[k] \in 0 .. n - 1
    BY <2>1 DEF RegsBelow
  <2> QED BY <1>2, <2>2
<1>4. srcs \in Seq(Nat) /\ Len(srcs) = Len(old.srcs)
  <2>1. srcs = [k \in 1 .. Len(old.srcs) |-> srcs[k]]
    BY <1>2
  <2>2. \A k \in 1 .. Len(old.srcs) : srcs[k] \in Nat
    BY <1>3
  <2> HIDE DEF srcs
  <2>3. srcs \in [1 .. Len(old.srcs) -> Nat]
    BY <2>1, <2>2
  <2> QED BY <1>2, <2>3
<1>5. DOMAIN srcs = 1 .. Len(old.srcs)
  BY <1>2
<1>6. [old EXCEPT !.srcs = [k \in DOMAIN @ |-> map[@[k]]]] = new
  OBVIOUS
<1> HIDE DEF srcs
<1>7. /\ new \in [op : Opcodes, dst : Nat \cup {None}, srcs : Seq(Nat), x : Operand]
      /\ new.op = old.op /\ new.dst = old.dst /\ new.srcs = srcs /\ new.x = old.x
  BY <1>1, <1>4
<1> HIDE DEF new
<1>8. new \in Instruction
  <2>1. Len(new.srcs) >= Arity(new.op)
    BY <1>1, <1>4, <1>7
  <2>2. new.op \in Jumps \cup {"LABEL"} => new.x[1] = "label"
    BY <1>1, <1>7
  <2> QED BY <1>7, <2>1, <2>2, InstructionType
<1>9. RegsBelow(new, n)
  <2>1. old.dst < n
    BY DEF RegsBelow
  <2>2. \A r \in Range(srcs) : r < n
    BY <1>2, <1>3, <1>5 DEF Range
  <2> QED BY <1>7, <2>1, <2>2 DEF RegsBelow
<1>10. Replaces(new, old, n)
  BY <1>7, <1>8, <1>9 DEF Replaces
<1>11. \A k \in 1 .. Arity(old.op) : new.srcs[k] \in 0 .. n - 1
  <2>1. Arity(old.op) \in Nat
    BY ArityType
  <2> QED BY <1>1, <1>2, <1>3, <1>7, <2>1
<1> QED BY <1>6, <1>7, <1>10, <1>11, Zenon

(* A register is written.                                                  *)
LEMMA InvalidateType ==
  ASSUME NEW f, NEW map \in [Regs(f) -> Regs(f)], NEW d \in Regs(f), NEW s \in Regs(f)
  PROVE  [InvalidateCopies(map, d) EXCEPT ![d] = s] \in [Regs(f) -> Regs(f)]
<1> DEFINE new == InvalidateCopies(map, d)
<1>1. new \in [Regs(f) -> Regs(f)]
  BY DEF InvalidateCopies
<1> QED BY <1>1

(* Every instruction, whatever its operation.                              *)
LEMMA CopyStepKeeps ==
  ASSUME NEW f \in Function, Callable(f), NEW a \in Copying(f), NEW i \in 1 .. Len(f.code),
         NEW heads
  PROVE  CopyStep(a, i, f.vregs, heads) \in Copying(f)
<1> DEFINE n   == f.vregs
           map == IF i \in heads THEN Identity(n) ELSE a.map
           old == a.code[i]
           ins == IF old.op \in {"CALL"} \cup Noop THEN old
                  ELSE [old EXCEPT !.srcs = [k \in DOMAIN @ |-> map[@[k]]]]
           src == ins.srcs[1]
           new == CopyStep(a, i, n, heads)
           code == [a.code EXCEPT ![i] = ins]
           dropped == [a.code EXCEPT ![i] = Nop]
<1>1. a.code \in Rewritten(f) /\ a.map \in [Regs(f) -> Regs(f)] /\ n \in Nat
  BY CallableFacts DEF Copying
<1>2. map \in [Regs(f) -> Regs(f)]
  BY <1>1, IdentityType
<1>3. old \in Instruction /\ RegsBelow(old, n)
  BY <1>1, RewrittenFacts
<1>4. /\ Replaces(ins, old, n) /\ ins.op = old.op /\ ins.dst = old.dst
      /\ ins.op = "MOV" => ins.srcs[1] \in 0 .. n - 1
  <2>1. CASE old.op \in {"CALL"} \cup Noop
    <3>1. ins = old /\ old.op # "MOV"
      BY <2>1 DEF Noop
    <3> QED BY <1>3, <3>1, SameReplaces
  <2>2. CASE old.op \notin {"CALL"} \cup Noop
    <3>1. ins = [old EXCEPT !.srcs = [k \in DOMAIN @ |-> map[@[k]]]] /\ old.op # "LABEL"
      BY <2>2 DEF Noop
    <3>2. map \in [0 .. n - 1 -> 0 .. n - 1]
      BY <1>2 DEF Regs
    <3> HIDE DEF map, old, n, ins
    <3>3. /\ Replaces(ins, old, n) /\ ins.op = old.op /\ ins.dst = old.dst
          /\ \A k \in 1 .. Arity(old.op) : ins.srcs[k] \in 0 .. n - 1
      BY <1>1, <1>3, <3>1, <3>2, SourcesReplaced
    <3>4. old.op = "MOV" => 1 \in 1 .. Arity(old.op)
      BY DEF Arity, Binary, Unary
    <3> QED BY <3>3, <3>4
  <2> QED BY <2>1, <2>2
<1>5. ins.dst \in Nat \cup {None} /\ ins.dst < n
  BY <1>3, <1>4, InstructionFields DEF RegsBelow
<1> HIDE DEF map, ins, old
<1>6. code \in Rewritten(f)
  BY <1>1, <1>4, RewrittenStep DEF old
<1>7. ins.op = "MOV" => dropped \in Rewritten(f)
  <2>1. ins.op = "MOV" => Replaces(Nop, old, n)
    BY <1>1, <1>3, <1>4, NopReplaces
  <2> QED BY <1>1, <2>1, RewrittenStep DEF old
<1> HIDE DEF code, dropped, n
<1>8. CASE ins.dst = None
  <2>1. ~(ins.op = "MOV" /\ src = ins.dst)
    BY <1>4, <1>8 DEF None
  <2>2. new = [map |-> map, code |-> code]
    BY <1>8, <2>1 DEF CopyStep, map, ins, old, code, n
  <2> QED BY <1>2, <1>6, <2>2 DEF Copying, n
<1>9. CASE ins.dst # None /\ ins.op = "MOV" /\ src = ins.dst
  <2>1. new = [map |-> map, code |-> dropped]
    BY <1>9 DEF CopyStep, map, ins, old, dropped, n
  <2> QED BY <1>2, <1>7, <1>9, <2>1 DEF Copying, n
<1>10. CASE ins.dst # None /\ ~(ins.op = "MOV" /\ src = ins.dst)
  <2> DEFINE to == IF ins.op = "MOV" /\ src >= General THEN src ELSE ins.dst
             next == [InvalidateCopies(map, ins.dst) EXCEPT ![ins.dst] = to]
  <2>1. new = [map |-> next, code |-> code]
    BY <1>10 DEF CopyStep, map, ins, old, code, n
  <2>2. ins.dst \in Regs(f)
    BY <1>1, <1>5, <1>10 DEF Regs, n
  <2>3. to \in Regs(f)
    BY <1>4, <2>2 DEF Regs, n
  <2>4. next \in [Regs(f) -> Regs(f)]
    BY <1>2, <2>2, <2>3, InvalidateType
  <2> HIDE DEF next
  <2> QED BY <1>6, <2>1, <2>4 DEF Copying, n
<1> QED BY <1>8, <1>9, <1>10 DEF n

(* The pass as a recursive function.                                       *)
CopyStart(f) == [map |-> Identity(f.vregs), code |-> f.code]
Copies(g, f) ==
  g = [i \in 0 .. Len(f.code) |->
         IF i = 0 THEN CopyStart(f) ELSE CopyStep(g[i - 1], i, f.vregs, Headers(f.code))]
CopyEnd(f) == (CHOOSE g : Copies(g, f))[Len(f.code)]

(* Its end.                                                                *)
LEMMA CopyEndKeeps ==
  ASSUME NEW f \in Function, Callable(f)
  PROVE  CopyEnd(f) \in Copying(f)
<1> DEFINE n == Len(f.code)
           S == Copying(f)
           base == CopyStart(f)
           Next(a, i) == CopyStep(a, i, f.vregs, Headers(f.code))
           step == [p \in (1 .. n) \X S |-> Next(p[2], p[1])]
           after == CHOOSE g : Copies(g, f)
<1>1. n \in Nat /\ base \in S
  BY CallableFacts, RewrittenStart, IdentityType DEF CopyStart, Copying
<1>2. \A a \in S, i \in 1 .. n : Next(a, i) \in S
  BY CopyStepKeeps
<1> HIDE DEF n, S, base, Next
<1>3. step \in [(1 .. n) \X S -> S]
  BY <1>2
<1>4. PICK g : Recursive(g, S, base, n, step)
  <2> HIDE DEF step
  <2> QED BY <1>1, <1>3, RecursionExists
<1>5. g \in [0 .. n -> S] /\ g[0] = base /\ \A i \in 1 .. n : g[i] = step[<<i, g[i - 1]>>]
  BY <1>4 DEF Recursive
<1>6. Copies(g, f)
  <2>1. ASSUME NEW i \in 1 .. n PROVE g[i] = Next(g[i - 1], i)
    <3>1. g[i - 1] \in S
      BY <1>1, <1>5
    <3>2. g[i] = step[<<i, g[i - 1]>>]
      BY <1>5
    <3> QED BY <3>1, <3>2
  <2> HIDE DEF step
  <2>2. \A i \in 0 .. n : g[i] = IF i = 0 THEN base ELSE Next(g[i - 1], i)
    BY <1>1, <1>5, <2>1
  <2>3. g = [i \in 0 .. n |-> IF i = 0 THEN base ELSE Next(g[i - 1], i)]
    BY <1>5, <2>2
  <2> QED BY <2>3 DEF Copies, n, base, Next
<1>7. Copies(after, f)
  BY <1>6
<1> HIDE DEF after
<1>8. after = [i \in 0 .. n |-> IF i = 0 THEN base ELSE Next(after[i - 1], i)]
  BY <1>7 DEF Copies, n, base, Next
<1>9. ASSUME NEW i \in 1 .. n, after[i - 1] \in S PROVE after[i] \in S
  <2>1. i \in 0 .. n /\ i # 0
    BY <1>1
  <2>2. after[i] = Next(after[i - 1], i)
    BY <1>8, <2>1
  <2> QED BY <1>2, <1>9, <2>2
<1>10. after[0] \in S
  BY <1>1, <1>8
<1>11. after[n] \in S
  BY <1>1, <1>9, <1>10, StaysIn
<1> QED BY <1>11 DEF CopyEnd, after, n, S

(* Copy propagation.                                                       *)
LEMMA CopiesKeep ==
  ASSUME NEW f \in Function, Callable(f)
  PROVE  LET g == [f EXCEPT !.code = PropagateCopies(@, f.vregs)] IN g \in Function /\ Callable(g)
<1> DEFINE c == CopyEnd(f).code
<1>1. PropagateCopies(f.code, f.vregs) = c
  BY DEF PropagateCopies, CopyEnd, Copies, CopyStart
<1>2. c \in Rewritten(f)
  BY CopyEndKeeps DEF Copying
<1>3. [f EXCEPT !.code = PropagateCopies(@, f.vregs)] = [f EXCEPT !.code = c]
  BY <1>1 DEF Function
<1> HIDE DEF c
<1> QED BY <1>2, <1>3, RewrittenKeeps

-----------------------------------------------------------------------------
(* Coalescing: the definition that is found writes another register that   *)
(* the function has.                                                       *)
LEMMA DefinitionType ==
  ASSUME NEW c, NEW i \in Nat \ {0}, NEW src, NEW dst
  PROVE  LET def == DefinitionOf(c, i, src, dst)
         IN def \in 0 .. i - 1 /\ (def # 0 => c[def].op \notin Impure)
<1> DEFINE Minds(j) == \/ c[j].op \in Impure
                       \/ {src, dst} \cap ({c[j].dst} \cup Sources(c[j])) # {}
           S == {0} \cup {k \in 1 .. i - 1 : c[k].op # "NOP" /\ Minds(k)}
           j == Max(S)
<1>1. S \in SUBSET Nat /\ S # {} /\ i - 1 \in Nat /\ \A k \in S : k <= i - 1
  OBVIOUS
<1>2. DefinitionOf(c, i, src, dst)
        = IF j > 0 /\ c[j].op \notin Impure /\ c[j].dst = src THEN j ELSE 0
  BY DEF DefinitionOf
<1> HIDE DEF S
<1>3. j \in S
  BY <1>1, MaxIsGreatest
<1> HIDE DEF j
<1>4. j \in 0 .. i - 1
  <2>1. j \in Nat /\ j <= i - 1
    BY <1>1, <1>3
  <2> QED BY <2>1
<1> QED BY <1>1, <1>2, <1>4

(* An instruction that writes another register.                            *)
LEMMA OtherDestination ==
  ASSUME NEW old \in Instruction, NEW n \in Nat, RegsBelow(old, n), old.op \notin Impure,
         NEW dst \in Nat \cup {None}, dst < n
  PROVE  Replaces([old EXCEPT !.dst = dst], old, n)
<1> DEFINE new == [old EXCEPT !.dst = dst]
<1>1. /\ old \in [op : Opcodes, dst : Nat \cup {None}, srcs : Seq(Nat), x : Operand]
      /\ Len(old.srcs) >= Arity(old.op)
      /\ old.op \in Jumps \cup {"LABEL"} => old.x[1] = "label"
  BY InstructionFields
<1>2. /\ new \in [op : Opcodes, dst : Nat \cup {None}, srcs : Seq(Nat), x : Operand]
      /\ new.op = old.op /\ new.dst = dst /\ new.srcs = old.srcs /\ new.x = old.x
  BY <1>1
<1> HIDE DEF new
<1>3. new \in Instruction
  BY <1>1, <1>2, InstructionType
<1>4. RegsBelow(new, n)
  BY <1>2 DEF RegsBelow
<1> QED BY <1>2, <1>3, <1>4 DEF Replaces, new

(* A move, and the definition of what it moves.                            *)
LEMMA MoveStepKeeps ==
  ASSUME NEW f \in Function, Callable(f), NEW c \in Rewritten(f), NEW i \in 1 .. Len(f.code),
         NEW live
  PROVE  MoveStep(c, i, live) \in Rewritten(f)
<1> DEFINE n   == f.vregs
           dst == c[i].dst
           src == c[i].srcs[1]
           def == DefinitionOf(c, i, src, dst)
           moved == [c[def] EXCEPT !.dst = dst]
           d == [c EXCEPT ![def] = moved]
           new == MoveStep(c, i, live)
<1>1. /\ n \in Nat /\ Len(f.code) \in Nat /\ DOMAIN c = 1 .. Len(f.code)
      /\ \A j \in 1 .. Len(f.code) : c[j] \in Instruction /\ RegsBelow(c[j], n)
  BY CallableFacts, RewrittenFacts
<1>2. i \in Nat \ {0}
  BY <1>1
<1>3. def \in 0 .. i - 1 /\ (def # 0 => c[def].op \notin Impure)
  BY <1>2, DefinitionType
<1>4. dst \in Nat \cup {None} /\ dst < n
  <2>1. c[i] \in Instruction /\ RegsBelow(c[i], n)
    BY <1>1
  <2> QED BY <2>1, InstructionFields DEF RegsBelow
<1>5. \/ new = c
      \/ def # 0 /\ c[i].op = "MOV" /\ new = [c EXCEPT ![def].dst = dst, ![i] = Nop]
  BY DEF MoveStep
<1> HIDE DEF def, dst, n
<1>6. ASSUME def # 0, c[i].op = "MOV"
      PROVE  [c EXCEPT ![def].dst = dst, ![i] = Nop] \in Rewritten(f)
  <2>1. def \in 1 .. Len(f.code) /\ def # i
    BY <1>1, <1>2, <1>3, <1>6
  <2>2. Replaces(moved, c[def], n)
    BY <1>1, <1>3, <1>4, <1>6, <2>1, OtherDestination
  <2>3. d \in Rewritten(f)
    BY <2>1, <2>2, RewrittenStep DEF n
  <2>4. d[i] = c[i]
    BY <1>1, <2>1
  <2>5. Replaces(Nop, d[i], n)
    BY <1>1, <1>6, <2>4, NopReplaces
  <2>6. [c EXCEPT ![def].dst = dst, ![i] = Nop] = [d EXCEPT ![i] = Nop]
    BY <1>1, <2>1
  <2> HIDE DEF d
  <2>7. [d EXCEPT ![i] = Nop] \in Rewritten(f)
    BY <2>3, <2>5, RewrittenStep DEF n
  <2> QED BY <2>6, <2>7, Zenon
<1> HIDE DEF new
<1>7. new \in Rewritten(f)
  BY <1>5, <1>6
<1> QED BY <1>7 DEF new

(* The pass as a recursive function.                                       *)
Moves(g, code) ==
  g = [i \in 0 .. Len(code) |-> IF i = 0 THEN code ELSE MoveStep(g[i - 1], i, LiveOut(code))]

(* Move coalescing.                                                        *)
LEMMA CoalesceKeeps ==
  ASSUME NEW f \in Function, Callable(f)
  PROVE  LET g == [f EXCEPT !.code = Coalesce(@)] IN g \in Function /\ Callable(g)
<1> DEFINE n == Len(f.code)
           S == Rewritten(f)
           base == f.code
           Next(a, i) == MoveStep(a, i, LiveOut(f.code))
           step == [p \in (1 .. n) \X S |-> Next(p[2], p[1])]
           after == CHOOSE g : Moves(g, f.code)
           c == Coalesce(f.code)
<1>1. n \in Nat /\ base \in S
  BY CallableFacts, RewrittenStart
<1>2. \A a \in S, i \in 1 .. n : Next(a, i) \in S
  BY MoveStepKeeps
<1> HIDE DEF n, S, base, Next
<1>3. step \in [(1 .. n) \X S -> S]
  BY <1>2
<1>4. PICK g : Recursive(g, S, base, n, step)
  <2> HIDE DEF step
  <2> QED BY <1>1, <1>3, RecursionExists
<1>5. g \in [0 .. n -> S] /\ g[0] = base /\ \A i \in 1 .. n : g[i] = step[<<i, g[i - 1]>>]
  BY <1>4 DEF Recursive
<1>6. Moves(g, f.code)
  <2>1. ASSUME NEW i \in 1 .. n PROVE g[i] = Next(g[i - 1], i)
    <3>1. g[i - 1] \in S
      BY <1>1, <1>5
    <3>2. g[i] = step[<<i, g[i - 1]>>]
      BY <1>5
    <3> QED BY <3>1, <3>2
  <2> HIDE DEF step
  <2>2. \A i \in 0 .. n : g[i] = IF i = 0 THEN base ELSE Next(g[i - 1], i)
    BY <1>1, <1>5, <2>1
  <2>3. g = [i \in 0 .. n |-> IF i = 0 THEN base ELSE Next(g[i - 1], i)]
    BY <1>5, <2>2
  <2> QED BY <2>3 DEF Moves, n, base, Next
<1>7. Moves(after, f.code)
  BY <1>6
<1>8. c = after[n]
  BY DEF Coalesce, Moves, n
<1> HIDE DEF after
<1>9. after = [i \in 0 .. n |-> IF i = 0 THEN base ELSE Next(after[i - 1], i)]
  BY <1>7 DEF Moves, n, base, Next
<1>10. ASSUME NEW i \in 1 .. n, after[i - 1] \in S PROVE after[i] \in S
  <2>1. i \in 0 .. n /\ i # 0
    BY <1>1
  <2>2. after[i] = Next(after[i - 1], i)
    BY <1>9, <2>1
  <2> QED BY <1>2, <1>10, <2>2
<1>11. after[0] \in S
  BY <1>1, <1>9
<1>12. after[n] \in S
  BY <1>1, <1>10, <1>11, StaysIn
<1>13. [f EXCEPT !.code = Coalesce(@)] = [f EXCEPT !.code = c]
  BY DEF Function
<1> HIDE DEF c
<1> QED BY <1>8, <1>12, <1>13, RewrittenKeeps DEF S

-----------------------------------------------------------------------------
(* Every pass of the list, over any function that is right, and with a     *)
(* table of such functions to inline from.                                 *)
LEMMA ApplyKeeps ==
  ASSUME NEW f \in Function, Callable(f), NEW functions, NEW lvl,
         \A name \in DOMAIN functions : Callable(functions[name]),
         NEW pass \in Range(Passes)
  PROVE  Apply(pass, f, functions, lvl) \in Function /\ Callable(Apply(pass, f, functions, lvl))
<1> DEFINE g == Apply(pass, f, functions, lvl)
<1>1. pass \in {"copies", "stores", "constants", "unreachable", "coalesce", "jumps"}
  BY DEF Passes, Range
<1>2. CASE pass = "copies"
  <2>1. g = [f EXCEPT !.code = PropagateCopies(@, f.vregs)]
    BY <1>2 DEF Apply
  <2> QED BY <2>1, CopiesKeep
<1>3. CASE pass = "stores"
  <2>1. g = [f EXCEPT !.code = EliminateDeadStores(@)]
    BY <1>3 DEF Apply
  <2> QED BY <2>1, StoresKeep
<1>4. CASE pass = "constants"
  <2>1. g = PropagateConstants(f, functions, lvl)
    BY <1>4 DEF Apply
  <2> QED BY <2>1, ConstantsKeep
<1>5. CASE pass = "unreachable"
  <2>1. g = [f EXCEPT !.code = EliminateUnreachable(@)]
    BY <1>5 DEF Apply
  <2> QED BY <2>1, UnreachableKeeps
<1>6. CASE pass = "coalesce"
  <2>1. g = [f EXCEPT !.code = Coalesce(@)]
    BY <1>6 DEF Apply
  <2> QED BY <2>1, CoalesceKeeps
<1>7. CASE pass = "jumps"
  <2> DEFINE h == [f EXCEPT !.code = RemoveJumps(@)]
  <2>1. g = [f EXCEPT !.code = StripNoops(RemoveJumps(@))]
    BY <1>7 DEF Apply
  <2>2. h \in Function /\ Callable(h)
    BY RemovedJumpsKeep
  <2>3. [f EXCEPT !.code = StripNoops(RemoveJumps(@))] = [h EXCEPT !.code = StripNoops(@)]
    BY DEF Function
  <2> HIDE DEF h
  <2>4. LET r == [h EXCEPT !.code = StripNoops(@)] IN r \in Function /\ Callable(r)
    BY <2>2, StripKeeps
  <2> QED BY <2>1, <2>3, <2>4
<1> QED BY <1>1, <1>2, <1>3, <1>4, <1>5, <1>6, <1>7

(* The inductive invariant: the functions of the table are inlined, so     *)
(* they are right too.                                                     *)
PassesInv ==
  /\ \A name \in DOMAIN table : Callable(table[name])
  /\ Compiled(main)

(* It holds at first and through every pass.                               *)
LEMMA PassesInvHolds == PassesSpec => []PassesInv
<1>1. Entered => PassesInv
  BY DEF Entered, PassesInv
<1>2. ASSUME PassesInv, [Emission \/ \E name \in Range(Passes) : Optimise(name)]_passesVars
      PROVE  PassesInv'
  <2>1. CASE Emission
    BY <1>2, <2>1 DEF PassesInv, Emission
  <2>2. ASSUME NEW name \in Range(Passes), Optimise(name) PROVE PassesInv'
    <3>1. main \in Function /\ Callable(main)
      BY <1>2, <2>2 DEF PassesInv, Compiled, Optimise
    <3>2. main' = Apply(name, main, table, level) /\ table' = table
      BY <2>2 DEF Optimise
    <3>3. main' \in Function /\ Callable(main')
      BY <1>2, <3>1, <3>2, ApplyKeeps DEF PassesInv
    <3> QED BY <1>2, <3>2, <3>3 DEF PassesInv, Compiled
  <2>3. CASE UNCHANGED passesVars
    BY <1>2, <2>3 DEF PassesInv, passesVars, Compiled
  <2> QED BY <1>2, <2>1, <2>2, <2>3
<1> QED BY <1>1, <1>2, PTL DEF PassesSpec

(* After every pass, inlining included, every label is defined once and    *)
(* below next_label, every jump has its label and every register is below  *)
(* next_vreg: label_pass finds an offset for every jump, and the passes    *)
(* and the allocator index their arrays inside.                            *)
THEOREM LabelsAlwaysResolve == PassesSpec => []LabelsResolve
<1>1. PassesInv => LabelsResolve
  BY DEF PassesInv, LabelsResolve, Compiled, Callable
<1> QED BY <1>1, PassesInvHolds, PTL
==============================================================================
