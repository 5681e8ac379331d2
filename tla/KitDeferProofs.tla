----------------------------- MODULE KitDeferProofs -----------------------------
(***************************************************************************)
(* Functions of any length (KitDefer bounds their statements by MaxNodes,  *)
(* whose value the proofs never use): that every jump finds its label, and *)
(* that what a block deferred is executed where it is left.                *)
(*                                                                         *)
(* 1. Jumps.  An open statement has labels it must still define: `end`,    *)
(* and what depends on its kind (Owned).  The inductive invariant is the   *)
(* bookkeeping of them (Books): nobody else defines them, they are not     *)
(* defined yet, and every other label that is jumped to is.  A break or    *)
(* continue jumps to the labels of a loop, so the stack of loops must      *)
(* match the stack of statements and the depth of the scopes (Shape).      *)
(* When no statement is open any more nothing is owed.                     *)
(*                                                                         *)
(* 2. Compiling.  What the machine will hold before each instruction, the  *)
(* open scopes with what they deferred and what is due, is known while the *)
(* code is emitted (Runs, with ls for what holds at each label), and it is *)
(* the compiler's own stack where the compiler is (Flow).  So jumps that   *)
(* meet at a label bring the same.                                         *)
(*                                                                         *)
(* 3. Linking.  The function as far as a RET that no label is behind       *)
(* (Sealed) can be traced from beginning to end (Traced).  The peephole    *)
(* pass takes jumps away, and the marks that one led over are executed     *)
(* then, with fewer scopes open than are traced there: they come to what   *)
(* is traced where the jump led to (Accepts), because what another scope   *)
(* deferred would need copies, which no jump is taken away over (Stuck).   *)
(*                                                                         *)
(* 4. Running.  The instruction pointer is at what label_pass made of an   *)
(* instruction of the traced code (Follows), and the machine holds what is *)
(* accepted there.                                                         *)
(*                                                                         *)
(* 2 to 4 are proved of programs without the doubtful forms (Forms = {}):  *)
(* with them the property is false, which MCKitDefer_end and               *)
(* MCKitDefer_exit show.  What is said of types and of jumps holds of      *)
(* every program.                                                          *)
(***************************************************************************)
EXTENDS KitDefer, KitNaturals, SequenceTheorems

Instruction ==
       {Label(l) : l \in Nat} \cup {Jump(l) : l \in Nat} \cup {Branch(l) : l \in Nat}
  \cup {Deferred(d) : d \in Nat} \cup {Register(d) : d \in Nat}
  \cup {Open(n) : n \in Nat} \cup {Leave(n) : n \in Nat} \cup {Iterate, Ret, Nop}

(* The labels that are defined in a piece of code, and jumped to.          *)
LabelsIn(s) == {s[i].to : i \in {j \in DOMAIN s : s[j].op = "label"}}
JumpsIn(s)  == {s[i].to : i \in {j \in DOMAIN s : IsJump(s[j])}}
OnceIn(s)   ==
  \A i, j \in DOMAIN s :
    s[i].op = "label" /\ s[j].op = "label" /\ s[i].to = s[j].to => i = j

-----------------------------------------------------------------------------
(* FlattenSeq by its partial results: f[i] is the first i of them together. *)
IsFlat(f, ss) ==
  /\ \A i \in 1 .. Len(ss) :
       f[i] \in Seq(Nat) /\ f[i] = IF i = 1 THEN ss[i] ELSE f[i - 1] \o ss[i]
  /\ FlattenSeq(ss) = IF Len(ss) = 0 THEN <<>> ELSE f[Len(ss)]

(* There are such, and of sequences of statements they are ones too.       *)
LEMMA FlattenIs ==
  ASSUME NEW ss \in Seq(Seq(Nat))
  PROVE  \E f : IsFlat(f, ss)
<1> DEFINE N == Len(ss)
<1>1. N \in Nat /\ \A i \in 1 .. N : ss[i] \in Seq(Nat)
  OBVIOUS
<1>2. PICK flatten : /\ \A i \in 1 .. N : flatten[i] = IF i = 1 THEN ss[i]
                                                     ELSE flatten[i - 1] \o ss[i]
                     /\ FlattenSeq(ss) = IF N = 0 THEN ss ELSE flatten[N]
  <2>1. Len(ss) \in Nat
    BY <1>1
  <2> QED BY <2>1, FlattenExists
<1> DEFINE bad == {i \in 1 .. N : flatten[i] \notin Seq(Nat)}
<1>3. N = 0 => ss = <<>>
  OBVIOUS
<1> HIDE DEF N
<1>4. bad = {}
  <2> SUFFICES ASSUME bad # {} PROVE FALSE
    OBVIOUS
  <2>1. bad \subseteq Nat
    OBVIOUS
  <2>2. PICK i \in bad : \A j \in bad : i <= j
    BY <2>1, LeastNatural
  <2>3. i # 1
    BY <1>1, <1>2, <2>2
  <2>4. i \in 1 .. N /\ i - 1 \in 1 .. N /\ ~(i <= i - 1)
    BY <1>1, <2>2, <2>3
  <2>5. flatten[i - 1] \in Seq(Nat) /\ ss[i] \in Seq(Nat)
    BY <1>1, <2>2, <2>4
  <2>6. flatten[i] = flatten[i - 1] \o ss[i]
    BY <1>2, <2>3, <2>4
  <2>7. flatten[i] \in Seq(Nat)
    BY <2>5, <2>6
  <2> QED BY <2>2, <2>7
<1>5. \A i \in 1 .. N : flatten[i] \in Seq(Nat)
                        /\ flatten[i] = IF i = 1 THEN ss[i] ELSE flatten[i - 1] \o ss[i]
  BY <1>2, <1>4
<1>6. IsFlat(flatten, ss)
  BY <1>2, <1>3, <1>5 DEF IsFlat, N
<1> QED BY <1>6

(* So what it returns is a sequence of statements.                         *)
LEMMA FlattenType ==
  ASSUME NEW ss \in Seq(Seq(Nat))
  PROVE  FlattenSeq(ss) \in Seq(Nat)
<1>1. PICK f : IsFlat(f, ss)
  BY FlattenIs
<1>2. Len(ss) \in Nat /\ (Len(ss) # 0 => Len(ss) \in 1 .. Len(ss)) /\ <<>> \in Seq(Nat)
  OBVIOUS
<1> QED BY <1>1, <1>2 DEF IsFlat

(* What leaving scopes has to execute is a sequence of statements.         *)
LEMMA UnwindType ==
  ASSUME NEW ss \in Seq(Seq(Nat)), NEW n \in Nat, n <= Len(ss)
  PROVE  Unwind(ss, n) \in Seq(Nat)
<1>1. SubSeq(ss, n + 1, Len(ss)) \in Seq(Seq(Nat))
  OBVIOUS
<1>2. FlattenSeq(SubSeq(ss, n + 1, Len(ss))) \in Seq(Nat)
  BY <1>1, FlattenType
<1>3. ASSUME NEW s \in Seq(Nat) PROVE Reverse(s) \in Seq(Nat)
  <2>1. \A i \in 1 .. Len(s) : (Len(s) - i) + 1 \in 1 .. Len(s)
    OBVIOUS
  <2>2. Reverse(s) \in [1 .. Len(s) -> Nat]
    BY <2>1 DEF Reverse
  <2>3. Len(s) \in Nat
    OBVIOUS
  <2>4. \A m \in Nat : \A f \in [1 .. m -> Nat] : f \in Seq(Nat)
    OBVIOUS
  <2> QED BY <2>2, <2>3, <2>4
<1> QED BY <1>2, <1>3 DEF Unwind

(* What is emitted of the deferred statements defines no label.            *)
LEMMA EmittedDefers ==
  ASSUME defers \in Seq(Seq(Nat)), NEW n \in Nat, n <= Depth
  PROVE  /\ EmitToDepth(n) \in Seq(Instruction)
         /\ LabelsIn(EmitToDepth(n)) = {} /\ JumpsIn(EmitToDepth(n)) = {}
<1> DEFINE u == Unwind(defers, n)
<1>1. u \in Seq(Nat)
  BY UnwindType DEF Depth
<1>2. EmitToDepth(n) = [i \in DOMAIN u |-> Deferred(u[i])]
  BY DEF EmitToDepth
<1> HIDE DEF u
<1>3. DOMAIN u = 1 .. Len(u) /\ Len(u) \in Nat /\ \A i \in DOMAIN u : u[i] \in Nat
  BY <1>1
<1>4. \A i \in DOMAIN u : EmitToDepth(n)[i] \in Instruction
                          /\ EmitToDepth(n)[i].op = "deferred"
  BY <1>2, <1>3 DEF Instruction, Deferred
<1>5. EmitToDepth(n) \in [1 .. Len(u) -> Instruction]
  BY <1>2, <1>3, <1>4
<1> QED BY <1>2, <1>3, <1>4, <1>5 DEF LabelsIn, JumpsIn, IsJump

-----------------------------------------------------------------------------
(* Pieces of code one after the other.                                     *)
LEMMA Concatenation ==
  ASSUME NEW s \in Seq(Instruction), NEW t \in Seq(Instruction)
  PROVE  /\ s \o t \in Seq(Instruction)
         /\ LabelsIn(s \o t) = LabelsIn(s) \cup LabelsIn(t)
         /\ JumpsIn(s \o t) = JumpsIn(s) \cup JumpsIn(t)
         /\ OnceIn(s) /\ OnceIn(t) /\ LabelsIn(s) \cap LabelsIn(t) = {}
              => OnceIn(s \o t)
<1> DEFINE u == s \o t
           m == Len(s)
           n == Len(t)
<1>1. /\ u \in Seq(Instruction) /\ m \in Nat /\ n \in Nat
      /\ DOMAIN s = 1 .. m /\ DOMAIN t = 1 .. n /\ DOMAIN u = 1 .. m + n
      /\ \A i \in 1 .. m : i \in DOMAIN u /\ u[i] = s[i]
      /\ \A i \in 1 .. n : m + i \in DOMAIN u /\ u[m + i] = t[i]
  OBVIOUS
<1>2. \A i \in DOMAIN u : \/ i \in 1 .. m /\ u[i] = s[i]
                          \/ i > m /\ i - m \in 1 .. n /\ u[i] = t[i - m]
  BY <1>1
<1> HIDE DEF u, m, n
<1>3. LabelsIn(u) = LabelsIn(s) \cup LabelsIn(t)
  <2>1. LabelsIn(u) \subseteq LabelsIn(s) \cup LabelsIn(t)
    BY <1>1, <1>2 DEF LabelsIn
  <2>2. LabelsIn(s) \subseteq LabelsIn(u)
    BY <1>1 DEF LabelsIn
  <2>3. ASSUME NEW i \in DOMAIN t, t[i].op = "label" PROVE t[i].to \in LabelsIn(u)
    <3>1. m + i \in DOMAIN u /\ u[m + i].op = "label" /\ u[m + i].to = t[i].to
      BY <1>1, <2>3
    <3> QED BY <3>1 DEF LabelsIn
  <2>4. LabelsIn(t) \subseteq LabelsIn(u)
    BY <2>3 DEF LabelsIn
  <2> QED BY <2>1, <2>2, <2>4
<1>4. JumpsIn(u) = JumpsIn(s) \cup JumpsIn(t)
  <2>1. JumpsIn(u) \subseteq JumpsIn(s) \cup JumpsIn(t)
    BY <1>1, <1>2 DEF JumpsIn
  <2>2. JumpsIn(s) \subseteq JumpsIn(u)
    BY <1>1 DEF JumpsIn
  <2>3. ASSUME NEW i \in DOMAIN t, IsJump(t[i]) PROVE t[i].to \in JumpsIn(u)
    <3>1. m + i \in DOMAIN u /\ IsJump(u[m + i]) /\ u[m + i].to = t[i].to
      BY <1>1, <2>3
    <3> QED BY <3>1 DEF JumpsIn
  <2>4. JumpsIn(t) \subseteq JumpsIn(u)
    BY <2>3 DEF JumpsIn
  <2> QED BY <2>1, <2>2, <2>4
<1>5. ASSUME OnceIn(s), OnceIn(t), LabelsIn(s) \cap LabelsIn(t) = {}
      PROVE  OnceIn(u)
  <2> SUFFICES ASSUME NEW i \in DOMAIN u, NEW j \in DOMAIN u,
                      u[i].op = "label", u[j].op = "label", u[i].to = u[j].to
               PROVE  i = j
    BY DEF OnceIn
  <2>1. CASE i \in 1 .. m /\ u[i] = s[i] /\ j \in 1 .. m /\ u[j] = s[j]
    BY <1>1, <1>5, <2>1 DEF OnceIn
  <2>2. CASE /\ i > m /\ i - m \in 1 .. n /\ u[i] = t[i - m]
             /\ j > m /\ j - m \in 1 .. n /\ u[j] = t[j - m]
    <3>1. i - m = j - m
      BY <1>1, <1>5, <2>2 DEF OnceIn
    <3> QED BY <1>1, <2>2, <3>1
  <2>3. CASE /\ i \in 1 .. m /\ u[i] = s[i]
             /\ j > m /\ j - m \in 1 .. n /\ u[j] = t[j - m]
    <3>1. u[i].to \in LabelsIn(s) /\ u[j].to \in LabelsIn(t)
      BY <1>1, <2>3 DEF LabelsIn
    <3> QED BY <1>5, <3>1
  <2>4. CASE /\ j \in 1 .. m /\ u[j] = s[j]
             /\ i > m /\ i - m \in 1 .. n /\ u[i] = t[i - m]
    <3>1. u[j].to \in LabelsIn(s) /\ u[i].to \in LabelsIn(t)
      BY <1>1, <2>4 DEF LabelsIn
    <3> QED BY <1>5, <3>1
  <2> QED BY <1>2, <2>1, <2>2, <2>3, <2>4
<1> QED BY <1>1, <1>3, <1>4, <1>5 DEF u

(* One instruction, and the pieces that are emitted, with the labels they  *)
(* define and jump to.                                                     *)
LEMMA Single ==
  ASSUME NEW ins \in Instruction
  PROVE  /\ <<ins>> \in Seq(Instruction) /\ OnceIn(<<ins>>)
         /\ LabelsIn(<<ins>>) = IF ins.op = "label" THEN {ins.to} ELSE {}
         /\ JumpsIn(<<ins>>) = IF IsJump(ins) THEN {ins.to} ELSE {}
<1>1. DOMAIN <<ins>> = {1} /\ <<ins>>[1] = ins
  OBVIOUS
<1> QED BY <1>1 DEF OnceIn, LabelsIn, JumpsIn

Piece(s, defined, used) ==
  s \in Seq(Instruction) /\ OnceIn(s) /\ LabelsIn(s) = defined /\ JumpsIn(s) = used

(* The instructions the compiler emits, each with its labels.              *)
LEMMA Pieces ==
  /\ \A n \in Nat : Piece(<<Leave(n)>>, {}, {}) /\ Piece(<<Open(n)>>, {}, {})
                    /\ Piece(<<Register(n)>>, {}, {})
  /\ Piece(<<Ret>>, {}, {}) /\ Piece(<<Iterate>>, {}, {}) /\ Piece(<<>>, {}, {})
  /\ \A l \in Nat : /\ Piece(<<Label(l)>>, {l}, {})
                    /\ Piece(<<Jump(l)>>, {}, {l})
                    /\ Piece(<<Branch(l)>>, {}, {l})
<1>1. Piece(<<>>, {}, {})
  BY DEF Piece, OnceIn, LabelsIn, JumpsIn
<1>2. /\ \A n \in Nat : Leave(n) \in Instruction /\ Open(n) \in Instruction
                        /\ Register(n) \in Instruction
      /\ \A l \in Nat : Label(l) \in Instruction /\ Jump(l) \in Instruction
                        /\ Branch(l) \in Instruction
      /\ Ret \in Instruction /\ Iterate \in Instruction
  BY DEF Instruction
<1>3. \A n : /\ Leave(n).op = "leave" /\ Open(n).op = "open" /\ Register(n).op = "register"
             /\ Label(n).op = "label" /\ Label(n).to = n
             /\ Jump(n).op = "jump" /\ Jump(n).to = n
             /\ Branch(n).op = "branch" /\ Branch(n).to = n
  BY DEF Leave, Open, Register, Label, Jump, Branch
<1>4. Ret.op = "ret" /\ Iterate.op = "iterate"
  BY DEF Ret, Iterate
<1>5. ASSUME NEW ins \in Instruction PROVE
        Piece(<<ins>>, IF ins.op = "label" THEN {ins.to} ELSE {},
              IF ins.op = "jump" \/ ins.op = "branch" THEN {ins.to} ELSE {})
  BY Single DEF Piece, IsJump
<1>6. \A n \in Nat : Piece(<<Leave(n)>>, {}, {}) /\ Piece(<<Open(n)>>, {}, {})
                     /\ Piece(<<Register(n)>>, {}, {})
  <2>1. ASSUME NEW ins \in Instruction, ins.op \in {"leave", "open", "register"}
        PROVE  Piece(<<ins>>, {}, {})
    BY <1>5, <2>1
  <2> QED BY <1>2, <1>3, <2>1
<1>7. Piece(<<Ret>>, {}, {}) /\ Piece(<<Iterate>>, {}, {})
  BY <1>2, <1>4, <1>5
<1>8. ASSUME NEW l \in Nat
      PROVE  /\ Piece(<<Label(l)>>, {l}, {})
             /\ Piece(<<Jump(l)>>, {}, {l})
             /\ Piece(<<Branch(l)>>, {}, {l})
  <2>1. Piece(<<Label(l)>>, {l}, {})
    <3>1. Piece(<<Label(l)>>, IF Label(l).op = "label" THEN {Label(l).to} ELSE {},
                IF Label(l).op = "jump" \/ Label(l).op = "branch" THEN {Label(l).to} ELSE {})
      BY <1>2, <1>5
    <3> QED BY <1>3, <3>1
  <2>2. Piece(<<Jump(l)>>, {}, {l})
    <3>1. Piece(<<Jump(l)>>, IF Jump(l).op = "label" THEN {Jump(l).to} ELSE {},
                IF Jump(l).op = "jump" \/ Jump(l).op = "branch" THEN {Jump(l).to} ELSE {})
      BY <1>2, <1>5
    <3> QED BY <1>3, <3>1
  <2>3. Piece(<<Branch(l)>>, {}, {l})
    <3>1. Piece(<<Branch(l)>>, IF Branch(l).op = "label" THEN {Branch(l).to} ELSE {},
                IF Branch(l).op = "jump" \/ Branch(l).op = "branch" THEN {Branch(l).to} ELSE {})
      BY <1>2, <1>5
    <3> QED BY <1>3, <3>1
  <2> QED BY <2>1, <2>2, <2>3
<1> QED BY <1>1, <1>6, <1>7, <1>8

(* Two pieces with no label in common, one after the other.                *)
LEMMA Together ==
  ASSUME NEW s, NEW t, NEW ds, NEW dt, NEW us, NEW ut,
         Piece(s, ds, us), Piece(t, dt, ut), ds \cap dt = {}
  PROVE  Piece(s \o t, ds \cup dt, us \cup ut)
BY Concatenation DEF Piece

(* Code that is written out is one instruction after the other.            *)
LEMMA Tuples ==
  ASSUME NEW T, NEW a \in T, NEW b \in T, NEW c \in T, NEW d \in T,
         NEW e \in T, NEW f \in T, NEW g \in T
  PROVE  /\ <<a, b>> = Append(<<a>>, b)
         /\ <<a, b, c>> = Append(<<a, b>>, c)
         /\ <<a, b, c, d>> = Append(<<a, b, c>>, d)
         /\ <<a, b, c, d, e, f, g>>
              = Append(Append(Append(<<a, b, c, d>>, e), f), g)
OBVIOUS

(* A piece and one instruction more.                                       *)
LEMMA Longer ==
  ASSUME NEW s, NEW d, NEW u, Piece(s, d, u), NEW n \in Nat
  PROVE  /\ Piece(Append(s, Open(n)), d, u)
         /\ Piece(Append(s, Jump(n)), d, u \cup {n})
         /\ Piece(Append(s, Branch(n)), d, u \cup {n})
         /\ Piece(Append(s, Iterate), d, u) /\ Piece(Append(s, Ret), d, u)
         /\ n \notin d => Piece(Append(s, Label(n)), d \cup {n}, u)
<1>1. \A ins \in Instruction : Append(s, ins) = s \o <<ins>>
  BY DEF Piece
<1>2. /\ Open(n) \in Instruction /\ Jump(n) \in Instruction /\ Branch(n) \in Instruction
      /\ Iterate \in Instruction /\ Ret \in Instruction /\ Label(n) \in Instruction
  BY DEF Instruction
<1>3. ASSUME NEW t, NEW du, NEW uu, Piece(t, du, uu), d \cap du = {}
      PROVE  Piece(s \o t, d \cup du, u \cup uu)
  BY <1>3, Together
<1>4. /\ Piece(<<Open(n)>>, {}, {}) /\ Piece(<<Jump(n)>>, {}, {n})
      /\ Piece(<<Branch(n)>>, {}, {n}) /\ Piece(<<Iterate>>, {}, {})
      /\ Piece(<<Ret>>, {}, {}) /\ Piece(<<Label(n)>>, {n}, {})
  BY Pieces
<1>5. /\ Piece(s \o <<Open(n)>>, d \cup {}, u \cup {})
      /\ Piece(s \o <<Jump(n)>>, d \cup {}, u \cup {n})
      /\ Piece(s \o <<Branch(n)>>, d \cup {}, u \cup {n})
      /\ Piece(s \o <<Iterate>>, d \cup {}, u \cup {})
      /\ Piece(s \o <<Ret>>, d \cup {}, u \cup {})
      /\ n \notin d => Piece(s \o <<Label(n)>>, d \cup {n}, u \cup {})
  <2>1. d \cap {} = {} /\ (n \notin d => d \cap {n} = {})
    OBVIOUS
  <2> QED BY <1>3, <1>4, <2>1
<1>6. d \cup {} = d /\ u \cup {} = u
  OBVIOUS
<1> QED BY <1>1, <1>2, <1>5, <1>6

(* What is emitted of the deferred statements touches no label.            *)
LEMMA DefersPiece ==
  ASSUME defers \in Seq(Seq(Nat)), NEW n \in Nat, n <= Depth
  PROVE  Piece(EmitToDepth(n), {}, {})
BY EmittedDefers DEF Piece, OnceIn, LabelsIn

-----------------------------------------------------------------------------
LoopKinds == {"while", "for", "ranged"}
Block == [kind : LoopKinds \cup {"if", "else"}, end : Nat, next : Nat]
Loop  == [continue : Nat, break : Nat, depth : Nat, left : BOOLEAN]

IsLoopOf(k, n) ==
  /\ loops[k].depth = n + 1
  /\ blocks[n].kind \in LoopKinds
  /\ loops[k].break = blocks[n].end
  /\ blocks[n].kind = "while" => loops[k].continue = blocks[n].next

(* The scopes and the loops nest as the blocks do.                         *)
Shape ==
  /\ nodes \in Nat /\ labels \in Nat
  /\ defers \in Seq(Seq(Nat)) /\ blocks \in Seq(Block) /\ loops \in Seq(Loop)
  /\ Len(defers) = Len(blocks) + 1
  /\ \A k \in DOMAIN loops : \E n \in DOMAIN blocks : IsLoopOf(k, n)
  /\ \A n \in DOMAIN blocks : blocks[n].kind \in LoopKinds
                               => \E k \in DOMAIN loops : IsLoopOf(k, n)
  /\ \A j, k \in DOMAIN loops : j < k => loops[j].depth < loops[k].depth

(* The labels that an open block has yet to define.                        *)
Continues(n) ==
  {loops[k].continue : k \in {j \in DOMAIN loops : loops[j].depth = n + 1}}

Owned(n) ==
  {blocks[n].end} \cup (IF blocks[n].kind = "if" THEN {blocks[n].next} ELSE {})
    \cup (IF blocks[n].kind \in {"for", "ranged"} THEN Continues(n) ELSE {})

(* No two blocks, nor two places of one, have to define the same label;    *)
(* none of these labels is defined yet, and every other that is jumped to  *)
(* is.                                                                     *)
Books ==
  /\ code \in Seq(Instruction) /\ OnceIn(code)
  /\ LabelsIn(code) \subseteq 0 .. labels - 1
  /\ \A n \in DOMAIN blocks : /\ Owned(n) \subseteq 0 .. labels - 1
                              /\ Owned(n) \cap LabelsIn(code) = {}
  /\ \A m, n \in DOMAIN blocks : m # n => Owned(m) \cap Owned(n) = {}
  /\ \A n \in DOMAIN blocks :
       /\ blocks[n].kind = "if" => blocks[n].end # blocks[n].next
       /\ blocks[n].kind \in {"for", "ranged"} => blocks[n].end \notin Continues(n)
       /\ blocks[n].kind \in LoopKinds => blocks[n].next \in LabelsIn(code)
  /\ \A l \in JumpsIn(code) :
       l \in LabelsIn(code) \/ \E n \in DOMAIN blocks : l \in Owned(n)

Resolved ==
  /\ code \in Seq(Instruction) /\ OnceIn(code)
  /\ JumpsIn(code) \subseteq LabelsIn(code)

DInv ==
  /\ phase \in {"compile", "link", "run"}
  /\ phase = "compile" => Shape /\ Books
  /\ phase = "link" => Resolved

-----------------------------------------------------------------------------
(* What Append does to a sequence.                                         *)
LEMMA AppendFacts ==
  ASSUME NEW T, NEW s \in Seq(T), NEW e \in T
  PROVE  /\ Append(s, e) \in Seq(T) /\ Len(Append(s, e)) = Len(s) + 1
         /\ Len(s) \in Nat /\ DOMAIN s = 1 .. Len(s)
         /\ DOMAIN Append(s, e) = DOMAIN s \cup {Len(s) + 1}
         /\ Append(s, e)[Len(s) + 1] = e
         /\ \A k \in DOMAIN s : Append(s, e)[k] = s[k]
OBVIOUS

(* The labels given out before and after those of a statement.             *)
LEMMA Intervals ==
  ASSUME NEW a \in Nat, NEW b \in Nat, a <= b
  PROVE  /\ 0 .. a - 1 \subseteq 0 .. b - 1 /\ a .. b - 1 \subseteq 0 .. b - 1
         /\ (0 .. a - 1) \cap (a .. b - 1) = {}
OBVIOUS

(* The code with a piece emitted at its end.                               *)
LEMMA CodePiece ==
  ASSUME Books, NEW s, NEW d, NEW u, Piece(s, d, u), d \cap LabelsIn(code) = {},
         code' = code \o s
  PROVE  /\ code' \in Seq(Instruction) /\ OnceIn(code')
         /\ LabelsIn(code') = LabelsIn(code) \cup d
         /\ JumpsIn(code') = JumpsIn(code) \cup u
BY Concatenation DEF Books, Piece

(* A statement that is in one piece: it defines no label, and jumps to     *)
(* none but those of the blocks it is in.                                  *)
Stays(s, u) ==
  /\ UNCHANGED <<blocks, labels>> /\ nodes' \in Nat
  /\ defers' \in Seq(Seq(Nat)) /\ Len(defers') = Len(defers)
  /\ loops' \in Seq(Loop) /\ DOMAIN loops' = DOMAIN loops
  /\ \A k \in DOMAIN loops : /\ loops'[k].continue = loops[k].continue
                             /\ loops'[k].break = loops[k].break
                             /\ loops'[k].depth = loops[k].depth
  /\ Piece(s, {}, u) /\ code' = code \o s
  /\ \A l \in u : l \in LabelsIn(code) \/ \E n \in DOMAIN blocks : l \in Owned(n)

(* Such a statement leaves the books as they were.                         *)
LEMMA StayInv ==
  ASSUME Shape, Books, NEW s, NEW u, Stays(s, u)
  PROVE  Shape' /\ Books'
<1> USE DEF Stays
<1>1. \A k, n : IsLoopOf(k, n) /\ k \in DOMAIN loops => IsLoopOf(k, n)'
  BY DEF IsLoopOf
<1>2. Shape'
  BY <1>1 DEF Shape
<1>3. \A n : Continues(n)' = Continues(n)
  <2>1. /\ DOMAIN loops' = DOMAIN loops
        /\ \A k \in DOMAIN loops : /\ loops'[k].continue = loops[k].continue
                                   /\ loops'[k].depth = loops[k].depth
    OBVIOUS
  <2> HIDE DEF Stays
  <2> QED BY <2>1 DEF Continues
<1>4. \A n : Owned(n)' = Owned(n)
  BY <1>3 DEF Owned
<1>5. /\ code' \in Seq(Instruction) /\ OnceIn(code') /\ LabelsIn(code') = LabelsIn(code)
      /\ JumpsIn(code') = JumpsIn(code) \cup u
  <2>1. {} \cap LabelsIn(code) = {} /\ LabelsIn(code) \cup {} = LabelsIn(code)
    OBVIOUS
  <2> QED BY <2>1, CodePiece
<1>6. Books'
  BY <1>3, <1>4, <1>5 DEF Books
<1> QED BY <1>2, <1>6

(* The beginning of a statement with a body.                               *)
Opens(N, b, s, d, u) ==
  /\ N = Len(blocks) + 1 /\ nodes' \in Nat
  /\ blocks' = Append(blocks, b) /\ defers' = Append(defers, <<>>)
  /\ labels' \in Nat /\ labels <= labels'
  /\ Piece(s, d, u) /\ code' = code \o s
  /\ d \subseteq labels .. labels' - 1 /\ d \cap Owned(N)' = {}
  /\ Owned(N)' \subseteq labels .. labels' - 1
  /\ u \subseteq d \cup Owned(N)'
  /\ \/ b.kind = "if" /\ b.end # b.next /\ loops' = loops
     \/ \E l \in Loop :
          /\ loops' = Append(loops, l) /\ l.depth = Len(blocks) + 2
          /\ b.kind \in LoopKinds /\ b.next \in d /\ l.break = b.end
          /\ IF b.kind = "while" THEN l.continue = b.next ELSE l.continue # b.end

(* The labels it owes are new, so nobody else owes them.                   *)
LEMMA OpenInv ==
  ASSUME Shape, Books, NEW N, NEW b \in Block, NEW s, NEW d, NEW u, Opens(N, b, s, d, u)
  PROVE  Shape' /\ Books'
<1> USE DEF Opens
<1>1. /\ Len(blocks) \in Nat /\ DOMAIN blocks = 1 .. Len(blocks) /\ N \notin DOMAIN blocks
      /\ blocks' \in Seq(Block) /\ Len(blocks') = N /\ DOMAIN blocks' = DOMAIN blocks \cup {N}
      /\ blocks'[N] = b /\ \A n \in DOMAIN blocks : blocks'[n] = blocks[n]
  <2>1. N = Len(blocks) + 1 /\ blocks' = Append(blocks, b)
    OBVIOUS
  <2>2. blocks \in Seq(Block)
    BY DEF Shape
  <2> HIDE DEF Opens
  <2> QED BY <2>1, <2>2
<1>2. defers' \in Seq(Seq(Nat)) /\ Len(defers') = Len(blocks') + 1
  BY <1>1, SMTT(30) DEF Shape
<1>3. \A k \in DOMAIN loops : loops[k].depth < N + 1 /\ loops[k].depth # N + 1
  <2>1. ASSUME NEW k \in DOMAIN loops PROVE loops[k].depth < N + 1 /\ loops[k].depth # N + 1
    <3>1. PICK n \in DOMAIN blocks : loops[k].depth = n + 1
      BY DEF Shape, IsLoopOf
    <3> QED BY <1>1, <3>1
  <2> QED BY <2>1
<1> DEFINE K == IF b.kind = "if" THEN {} ELSE {Len(loops) + 1}
<1>4. /\ loops' \in Seq(Loop) /\ DOMAIN loops' = DOMAIN loops \cup K
      /\ DOMAIN loops = 1 .. Len(loops) /\ Len(loops) \in Nat
      /\ \A k \in DOMAIN loops : loops'[k] = loops[k]
      /\ \A k \in K : IsLoopOf(k, N)' /\ k = Len(loops) + 1
      /\ b.kind \in LoopKinds => K # {}
  <2>1. loops \in Seq(Loop) /\ DOMAIN loops = 1 .. Len(loops) /\ Len(loops) \in Nat
    <3> HIDE DEF Opens
    <3>1. loops \in Seq(Loop)
      BY DEF Shape
    <3> QED BY <3>1
  <2>2. CASE b.kind = "if"
    BY <2>1, <2>2 DEF LoopKinds
  <2>3. CASE b.kind # "if"
    <3>1. PICK l \in Loop :
            /\ loops' = Append(loops, l) /\ l.depth = Len(blocks) + 2
            /\ b.kind \in LoopKinds /\ l.break = b.end
            /\ b.kind = "while" => l.continue = b.next
      BY <2>3
    <3>2. /\ loops' \in Seq(Loop) /\ DOMAIN loops' = DOMAIN loops \cup {Len(loops) + 1}
          /\ \A k \in DOMAIN loops : loops'[k] = loops[k]
          /\ loops'[Len(loops) + 1] = l
      <4>1. /\ Append(loops, l) \in Seq(Loop)
            /\ DOMAIN Append(loops, l) = DOMAIN loops \cup {Len(loops) + 1}
            /\ \A k \in DOMAIN loops : Append(loops, l)[k] = loops[k]
            /\ Append(loops, l)[Len(loops) + 1] = l
        BY <2>1, AppendFacts
      <4> QED BY <3>1, <4>1, Zenon
    <3>3. l.depth = N + 1
      BY <1>1, <3>1
    <3>4. \A k : k = Len(loops) + 1 => IsLoopOf(k, N)'
      BY <1>1, <3>1, <3>2, <3>3 DEF IsLoopOf
    <3> QED BY <2>1, <2>3, <3>1, <3>2, <3>4, Zenon
  <2> QED BY <2>2, <2>3
<1> HIDE DEF K
<1>5. ASSUME NEW n \in DOMAIN blocks
      PROVE  /\ Continues(n)' = Continues(n) /\ Owned(n)' = Owned(n)
             /\ \A k \in DOMAIN loops : IsLoopOf(k, n) => IsLoopOf(k, n)'
  <2>1. \A k \in K : loops'[k].depth # n + 1
    BY <1>1, <1>4, SMTT(30) DEF IsLoopOf
  <2>2. Continues(n)' = Continues(n)
    BY <1>4, <2>1 DEF Continues
  <2> QED BY <1>1, <1>4, <2>2, ZenonT(30) DEF Owned, IsLoopOf
<1>6. Shape'
  <2>1. \A k \in DOMAIN loops' : \E n \in DOMAIN blocks' : IsLoopOf(k, n)'
    BY <1>1, <1>4, <1>5 DEF Shape
  <2>2. \A n \in DOMAIN blocks' : blocks'[n].kind \in LoopKinds
                                 => \E k \in DOMAIN loops' : IsLoopOf(k, n)'
    BY <1>1, <1>4, <1>5 DEF Shape
  <2>3. \A j, k \in DOMAIN loops' : j < k => loops'[j].depth < loops'[k].depth
    <3>1. \A k \in K : k = Len(loops) + 1 /\ loops'[k].depth = N + 1
      BY <1>4 DEF IsLoopOf
    <3>2. \A j, k \in DOMAIN loops : j < k => loops'[j].depth < loops'[k].depth
      BY <1>4 DEF Shape
    <3>3. \A j \in DOMAIN loops, k \in K : loops'[j].depth < loops'[k].depth
      BY <1>3, <1>4, <3>1
    <3>4. \A j \in K, k \in DOMAIN loops' : ~(j < k)
      BY <1>4, <3>1
    <3> QED BY <1>4, <3>2, <3>3, <3>4
  <2> QED BY <1>1, <1>2, <1>4, <2>1, <2>2, <2>3 DEF Shape
<1>7. labels \in Nat
  BY DEF Shape
<1>8. /\ d \cap LabelsIn(code) = {}
      /\ \A n \in DOMAIN blocks : Owned(n) \cap d = {} /\ Owned(n) \cap Owned(N)' = {}
      /\ Owned(N)' \cap LabelsIn(code) = {}
  <2>1. \A x \in labels .. labels' - 1 : x \notin 0 .. labels - 1
    BY <1>7
  <2> QED BY <2>1 DEF Books
<1>9. /\ code' \in Seq(Instruction) /\ OnceIn(code')
      /\ LabelsIn(code') = LabelsIn(code) \cup d /\ JumpsIn(code') = JumpsIn(code) \cup u
  BY <1>8, CodePiece
<1>10. /\ 0 .. labels - 1 \subseteq 0 .. labels' - 1
       /\ labels .. labels' - 1 \subseteq 0 .. labels' - 1
  BY <1>7, Intervals
<1>11. LabelsIn(code') \subseteq 0 .. labels' - 1
  BY <1>9, <1>10 DEF Books
<1>12. ASSUME NEW n \in DOMAIN blocks'
       PROVE  /\ Owned(n)' \subseteq 0 .. labels' - 1 /\ Owned(n)' \cap LabelsIn(code') = {}
              /\ \A m \in DOMAIN blocks' : m # n => Owned(m)' \cap Owned(n)' = {}
  <2>1. CASE n \in DOMAIN blocks
    BY <1>1, <1>5, <1>8, <1>9, <1>10, <2>1, SMTT(30) DEF Books
  <2>2. CASE n = N
    <3>1. Owned(N)' \subseteq 0 .. labels' - 1 /\ Owned(N)' \cap LabelsIn(code') = {}
      BY <1>8, <1>9, <1>10
    <3>2. \A m \in DOMAIN blocks' : m # N => Owned(m)' \cap Owned(N)' = {}
      BY <1>1, <1>5, <1>8
    <3> QED BY <2>2, <3>1, <3>2
  <2> QED BY <1>1, <2>1, <2>2
<1>13. ASSUME NEW n \in DOMAIN blocks'
       PROVE  /\ blocks'[n].kind = "if" => blocks'[n].end # blocks'[n].next
              /\ blocks'[n].kind \in {"for", "ranged"} => blocks'[n].end \notin Continues(n)'
              /\ blocks'[n].kind \in LoopKinds => blocks'[n].next \in LabelsIn(code')
  <2>1. CASE n \in DOMAIN blocks
    BY <1>1, <1>5, <1>9, <2>1, SMTT(30) DEF Books
  <2>2. CASE n = N
    <3>1. CASE b.kind = "if" /\ b.end # b.next /\ loops' = loops
      BY <1>1, <2>2, <3>1 DEF LoopKinds
    <3>2. CASE b.kind # "if"
      <4>1. PICK l \in Loop :
              /\ loops' = Append(loops, l) /\ l.depth = Len(blocks) + 2
              /\ b.next \in d
              /\ IF b.kind = "while" THEN l.continue = b.next ELSE l.continue # b.end
        BY <3>2
      <4>2. b.kind \in {"for", "ranged"} => Continues(N)' = {l.continue}
        <5>1. loops \in Seq(Loop)
          BY DEF Shape
        <5>3. DOMAIN loops' = DOMAIN loops \cup {Len(loops) + 1}
              /\ loops'[Len(loops) + 1] = l
              /\ \A k \in DOMAIN loops : loops'[k] = loops[k]
          BY <4>1, <5>1, AppendFacts
        <5>2. l.depth = N + 1
          BY <1>1, <4>1
        <5> QED BY <1>3, <5>2, <5>3 DEF Continues
      <4> QED BY <1>1, <1>9, <2>2, <3>2, <4>1, <4>2
    <3> QED BY <3>1, <3>2 DEF LoopKinds
  <2> QED BY <1>1, <2>1, <2>2
<1>14. \A l \in JumpsIn(code') : l \in LabelsIn(code') \/ \E n \in DOMAIN blocks' : l \in Owned(n)'
  <2>1. ASSUME NEW l \in JumpsIn(code)
        PROVE  l \in LabelsIn(code') \/ \E n \in DOMAIN blocks' : l \in Owned(n)'
    BY <1>1, <1>5, <1>9 DEF Books
  <2>2. ASSUME NEW l \in u
        PROVE  l \in LabelsIn(code') \/ \E n \in DOMAIN blocks' : l \in Owned(n)'
    BY <1>1, <1>9
  <2> QED BY <1>9, <2>1, <2>2
<1>15. Books'
  BY <1>9, <1>11, <1>12, <1>13, <1>14 DEF Books
<1> QED BY <1>6, <1>15

(* From one body of an if to the next: the label of the next branch is     *)
(* defined, and there may be another to define.                            *)
NextBranch(N, b, s, u) ==
  /\ N = Len(blocks) /\ blocks # <<>> /\ blocks[N].kind = "if"
  /\ nodes' \in Nat /\ defers' \in Seq(Seq(Nat)) /\ Len(defers') = Len(defers)
  /\ loops' = loops /\ blocks' = [blocks EXCEPT ![N] = b] /\ b.end = blocks[N].end
  /\ \/ b.kind = "if" /\ b.next = labels /\ labels' = labels + 1
     \/ b.kind = "else" /\ labels' = labels
  /\ Piece(s, {blocks[N].next}, u) /\ code' = code \o s /\ u \subseteq Owned(N)'

(* What it defines nobody owes any more.                                   *)
LEMMA NextBranchInv ==
  ASSUME Shape, Books, NEW N, NEW b \in Block, NEW s, NEW u, NextBranch(N, b, s, u)
  PROVE  Shape' /\ Books'
<1> USE DEF NextBranch
<1>1. /\ N \in DOMAIN blocks /\ DOMAIN blocks' = DOMAIN blocks /\ blocks' \in Seq(Block)
      /\ Len(blocks') = Len(blocks) /\ blocks'[N] = b
      /\ \A n \in DOMAIN blocks : n # N => blocks'[n] = blocks[n]
  BY SMTT(30) DEF Shape
<1>2. labels \in Nat /\ labels' \in Nat /\ labels <= labels' /\ b.end \in Nat
      /\ b.kind \notin LoopKinds /\ blocks[N].kind \notin LoopKinds
  <2>1. labels \in Nat
    BY DEF Shape
  <2>2. labels' \in Nat /\ labels <= labels'
    BY <2>1
  <2>3. b.end \in Nat
    BY DEF Block
  <2> QED BY <2>1, <2>2, <2>3 DEF LoopKinds
<1>3. ASSUME NEW n \in DOMAIN blocks, n # N
      PROVE  /\ Continues(n)' = Continues(n) /\ Owned(n)' = Owned(n)
             /\ \A k \in DOMAIN loops : IsLoopOf(k, n) => IsLoopOf(k, n)'
  <2>1. Continues(n)' = Continues(n)
    BY DEF Continues
  <2> QED BY <1>1, <1>3, <2>1 DEF Owned, IsLoopOf
<1>4. Owned(N) = {blocks[N].end, blocks[N].next}
  BY DEF Owned
<1>5. Owned(N)' = IF b.kind = "if" THEN {b.end, b.next} ELSE {b.end}
  <2>1. Owned(N)' = {b.end} \cup (IF b.kind = "if" THEN {b.next} ELSE {})
                      \cup (IF b.kind \in {"for", "ranged"} THEN Continues(N)' ELSE {})
    BY <1>1 DEF Owned
  <2> QED BY <2>1
<1>6. Shape'
  <2>1. \A k \in DOMAIN loops : \E n \in DOMAIN blocks : n # N /\ IsLoopOf(k, n)
    BY <1>2 DEF Shape, IsLoopOf
  <2>2. \A k \in DOMAIN loops' : \E n \in DOMAIN blocks' : IsLoopOf(k, n)'
    BY <1>1, <1>3, <2>1
  <2>3. \A n \in DOMAIN blocks' : blocks'[n].kind \in LoopKinds
                                  => \E k \in DOMAIN loops' : IsLoopOf(k, n)'
    BY <1>1, <1>2, <1>3 DEF Shape
  <2> QED BY <1>1, <1>2, <2>2, <2>3 DEF Shape
<1>7. /\ blocks[N].next \notin LabelsIn(code) /\ blocks[N].end \notin LabelsIn(code)
      /\ blocks[N].end # blocks[N].next
      /\ blocks[N].end \in 0 .. labels - 1 /\ blocks[N].next \in 0 .. labels - 1
      /\ \A n \in DOMAIN blocks : n # N =>
           blocks[N].end \notin Owned(n) /\ blocks[N].next \notin Owned(n)
  BY <1>1, <1>4 DEF Books
<1>8. /\ code' \in Seq(Instruction) /\ OnceIn(code')
      /\ LabelsIn(code') = LabelsIn(code) \cup {blocks[N].next}
      /\ JumpsIn(code') = JumpsIn(code) \cup u
  <2>1. Piece(s, {blocks[N].next}, u) /\ code' = code \o s
    OBVIOUS
  <2>2. {blocks[N].next} \cap LabelsIn(code) = {}
    BY <1>7
  <2> HIDE DEF NextBranch
  <2> QED BY <2>1, <2>2, CodePiece
<1>9. 0 .. labels - 1 \subseteq 0 .. labels' - 1 /\ labels \notin 0 .. labels - 1
      /\ (labels' = labels + 1 => labels \in 0 .. labels' - 1)
  <2>1. 0 .. labels - 1 \subseteq 0 .. labels' - 1
    BY <1>2, Intervals
  <2>2. labels \notin 0 .. labels - 1
    BY <1>2
  <2>3. labels' = labels + 1 => labels \in 0 .. labels' - 1
    <3>1. \A x, y \in Nat : y = x + 1 => x \in 0 .. y - 1
      OBVIOUS
    <3> QED BY <1>2, <3>1
  <2> QED BY <2>1, <2>2, <2>3
<1>10. /\ Owned(N)' \subseteq 0 .. labels' - 1 /\ Owned(N)' \cap LabelsIn(code') = {}
       /\ \A n \in DOMAIN blocks : n # N => Owned(N)' \cap Owned(n) = {}
  <2>1. b.end = blocks[N].end
        /\ (b.kind = "if" => b.next = labels /\ labels' = labels + 1)
    OBVIOUS
  <2> HIDE DEF NextBranch
  <2>2. \A n \in DOMAIN blocks : labels \notin Owned(n)
    BY <1>9 DEF Books
  <2>3. labels \notin LabelsIn(code) /\ labels # blocks[N].next
    BY <1>7, <1>9 DEF Books
  <2> QED BY <1>5, <1>7, <1>8, <1>9, <2>1, <2>2, <2>3
<1>11. LabelsIn(code') \subseteq 0 .. labels' - 1
  BY <1>7, <1>8, <1>9 DEF Books
<1>12. ASSUME NEW n \in DOMAIN blocks'
       PROVE  /\ Owned(n)' \subseteq 0 .. labels' - 1 /\ Owned(n)' \cap LabelsIn(code') = {}
              /\ \A m \in DOMAIN blocks' : m # n => Owned(m)' \cap Owned(n)' = {}
  <2>1. CASE n = N
    BY <1>1, <1>3, <1>10, <2>1
  <2>2. CASE n # N
    <3>1. Owned(n) \subseteq 0 .. labels - 1 /\ Owned(n) \cap LabelsIn(code) = {}
          /\ \A m \in DOMAIN blocks : m # n => Owned(m) \cap Owned(n) = {}
      BY <1>1 DEF Books
    <3>2. Owned(n)' = Owned(n)
      BY <1>1, <1>3, <2>2
    <3>3. Owned(n)' \cap LabelsIn(code') = {}
      BY <1>1, <1>7, <1>8, <2>2, <3>1, <3>2
    <3>4. \A m \in DOMAIN blocks' : m # n => Owned(m)' \cap Owned(n)' = {}
      BY <1>1, <1>3, <1>10, <2>2, <3>1, <3>2
    <3> QED BY <1>9, <3>1, <3>2, <3>3, <3>4
  <2> QED BY <2>1, <2>2
<1>13. ASSUME NEW n \in DOMAIN blocks'
       PROVE  /\ blocks'[n].kind = "if" => blocks'[n].end # blocks'[n].next
              /\ blocks'[n].kind \in {"for", "ranged"} => blocks'[n].end \notin Continues(n)'
              /\ blocks'[n].kind \in LoopKinds => blocks'[n].next \in LabelsIn(code')
  <2>1. CASE n = N
    BY <1>1, <1>2, <1>7, <1>9, <2>1
  <2>2. CASE n # N
    BY <1>1, <1>3, <1>8, <2>2 DEF Books
  <2> QED BY <2>1, <2>2
<1>14. ASSUME NEW l \in JumpsIn(code')
       PROVE  l \in LabelsIn(code') \/ \E n \in DOMAIN blocks' : l \in Owned(n)'
  <2>1. CASE l \in u
    BY <1>1, <2>1
  <2>2. CASE l \in JumpsIn(code) /\ l \in LabelsIn(code)
    BY <1>8, <2>2
  <2>3. ASSUME NEW n \in DOMAIN blocks, n # N, l \in Owned(n)
        PROVE  \E m \in DOMAIN blocks' : l \in Owned(m)'
    BY <1>1, <1>3, <2>3
  <2>4. CASE l \in Owned(N)
    BY <1>1, <1>4, <1>5, <1>8, <2>4
  <2> QED BY <1>8, <2>1, <2>2, <2>3, <2>4 DEF Books
<1>15. Books'
  BY <1>8, <1>11, <1>12, <1>13, <1>14 DEF Books
<1> QED BY <1>6, <1>15

(* What Front does to a sequence.                                          *)
LEMMA FrontFacts ==
  ASSUME NEW T, NEW s \in Seq(T), s # <<>>
  PROVE  /\ Front(s) \in Seq(T) /\ Len(Front(s)) = Len(s) - 1 /\ Len(s) \in Nat
         /\ DOMAIN s = 1 .. Len(s) /\ Len(s) \in DOMAIN s
         /\ DOMAIN Front(s) = DOMAIN s \ {Len(s)}
         /\ \A k \in DOMAIN Front(s) : Front(s)[k] = s[k]
<1>1. Front(s) = SubSeq(s, 1, Len(s) - 1)
  BY DEF Front
<1>2. Len(s) \in Nat /\ Len(s) # 0 /\ DOMAIN s = 1 .. Len(s)
  OBVIOUS
<1>3. /\ Front(s) \in Seq(T) /\ Len(Front(s)) = Len(s) - 1
      /\ \A k \in 1 .. Len(s) - 1 : Front(s)[k] = s[k]
  BY <1>1, <1>2
<1>4. DOMAIN Front(s) = 1 .. Len(s) - 1
  BY <1>2, <1>3
<1> QED BY <1>2, <1>3, <1>4

(* The end of a statement with a body: all the labels that were its to     *)
(* define are defined.                                                     *)
Closes(N, s, u) ==
  /\ N = Len(blocks) /\ blocks # <<>> /\ nodes' \in Nat
  /\ defers' = Front(defers) /\ blocks' = Front(blocks) /\ labels' = labels
  /\ loops' = IF blocks[N].kind \in LoopKinds THEN Front(loops) ELSE loops
  /\ Piece(s, Owned(N), u) /\ code' = code \o s
  /\ u \subseteq LabelsIn(code) \cup Owned(N)

(* When a statement has ended, nothing that it owed is left.               *)
LEMMA CloseInv ==
  ASSUME Shape, Books, NEW N, NEW s, NEW u, Closes(N, s, u)
  PROVE  Shape' /\ Books'
<1> USE DEF Closes
<1>1. /\ N \in DOMAIN blocks /\ N \in Nat /\ DOMAIN blocks = 1 .. N
      /\ DOMAIN blocks' = DOMAIN blocks \ {N}
      /\ blocks' \in Seq(Block) /\ Len(blocks') = N - 1
      /\ \A n \in DOMAIN blocks' : blocks'[n] = blocks[n]
  BY FrontFacts DEF Shape
<1>2. defers' \in Seq(Seq(Nat)) /\ Len(defers') = Len(blocks') + 1
  <2>1. defers \in Seq(Seq(Nat)) /\ defers # <<>> /\ Len(defers) = N + 1
    BY <1>1 DEF Shape
  <2>2. Front(defers) \in Seq(Seq(Nat)) /\ Len(Front(defers)) = Len(defers) - 1
    BY <2>1, FrontFacts, Zenon
  <2> QED BY <1>1, <2>1, <2>2
<1>3. loops \in Seq(Loop) /\ DOMAIN loops = 1 .. Len(loops) /\ Len(loops) \in Nat
  BY DEF Shape
<1>4. ASSUME NEW j \in DOMAIN loops, NEW n \in DOMAIN blocks, IsLoopOf(j, n),
             NEW k \in DOMAIN loops, IsLoopOf(k, N), j # k
      PROVE  n < N /\ j < k
  <2>1. loops[j].depth = n + 1 /\ loops[k].depth = N + 1 /\ n \in Nat /\ n <= N
    BY <1>1, <1>4 DEF IsLoopOf
  <2>2. j < k \/ k < j
    BY <1>3, <1>4
  <2>3. ~(k < j)
    <3>1. CASE k < j
      <4>1. loops[k].depth < loops[j].depth
        BY <3>1 DEF Shape
      <4> QED BY <1>1, <2>1, <4>1
    <3> QED BY <3>1
  <2>4. loops[j].depth < loops[k].depth
    BY <2>2, <2>3 DEF Shape
  <2> QED BY <1>1, <2>1, <2>2, <2>3, <2>4
<1>5. /\ loops' \in Seq(Loop) /\ DOMAIN loops' \subseteq DOMAIN loops
      /\ \A k \in DOMAIN loops' : loops'[k] = loops[k]
      /\ \A k \in DOMAIN loops : k \in DOMAIN loops' <=> ~IsLoopOf(k, N)
  <2>1. CASE blocks[N].kind \notin LoopKinds
    BY <1>3, <2>1 DEF IsLoopOf
  <2>2. CASE blocks[N].kind \in LoopKinds
    <3>1. PICK k \in DOMAIN loops : IsLoopOf(k, N)
      BY <1>1, <2>2 DEF Shape
    <3>2. loops # <<>> /\ Len(loops) \in DOMAIN loops
      BY <1>3, <3>1
    <3>3. k = Len(loops)
      <4>1. PICK n \in DOMAIN blocks : IsLoopOf(Len(loops), n)
        BY <3>2 DEF Shape
      <4>2. Len(loops) # k => Len(loops) < k
        BY <1>4, <3>1, <3>2, <4>1
      <4> QED BY <1>3, <3>1, <4>2
    <3>4. \A j \in DOMAIN loops : IsLoopOf(j, N) => j = k
      BY <1>1, <1>4, <3>1
    <3>5. /\ loops' \in Seq(Loop) /\ DOMAIN loops' = DOMAIN loops \ {Len(loops)}
          /\ \A j \in DOMAIN loops' : loops'[j] = loops[j]
      BY <1>3, <2>2, <3>2, FrontFacts
    <3> QED BY <3>1, <3>3, <3>4, <3>5
  <2> QED BY <2>1, <2>2
<1>6. \A k \in DOMAIN loops : IsLoopOf(k, N) => loops[k].depth = N + 1
  BY DEF IsLoopOf
<1>7. ASSUME NEW n \in DOMAIN blocks'
      PROVE  /\ Continues(n)' = Continues(n) /\ Owned(n)' = Owned(n)
             /\ \A k \in DOMAIN loops' : IsLoopOf(k, n) => IsLoopOf(k, n)'
             /\ \A k \in DOMAIN loops : IsLoopOf(k, n) => k \in DOMAIN loops'
  <2>1. n + 1 # N + 1 /\ n \in DOMAIN blocks /\ n # N
    BY <1>1
  <2>2. \A k \in DOMAIN loops : loops[k].depth = n + 1 => k \in DOMAIN loops'
    BY <1>5, <1>6, <2>1
  <2>3. Continues(n)' = Continues(n)
    BY <1>5, <2>2 DEF Continues
  <2> QED BY <1>1, <1>5, <2>2, <2>3 DEF Owned, IsLoopOf
<1>8. Shape'
  <2>1. ASSUME NEW k \in DOMAIN loops' PROVE \E n \in DOMAIN blocks' : IsLoopOf(k, n)'
    <3>1. k \in DOMAIN loops /\ ~IsLoopOf(k, N)
      BY <1>5
    <3>2. PICK n \in DOMAIN blocks : IsLoopOf(k, n)
      BY <3>1 DEF Shape
    <3> QED BY <1>1, <1>7, <3>1, <3>2
  <2>2. ASSUME NEW n \in DOMAIN blocks', blocks'[n].kind \in LoopKinds
        PROVE  \E k \in DOMAIN loops' : IsLoopOf(k, n)'
    <3>1. PICK k \in DOMAIN loops : IsLoopOf(k, n)
      BY <1>1, <2>2 DEF Shape
    <3> QED BY <1>7, <3>1
  <2>3. \A j, k \in DOMAIN loops' : j < k => loops'[j].depth < loops'[k].depth
    BY <1>5 DEF Shape
  <2> QED BY <1>1, <1>2, <1>5, <2>1, <2>2, <2>3 DEF Shape
<1>9. /\ Owned(N) \cap LabelsIn(code) = {} /\ Owned(N) \subseteq 0 .. labels - 1
      /\ \A n \in DOMAIN blocks' : Owned(n) \cap Owned(N) = {}
  BY <1>1 DEF Books
<1>10. /\ code' \in Seq(Instruction) /\ OnceIn(code')
       /\ LabelsIn(code') = LabelsIn(code) \cup Owned(N) /\ JumpsIn(code') = JumpsIn(code) \cup u
  BY <1>9, CodePiece
<1>11. LabelsIn(code') \subseteq 0 .. labels' - 1
  BY <1>9, <1>10 DEF Books
<1>12. ASSUME NEW n \in DOMAIN blocks'
       PROVE  /\ Owned(n)' \subseteq 0 .. labels' - 1 /\ Owned(n)' \cap LabelsIn(code') = {}
              /\ \A m \in DOMAIN blocks' : m # n => Owned(m)' \cap Owned(n)' = {}
  <2>1. n \in DOMAIN blocks /\ Owned(n)' = Owned(n)
    BY <1>1, <1>7
  <2>2. Owned(n) \subseteq 0 .. labels - 1 /\ Owned(n) \cap LabelsIn(code) = {}
        /\ \A m \in DOMAIN blocks : m # n => Owned(m) \cap Owned(n) = {}
    BY <2>1 DEF Books
  <2>3. \A m \in DOMAIN blocks' : m # n => Owned(m)' \cap Owned(n)' = {}
    BY <1>1, <1>7, <2>1, <2>2
  <2> QED BY <1>9, <1>10, <2>1, <2>2, <2>3
<1>13. ASSUME NEW n \in DOMAIN blocks'
       PROVE  /\ blocks'[n].kind = "if" => blocks'[n].end # blocks'[n].next
              /\ blocks'[n].kind \in {"for", "ranged"} => blocks'[n].end \notin Continues(n)'
              /\ blocks'[n].kind \in LoopKinds => blocks'[n].next \in LabelsIn(code')
  BY <1>1, <1>7, <1>10 DEF Books
<1>14. ASSUME NEW l \in JumpsIn(code')
       PROVE  l \in LabelsIn(code') \/ \E n \in DOMAIN blocks' : l \in Owned(n)'
  <2>1. CASE l \in u
    BY <1>10, <2>1
  <2>2. CASE l \in LabelsIn(code) \/ l \in Owned(N)
    BY <1>10, <2>2
  <2>3. ASSUME NEW n \in DOMAIN blocks, n # N, l \in Owned(n)
        PROVE  \E m \in DOMAIN blocks' : l \in Owned(m)'
    BY <1>1, <1>7, <2>3
  <2> QED BY <1>10, <2>1, <2>2, <2>3 DEF Books
<1>15. Books'
  BY <1>10, <1>11, <1>12, <1>13, <1>14 DEF Books
<1> QED BY <1>8, <1>15

-----------------------------------------------------------------------------
(* The actions.                                                            *)
LEMMA ShapeFacts ==
  ASSUME Shape
  PROVE  /\ nodes \in Nat /\ nodes + 1 \in Nat /\ labels \in Nat
         /\ Len(blocks) \in Nat /\ DOMAIN blocks = 1 .. Len(blocks)
         /\ Len(loops) \in Nat /\ DOMAIN loops = 1 .. Len(loops)
         /\ Depth \in Nat /\ Depth = Len(blocks) + 1 /\ Depth - 1 \in Nat
         /\ DOMAIN defers = 1 .. Depth /\ defers \in Seq(Seq(Nat)) /\ defers # <<>>
         /\ \A k \in DOMAIN loops : loops[k] \in Loop
         /\ \A n \in DOMAIN blocks : blocks[n] \in Block
<1>1. /\ nodes \in Nat /\ labels \in Nat /\ defers \in Seq(Seq(Nat))
      /\ blocks \in Seq(Block) /\ loops \in Seq(Loop) /\ Len(defers) = Len(blocks) + 1
  BY DEF Shape
<1>2. /\ Len(blocks) \in Nat /\ DOMAIN blocks = 1 .. Len(blocks)
      /\ Len(loops) \in Nat /\ DOMAIN loops = 1 .. Len(loops)
      /\ DOMAIN defers = 1 .. Len(defers)
      /\ \A k \in DOMAIN loops : loops[k] \in Loop
      /\ \A n \in DOMAIN blocks : blocks[n] \in Block
  BY <1>1
<1>3. defers # <<>>
  BY <1>1, <1>2
<1> QED BY <1>1, <1>2, <1>3 DEF Depth

(* The numbers alone.                                                      *)
LEMMA NumberFacts ==
  ASSUME Shape
  PROVE  /\ nodes \in Nat /\ nodes + 1 \in Nat
         /\ labels \in Nat /\ labels + 1 \in Nat /\ labels + 2 \in Nat
         /\ Depth \in Nat /\ Depth + 1 \in Nat
<1>1. nodes \in Nat /\ nodes + 1 \in Nat /\ labels \in Nat /\ Depth \in Nat
  BY ShapeFacts
<1>2. \A n \in Nat : n + 1 \in Nat /\ n + 2 \in Nat
  OBVIOUS
<1> HIDE DEF Depth
<1> QED BY <1>1, <1>2

(* What is emitted where a body ends: the mark, and what it deferred.      *)
LEMMA LeavePiece ==
  ASSUME Shape, NEW n \in Nat, NEW m \in Nat, m <= Depth
  PROVE  Piece(<<Leave(n)>> \o EmitToDepth(m), {}, {})
<1>1. Piece(EmitToDepth(m), {}, {})
  BY DefersPiece, ShapeFacts
<1>2. Piece(<<Leave(n)>>, {}, {})
  BY Pieces
<1>3. Piece(<<Leave(n)>> \o EmitToDepth(m), {} \cup {}, {} \cup {})
  BY <1>1, <1>2, Together
<1> QED BY <1>3

(* `defer` emits nothing but its mark.                                     *)
LEMMA DeferStays ==
  ASSUME Shape, Books, Defer
  PROVE  Stays(<<Register(nodes')>>, {})
<1>1. /\ nodes' = nodes + 1 /\ UNCHANGED <<blocks, labels, loops>>
      /\ defers' = [defers EXCEPT ![Depth] = Append(@, nodes')]
      /\ code' = code \o <<Register(nodes')>>
  BY DEF Defer, Node, Emit
<1>2. nodes' \in Nat /\ Piece(<<Register(nodes')>>, {}, {})
  BY <1>1, ShapeFacts, Pieces
<1>3. defers' \in Seq(Seq(Nat)) /\ Len(defers') = Len(defers)
  <2>1. Depth \in DOMAIN defers /\ defers[Depth] \in Seq(Nat)
    BY ShapeFacts
  <2>2. Append(defers[Depth], nodes') \in Seq(Nat)
    BY <1>2, <2>1
  <2> QED BY <1>1, <2>1, <2>2, ShapeFacts
<1>4. loops' \in Seq(Loop)
  BY <1>1 DEF Shape
<1>5. Stays(<<Register(nodes')>>, {})
  BY <1>1, <1>2, <1>3, <1>4 DEF Stays
<1> QED BY <1>5

LEMMA DeferInv == Shape /\ Books /\ Defer => Shape' /\ Books'
BY DeferStays, StayInv

(* A return defines no label and jumps to none.                            *)
LEMMA ReturnStays ==
  ASSUME Shape, Books, Return
  PROVE  Stays(<<Leave(0)>> \o EmitToDepth(0) \o <<Ret>>, {})
<1>1. /\ nodes' = nodes + 1 /\ UNCHANGED <<blocks, labels, loops, defers>>
      /\ code' = code \o (<<Leave(0)>> \o EmitToDepth(0) \o <<Ret>>)
  BY DEF Return, Node, Emit
<1>2. Piece(<<Leave(0)>> \o EmitToDepth(0), {}, {})
  BY LeavePiece, ShapeFacts
<1>3. Piece(<<Leave(0)>> \o EmitToDepth(0) \o <<Ret>>, {}, {})
  <2>1. Piece(<<Ret>>, {}, {})
    BY Pieces
  <2>2. Piece(<<Leave(0)>> \o EmitToDepth(0) \o <<Ret>>, {} \cup {}, {} \cup {})
    BY <1>2, <2>1, Together
  <2> QED BY <2>2
<1>4. nodes' \in Nat /\ defers' \in Seq(Seq(Nat)) /\ loops' \in Seq(Loop)
  BY <1>1, ShapeFacts DEF Shape
<1>5. Stays(<<Leave(0)>> \o EmitToDepth(0) \o <<Ret>>, {})
  BY <1>1, <1>3, <1>4 DEF Stays
<1> QED BY <1>5

LEMMA ReturnInv == Shape /\ Books /\ Return => Shape' /\ Books'
BY ReturnStays, StayInv

(* break and continue jump to labels of an open block, or, from a while    *)
(* loop, to one that is defined.                                           *)
LEMMA ExitStays ==
  ASSUME Shape, Books, loops # <<>>, NEW target, Exit(target),
         target \in {Last(loops).break, Last(loops).continue}
  PROVE  Stays(<<Leave(Last(loops).depth - 1)>> \o EmitToDepth(Last(loops).depth)
                 \o <<Jump(target)>>, {target})
<1> DEFINE K == Len(loops)
           l == loops[K]
<1>1. K \in DOMAIN loops /\ K \in Nat /\ l \in Loop /\ l = Last(loops)
  BY ShapeFacts DEF Last, Shape
<1>2. PICK n \in DOMAIN blocks : IsLoopOf(K, n)
  BY <1>1 DEF Shape
<1>3. l.depth \in Nat /\ l.depth - 1 \in Nat /\ l.depth <= Depth
  <2>1. l.depth = n + 1
    BY <1>2 DEF IsLoopOf
  <2>2. n \in 1 .. Len(blocks) /\ Len(blocks) \in Nat /\ Depth = Len(blocks) + 1
    BY ShapeFacts
  <2> HIDE DEF l
  <2> QED BY <2>1, <2>2
<1>4. target \in Nat
  BY <1>1 DEF Loop
<1>5. /\ nodes' = nodes + 1 /\ UNCHANGED <<blocks, labels, defers>>
      /\ code' = code \o (<<Leave(l.depth - 1)>> \o EmitToDepth(l.depth) \o <<Jump(target)>>)
      /\ loops' = [loops EXCEPT ![K].left = TRUE]
  BY <1>1 DEF Exit, Node, Emit
<1>6. Piece(<<Leave(l.depth - 1)>> \o EmitToDepth(l.depth), {}, {})
  BY <1>3, LeavePiece
<1>7. Piece(<<Leave(l.depth - 1)>> \o EmitToDepth(l.depth) \o <<Jump(target)>>, {}, {target})
  <2>1. Piece(<<Jump(target)>>, {}, {target})
    BY <1>4, Pieces
  <2>2. Piece(<<Leave(l.depth - 1)>> \o EmitToDepth(l.depth) \o <<Jump(target)>>,
              {} \cup {}, {} \cup {target})
    BY <1>6, <2>1, Together
  <2> QED BY <2>2
<1>8. target \in LabelsIn(code) \/ target \in Owned(n)
  <2>1. CASE target = l.break
    BY <1>2, <2>1 DEF IsLoopOf, Owned
  <2>2. CASE target = l.continue /\ blocks[n].kind = "while"
    BY <1>2, <2>2 DEF IsLoopOf, Books, LoopKinds
  <2>3. CASE target = l.continue /\ blocks[n].kind \in {"for", "ranged"}
    <3>1. target \in Continues(n)
      BY <1>1, <1>2, <2>3 DEF IsLoopOf, Continues
    <3> QED BY <2>3, <3>1 DEF Owned
  <2> QED BY <1>1, <1>2, <2>1, <2>2, <2>3 DEF IsLoopOf, LoopKinds
<1>9. /\ loops' \in Seq(Loop) /\ DOMAIN loops' = DOMAIN loops
      /\ \A k \in DOMAIN loops : /\ loops'[k].continue = loops[k].continue
                                 /\ loops'[k].break = loops[k].break
                                 /\ loops'[k].depth = loops[k].depth
  <2>1. [l EXCEPT !.left = TRUE] \in Loop
    BY <1>1 DEF Loop
  <2>2. loops' = [loops EXCEPT ![K] = [l EXCEPT !.left = TRUE]]
    BY <1>5
  <2>3. loops' \in [1 .. K -> Loop]
    BY <1>1, <2>1, <2>2, ShapeFacts
  <2>4. loops' \in Seq(Loop)
    BY <1>1, <2>3
  <2> QED BY <1>1, <2>2, <2>4 DEF Loop
<1>10. nodes' \in Nat /\ defers' \in Seq(Seq(Nat))
  BY <1>5, ShapeFacts
<1>11. Stays(<<Leave(l.depth - 1)>> \o EmitToDepth(l.depth) \o <<Jump(target)>>, {target})
  BY <1>5, <1>7, <1>8, <1>9, <1>10 DEF Stays
<1> QED BY <1>1, <1>11

LEMMA ExitInv ==
  ASSUME Shape, Books, loops # <<>>, NEW target, Exit(target),
         target \in {Last(loops).break, Last(loops).continue}
  PROVE  Shape' /\ Books'
BY ExitStays, StayInv

(* An if statement owes its end and its next branch.                       *)
LEMMA OpenIfOpens ==
  ASSUME Shape, Books, OpenIf, NEW N, N = Len(blocks) + 1
  PROVE  LET b == [kind |-> "if", end |-> labels, next |-> labels + 1]
         IN  /\ b \in Block
             /\ Opens(N, b, <<Branch(labels + 1), Open(Depth + 1)>>, {}, {labels + 1})
<1> DEFINE b == [kind |-> "if", end |-> labels, next |-> labels + 1]
           s == <<Branch(labels + 1), Open(Depth + 1)>>
<1>1. N = Len(blocks) + 1
  OBVIOUS
<1>2. /\ nodes' = nodes + 1 /\ labels' = labels + 2 /\ blocks' = Append(blocks, b)
      /\ defers' = Append(defers, <<>>) /\ loops' = loops /\ code' = code \o s
  BY DEF OpenIf, Node, Emit, PushScope
<1>3. b \in Block
  BY NumberFacts DEF Block
<1>4. Piece(s, {}, {labels + 1})
  <2>1. labels + 1 \in Nat /\ Depth + 1 \in Nat
    BY NumberFacts
  <2>2. Piece(<<Branch(labels + 1)>>, {}, {labels + 1})
    BY <2>1, Pieces
  <2>3. Piece(Append(<<Branch(labels + 1)>>, Open(Depth + 1)), {}, {labels + 1})
    BY <2>1, <2>2, Longer
  <2>4. \A x, y : <<x, y>> = Append(<<x>>, y)
    BY Tuples
  <2> QED BY <2>3, <2>4
<1>5. blocks'[N] = b
  BY <1>1, <1>2, <1>3, AppendFacts DEF Shape
<1>6. Owned(N)' = {labels, labels + 1}
  BY <1>5 DEF Owned
<1>7. labels' \in Nat /\ labels <= labels' /\ {labels, labels + 1} \subseteq labels .. labels' - 1
  <2>1. \A x, y \in Nat : y = x + 2 => y \in Nat /\ x <= y /\ {x, x + 1} \subseteq x .. y - 1
    OBVIOUS
  <2>2. labels' = labels + 2
    BY <1>2
  <2>3. labels \in Nat /\ labels + 2 \in Nat
    BY NumberFacts
  <2> HIDE DEF s, b
  <2> QED BY <2>1, <2>2, <2>3
<1>8. Opens(N, b, s, {}, {labels + 1})
  <2>1. nodes' \in Nat /\ b.kind = "if" /\ b.end # b.next
    <3>1. nodes' = nodes + 1
      BY <1>2
    <3>2. labels # labels + 1
      BY NumberFacts
    <3> QED BY <3>1, <3>2, NumberFacts
  <2> HIDE DEF s, b
  <2> QED BY <1>1, <1>2, <1>4, <1>6, <1>7, <2>1 DEF Opens
<1> QED BY <1>3, <1>8

LEMMA OpenIfInv == Shape /\ Books /\ OpenIf => Shape' /\ Books'
BY OpenIfOpens, OpenInv

LoopOpens(kind, n, continue, break, top, s, d, u) ==
  /\ OpenLoop(kind, n, continue, break, top) /\ nodes' \in Nat
  /\ Piece(s, d, u) /\ code' = code \o s
  /\ d \subseteq labels .. (labels + n) - 1 /\ top \in d
  /\ break \in labels .. (labels + n) - 1 /\ break \notin d
  /\ IF kind = "while" THEN continue = top
     ELSE /\ continue \in labels .. (labels + n) - 1
          /\ continue \notin d /\ continue # break
  /\ u \subseteq d \cup {break}

(* The beginning of a loop, whatever its kind.                             *)
LEMMA LoopIs ==
  ASSUME Shape, Books, NEW kind \in LoopKinds, NEW n \in Nat,
         NEW continue \in Nat, NEW break \in Nat, NEW top \in Nat,
         NEW s, NEW d, NEW u, LoopOpens(kind, n, continue, break, top, s, d, u),
         NEW N, N = Len(blocks) + 1
  PROVE  LET b == [kind |-> kind, end |-> break, next |-> top]
         IN  b \in Block /\ Opens(N, b, s, d, u)
<1> USE DEF LoopOpens
<1> DEFINE b == [kind |-> kind, end |-> break, next |-> top]
           l == [continue |-> continue, break |-> break, depth |-> Depth + 1, left |-> FALSE]
<1>1. N = Len(blocks) + 1
  OBVIOUS
<1>2. /\ labels' = labels + n /\ blocks' = Append(blocks, b)
      /\ defers' = Append(defers, <<>>) /\ loops' = Append(loops, l)
  BY DEF OpenLoop, PushScope
<1>3. b \in Block /\ l \in Loop /\ l.depth = N + 1
  BY <1>1, ShapeFacts DEF Block, Loop
<1>4. blocks'[N] = b
  BY <1>1, <1>2, <1>3, AppendFacts DEF Shape
<1>5. /\ DOMAIN loops' = DOMAIN loops \cup {Len(loops) + 1} /\ loops'[Len(loops) + 1] = l
      /\ \A k \in DOMAIN loops : loops'[k] = loops[k]
  <2>1. loops \in Seq(Loop)
    BY DEF Shape
  <2>2. loops' = Append(loops, l) /\ l \in Loop
    BY <1>2, <1>3
  <2> HIDE DEF LoopOpens, l
  <2> QED BY <2>1, <2>2, AppendFacts
<1>6. \A k \in DOMAIN loops : loops'[k].depth # N + 1
  <2>1. ASSUME NEW k \in DOMAIN loops PROVE loops[k].depth # N + 1
    <3> HIDE DEF LoopOpens
    <3>1. PICK m \in DOMAIN blocks : loops[k].depth = m + 1
      BY DEF Shape, IsLoopOf
    <3>2. m \in 1 .. Len(blocks) /\ Len(blocks) \in Nat
      BY ShapeFacts
    <3> QED BY <1>1, <3>1, <3>2
  <2> QED BY <1>5, <2>1
<1>7. Continues(N)' = {continue}
  <2>1. l.continue = continue /\ l.depth = N + 1
    BY <1>3
  <2> HIDE DEF LoopOpens, l
  <2>2. {k \in DOMAIN loops' : loops'[k].depth = N + 1} = {Len(loops) + 1}
    BY <1>5, <1>6, <2>1
  <2>3. Continues(N)' = {loops'[k].continue : k \in {j \in DOMAIN loops' : loops'[j].depth = N + 1}}
    BY DEF Continues
  <2> QED BY <1>5, <2>1, <2>2, <2>3
<1>8. Owned(N)' = {break} \cup (IF kind = "while" THEN {} ELSE {continue})
  BY <1>4, <1>7 DEF Owned, LoopKinds
<1>9. Opens(N, b, s, d, u)
  <2>1. /\ labels' \in Nat /\ labels <= labels' /\ labels' - 1 = (labels + n) - 1
        /\ l.depth = Len(blocks) + 2
    <3>1. labels' \in Nat /\ labels <= labels' /\ labels' - 1 = (labels + n) - 1
      <4> HIDE DEF LoopOpens
      <4>1. \A x, y, z \in Nat : y = x + z => x <= y /\ y - 1 = (x + z) - 1
        OBVIOUS
      <4>2. labels \in Nat /\ labels + n \in Nat
        BY NumberFacts
      <4> QED BY <1>2, <4>1, <4>2
    <3>2. N + 1 = Len(blocks) + 2
      BY <1>1, ShapeFacts
    <3> QED BY <1>3, <3>1, <3>2
  <2>2. /\ b.kind = kind /\ b.next = top /\ b.end = break
        /\ l.continue = continue /\ l.break = break
    OBVIOUS
  <2> HIDE DEF b, l
  <2>3. /\ d \cap Owned(N)' = {} /\ Owned(N)' \subseteq labels .. labels' - 1
        /\ u \subseteq d \cup Owned(N)'
    BY <1>8, <2>1
  <2>4. IF b.kind = "while" THEN l.continue = b.next ELSE l.continue # b.end
    BY <2>2
  <2> QED BY <1>1, <1>2, <1>3, <2>1, <2>2, <2>3, <2>4 DEF Opens
<1> QED BY <1>3, <1>9

LEMMA LoopInv ==
  ASSUME Shape, Books, NEW kind \in LoopKinds, NEW n \in Nat,
         NEW continue \in Nat, NEW break \in Nat, NEW top \in Nat,
         NEW s, NEW d, NEW u, LoopOpens(kind, n, continue, break, top, s, d, u)
  PROVE  Shape' /\ Books'
<1>1. PICK N : N = Len(blocks) + 1
  OBVIOUS
<1> DEFINE b == [kind |-> kind, end |-> break, next |-> top]
<1>2. b \in Block /\ Opens(N, b, s, d, u)
  BY <1>1, LoopIs
<1> HIDE DEF b
<1> QED BY <1>2, OpenInv

(* `while` and `for` begin in the same way.                                *)
LEMMA TopPiece ==
  ASSUME NEW top \in Nat, NEW end \in Nat, NEW n \in Nat
  PROVE  Piece(<<Label(top), Branch(end), Open(n)>>, {top}, {end})
<1>1. Piece(<<Label(top)>>, {top}, {})
  BY Pieces
<1>2. Piece(Append(<<Label(top)>>, Branch(end)), {top}, {} \cup {end})
  BY <1>1, Longer
<1>3. Piece(Append(Append(<<Label(top)>>, Branch(end)), Open(n)), {top}, {end})
  <2>1. {} \cup {end} = {end}
    OBVIOUS
  <2> QED BY <1>2, <2>1, Longer
<1>4. \A x, y, z : <<x, y, z>> = Append(Append(<<x>>, y), z)
  BY Tuples
<1>5. <<Label(top), Branch(end), Open(n)>> = Append(Append(<<Label(top)>>, Branch(end)), Open(n))
  BY <1>4
<1> QED BY <1>3, <1>5, Zenon

(* A while loop owes its end; its continue is its top, which is defined.   *)
LEMMA OpenWhileOpens ==
  ASSUME Shape, Books, OpenWhile
  PROVE  /\ labels \in Nat /\ labels + 1 \in Nat
         /\ LoopOpens("while", 2, labels, labels + 1, labels,
                      <<Label(labels), Branch(labels + 1), Open(Depth + 1)>>, {labels}, {labels + 1})
<1> DEFINE s == <<Label(labels), Branch(labels + 1), Open(Depth + 1)>>
<1>1. /\ nodes' = nodes + 1 /\ OpenLoop("while", 2, labels, labels + 1, labels)
      /\ code' = code \o s
  BY DEF OpenWhile, Node, Emit
<1>2. nodes' \in Nat /\ labels \in Nat /\ labels + 1 \in Nat /\ Depth + 1 \in Nat
  <2>1. nodes' = nodes + 1
    BY <1>1
  <2> QED BY <2>1, NumberFacts
<1>3. Piece(s, {labels}, {labels + 1})
  BY <1>2, TopPiece
<1>4. /\ labels \in labels .. (labels + 2) - 1 /\ labels + 1 \in labels .. (labels + 2) - 1
      /\ labels + 1 \notin {labels} /\ 2 \in Nat /\ "while" \in LoopKinds
  BY <1>2 DEF LoopKinds
<1> HIDE DEF s
<1>5. /\ {labels} \subseteq labels .. (labels + 2) - 1
      /\ {labels + 1} \subseteq {labels} \cup {labels + 1}
  BY <1>4
<1>6. LoopOpens("while", 2, labels, labels + 1, labels, s, {labels}, {labels + 1})
  BY <1>1, <1>2, <1>3, <1>4, <1>5 DEF LoopOpens
<1> QED BY <1>2, <1>6 DEF s

LEMMA OpenWhileInv == Shape /\ Books /\ OpenWhile => Shape' /\ Books'
<1>1. "while" \in LoopKinds /\ 2 \in Nat
  BY DEF LoopKinds
<1> QED BY <1>1, OpenWhileOpens, LoopInv

(* A for loop owes its end and where its iterators are.                    *)
LEMMA OpenForOpens ==
  ASSUME Shape, Books, OpenFor
  PROVE  /\ labels \in Nat /\ labels + 1 \in Nat /\ labels + 2 \in Nat
         /\ LoopOpens("for", 3, labels + 2, labels + 1, labels,
                      <<Label(labels), Branch(labels + 1), Open(Depth + 1)>>, {labels}, {labels + 1})
<1> DEFINE s == <<Label(labels), Branch(labels + 1), Open(Depth + 1)>>
<1>1. /\ nodes' = nodes + 1 /\ OpenLoop("for", 3, labels + 2, labels + 1, labels)
      /\ code' = code \o s
  BY DEF OpenFor, Node, Emit
<1>2. /\ nodes' \in Nat /\ labels \in Nat /\ labels + 1 \in Nat /\ labels + 2 \in Nat
      /\ Depth + 1 \in Nat
  <2>1. nodes' = nodes + 1
    BY <1>1
  <2> QED BY <2>1, NumberFacts
<1>3. Piece(s, {labels}, {labels + 1})
  BY <1>2, TopPiece
<1>4. /\ labels \in labels .. (labels + 3) - 1 /\ labels + 1 \in labels .. (labels + 3) - 1
      /\ labels + 2 \in labels .. (labels + 3) - 1
      /\ labels + 1 \notin {labels} /\ labels + 2 \notin {labels} /\ labels + 2 # labels + 1
      /\ 3 \in Nat /\ "for" \in LoopKinds /\ "for" # "while"
  BY <1>2 DEF LoopKinds
<1> HIDE DEF s
<1>5. /\ {labels} \subseteq labels .. (labels + 3) - 1
      /\ {labels + 1} \subseteq {labels} \cup {labels + 1}
  BY <1>4
<1>6. LoopOpens("for", 3, labels + 2, labels + 1, labels, s, {labels}, {labels + 1})
  BY <1>1, <1>2, <1>3, <1>4, <1>5 DEF LoopOpens
<1> QED BY <1>2, <1>6 DEF s

LEMMA OpenForInv == Shape /\ Books /\ OpenFor => Shape' /\ Books'
<1>1. "for" \in LoopKinds /\ 3 \in Nat
  BY DEF LoopKinds
<1> QED BY <1>1, OpenForOpens, LoopInv

(* A ranged for also defines the labels of its direction.                  *)
LEMMA OpenRangedOpens ==
  ASSUME Shape, Books, OpenRanged
  PROVE  /\ labels \in Nat /\ labels + 1 \in Nat /\ labels + 2 \in Nat
         /\ labels + 3 \in Nat /\ labels + 4 \in Nat
         /\ LoopOpens("ranged", 5, labels + 3, labels + 4, labels + 2,
                      <<Branch(labels), Jump(labels + 1), Label(labels), Label(labels + 1),
                        Label(labels + 2), Branch(labels + 4), Open(Depth + 1)>>,
                      {labels, labels + 1, labels + 2}, {labels, labels + 1, labels + 4})
<1> DEFINE s == <<Branch(labels), Jump(labels + 1), Label(labels), Label(labels + 1),
                  Label(labels + 2), Branch(labels + 4), Open(Depth + 1)>>
           d == {labels, labels + 1, labels + 2}
           u == {labels, labels + 1, labels + 4}
<1>1. /\ nodes' = nodes + 1
      /\ OpenLoop("ranged", 5, labels + 3, labels + 4, labels + 2)
      /\ code' = code \o s
  BY DEF OpenRanged, Node, Emit
<1>2. /\ nodes' \in Nat /\ labels \in Nat /\ labels + 1 \in Nat /\ labels + 2 \in Nat
      /\ labels + 3 \in Nat /\ labels + 4 \in Nat /\ Depth + 1 \in Nat
  <2> HIDE DEF s, d, u
  <2>1. nodes' \in Nat /\ labels \in Nat /\ Depth \in Nat
    BY <1>1, ShapeFacts
  <2> QED BY <2>1
<1>3. Piece(s, d, u)
  <2> DEFINE s1 == <<Branch(labels)>>
             s2 == Append(s1, Jump(labels + 1))
             s3 == Append(s2, Label(labels))
             s4 == Append(s3, Label(labels + 1))
             s5 == Append(s4, Label(labels + 2))
             s6 == Append(s5, Branch(labels + 4))
             s7 == Append(s6, Open(Depth + 1))
  <2>1. Piece(s1, {}, {labels})
    BY <1>2, Pieces
  <2>2. Piece(s2, {}, {labels} \cup {labels + 1})
    BY <1>2, <2>1, Longer
  <2> HIDE DEF s2
  <2>3. Piece(s3, {} \cup {labels}, {labels} \cup {labels + 1})
    BY <1>2, <2>2, Longer
  <2> HIDE DEF s3
  <2>4. Piece(s4, {} \cup {labels} \cup {labels + 1}, {labels} \cup {labels + 1})
    <3>1. labels + 1 \notin {} \cup {labels}
      BY <1>2
    <3> QED BY <1>2, <2>3, <3>1, Longer
  <2> HIDE DEF s4
  <2>5. Piece(s5, {} \cup {labels} \cup {labels + 1} \cup {labels + 2}, {labels} \cup {labels + 1})
    <3>1. labels + 2 \notin {} \cup {labels} \cup {labels + 1}
      BY <1>2
    <3> QED BY <1>2, <2>4, <3>1, Longer
  <2> HIDE DEF s5
  <2>6. Piece(s6, {} \cup {labels} \cup {labels + 1} \cup {labels + 2},
              {labels} \cup {labels + 1} \cup {labels + 4})
    BY <1>2, <2>5, Longer
  <2> HIDE DEF s6
  <2>7. Piece(s7, {} \cup {labels} \cup {labels + 1} \cup {labels + 2},
              {labels} \cup {labels + 1} \cup {labels + 4})
    BY <1>2, <2>6, Longer
  <2>8. /\ {} \cup {labels} \cup {labels + 1} \cup {labels + 2} = d
        /\ {labels} \cup {labels + 1} \cup {labels + 4} = u
    OBVIOUS
  <2>9. s = s7
    BY Tuples DEF s2, s3, s4, s5, s6
  <2> HIDE DEF s, s7, d, u
  <2> QED BY <2>7, <2>8, <2>9
<1>4. /\ labels \in labels .. (labels + 5) - 1 /\ labels + 1 \in labels .. (labels + 5) - 1
      /\ labels + 2 \in labels .. (labels + 5) - 1 /\ labels + 3 \in labels .. (labels + 5) - 1
      /\ labels + 4 \in labels .. (labels + 5) - 1
      /\ labels + 4 \notin d /\ labels + 3 \notin d /\ labels + 3 # labels + 4
      /\ labels + 2 \in d /\ 5 \in Nat
  BY <1>2
<1>5. "ranged" \in LoopKinds /\ "ranged" # "while"
  BY DEF LoopKinds
<1>6. d \subseteq labels .. (labels + 5) - 1 /\ u \subseteq d \cup {labels + 4}
  BY <1>4
<1> HIDE DEF s, d, u
<1>7. LoopOpens("ranged", 5, labels + 3, labels + 4, labels + 2, s, d, u)
  BY <1>1, <1>2, <1>3, <1>4, <1>5, <1>6 DEF LoopOpens
<1> QED BY <1>2, <1>7 DEF s, d, u

LEMMA OpenRangedInv == Shape /\ Books /\ OpenRanged => Shape' /\ Books'
<1>1. "ranged" \in LoopKinds /\ 5 \in Nat
  BY DEF LoopKinds
<1> QED BY <1>1, OpenRangedOpens, LoopInv

(* The end of one body of an if statement and the beginning of the next.   *)
LEMMA BodyEnds ==
  ASSUME Shape, blocks # <<>>
  PROVE  /\ Len(blocks) \in DOMAIN blocks /\ Last(blocks) = blocks[Len(blocks)]
         /\ blocks[Len(blocks)] \in Block
         /\ blocks[Len(blocks)].end \in Nat /\ blocks[Len(blocks)].next \in Nat
         /\ Depth \in Nat /\ Depth \in DOMAIN defers
         /\ Piece(<<Leave(Depth - 1)>> \o EmitCurrent, {}, {})
<1>1. Len(blocks) \in DOMAIN blocks /\ blocks[Len(blocks)] \in Block
  BY ShapeFacts DEF Shape
<1>2. Depth - 1 \in Nat /\ Depth - 1 <= Depth /\ Depth \in Nat /\ Depth \in DOMAIN defers
  BY ShapeFacts
<1>3. Piece(<<Leave(Depth - 1)>> \o EmitCurrent, {}, {})
  BY <1>2, LeavePiece DEF EmitCurrent
<1> QED BY <1>1, <1>2, <1>3 DEF Last, Block

(* A new body begins with no deferred statement.                           *)
LEMMA ScopeEmptied ==
  ASSUME Shape, defers' = [defers EXCEPT ![Depth] = <<>>]
  PROVE  defers' \in Seq(Seq(Nat)) /\ Len(defers') = Len(defers)
<1>1. Depth \in DOMAIN defers /\ <<>> \in Seq(Nat)
  BY ShapeFacts
<1> QED BY <1>1, ShapeFacts

(* An else if defines the label it is reached by, and owes another.        *)
LEMMA ElseIfNext ==
  ASSUME Shape, Books, ElseIf, NEW N, N = Len(blocks)
  PROVE  LET b == [blocks[N] EXCEPT !.next = labels]
         IN  /\ b \in Block
             /\ NextBranch(N, b,
                  <<Leave(Depth - 1)>> \o EmitCurrent
                    \o <<Jump(blocks[N].end), Label(blocks[N].next), Branch(labels), Open(Depth)>>,
                  {blocks[N].end, labels})
<1>1. N = Len(blocks)
  OBVIOUS
<1> DEFINE e == blocks[N].end
           x == blocks[N].next
           b == [blocks[N] EXCEPT !.next = labels]
           t == <<Jump(e), Label(x), Branch(labels), Open(Depth)>>
           s == <<Leave(Depth - 1)>> \o EmitCurrent \o t
<1>2. /\ blocks # <<>> /\ blocks[N].kind = "if" /\ nodes' = nodes + 1
      /\ labels' = labels + 1 /\ blocks' = [blocks EXCEPT ![N] = b]
      /\ defers' = [defers EXCEPT ![Depth] = <<>>] /\ loops' = loops /\ code' = code \o s
  BY <1>1, BodyEnds DEF ElseIf, Emit, Last
<1>3. /\ N \in DOMAIN blocks /\ blocks[N] \in Block /\ e \in Nat /\ x \in Nat
      /\ labels \in Nat /\ Depth \in Nat /\ Piece(<<Leave(Depth - 1)>> \o EmitCurrent, {}, {})
  BY <1>1, <1>2, BodyEnds, ShapeFacts
<1>4. b \in Block /\ b.kind = "if" /\ b.next = labels /\ b.end = e
  BY <1>2, <1>3 DEF Block
<1>5. Piece(t, {x}, {e, labels})
  <2>1. Piece(<<Jump(e)>>, {}, {e})
    BY <1>3, Pieces
  <2>2. Piece(Append(<<Jump(e)>>, Label(x)), {} \cup {x}, {e})
    BY <1>3, <2>1, Longer
  <2>3. Piece(Append(Append(<<Jump(e)>>, Label(x)), Branch(labels)), {} \cup {x}, {e} \cup {labels})
    BY <1>3, <2>2, Longer
  <2>4. Piece(Append(Append(Append(<<Jump(e)>>, Label(x)), Branch(labels)), Open(Depth)),
              {} \cup {x}, {e} \cup {labels})
    BY <1>3, <2>3, Longer
  <2>5. t = Append(Append(Append(<<Jump(e)>>, Label(x)), Branch(labels)), Open(Depth))
    BY Tuples
  <2>6. {} \cup {x} = {x} /\ {e} \cup {labels} = {e, labels}
    OBVIOUS
  <2> HIDE DEF t
  <2> QED BY <2>4, <2>5, <2>6
<1> HIDE DEF t
<1>6. Piece(s, {x}, {e, labels})
  <2>1. Piece(s, {} \cup {x}, {} \cup {e, labels})
    BY <1>3, <1>5, Together
  <2> HIDE DEF s
  <2> QED BY <2>1
<1>7. nodes' \in Nat /\ defers' \in Seq(Seq(Nat)) /\ Len(defers') = Len(defers)
  BY <1>2, ScopeEmptied, ShapeFacts
<1> HIDE DEF s, b
<1>8. {e, labels} \subseteq Owned(N)'
  <2>1. blocks'[N] = b
    BY <1>2, <1>3
  <2> QED BY <1>4, <2>1 DEF Owned
<1>9. NextBranch(N, b, s, {e, labels})
  BY <1>1, <1>2, <1>4, <1>6, <1>7, <1>8 DEF NextBranch
<1> QED BY <1>4, <1>9 DEF s, b, t

LEMMA ElseIfInv == Shape /\ Books /\ ElseIf => Shape' /\ Books'
BY ElseIfNext, NextBranchInv

(* An else defines the label it is reached by, and owes the end only.      *)
LEMMA ElseNext ==
  ASSUME Shape, Books, Else, NEW N, N = Len(blocks)
  PROVE  LET b == [blocks[N] EXCEPT !.kind = "else"]
         IN  /\ b \in Block
             /\ NextBranch(N, b,
                  <<Leave(Depth - 1)>> \o EmitCurrent
                    \o <<Jump(blocks[N].end), Label(blocks[N].next), Open(Depth)>>,
                  {blocks[N].end})
<1>1. N = Len(blocks)
  OBVIOUS
<1> DEFINE e == blocks[N].end
           x == blocks[N].next
           b == [blocks[N] EXCEPT !.kind = "else"]
           t == <<Jump(e), Label(x), Open(Depth)>>
           s == <<Leave(Depth - 1)>> \o EmitCurrent \o t
<1>2. /\ blocks # <<>> /\ blocks[N].kind = "if" /\ nodes' = nodes
      /\ labels' = labels /\ blocks' = [blocks EXCEPT ![N] = b]
      /\ defers' = [defers EXCEPT ![Depth] = <<>>] /\ loops' = loops /\ code' = code \o s
  BY <1>1, BodyEnds DEF Else, Closing, Emit, Last
<1>3. /\ N \in DOMAIN blocks /\ blocks[N] \in Block /\ e \in Nat /\ x \in Nat
      /\ Depth \in Nat /\ Piece(<<Leave(Depth - 1)>> \o EmitCurrent, {}, {})
  BY <1>1, <1>2, BodyEnds
<1>4. b \in Block /\ b.kind = "else" /\ b.end = e
  BY <1>2, <1>3 DEF Block
<1>5. Piece(t, {x}, {e})
  <2>1. Piece(<<Jump(e)>>, {}, {e})
    BY <1>3, Pieces
  <2>2. Piece(Append(<<Jump(e)>>, Label(x)), {} \cup {x}, {e})
    BY <1>3, <2>1, Longer
  <2>3. Piece(Append(Append(<<Jump(e)>>, Label(x)), Open(Depth)), {} \cup {x}, {e})
    BY <1>3, <2>2, Longer
  <2>4. t = Append(Append(<<Jump(e)>>, Label(x)), Open(Depth))
    BY Tuples
  <2>5. {} \cup {x} = {x}
    OBVIOUS
  <2> HIDE DEF t
  <2> QED BY <2>3, <2>4, <2>5
<1> HIDE DEF t
<1>6. Piece(s, {x}, {e})
  <2>1. Piece(s, {} \cup {x}, {} \cup {e})
    BY <1>3, <1>5, Together
  <2> HIDE DEF s
  <2> QED BY <2>1
<1>7. nodes' \in Nat /\ defers' \in Seq(Seq(Nat)) /\ Len(defers') = Len(defers)
  BY <1>2, ScopeEmptied, ShapeFacts
<1> HIDE DEF s, b
<1>8. {e} \subseteq Owned(N)'
  <2>1. blocks'[N] = b
    BY <1>2, <1>3
  <2> QED BY <1>4, <2>1 DEF Owned
<1>9. NextBranch(N, b, s, {e})
  BY <1>1, <1>2, <1>4, <1>6, <1>7, <1>8 DEF NextBranch
<1> QED BY <1>4, <1>9 DEF s, b, t

LEMMA ElseInv == Shape /\ Books /\ Else => Shape' /\ Books'
BY ElseNext, NextBranchInv

(* The body of a loop ends: the loop is the last one.                      *)
LEMMA TopLoop ==
  ASSUME Shape, NEW N, N = Len(blocks), blocks # <<>>, blocks[N].kind \in LoopKinds
  PROVE  /\ loops # <<>> /\ IsLoopOf(Len(loops), N)
         /\ Last(loops).continue \in Nat
         /\ Continues(N) = {Last(loops).continue}
<1>1. /\ N \in Nat /\ DOMAIN blocks = 1 .. N /\ N \in DOMAIN blocks
      /\ Len(loops) \in Nat /\ DOMAIN loops = 1 .. Len(loops)
  BY BodyEnds, ShapeFacts
<1>2. PICK k \in DOMAIN loops : IsLoopOf(k, N)
  BY <1>1 DEF Shape
<1>3. loops # <<>> /\ Len(loops) \in DOMAIN loops /\ Last(loops) = loops[Len(loops)]
  BY <1>1, <1>2 DEF Last
<1>4. ASSUME NEW j \in DOMAIN loops, loops[j].depth = N + 1 PROVE j = Len(loops)
  <2>1. PICK n \in DOMAIN blocks : loops[Len(loops)].depth = n + 1
    BY <1>3 DEF Shape, IsLoopOf
  <2>2. j < Len(loops) => loops[j].depth < loops[Len(loops)].depth
    BY <1>3 DEF Shape
  <2> QED BY <1>1, <1>4, <2>1, <2>2
<1>5. k = Len(loops)
  BY <1>2, <1>4 DEF IsLoopOf
<1>6. {j \in DOMAIN loops : loops[j].depth = N + 1} = {Len(loops)}
  BY <1>2, <1>4, <1>5 DEF IsLoopOf
<1>7. Continues(N) = {loops[Len(loops)].continue}
  BY <1>6 DEF Continues
<1>8. loops[Len(loops)].continue \in Nat
  BY <1>3, ShapeFacts DEF Loop
<1> QED BY <1>2, <1>3, <1>5, <1>7, <1>8

(* The end of an if statement defines its end.                             *)
LEMMA CloseIfCloses ==
  ASSUME Shape, Books, CloseIf, NEW N, N = Len(blocks)
  PROVE  Closes(N, <<Leave(Depth - 1)>> \o EmitCurrent \o <<Label(blocks[N].end)>>, {})
<1>1. N = Len(blocks)
  OBVIOUS
<1> DEFINE e == blocks[N].end
           s == <<Leave(Depth - 1)>> \o EmitCurrent \o <<Label(e)>>
<1>2. /\ blocks # <<>> /\ blocks[N].kind = "else" /\ nodes' = nodes
      /\ labels' = labels /\ blocks' = Front(blocks)
      /\ defers' = Front(defers) /\ loops' = loops /\ code' = code \o s
  BY <1>1, BodyEnds DEF CloseIf, Closing, Emit, Last, PopScope
<1>3. e \in Nat /\ Piece(<<Leave(Depth - 1)>> \o EmitCurrent, {}, {})
  BY <1>1, <1>2, BodyEnds
<1>4. Piece(s, {e}, {})
  <2>1. Piece(<<Label(e)>>, {e}, {})
    BY <1>3, Pieces
  <2>2. Piece(s, {} \cup {e}, {} \cup {})
    BY <1>3, <2>1, Together
  <2> HIDE DEF s
  <2> QED BY <2>2
<1>5. Owned(N) = {e}
  BY <1>2 DEF Owned
<1>6. nodes' \in Nat
  BY <1>2, ShapeFacts
<1>7. Closes(N, s, {})
  <2> HIDE DEF s, e
  <2> QED BY <1>1, <1>2, <1>4, <1>5, <1>6 DEF Closes, LoopKinds
<1> QED BY <1>7

LEMMA CloseIfInv == Shape /\ Books /\ CloseIf => Shape' /\ Books'
BY CloseIfCloses, CloseInv

(* The end of a while loop defines its end, and jumps to its top.          *)
LEMMA CloseWhileCloses ==
  ASSUME Shape, Books, CloseWhile, NEW N, N = Len(blocks)
  PROVE  /\ blocks[N].kind = "while"
         /\ Closes(N, <<Leave(Depth - 1)>> \o EmitCurrent
                        \o <<Jump(blocks[N].next), Label(blocks[N].end)>>, {blocks[N].next})
<1>1. N = Len(blocks)
  OBVIOUS
<1> DEFINE e == blocks[N].end
           x == blocks[N].next
           s == <<Leave(Depth - 1)>> \o EmitCurrent \o <<Jump(x), Label(e)>>
<1>2. /\ blocks # <<>> /\ blocks[N].kind = "while" /\ nodes' = nodes
      /\ labels' = labels /\ blocks' = Front(blocks)
      /\ defers' = Front(defers) /\ loops' = Front(loops) /\ code' = code \o s
  BY <1>1, BodyEnds DEF CloseWhile, CloseLoop, Closing, Emit, Last, PopScope
<1>3. /\ N \in DOMAIN blocks /\ e \in Nat /\ x \in Nat
      /\ Piece(<<Leave(Depth - 1)>> \o EmitCurrent, {}, {})
  BY <1>1, <1>2, BodyEnds
<1>4. Piece(s, {e}, {x})
  <2>1. Piece(<<Jump(x)>>, {}, {x})
    BY <1>3, Pieces
  <2>2. Piece(Append(<<Jump(x)>>, Label(e)), {} \cup {e}, {x})
    BY <1>3, <2>1, Longer
  <2>3. <<Jump(x), Label(e)>> = Append(<<Jump(x)>>, Label(e))
    BY Tuples
  <2>4. Piece(<<Jump(x), Label(e)>>, {} \cup {e}, {x})
    BY <2>2, <2>3, Zenon
  <2>5. Piece(s, {} \cup ({} \cup {e}), {} \cup {x})
    BY <1>3, <2>4, Together
  <2>6. {} \cup ({} \cup {e}) = {e} /\ {} \cup {x} = {x}
    OBVIOUS
  <2> HIDE DEF s
  <2> QED BY <2>5, <2>6
<1>5. Owned(N) = {e} /\ x \in LabelsIn(code)
  BY <1>2, <1>3 DEF Owned, Books, LoopKinds
<1>6. nodes' \in Nat
  BY <1>2, ShapeFacts
<1>7. Closes(N, s, {x})
  <2> HIDE DEF s, e, x
  <2> QED BY <1>1, <1>2, <1>4, <1>5, <1>6 DEF Closes, LoopKinds
<1> QED BY <1>2, <1>7

LEMMA CloseWhileInv == Shape /\ Books /\ CloseWhile => Shape' /\ Books'
BY CloseWhileCloses, CloseInv

(* The end of a for loop defines where continue goes, and its end.         *)
LEMMA CloseForCloses ==
  ASSUME Shape, Books, CloseFor, NEW N, N = Len(blocks)
  PROVE  /\ blocks[N].kind = "for" /\ Last(loops).continue \in Nat
         /\ Closes(N, <<Leave(Depth - 1)>> \o EmitCurrent
                        \o <<Label(Last(loops).continue), Iterate,
                             Jump(blocks[N].next), Label(blocks[N].end)>>, {blocks[N].next})
<1>1. N = Len(blocks)
  OBVIOUS
<1> DEFINE e == blocks[N].end
           x == blocks[N].next
           c == Last(loops).continue
           t == <<Label(c), Iterate, Jump(x), Label(e)>>
           s == <<Leave(Depth - 1)>> \o EmitCurrent \o t
<1>2. /\ blocks # <<>> /\ blocks[N].kind = "for" /\ nodes' = nodes
      /\ labels' = labels /\ blocks' = Front(blocks)
      /\ defers' = Front(defers) /\ loops' = Front(loops) /\ code' = code \o s
  BY <1>1, BodyEnds DEF CloseFor, CloseLoop, Closing, Emit, Last, PopScope
<1>3. /\ N \in DOMAIN blocks /\ e \in Nat /\ x \in Nat
      /\ Piece(<<Leave(Depth - 1)>> \o EmitCurrent, {}, {})
  BY <1>1, <1>2, BodyEnds
<1>4. c \in Nat /\ Continues(N) = {c}
  BY <1>1, <1>2, TopLoop DEF LoopKinds
<1>5. Owned(N) = {e, c} /\ x \in LabelsIn(code) /\ e # c
  BY <1>2, <1>3, <1>4 DEF Owned, Books, LoopKinds
<1>6. Piece(t, {c} \cup {e}, {} \cup {x})
  <2>1. Piece(<<Label(c)>>, {c}, {})
    BY <1>4, Pieces
  <2>2. Piece(Append(<<Label(c)>>, Iterate), {c}, {})
    BY <1>4, <2>1, Longer
  <2>3. Piece(Append(Append(<<Label(c)>>, Iterate), Jump(x)), {c}, {} \cup {x})
    BY <1>3, <2>2, Longer
  <2>4. Piece(Append(Append(Append(<<Label(c)>>, Iterate), Jump(x)), Label(e)),
              {c} \cup {e}, {} \cup {x})
    <3>1. e \notin {c}
      BY <1>5
    <3> QED BY <1>3, <2>3, <3>1, Longer
  <2>5. t = Append(Append(Append(<<Label(c)>>, Iterate), Jump(x)), Label(e))
    BY Tuples
  <2> HIDE DEF t
  <2> QED BY <2>4, <2>5
<1> HIDE DEF t
<1>7. Piece(s, {e, c}, {x})
  <2>1. Piece(s, {} \cup ({c} \cup {e}), {} \cup ({} \cup {x}))
    BY <1>3, <1>6, Together
  <2>2. {} \cup ({c} \cup {e}) = {e, c} /\ {} \cup ({} \cup {x}) = {x}
    OBVIOUS
  <2> HIDE DEF s
  <2> QED BY <2>1, <2>2
<1>8. nodes' \in Nat
  BY <1>2, ShapeFacts
<1>9. Closes(N, s, {x})
  <2> HIDE DEF s, e, x, c
  <2> QED BY <1>1, <1>2, <1>5, <1>7, <1>8 DEF Closes, LoopKinds
<1> QED BY <1>2, <1>4, <1>9 DEF t, s

LEMMA CloseForInv == Shape /\ Books /\ CloseFor => Shape' /\ Books'
BY CloseForCloses, CloseInv

(* The same of a ranged for, in another order.                             *)
LEMMA CloseRangedCloses ==
  ASSUME Shape, Books, CloseRanged, NEW N, N = Len(blocks)
  PROVE  /\ blocks[N].kind = "ranged" /\ Last(loops).continue \in Nat
         /\ Closes(N, <<Leave(Depth - 1), Label(Last(loops).continue)>> \o EmitCurrent
                        \o <<Jump(blocks[N].next), Label(blocks[N].end)>>, {blocks[N].next})
<1>1. N = Len(blocks)
  OBVIOUS
<1> DEFINE e == blocks[N].end
           x == blocks[N].next
           c == Last(loops).continue
           h == <<Leave(Depth - 1), Label(c)>>
           t == <<Jump(x), Label(e)>>
           s == h \o EmitCurrent \o t
<1>2. /\ blocks # <<>> /\ blocks[N].kind = "ranged" /\ nodes' = nodes
      /\ labels' = labels /\ blocks' = Front(blocks)
      /\ defers' = Front(defers) /\ loops' = Front(loops) /\ code' = code \o s
  BY <1>1, BodyEnds DEF CloseRanged, CloseLoop, Closing, Emit, Last, PopScope
<1>3. /\ N \in DOMAIN blocks /\ e \in Nat /\ x \in Nat
      /\ Depth - 1 \in Nat /\ Depth - 1 <= Depth
  BY <1>1, <1>2, BodyEnds, ShapeFacts
<1>4. c \in Nat /\ Continues(N) = {c}
  BY <1>1, <1>2, TopLoop DEF LoopKinds
<1>5. Owned(N) = {e, c} /\ x \in LabelsIn(code) /\ e # c
  BY <1>2, <1>3, <1>4 DEF Owned, Books, LoopKinds
<1>6. Piece(h, {} \cup {c}, {})
  <2>1. Piece(<<Leave(Depth - 1)>>, {}, {})
    BY <1>3, Pieces
  <2>2. Piece(Append(<<Leave(Depth - 1)>>, Label(c)), {} \cup {c}, {})
    BY <1>4, <2>1, Longer
  <2>3. h = Append(<<Leave(Depth - 1)>>, Label(c))
    BY Tuples
  <2> HIDE DEF h
  <2> QED BY <2>2, <2>3
<1>7. Piece(EmitCurrent, {}, {})
  BY <1>3, DefersPiece, ShapeFacts DEF EmitCurrent
<1>8. Piece(t, {} \cup {e}, {x})
  <2>1. Piece(<<Jump(x)>>, {}, {x})
    BY <1>3, Pieces
  <2>2. Piece(Append(<<Jump(x)>>, Label(e)), {} \cup {e}, {x})
    BY <1>3, <2>1, Longer
  <2>3. t = Append(<<Jump(x)>>, Label(e))
    BY Tuples
  <2> HIDE DEF t
  <2> QED BY <2>2, <2>3
<1> HIDE DEF h, t
<1>9. Piece(s, {e, c}, {x})
  <2>1. Piece(h \o EmitCurrent, ({} \cup {c}) \cup {}, {} \cup {})
    BY <1>6, <1>7, Together
  <2>2. (({} \cup {c}) \cup {}) \cap ({} \cup {e}) = {}
    BY <1>5
  <2>3. Piece(s, (({} \cup {c}) \cup {}) \cup ({} \cup {e}), ({} \cup {}) \cup {x})
    BY <1>8, <2>1, <2>2, Together
  <2>4. (({} \cup {c}) \cup {}) \cup ({} \cup {e}) = {e, c} /\ ({} \cup {}) \cup {x} = {x}
    OBVIOUS
  <2> HIDE DEF s
  <2> QED BY <2>3, <2>4
<1>10. nodes' \in Nat
  BY <1>2, ShapeFacts
<1>11. Closes(N, s, {x})
  <2> HIDE DEF s, e, x, c
  <2> QED BY <1>1, <1>2, <1>5, <1>9, <1>10 DEF Closes, LoopKinds
<1> QED BY <1>2, <1>4, <1>11 DEF h, t, s

LEMMA CloseRangedInv == Shape /\ Books /\ CloseRanged => Shape' /\ Books'
BY CloseRangedCloses, CloseInv

(* At the end of the function no block is open: all labels are defined.    *)
LEMMA EndInv == Shape /\ Books /\ EndFunction => Resolved'
<1> SUFFICES ASSUME Shape, Books, EndFunction PROVE Resolved'
  OBVIOUS
<1> DEFINE s == <<Leave(0), Ret>> \o EmitCurrent
<1>1. blocks = <<>> /\ code' = code \o s
  BY DEF EndFunction, Emit
<1>2. Piece(<<Leave(0), Ret>>, {}, {})
  <2>1. Piece(<<Leave(0)>>, {}, {})
    BY Pieces
  <2>2. Piece(Append(<<Leave(0)>>, Ret), {}, {})
    BY <2>1, Longer
  <2>3. <<Leave(0), Ret>> = Append(<<Leave(0)>>, Ret)
    BY Tuples
  <2> QED BY <2>2, <2>3, Zenon
<1>3. Piece(EmitCurrent, {}, {})
  BY DefersPiece, ShapeFacts DEF EmitCurrent
<1>4. Piece(s, {}, {})
  <2>1. Piece(s, {} \cup {}, {} \cup {})
    BY <1>2, <1>3, Together
  <2> HIDE DEF s
  <2> QED BY <2>1
<1> HIDE DEF s
<1>5. /\ code' \in Seq(Instruction) /\ OnceIn(code')
      /\ LabelsIn(code') = LabelsIn(code) \cup {} /\ JumpsIn(code') = JumpsIn(code) \cup {}
  <2>1. {} \cap LabelsIn(code) = {}
    OBVIOUS
  <2> QED BY <1>1, <1>4, <2>1, CodePiece
<1>6. DOMAIN blocks = {}
  BY <1>1
<1> QED BY <1>5, <1>6 DEF Resolved, Books

(* The peephole pass takes jumps away, and no label.                       *)
LEMMA PeepholeInv == Resolved /\ Peephole => Resolved'
<1> SUFFICES ASSUME Resolved, Peephole PROVE Resolved'
  OBVIOUS
<1>1. /\ code \in Seq(Instruction) /\ DOMAIN code' = DOMAIN code
      /\ \A i \in DOMAIN code : code'[i] = IF FallsThrough(i) THEN Nop ELSE code[i]
  BY DEF Resolved, Peephole
<1>2. Nop \in Instruction /\ Nop.op = "nop"
  BY DEF Instruction, Nop
<1>3. \A i \in DOMAIN code : FallsThrough(i) => code[i].op = "jump"
  BY DEF FallsThrough
<1>4. \A i \in DOMAIN code : /\ code'[i] \in Instruction
                             /\ code[i].op = "label" => code'[i] = code[i]
                             /\ code'[i].op = "label" => code'[i] = code[i]
                             /\ IsJump(code'[i]) => code'[i] = code[i]
  BY <1>1, <1>2, <1>3 DEF IsJump
<1>5. code' \in Seq(Instruction)
  <2>1. code' = [i \in DOMAIN code |-> code'[i]]
    BY DEF Peephole
  <2>2. DOMAIN code = 1 .. Len(code) /\ Len(code) \in Nat
    BY <1>1
  <2>3. code' \in [1 .. Len(code) -> Instruction]
    BY <1>4, <2>1, <2>2
  <2>4. \A m \in Nat : \A f \in [1 .. m -> Instruction] : f \in Seq(Instruction)
    OBVIOUS
  <2> QED BY <2>2, <2>3, <2>4
<1>6. OnceIn(code')
  BY <1>1, <1>4 DEF Resolved, OnceIn
<1>7. LabelsIn(code) \subseteq LabelsIn(code')
  BY <1>1, <1>4 DEF LabelsIn
<1>8. JumpsIn(code') \subseteq JumpsIn(code)
  BY <1>1, <1>4 DEF JumpsIn
<1> QED BY <1>5, <1>6, <1>7, <1>8 DEF Resolved

-----------------------------------------------------------------------------
(* The invariant holds at the beginning.                                   *)
LEMMA DInit == Init => DInv
<1> SUFFICES ASSUME Init PROVE DInv
  OBVIOUS
<1>1. Shape
  BY DEF Init, Shape
<1>2. Books
  <2>1. code = <<>> /\ blocks = <<>>
    BY DEF Init
  <2>2. code \in Seq(Instruction) /\ OnceIn(code) /\ LabelsIn(code) = {} /\ JumpsIn(code) = {}
    BY <2>1, Pieces DEF Piece
  <2>3. DOMAIN blocks = {}
    BY <2>1
  <2> QED BY <2>2, <2>3 DEF Books
<1> QED BY <1>1, <1>2 DEF Init, DInv

(* Every step keeps it.                                                    *)
LEMMA DNext == DInv /\ [Next]_vars => DInv'
<1> SUFFICES ASSUME DInv, [Next]_vars PROVE DInv'
  OBVIOUS
<1>1. CASE Compile
  <2>1. phase = "compile"
    BY <1>1 DEF Compile, Defer, OpenIf, ElseIf, Else, CloseIf, OpenWhile, CloseWhile, OpenFor,
                CloseFor, OpenRanged, CloseRanged, Break, Continue, Exit, Return, EndFunction,
                Node, Closing
  <2>2. Shape /\ Books
    BY <2>1 DEF DInv
  <2>3. CASE EndFunction
    BY <2>2, <2>3, EndInv DEF EndFunction, DInv
  <2>4. CASE ~EndFunction
    <3>1. phase' = phase
      BY <1>1, <2>4 DEF Compile, Defer, OpenIf, ElseIf, Else, CloseIf, OpenWhile, CloseWhile,
                OpenFor, CloseFor, OpenRanged, CloseRanged, Break, Continue, Exit, Return,
                Node, Closing
    <3>2. CASE Break \/ Continue
      <4>1. loops # <<>> /\ \E target \in {Last(loops).break, Last(loops).continue} : Exit(target)
        BY <3>2 DEF Break, Continue
      <4> QED BY <2>1, <2>2, <3>1, <4>1, ExitInv DEF DInv
    <3>3. CASE ~(Break \/ Continue)
      <4>1. Shape' /\ Books'
        BY <1>1, <2>2, <2>4, <3>3, DeferInv, OpenIfInv, ElseIfInv, ElseInv, CloseIfInv,
           OpenWhileInv, CloseWhileInv, OpenForInv, CloseForInv, OpenRangedInv,
           CloseRangedInv, ReturnInv DEF Compile
      <4> QED BY <2>1, <3>1, <4>1 DEF DInv
    <3> QED BY <3>2, <3>3
  <2> QED BY <2>3, <2>4
<1>2. CASE Peephole
  <2>1. phase = "link" /\ phase' = "link" /\ Resolved
    BY <1>2 DEF Peephole, DInv
  <2>2. Resolved'
    BY <1>2, <2>1, PeepholeInv
  <2> QED BY <2>1, <2>2 DEF DInv
<1>3. CASE LabelPass
  BY <1>3 DEF LabelPass, DInv
<1>4. CASE Execute
  <2>1. phase = "run" /\ phase' = phase
    BY <1>4 DEF Execute, ExecJump, ExecBranch, ExecIterate, ExecDeferred, ExecRegister,
                ExecOpen, ExecLeave, Returned, Executing, At, vars
  <2> QED BY <2>1 DEF DInv
<1>5. CASE UNCHANGED vars
  <2>1. UNCHANGED <<phase, nodes, code, labels, defers, loops, blocks>>
    BY <1>5 DEF vars, compiler
  <2>2. (Shape => Shape') /\ (Books => Books') /\ (Resolved => Resolved')
    <3>1. \A k, n : IsLoopOf(k, n)' <=> IsLoopOf(k, n)
      BY <2>1 DEF IsLoopOf
    <3>2. \A n : Continues(n)' = Continues(n)
      BY <2>1 DEF Continues
    <3>3. \A n : Owned(n)' = Owned(n)
      BY <2>1, <3>2 DEF Owned
    <3>4. Shape => Shape'
      BY <2>1, <3>1 DEF Shape
    <3>5. Books => Books'
      BY <2>1, <3>2, <3>3 DEF Books
    <3>6. Resolved => Resolved'
      BY <2>1 DEF Resolved
    <3> QED BY <3>4, <3>5, <3>6
  <2> QED BY <2>1, <2>2 DEF DInv
<1> QED BY <1>1, <1>2, <1>3, <1>4, <1>5 DEF Next

(* An instruction that is a label is nothing but that label.               *)
LEMMA OnlyLabels == \A ins \in Instruction : ins.op = "label" => ins = Label(ins.to)
BY DEF Instruction, Label, Jump, Branch, Deferred, Register, Open, Leave, Iterate, Ret, Nop

(* It implies the property.                                                *)
LEMMA ResolvedMeans == DInv => JumpsResolve
<1> SUFFICES ASSUME Resolved, NEW i \in DOMAIN code, IsJump(code[i])
             PROVE  \E j \in DOMAIN code :
                      /\ code[j] = Label(code[i].to)
                      /\ \A k \in DOMAIN code : code[k] = Label(code[i].to) => k = j
  BY DEF DInv, JumpsResolve
<1>1. code[i].to \in LabelsIn(code)
  BY DEF Resolved, JumpsIn
<1>2. PICK j \in DOMAIN code : code[j].op = "label" /\ code[j].to = code[i].to
  BY <1>1 DEF LabelsIn
<1>3. code[j] \in Instruction
  BY DEF Resolved
<1>4. code[j] = Label(code[i].to)
  BY <1>2, <1>3, OnlyLabels
<1>5. \A x : Label(x).op = "label" /\ Label(x).to = x
  BY DEF Label
<1>6. ASSUME NEW k \in DOMAIN code, code[k] = Label(code[i].to) PROVE k = j
  BY <1>2, <1>5, <1>6 DEF Resolved, OnceIn
<1> QED BY <1>4, <1>6

(* Every jump of a function that has been compiled goes to a label that is *)
(* defined, and in one place, whatever the statements and however deep     *)
(* they nest (gen_label, the LABEL and JMP instructions of kit.cc.c,       *)
(* compile.if.c and compile.loops.c): label_pass finds where to go.        *)
THEOREM JumpsAlwaysResolve == Spec => []JumpsResolve
<1>1. Init => DInv
  BY DInit
<1>2. DInv /\ [Next]_vars => DInv'
  BY DNext
<1>3. DInv => JumpsResolve
  BY ResolvedMeans
<1> QED BY <1>1, <1>2, <1>3, PTL DEF Spec

-----------------------------------------------------------------------------
(* Nothing is deferred in any of the scopes from depth n on.               *)
AllEmpty(ss, n) == \A m \in n .. Len(ss) : ss[m] = <<>>

(* Two sequences together are empty if both are.                           *)
LEMMA EmptyTogether ==
  ASSUME NEW s \in Seq(Nat), NEW t \in Seq(Nat)
  PROVE  s \o t \in Seq(Nat) /\ (s \o t = <<>> <=> s = <<>> /\ t = <<>>)
<1>1. s \o t \in Seq(Nat) /\ Len(s \o t) = Len(s) + Len(t) /\ Len(s) \in Nat /\ Len(t) \in Nat
  OBVIOUS
<1>2. \A u \in Seq(Nat) : u = <<>> <=> Len(u) = 0
  OBVIOUS
<1>3. \A a, b \in Nat : a + b = 0 <=> a = 0 /\ b = 0
  OBVIOUS
<1> QED BY <1>1, <1>2, <1>3

(* What is put together is empty if there was nothing in any of them.      *)
LEMMA FlattenEmpty ==
  ASSUME NEW ss \in Seq(Seq(Nat))
  PROVE  FlattenSeq(ss) = <<>> <=> AllEmpty(ss, 1)
<1>1. PICK f : IsFlat(f, ss)
  BY FlattenIs
<1> DEFINE N == Len(ss)
           good == {i \in 0 .. N : i # 0 => (f[i] = <<>> <=> \A m \in 1 .. i : ss[m] = <<>>)}
<1>2. N \in Nat /\ \A i \in 1 .. N : ss[i] \in Seq(Nat)
  OBVIOUS
<1>3. \A i \in 1 .. N : f[i] \in Seq(Nat) /\ f[i] = IF i = 1 THEN ss[i] ELSE f[i - 1] \o ss[i]
  BY <1>1 DEF IsFlat
<1> HIDE DEF N
<1>4. \A i \in 0 .. N : i \in good
  <2>1. 0 \in good
    BY <1>2
  <2>2. ASSUME NEW i \in 1 .. N, i - 1 \in good PROVE i \in good
    <3>1. CASE i = 1
      <4>1. f[1] = ss[1] /\ 1 .. 1 = {1}
        BY <1>2, <1>3, <3>1
      <4> QED BY <1>2, <3>1, <4>1
    <3>2. CASE i # 1
      <4>1. /\ i - 1 \in 1 .. N /\ i - 1 # 0
            /\ \A m : m \in 1 .. i <=> m \in 1 .. i - 1 \/ m = i
        BY <1>2, <3>2
      <4>2. f[i] = f[i - 1] \o ss[i] /\ f[i - 1] \in Seq(Nat) /\ ss[i] \in Seq(Nat)
        BY <1>2, <1>3, <3>2, <4>1
      <4>3. f[i] = <<>> <=> f[i - 1] = <<>> /\ ss[i] = <<>>
        BY <4>2, EmptyTogether
      <4>4. f[i - 1] = <<>> <=> \A m \in 1 .. i - 1 : ss[m] = <<>>
        BY <2>2, <4>1
      <4> QED BY <1>2, <4>1, <4>3, <4>4
    <3> QED BY <3>1, <3>2
  <2> HIDE DEF good
  <2> QED BY <1>2, <2>1, <2>2, Upward
<1>5. FlattenSeq(ss) = IF N = 0 THEN <<>> ELSE f[N]
  BY <1>1 DEF IsFlat, N
<1>6. N \in good
  BY <1>2, <1>4
<1>7. N = 0 => AllEmpty(ss, 1)
  BY DEF AllEmpty, N
<1> QED BY <1>2, <1>5, <1>6, <1>7 DEF AllEmpty, N

(* An empty one at the beginning makes no difference.                      *)
LEMMA FlattenSkips ==
  ASSUME NEW ss \in Seq(Seq(Nat)), NEW tt \in Seq(Seq(Nat)), Len(ss) = Len(tt) + 1,
         ss[1] = <<>>, \A i \in 1 .. Len(tt) : ss[i + 1] = tt[i]
  PROVE  FlattenSeq(ss) = FlattenSeq(tt)
<1>1. PICK f : IsFlat(f, ss)
  BY FlattenIs
<1>2. PICK g : IsFlat(g, tt)
  BY FlattenIs
<1> DEFINE N == Len(tt)
           good == {i \in 0 .. N : i # 0 => f[i + 1] = g[i]}
<1>3. N \in Nat /\ Len(ss) = N + 1 /\ \A i \in 1 .. N : tt[i] \in Seq(Nat) /\ ss[i + 1] = tt[i]
  OBVIOUS
<1>4. \A i \in 1 .. N + 1 : f[i] = IF i = 1 THEN ss[i] ELSE f[i - 1] \o ss[i]
  BY <1>1, <1>3 DEF IsFlat
<1>5. \A i \in 1 .. N : g[i] = IF i = 1 THEN tt[i] ELSE g[i - 1] \o tt[i]
  BY <1>2 DEF IsFlat
<1>6. FlattenSeq(ss) = f[N + 1] /\ FlattenSeq(tt) = IF N = 0 THEN <<>> ELSE g[N]
  BY <1>1, <1>2, <1>3 DEF IsFlat
<1> HIDE DEF N
<1>7. f[1] = <<>>
  BY <1>3, <1>4
<1>8. \A i \in 0 .. N : i \in good
  <2>1. 0 \in good
    BY <1>3
  <2>2. ASSUME NEW i \in 1 .. N, i - 1 \in good PROVE i \in good
    <3>1. i + 1 \in 1 .. N + 1 /\ i + 1 # 1 /\ (i + 1) - 1 = i
      BY <1>3
    <3>2. f[i + 1] = f[i] \o tt[i]
      BY <1>3, <1>4, <3>1
    <3>3. CASE i = 1
      <4>1. f[i + 1] = <<>> \o tt[i] /\ tt[i] \in Seq(Nat)
        BY <1>3, <1>7, <3>2, <3>3
      <4>2. f[i + 1] = tt[i]
        BY <4>1
      <4>3. g[i] = tt[i]
        BY <1>5, <3>3
      <4> QED BY <1>3, <4>2, <4>3
    <3>4. CASE i # 1
      <4>1. i - 1 # 0 /\ (i - 1) + 1 = i
        BY <1>3, <3>4
      <4>2. f[i] = g[i - 1]
        BY <2>2, <4>1
      <4>3. g[i] = g[i - 1] \o tt[i]
        BY <1>5, <3>4
      <4>4. f[i + 1] = g[i]
        BY <3>2, <4>2, <4>3
      <4> QED BY <1>3, <4>4
    <3> QED BY <3>3, <3>4
  <2> HIDE DEF good
  <2> QED BY <1>3, <2>1, <2>2, Upward
<1>9. CASE N = 0
  BY <1>6, <1>7, <1>9
<1>10. CASE N # 0
  <2>1. N \in good
    BY <1>3, <1>8
  <2> QED BY <1>6, <1>10, <2>1
<1> QED BY <1>9, <1>10

(* Unwinding executes nothing if there is nothing to execute in any scope. *)
LEMMA UnwindEmpty ==
  ASSUME NEW ss \in Seq(Seq(Nat)), NEW n \in Nat, n <= Len(ss)
  PROVE  Unwind(ss, n) = <<>> <=> AllEmpty(ss, n + 1)
<1> DEFINE tt == SubSeq(ss, n + 1, Len(ss))
           u == FlattenSeq(tt)
<1>1. /\ tt \in Seq(Seq(Nat)) /\ Len(tt) = Len(ss) - n /\ Len(ss) \in Nat
      /\ \A i \in 1 .. Len(ss) - n : tt[i] = ss[n + i]
  OBVIOUS
<1>2. u \in Seq(Nat) /\ (u = <<>> <=> AllEmpty(tt, 1))
  BY <1>1, FlattenType, FlattenEmpty
<1>3. Unwind(ss, n) = Reverse(u)
  BY DEF Unwind
<1> HIDE DEF tt, u
<1>4. AllEmpty(tt, 1) <=> AllEmpty(ss, n + 1)
  <2>1. \A m \in n + 1 .. Len(ss) : m - n \in 1 .. Len(ss) - n /\ n + (m - n) = m
    BY <1>1
  <2>2. \A i \in 1 .. Len(ss) - n : n + i \in n + 1 .. Len(ss)
    BY <1>1
  <2> QED BY <1>1, <2>1, <2>2 DEF AllEmpty
<1>5. Reverse(u) = <<>> <=> u = <<>>
  <2>1. Reverse(u) = [i \in 1 .. Len(u) |-> u[(Len(u) - i) + 1]]
    BY DEF Reverse
  <2>2. Len(u) \in Nat /\ (u = <<>> <=> Len(u) = 0)
    BY <1>2
  <2>3. DOMAIN Reverse(u) = 1 .. Len(u)
    BY <2>1
  <2>4. CASE Len(u) = 0
    <3>1. 1 .. Len(u) = {}
      BY <2>4
    <3>2. Reverse(u) = [i \in {} |-> u[(Len(u) - i) + 1]]
      BY <2>1, <3>1
    <3>3. [i \in {} |-> u[(Len(u) - i) + 1]] = <<>>
      OBVIOUS
    <3> QED BY <2>2, <2>4, <3>2, <3>3
  <2>5. CASE Len(u) # 0
    <3>1. 1 \in DOMAIN Reverse(u)
      BY <2>2, <2>3, <2>5
    <3>2. Reverse(u) # <<>>
      BY <3>1
    <3> QED BY <2>2, <2>5, <3>2
  <2> QED BY <2>4, <2>5
<1> QED BY <1>2, <1>3, <1>4, <1>5

(* Leaving a scope that deferred nothing adds nothing.                     *)
LEMMA UnwindSkips ==
  ASSUME NEW ss \in Seq(Seq(Nat)), NEW n \in 1 .. Len(ss), ss[n] = <<>>
  PROVE  Unwind(ss, n - 1) = Unwind(ss, n)
<1> DEFINE tt == SubSeq(ss, n, Len(ss))
           uu == SubSeq(ss, n + 1, Len(ss))
<1>1. /\ n \in Nat /\ Len(ss) \in Nat
      /\ tt \in Seq(Seq(Nat)) /\ Len(tt) = (Len(ss) - n) + 1
      /\ uu \in Seq(Seq(Nat)) /\ Len(uu) = Len(ss) - n
      /\ \A i \in 1 .. (Len(ss) - n) + 1 : tt[i] = ss[(n + i) - 1]
      /\ \A i \in 1 .. Len(ss) - n : uu[i] = ss[n + i]
  OBVIOUS
<1>2. Unwind(ss, n - 1) = Reverse(FlattenSeq(tt)) /\ Unwind(ss, n) = Reverse(FlattenSeq(uu))
  <2>1. (n - 1) + 1 = n
    BY <1>1
  <2> QED BY <2>1 DEF Unwind
<1> HIDE DEF tt, uu
<1>3. Len(tt) = Len(uu) + 1 /\ tt[1] = <<>>
  <2>1. 1 \in 1 .. (Len(ss) - n) + 1 /\ (n + 1) - 1 = n
    BY <1>1
  <2> QED BY <1>1, <2>1
<1>4. \A i \in 1 .. Len(uu) : tt[i + 1] = uu[i]
  <2>1. \A i \in 1 .. Len(uu) : i + 1 \in 1 .. (Len(ss) - n) + 1 /\ (n + (i + 1)) - 1 = n + i
    BY <1>1
  <2> QED BY <1>1, <2>1
<1>5. FlattenSeq(tt) = FlattenSeq(uu)
  BY <1>1, <1>3, <1>4, FlattenSkips
<1> QED BY <1>2, <1>5

-----------------------------------------------------------------------------
(* What holds before an instruction of a function is executed, as far as   *)
(* the compiler knows: which scopes are open with what they deferred, and  *)
(* what is due.                                                            *)
State == [scopes : Seq(Seq(Nat)), due : Seq(Nat)]

Have(ss, d) == [scopes |-> ss, due |-> d]

Prefix(ss, tt) == Len(ss) <= Len(tt) /\ ss = SubSeq(tt, 1, Len(ss))

(* It holds before and after a single instruction, when ls says what holds *)
(* at every label.  What follows a jump or a return is not reached from it. *)
Rule(ls, a, ins, b) ==
  /\ ins.op # "nop"
  /\ ins.op \notin {"label", "deferred"} => a.due = <<>>
  /\ ins.op \in {"label", "jump", "branch"} => a = ls[ins.to]
  /\ ins.op \in {"label", "branch", "iterate"} => b = a
  /\ ins.op = "jump" => b.due = <<>> /\ Prefix(a.scopes, b.scopes)
  /\ ins.op = "ret" => b.due = <<>>
  /\ ins.op = "deferred" => /\ a.due # <<>> /\ Head(a.due) = ins.stmt
                            /\ b = Have(a.scopes, Tail(a.due))
  /\ ins.op = "register" =>
       /\ a.scopes # <<>>
       /\ b = Have([a.scopes EXCEPT ![Len(a.scopes)] = Append(@, ins.stmt)], <<>>)
  /\ ins.op = "open" => /\ Len(a.scopes) = ins.depth - 1
                        /\ b = Have(Append(a.scopes, <<>>), <<>>)
  /\ ins.op = "leave" => /\ ins.depth < Len(a.scopes)
                         /\ b = Have(SubSeq(a.scopes, 1, ins.depth), Unwind(a.scopes, ins.depth))

(* The same of a piece of code: w[i] holds before its instruction i.       *)
Trace(ls, w, a, s, b) ==
  /\ w \in Seq(State) /\ Len(w) = Len(s) + 1
  /\ w[1] = a /\ w[Len(s) + 1] = b
  /\ \A i \in 1 .. Len(s) : Rule(ls, w[i], s[i], w[i + 1])

Runs(ls, a, s, b) == s \in Seq(Instruction) /\ \E w : Trace(ls, w, a, s, b)

LEMMA RunsNothing ==
  ASSUME NEW ls, NEW a \in State
  PROVE  Runs(ls, a, <<>>, a)
<1>1. /\ <<a>> \in Seq(State) /\ Len(<<a>>) = 1 /\ <<a>>[1] = a
      /\ Len(<<>>) = 0 /\ 0 + 1 = 1 /\ 1 .. 0 = {}
  OBVIOUS
<1>2. Trace(ls, <<a>>, a, <<>>, a)
  BY <1>1 DEF Trace
<1>3. <<>> \in Seq(Instruction)
  OBVIOUS
<1> QED BY <1>2, <1>3 DEF Runs

LEMMA RunsSingle ==
  ASSUME NEW ls, NEW a \in State, NEW b \in State, NEW ins \in Instruction,
         Rule(ls, a, ins, b)
  PROVE  Runs(ls, a, <<ins>>, b)
<1>1. /\ <<a, b>> \in Seq(State) /\ Len(<<a, b>>) = 2
      /\ <<a, b>>[1] = a /\ <<a, b>>[2] = b
      /\ Len(<<ins>>) = 1 /\ <<ins>>[1] = ins /\ 1 + 1 = 2
      /\ \A i : i \in 1 .. 1 <=> i = 1
  OBVIOUS
<1>2. Trace(ls, <<a, b>>, a, <<ins>>, b)
  BY <1>1 DEF Trace
<1> QED BY <1>2, Single DEF Runs

(* Two pieces, one after the other.                                        *)
LEMMA RunsBoth ==
  ASSUME NEW ls, NEW a, NEW b, NEW c, NEW s, NEW t,
         Runs(ls, a, s, b), Runs(ls, b, t, c)
  PROVE  Runs(ls, a, s \o t, c)
<1> s \in Seq(Instruction) /\ t \in Seq(Instruction) /\ s \o t \in Seq(Instruction)
  BY Concatenation DEF Runs
<1>1. PICK u : Trace(ls, u, a, s, b)
  BY DEF Runs
<1>2. PICK v : Trace(ls, v, b, t, c)
  BY DEF Runs
<1> DEFINE m == Len(s)
           n == Len(t)
           w == [i \in 1 .. m + n + 1 |-> IF i <= m THEN u[i] ELSE v[i - m]]
<1>3. /\ m \in Nat /\ n \in Nat /\ Len(s \o t) = m + n
      /\ \A i \in 1 .. m : (s \o t)[i] = s[i]
      /\ \A i \in m + 1 .. m + n : (s \o t)[i] = t[i - m]
  OBVIOUS
<1>4. /\ \A i \in 1 .. m + 1 : u[i] \in State
      /\ u[1] = a /\ u[m + 1] = b /\ \A i \in 1 .. m : Rule(ls, u[i], s[i], u[i + 1])
  <2>1. u \in Seq(State) /\ Len(u) = m + 1
    BY <1>1 DEF Trace
  <2>2. \A i \in 1 .. m + 1 : u[i] \in State
    BY <2>1
  <2> QED BY <1>1, <2>2 DEF Trace
<1>5. /\ \A i \in 1 .. n + 1 : v[i] \in State
      /\ v[1] = b /\ v[n + 1] = c /\ \A i \in 1 .. n : Rule(ls, v[i], t[i], v[i + 1])
  <2>1. v \in Seq(State) /\ Len(v) = n + 1
    BY <1>2 DEF Trace
  <2>2. \A i \in 1 .. n + 1 : v[i] \in State
    BY <2>1
  <2> QED BY <1>2, <2>2 DEF Trace
<1>6. PICK r : r = s \o t
  OBVIOUS
<1> HIDE DEF m, n
<1>7. \A i \in 1 .. m + 1 : w[i] = u[i]
  <2>1. \A i \in 1 .. m + 1 : i \in 1 .. m + n + 1 /\ (i <= m \/ i = m + 1)
    BY <1>3
  <2>2. ~(m + 1 <= m) /\ (m + 1) - m = 1
    BY <1>3
  <2> QED BY <1>4, <1>5, <2>1, <2>2
<1>8. \A i \in m + 1 .. m + n + 1 : w[i] = v[i - m] /\ i - m \in 1 .. n + 1
  BY <1>3
<1>9. w \in Seq(State) /\ Len(w) = (m + n) + 1
  <2>1. \A i \in 1 .. m + n + 1 : w[i] \in State
    <3>1. \A i \in 1 .. m + n + 1 : i \in 1 .. m + 1 \/ i \in m + 1 .. m + n + 1
      BY <1>3
    <3> HIDE DEF w
    <3> QED BY <1>4, <1>5, <1>7, <1>8, <3>1
  <2>2. m + n + 1 \in Nat /\ m + n + 1 = (m + n) + 1
    BY <1>3
  <2>3. w \in [1 .. m + n + 1 -> State]
    BY <2>1
  <2>4. \A k \in Nat : \A f \in [1 .. k -> State] : f \in Seq(State) /\ Len(f) = k
    OBVIOUS
  <2> HIDE DEF w
  <2> QED BY <2>2, <2>3, <2>4
<1>10. w[1] = a /\ w[(m + n) + 1] = c
  <2>1. 1 \in 1 .. m + 1 /\ (m + n) + 1 \in m + 1 .. m + n + 1 /\ ((m + n) + 1) - m = n + 1
    BY <1>3
  <2> HIDE DEF w
  <2> QED BY <1>4, <1>5, <1>7, <1>8, <2>1
<1>11. ASSUME NEW i \in 1 .. m + n PROVE Rule(ls, w[i], r[i], w[i + 1])
  <2> HIDE DEF w
  <2>1. CASE i <= m
    <3>1. i \in 1 .. m /\ i \in 1 .. m + 1 /\ i + 1 \in 1 .. m + 1
      BY <1>3, <2>1
    <3> QED BY <1>3, <1>4, <1>6, <1>7, <3>1
  <2>2. CASE ~(i <= m)
    <3>1. PICK j : j = i - m
      OBVIOUS
    <3>2. /\ i \in m + 1 .. m + n /\ i \in m + 1 .. m + n + 1 /\ i + 1 \in m + 1 .. m + n + 1
          /\ j \in 1 .. n /\ (i + 1) - m = j + 1
      BY <1>3, <2>2, <3>1
    <3>3. w[i] = v[j] /\ w[i + 1] = v[j + 1] /\ r[i] = t[j]
      BY <1>3, <1>6, <1>8, <3>1, <3>2
    <3> QED BY <1>5, <3>2, <3>3
  <2> QED BY <2>1, <2>2
<1>12. Trace(ls, w, a, r, c)
  <2> HIDE DEF w
  <2> QED BY <1>3, <1>6, <1>9, <1>10, <1>11 DEF Trace
<1> QED BY <1>6, <1>12 DEF Runs

(* What a label holds that is not in the code does not matter to it.       *)
LEMMA RunsRelabelled ==
  ASSUME NEW ls, NEW mm, NEW a, NEW b, NEW s, Runs(ls, a, s, b),
         \A l \in LabelsIn(s) \cup JumpsIn(s) : mm[l] = ls[l]
  PROVE  Runs(mm, a, s, b)
<1>1. PICK w : Trace(ls, w, a, s, b)
  BY DEF Runs
<1>2. ASSUME NEW i \in 1 .. Len(s) PROVE Rule(mm, w[i], s[i], w[i + 1])
  <2>1. s \in Seq(Instruction) /\ i \in DOMAIN s
    BY DEF Runs
  <2>2. s[i].op \in {"label", "jump", "branch"} => mm[s[i].to] = ls[s[i].to]
    BY <2>1 DEF LabelsIn, JumpsIn, IsJump
  <2>3. Rule(ls, w[i], s[i], w[i + 1])
    BY <1>1 DEF Trace
  <2> QED BY <2>2, <2>3 DEF Rule
<1>3. Trace(mm, w, a, s, b)
  BY <1>1, <1>2 DEF Trace
<1> QED BY <1>3 DEF Runs

(* What is emitted for the deferred statements executes what is due.       *)
LEMMA RunsDefers ==
  ASSUME NEW ls, defers \in Seq(Seq(Nat)), NEW n \in Nat, n <= Depth,
         NEW ss \in Seq(Seq(Nat))
  PROVE  Runs(ls, Have(ss, Unwind(defers, n)), EmitToDepth(n), Have(ss, <<>>))
<1> DEFINE u == Unwind(defers, n)
           N == Len(u)
           s == EmitToDepth(n)
           w == [i \in 1 .. N + 1 |-> Have(ss, SubSeq(u, i, N))]
<1>1. u \in Seq(Nat)
  BY UnwindType DEF Depth
<1>2. s = [i \in DOMAIN u |-> Deferred(u[i])]
  BY DEF EmitToDepth
<1> HIDE DEF u, s
<1>3. N \in Nat /\ N + 1 \in Nat /\ DOMAIN u = 1 .. N
  BY <1>1
<1>4. s \in Seq(Instruction)
  BY EmittedDefers DEF s
<1>5. Len(s) = N
  BY <1>2, <1>3, <1>4
<1>6. \A i \in 1 .. N + 1 : SubSeq(u, i, N) \in Seq(Nat)
  BY <1>1
<1>7. /\ \A i \in 1 .. N : /\ SubSeq(u, i, N) # <<>> /\ Head(SubSeq(u, i, N)) = u[i]
                           /\ Tail(SubSeq(u, i, N)) = SubSeq(u, i + 1, N)
      /\ SubSeq(u, 1, N) = u /\ SubSeq(u, N + 1, N) = <<>>
  <2>1. ASSUME NEW i \in 1 .. N PROVE
          /\ SubSeq(u, i, N) # <<>> /\ Head(SubSeq(u, i, N)) = u[i]
          /\ Tail(SubSeq(u, i, N)) = SubSeq(u, i + 1, N)
    <3>1. i \in 1 .. Len(u) /\ N \in i .. Len(u)
      BY <1>3
    <3>2. /\ Head(SubSeq(u, i, N)) = u[i] /\ Tail(SubSeq(u, i, N)) = SubSeq(u, i + 1, N)
      BY <1>1, <3>1, HeadTailOfSubSeq, Zenon
    <3>3. Len(SubSeq(u, i, N)) # 0
      BY <1>1, <3>1
    <3>4. \A x : x = <<>> => Len(x) = 0
      OBVIOUS
    <3> QED BY <3>2, <3>3, <3>4, Zenon
  <2>2. SubSeq(u, 1, N) = u /\ SubSeq(u, N + 1, N) = <<>>
    BY <1>1
  <2> QED BY <2>1, <2>2
<1>8. \A i \in 1 .. N : s[i].op = "deferred" /\ s[i].stmt = u[i]
  BY <1>2, <1>3 DEF Deferred
<1>9. w \in Seq(State) /\ Len(w) = N + 1
  <2>1. \A i \in 1 .. N + 1 : Have(ss, SubSeq(u, i, N)) \in State
    BY <1>6 DEF Have, State
  <2>2. w \in [1 .. N + 1 -> State]
    BY <2>1
  <2>3. \A k \in Nat : \A f \in [1 .. k -> State] : f \in Seq(State) /\ Len(f) = k
    OBVIOUS
  <2> HIDE DEF w
  <2> QED BY <1>3, <2>2, <2>3
<1> HIDE DEF N
<1>10. w[1] = Have(ss, u) /\ w[N + 1] = Have(ss, <<>>)
  <2>1. 1 \in 1 .. N + 1 /\ N + 1 \in 1 .. N + 1
    BY <1>3
  <2> QED BY <1>7, <2>1, Zenon
<1>11. ASSUME NEW i \in 1 .. N PROVE Rule(ls, w[i], s[i], w[i + 1])
  <2>1. w[i] = Have(ss, SubSeq(u, i, N)) /\ w[i + 1] = Have(ss, SubSeq(u, i + 1, N))
    BY <1>3
  <2>2. \A d : Have(ss, d).due = d /\ Have(ss, d).scopes = ss
    BY DEF Have
  <2>3. w[i].due = SubSeq(u, i, N) /\ w[i].scopes = ss
    BY <2>1, <2>2, Zenon
  <2> HIDE DEF w
  <2> QED BY <1>7, <1>8, <2>1, <2>3 DEF Rule
<1>12. Trace(ls, w, Have(ss, u), s, Have(ss, <<>>))
  <2> HIDE DEF w
  <2> QED BY <1>5, <1>9, <1>10, <1>11 DEF Trace
<1> QED BY <1>4, <1>12 DEF Runs, u, s

-----------------------------------------------------------------------------
(* What the compiler knows where it is: nothing is due, and the scopes     *)
(* have deferred what is on its stack.                                     *)
Outside(dd, n) == Have(SubSeq(dd, 1, n), <<>>)

Now == Have(defers, <<>>)

(* Executing the code from its beginning leads there.  What holds at the   *)
(* labels that are still owed is what held before their statement; where   *)
(* continue goes it does only if somebody goes there.                      *)
Flow(ls) ==
  /\ ls \in [Nat -> State]
  /\ Runs(ls, Have(<< <<>> >>, <<>>), code, Now)
  /\ \A n \in DOMAIN blocks :
       /\ ls[blocks[n].end] = Outside(defers, n)
       /\ blocks[n].kind # "else" => ls[blocks[n].next] = Outside(defers, n)
  /\ \A k \in DOMAIN loops :
       /\ ls[loops[k].continue] = Outside(defers, loops[k].depth - 1)
       /\ loops[k].left => defers[loops[k].depth] = <<>>
       /\ ~loops[k].left /\ blocks[loops[k].depth - 1].kind # "while"
            => loops[k].continue \notin JumpsIn(code)

(* The instructions, one by one.                                           *)
LEMMA Instructions ==
  /\ \A n \in Nat : /\ Label(n) \in Instruction /\ Label(n).op = "label" /\ Label(n).to = n
                    /\ Jump(n) \in Instruction /\ Jump(n).op = "jump" /\ Jump(n).to = n
                    /\ Branch(n) \in Instruction /\ Branch(n).op = "branch" /\ Branch(n).to = n
                    /\ Register(n) \in Instruction /\ Register(n).op = "register"
                    /\ Register(n).stmt = n
                    /\ Open(n) \in Instruction /\ Open(n).op = "open" /\ Open(n).depth = n
                    /\ Leave(n) \in Instruction /\ Leave(n).op = "leave" /\ Leave(n).depth = n
  /\ Iterate \in Instruction /\ Iterate.op = "iterate"
  /\ Ret \in Instruction /\ Ret.op = "ret"
BY DEF Instruction, Label, Jump, Branch, Register, Open, Leave, Iterate, Ret

LEMMA StateFacts ==
  /\ \A ss \in Seq(Seq(Nat)), d \in Seq(Nat) :
       Have(ss, d) \in State /\ Have(ss, d).scopes = ss /\ Have(ss, d).due = d
  /\ \A a \in State : /\ a.scopes \in Seq(Seq(Nat)) /\ a.due \in Seq(Nat)
                      /\ a = Have(a.scopes, a.due)
  /\ <<>> \in Seq(Nat)
BY DEF State, Have

LEMMA RunsLabel ==
  ASSUME NEW ls, NEW l \in Nat, NEW a \in State, ls[l] = a
  PROVE  Runs(ls, a, <<Label(l)>>, a)
<1>1. Rule(ls, a, Label(l), a)
  BY Instructions DEF Rule
<1> QED BY <1>1, RunsSingle, Instructions

LEMMA RunsJump ==
  ASSUME NEW ls, NEW l \in Nat, NEW a \in State, NEW b \in State, ls[l] = a,
         a.due = <<>>, b.due = <<>>, Prefix(a.scopes, b.scopes)
  PROVE  Runs(ls, a, <<Jump(l)>>, b)
<1>1. Rule(ls, a, Jump(l), b)
  BY Instructions DEF Rule
<1> QED BY <1>1, RunsSingle, Instructions

LEMMA RunsBranch ==
  ASSUME NEW ls, NEW l \in Nat, NEW a \in State, ls[l] = a, a.due = <<>>
  PROVE  Runs(ls, a, <<Branch(l)>>, a)
<1>1. Rule(ls, a, Branch(l), a)
  BY Instructions DEF Rule
<1> QED BY <1>1, RunsSingle, Instructions

LEMMA RunsIterate ==
  ASSUME NEW ls, NEW a \in State, a.due = <<>>
  PROVE  Runs(ls, a, <<Iterate>>, a)
<1>1. Rule(ls, a, Iterate, a)
  BY Instructions DEF Rule
<1> QED BY <1>1, RunsSingle, Instructions

LEMMA RunsRet ==
  ASSUME NEW ls, NEW a \in State, NEW b \in State, a.due = <<>>, b.due = <<>>
  PROVE  Runs(ls, a, <<Ret>>, b)
<1>1. Rule(ls, a, Ret, b)
  BY Instructions DEF Rule
<1> QED BY <1>1, RunsSingle, Instructions

LEMMA RunsOpen ==
  ASSUME NEW ls, NEW ss \in Seq(Seq(Nat)), NEW n \in Nat, n = Len(ss) + 1
  PROVE  Runs(ls, Have(ss, <<>>), <<Open(n)>>, Have(Append(ss, <<>>), <<>>))
<1>1. Append(ss, <<>>) \in Seq(Seq(Nat)) /\ Len(ss) = n - 1
  <2>1. <<>> \in Seq(Nat)
    BY StateFacts
  <2> QED BY <2>1
<1> DEFINE a == Have(ss, <<>>)
           b == Have(Append(ss, <<>>), <<>>)
<1>2. a \in State /\ a.scopes = ss /\ a.due = <<>> /\ b \in State
  BY <1>1, StateFacts
<1>3. b = Have(Append(a.scopes, <<>>), <<>>)
  BY <1>2
<1> HIDE DEF a, b
<1>4. Rule(ls, a, Open(n), b)
  BY <1>1, <1>2, <1>3, Instructions DEF Rule
<1> QED BY <1>2, <1>4, RunsSingle, Instructions DEF a, b

LEMMA RunsRegister ==
  ASSUME NEW ls, NEW ss \in Seq(Seq(Nat)), NEW d \in Nat, ss # <<>>,
         NEW tt \in Seq(Seq(Nat)), tt = [ss EXCEPT ![Len(ss)] = Append(@, d)]
  PROVE  Runs(ls, Have(ss, <<>>), <<Register(d)>>, Have(tt, <<>>))
<1> DEFINE a == Have(ss, <<>>)
           b == Have(tt, <<>>)
<1>1. a \in State /\ a.scopes = ss /\ a.due = <<>> /\ b \in State
  BY StateFacts
<1>2. b = Have([a.scopes EXCEPT ![Len(a.scopes)] = Append(@, d)], <<>>)
  BY <1>1
<1> HIDE DEF a, b
<1>3. Rule(ls, a, Register(d), b)
  BY <1>1, <1>2, Instructions DEF Rule
<1> QED BY <1>1, <1>3, RunsSingle, Instructions DEF a, b

LEMMA RunsLeave ==
  ASSUME NEW ls, NEW ss \in Seq(Seq(Nat)), NEW n \in Nat, n < Len(ss)
  PROVE  Runs(ls, Have(ss, <<>>), <<Leave(n)>>, Have(SubSeq(ss, 1, n), Unwind(ss, n)))
<1> DEFINE a == Have(ss, <<>>)
           b == Have(SubSeq(ss, 1, n), Unwind(ss, n))
<1>1. SubSeq(ss, 1, n) \in Seq(Seq(Nat))
  OBVIOUS
<1>2. Unwind(ss, n) \in Seq(Nat)
  BY UnwindType
<1>3. a \in State /\ a.scopes = ss /\ a.due = <<>> /\ b \in State
  BY <1>1, <1>2, StateFacts
<1>4. b = Have(SubSeq(a.scopes, 1, n), Unwind(a.scopes, n))
  BY <1>3
<1> HIDE DEF a, b
<1>5. Rule(ls, a, Leave(n), b)
  BY <1>3, <1>4, Instructions DEF Rule
<1> QED BY <1>3, <1>5, RunsSingle, Instructions DEF a, b

(* A piece and one instruction more.                                       *)
LEMMA RunsMore ==
  ASSUME NEW ls, NEW a, NEW b, NEW c, NEW s, NEW ins,
         Runs(ls, a, s, b), Runs(ls, b, <<ins>>, c)
  PROVE  Runs(ls, a, Append(s, ins), c)
<1>1. Runs(ls, a, s \o <<ins>>, c)
  BY RunsBoth
<1>2. s \in Seq(Instruction) /\ <<ins>> \in Seq(Instruction)
  BY DEF Runs
<1>3. ins \in Instruction
  <2>1. <<ins>>[1] \in Instruction
    BY <1>2
  <2> QED BY <2>1
<1>4. Append(s, ins) = s \o <<ins>>
  BY <1>2, <1>3
<1> QED BY <1>1, <1>4

(* Where scopes are left what they deferred is executed.                   *)
LEMMA RunsLeaving ==
  ASSUME Shape, NEW ls, NEW n \in Nat, NEW m \in Nat, n < Depth, m <= Depth,
         Unwind(defers, n) = Unwind(defers, m)
  PROVE  Runs(ls, Now, <<Leave(n)>> \o EmitToDepth(m), Outside(defers, n))
<1>1. defers \in Seq(Seq(Nat)) /\ n < Len(defers)
  BY ShapeFacts DEF Depth
<1>2. SubSeq(defers, 1, n) \in Seq(Seq(Nat))
  BY <1>1
<1>3. Runs(ls, Now, <<Leave(n)>>, Have(SubSeq(defers, 1, n), Unwind(defers, n)))
  BY <1>1, RunsLeave DEF Now
<1>4. Runs(ls, Have(SubSeq(defers, 1, n), Unwind(defers, n)), EmitToDepth(m), Outside(defers, n))
  <2>1. Runs(ls, Have(SubSeq(defers, 1, n), Unwind(defers, m)), EmitToDepth(m), Outside(defers, n))
    BY <1>1, <1>2, RunsDefers DEF Outside
  <2> QED BY <2>1
<1> QED BY <1>3, <1>4, RunsBoth

LEMMA OutsideFacts ==
  ASSUME Shape
  PROVE  /\ Now \in State /\ Now.scopes = defers /\ Now.due = <<>>
         /\ \A n \in 0 .. Depth :
              /\ Outside(defers, n) \in State /\ Outside(defers, n).due = <<>>
              /\ Outside(defers, n).scopes = SubSeq(defers, 1, n)
              /\ Prefix(Outside(defers, n).scopes, Outside(defers, n).scopes)
              /\ Prefix(Outside(defers, n).scopes, Now.scopes)
              /\ Len(SubSeq(defers, 1, n)) = n
              /\ SubSeq(defers, 1, n) \in Seq(Seq(Nat))
<1>1. defers \in Seq(Seq(Nat)) /\ Depth = Len(defers) /\ Depth \in Nat
  BY ShapeFacts DEF Depth
<1>2. Now \in State /\ Now.scopes = defers /\ Now.due = <<>>
  BY <1>1, StateFacts DEF Now
<1>3. ASSUME NEW n \in 0 .. Depth
      PROVE  /\ Len(SubSeq(defers, 1, n)) = n /\ SubSeq(defers, 1, n) \in Seq(Seq(Nat))
             /\ n <= Len(defers)
             /\ SubSeq(SubSeq(defers, 1, n), 1, n) = SubSeq(defers, 1, n)
  <2>1. Len(SubSeq(defers, 1, n)) = n /\ SubSeq(defers, 1, n) \in Seq(Seq(Nat)) /\ n <= Len(defers)
    BY <1>1
  <2>2. \A s \in Seq(Seq(Nat)) : SubSeq(s, 1, Len(s)) = s
    BY SubSeqFull
  <2> QED BY <2>1, <2>2
<1>4. ASSUME NEW n \in 0 .. Depth
      PROVE  /\ Outside(defers, n) \in State /\ Outside(defers, n).due = <<>>
             /\ Outside(defers, n).scopes = SubSeq(defers, 1, n)
  BY <1>3, StateFacts DEF Outside
<1>5. ASSUME NEW n \in 0 .. Depth
      PROVE  /\ Prefix(Outside(defers, n).scopes, Outside(defers, n).scopes)
             /\ Prefix(Outside(defers, n).scopes, Now.scopes)
  <2>1. n <= n
    BY <1>1
  <2> QED BY <1>2, <1>3, <1>4, <2>1 DEF Prefix
<1> QED BY <1>2, <1>3, <1>4, <1>5

-----------------------------------------------------------------------------
(* What is outside a scope stays the same as long as those around it do.   *)
LEMMA OutsideKept ==
  ASSUME Shape, defers' \in Seq(Seq(Nat)), NEW n \in 0 .. Depth, n <= Len(defers'),
         \A i \in 1 .. n : defers'[i] = defers[i]
  PROVE  Outside(defers', n) = Outside(defers, n)
<1>1. defers \in Seq(Seq(Nat)) /\ Depth = Len(defers) /\ Depth \in Nat
  BY ShapeFacts DEF Depth
<1>2. /\ SubSeq(defers, 1, n) \in Seq(Seq(Nat)) /\ Len(SubSeq(defers, 1, n)) = n
      /\ \A i \in 1 .. n : SubSeq(defers, 1, n)[i] = defers[i]
  BY <1>1
<1>3. PICK dd : dd = defers'
  OBVIOUS
<1>4. /\ SubSeq(dd, 1, n) \in Seq(Seq(Nat)) /\ Len(SubSeq(dd, 1, n)) = n
      /\ \A i \in 1 .. n : SubSeq(dd, 1, n)[i] = dd[i]
  BY <1>1, <1>3
<1>5. SubSeq(dd, 1, n) = SubSeq(defers, 1, n)
  BY <1>2, <1>3, <1>4, SeqEqual
<1> QED BY <1>3, <1>5 DEF Outside

(* Whose the labels are.                                                   *)
LEMMA OwnedLabels ==
  ASSUME Shape, Books
  PROVE  /\ LabelsIn(code) \subseteq 0 .. labels - 1 /\ JumpsIn(code) \subseteq 0 .. labels - 1
         /\ \A n \in DOMAIN blocks :
              /\ blocks[n].end \in 0 .. labels - 1 /\ blocks[n].end \in Owned(n)
              /\ blocks[n].kind # "else" =>
                   blocks[n].next \in 0 .. labels - 1 /\ blocks[n].next \in LabelsIn(code) \cup Owned(n)
         /\ \A k \in DOMAIN loops :
              /\ loops[k].depth - 1 \in DOMAIN blocks /\ IsLoopOf(k, loops[k].depth - 1)
              /\ blocks[loops[k].depth - 1].kind \in LoopKinds
              /\ loops[k].depth \in 1 .. Depth
              /\ loops[k].continue \in 0 .. labels - 1
              /\ loops[k].continue \in LabelsIn(code) \cup Owned(loops[k].depth - 1)
              /\ blocks[loops[k].depth - 1].kind # "while" =>
                   loops[k].continue \in Owned(loops[k].depth - 1)
<1>1. /\ LabelsIn(code) \subseteq 0 .. labels - 1
      /\ \A n \in DOMAIN blocks : Owned(n) \subseteq 0 .. labels - 1
  BY DEF Books
<1>2. JumpsIn(code) \subseteq 0 .. labels - 1
  BY <1>1 DEF Books
<1>3. ASSUME NEW n \in DOMAIN blocks
      PROVE  /\ blocks[n].end \in 0 .. labels - 1 /\ blocks[n].end \in Owned(n)
             /\ blocks[n].kind # "else" =>
                  blocks[n].next \in 0 .. labels - 1 /\ blocks[n].next \in LabelsIn(code) \cup Owned(n)
  <2>1. blocks[n].end \in Owned(n)
    BY DEF Owned
  <2>2. blocks[n].kind # "else" => blocks[n].kind = "if" \/ blocks[n].kind \in LoopKinds
    BY ShapeFacts DEF Block
  <2>3. blocks[n].kind = "if" => blocks[n].next \in Owned(n)
    BY DEF Owned
  <2>4. blocks[n].kind \in LoopKinds => blocks[n].next \in LabelsIn(code)
    BY DEF Books
  <2> QED BY <1>1, <2>1, <2>2, <2>3, <2>4
<1>4. ASSUME NEW k \in DOMAIN loops
      PROVE  /\ loops[k].depth - 1 \in DOMAIN blocks /\ IsLoopOf(k, loops[k].depth - 1)
             /\ blocks[loops[k].depth - 1].kind \in LoopKinds
             /\ loops[k].depth \in 1 .. Depth
             /\ loops[k].continue \in 0 .. labels - 1
             /\ loops[k].continue \in LabelsIn(code) \cup Owned(loops[k].depth - 1)
             /\ blocks[loops[k].depth - 1].kind # "while" =>
                  loops[k].continue \in Owned(loops[k].depth - 1)
  <2>1. PICK n \in DOMAIN blocks : IsLoopOf(k, n)
    BY DEF Shape
  <2>2. n \in 1 .. Len(blocks) /\ Len(blocks) \in Nat /\ Depth = Len(blocks) + 1
    BY ShapeFacts
  <2>3. loops[k].depth = n + 1 /\ blocks[n].kind \in LoopKinds
    BY <2>1 DEF IsLoopOf
  <2>4. loops[k].depth - 1 = n /\ loops[k].depth \in 1 .. Depth
    BY <2>2, <2>3
  <2>5. blocks[n].kind = "while" => loops[k].continue \in LabelsIn(code)
    BY <2>1, <2>3 DEF IsLoopOf, Books
  <2>6. blocks[n].kind # "while" => loops[k].continue \in Owned(n)
    <3>1. loops[k].continue \in Continues(n)
      BY <2>3 DEF Continues
    <3> QED BY <2>3, <3>1 DEF Owned, LoopKinds
  <2> QED BY <1>1, <2>1, <2>3, <2>4, <2>5, <2>6
<1> QED BY <1>1, <1>2, <1>3, <1>4

(* A statement in one piece.                                               *)
LEMMA StayFlow ==
  ASSUME Shape, Books, NEW s, NEW u, Stays(s, u), NEW ls, Flow(ls), Runs(ls, Now, s, Now'),
         \A i \in 1 .. Len(blocks) : defers'[i] = defers[i],
         \A k \in DOMAIN loops :
           /\ loops'[k].left => defers'[loops[k].depth] = <<>>
           /\ ~loops'[k].left => ~loops[k].left
           /\ ~loops'[k].left /\ blocks[loops[k].depth - 1].kind # "while"
                => loops[k].continue \notin u
  PROVE  Flow(ls)'
<1>1. /\ UNCHANGED <<blocks, labels>>
      /\ defers' \in Seq(Seq(Nat)) /\ Len(defers') = Len(defers)
      /\ DOMAIN loops' = DOMAIN loops
      /\ \A k \in DOMAIN loops : /\ loops'[k].continue = loops[k].continue
                                 /\ loops'[k].depth = loops[k].depth
      /\ Piece(s, {}, u) /\ code' = code \o s
  BY DEF Stays
<1>2. JumpsIn(code') = JumpsIn(code) \cup u
  <2>1. {} \cap LabelsIn(code) = {}
    OBVIOUS
  <2> QED BY <1>1, <2>1, CodePiece
<1>3. Runs(ls, Have(<< <<>> >>, <<>>), code', Now')
  BY <1>1, RunsBoth DEF Flow
<1>4. \A n \in 0 .. Len(blocks) : Outside(defers', n) = Outside(defers, n)
  <2>1. ASSUME NEW n \in 0 .. Len(blocks) PROVE Outside(defers', n) = Outside(defers, n)
    <3>1. n \in 0 .. Depth /\ n <= Len(defers') /\ \A i \in 1 .. n : i \in 1 .. Len(blocks)
      BY <1>1, ShapeFacts DEF Depth
    <3>2. \A i \in 1 .. n : defers'[i] = defers[i]
      BY <3>1
    <3> QED BY <1>1, <3>1, <3>2, OutsideKept
  <2> QED BY <2>1
<1>5. ASSUME NEW n \in DOMAIN blocks'
      PROVE  /\ ls[blocks'[n].end] = Outside(defers', n)
             /\ blocks'[n].kind # "else" => ls[blocks'[n].next] = Outside(defers', n)
  <2>1. n \in DOMAIN blocks /\ n \in 0 .. Len(blocks)
    BY <1>1, ShapeFacts
  <2> QED BY <1>1, <1>4, <2>1 DEF Flow
<1>6. ASSUME NEW k \in DOMAIN loops'
      PROVE  /\ ls[loops'[k].continue] = Outside(defers', loops'[k].depth - 1)
             /\ loops'[k].left => defers'[loops'[k].depth] = <<>>
             /\ ~loops'[k].left /\ blocks'[loops'[k].depth - 1].kind # "while"
                  => loops'[k].continue \notin JumpsIn(code')
  <2>1. k \in DOMAIN loops /\ loops[k].depth - 1 \in DOMAIN blocks
    BY <1>1, OwnedLabels
  <2>2. loops[k].depth - 1 \in 0 .. Len(blocks)
    BY <2>1, ShapeFacts
  <2>3. PICK n : n = loops[k].depth - 1
    OBVIOUS
  <2>4. Outside(defers', n) = Outside(defers, n)
    BY <1>4, <2>2, <2>3
  <2>5. ls[loops[k].continue] = Outside(defers, n)
    BY <2>1, <2>3 DEF Flow
  <2>6. ls[loops'[k].continue] = Outside(defers', loops'[k].depth - 1)
    <3>1. loops'[k].depth - 1 = n /\ loops'[k].continue = loops[k].continue
      BY <1>1, <2>1, <2>3
    <3> QED BY <2>4, <2>5, <3>1
  <2>7. ~loops[k].left /\ blocks[n].kind # "while" => loops[k].continue \notin JumpsIn(code)
    BY <2>1, <2>3 DEF Flow
  <2> QED BY <1>1, <1>2, <2>1, <2>3, <2>6, <2>7
<1> QED BY <1>3, <1>5, <1>6 DEF Flow

(* New labels hold h.                                                      *)
NewLabels(ls, h) == [l \in Nat |-> IF l < labels THEN ls[l] ELSE h]

LEMMA NewLabelsFacts ==
  ASSUME Shape, Books, NEW ls, Flow(ls), NEW h \in State
  PROVE  /\ NewLabels(ls, h) \in [Nat -> State]
         /\ \A l \in 0 .. labels - 1 : NewLabels(ls, h)[l] = ls[l]
         /\ \A l \in Nat : l >= labels => NewLabels(ls, h)[l] = h
         /\ Runs(NewLabels(ls, h), Have(<< <<>> >>, <<>>), code, Now)
         /\ \A n \in DOMAIN blocks :
              /\ NewLabels(ls, h)[blocks[n].end] = Outside(defers, n)
              /\ blocks[n].kind # "else" => NewLabels(ls, h)[blocks[n].next] = Outside(defers, n)
         /\ \A k \in DOMAIN loops :
              NewLabels(ls, h)[loops[k].continue] = Outside(defers, loops[k].depth - 1)
<1> DEFINE mm == NewLabels(ls, h)
<1>1. labels \in Nat /\ ls \in [Nat -> State]
  BY ShapeFacts DEF Flow
<1>2. mm \in [Nat -> State]
  BY <1>1 DEF NewLabels
<1>3. \A l \in 0 .. labels - 1 : mm[l] = ls[l]
  BY <1>1 DEF NewLabels
<1>4. \A l \in Nat : l >= labels => mm[l] = h
  BY <1>1 DEF NewLabels
<1> HIDE DEF mm
<1>5. Runs(mm, Have(<< <<>> >>, <<>>), code, Now)
  <2>1. \A l \in LabelsIn(code) \cup JumpsIn(code) : mm[l] = ls[l]
    BY <1>3, OwnedLabels
  <2>2. Runs(ls, Have(<< <<>> >>, <<>>), code, Now)
    BY DEF Flow
  <2> QED BY <2>1, <2>2, RunsRelabelled
<1>6. ASSUME NEW n \in DOMAIN blocks
      PROVE  /\ mm[blocks[n].end] = Outside(defers, n)
             /\ blocks[n].kind # "else" => mm[blocks[n].next] = Outside(defers, n)
  BY <1>3, OwnedLabels DEF Flow
<1>7. ASSUME NEW k \in DOMAIN loops
      PROVE  mm[loops[k].continue] = Outside(defers, loops[k].depth - 1)
  BY <1>3, OwnedLabels DEF Flow
<1> QED BY <1>2, <1>3, <1>4, <1>5, <1>6, <1>7 DEF mm

(* The beginning of a statement with a body.                               *)
LEMMA OpenFlow ==
  ASSUME Shape, Books, NEW N, NEW b \in Block, NEW s, NEW d, NEW u, Opens(N, b, s, d, u),
         NEW ls, Flow(ls), NEW mm, mm = NewLabels(ls, Now), Runs(mm, Now, s, Now'),
         b.end >= labels, b.next >= labels, \A l \in u : l >= labels,
         \/ loops' = loops
         \/ \E l \in Loop : /\ loops' = Append(loops, l)
                            /\ l.depth = Len(blocks) + 2 /\ ~l.left
                            /\ l.continue >= labels /\ (b.kind = "while" \/ l.continue \notin u)
  PROVE  Flow(mm)'
<1>1. mm = NewLabels(ls, Now)
  OBVIOUS
<1>2. /\ N = Len(blocks) + 1 /\ blocks' = Append(blocks, b)
      /\ defers' = Append(defers, <<>>) /\ Piece(s, d, u) /\ code' = code \o s
      /\ d \subseteq labels .. labels' - 1
  BY DEF Opens
<1>3. /\ mm \in [Nat -> State]
      /\ \A l \in Nat : l >= labels => mm[l] = Now
      /\ Runs(mm, Have(<< <<>> >>, <<>>), code, Now)
      /\ \A n \in DOMAIN blocks :
           /\ mm[blocks[n].end] = Outside(defers, n)
           /\ blocks[n].kind # "else" => mm[blocks[n].next] = Outside(defers, n)
      /\ \A k \in DOMAIN loops : mm[loops[k].continue] = Outside(defers, loops[k].depth - 1)
  <2>1. Now \in State
    BY OutsideFacts
  <2> QED BY <1>1, <2>1, NewLabelsFacts
<1>4. JumpsIn(code') = JumpsIn(code) \cup u
  <2>1. labels \in Nat /\ LabelsIn(code) \subseteq 0 .. labels - 1
    BY ShapeFacts, OwnedLabels
  <2>2. \A l \in d : ~(l \in 0 .. labels - 1)
    BY <1>2, <2>1
  <2>3. d \cap LabelsIn(code) = {}
    BY <2>1, <2>2
  <2> QED BY <1>2, <2>3, CodePiece
<1>5. Runs(mm, Have(<< <<>> >>, <<>>), code', Now')
  BY <1>1, <1>2, <1>3, RunsBoth
<1>6. /\ defers \in Seq(Seq(Nat)) /\ defers' \in Seq(Seq(Nat)) /\ Depth \in Nat
      /\ Depth = Len(defers) /\ Len(defers') = Depth + 1 /\ Depth = N
      /\ \A i \in 1 .. Depth : defers'[i] = defers[i]
      /\ Len(blocks) \in Nat /\ DOMAIN blocks = 1 .. Len(blocks)
  <2>1. defers \in Seq(Seq(Nat)) /\ <<>> \in Seq(Nat) /\ Depth = Len(defers) /\ Depth \in Nat
    BY ShapeFacts DEF Depth
  <2>2. PICK dd : dd = Append(defers, <<>>)
    OBVIOUS
  <2>3. dd \in Seq(Seq(Nat)) /\ Len(dd) = Depth + 1 /\ \A i \in 1 .. Depth : dd[i] = defers[i]
    BY <2>1, <2>2
  <2> QED BY <1>2, <2>1, <2>2, <2>3, ShapeFacts
<1>7. \A n \in 0 .. Depth : Outside(defers', n) = Outside(defers, n)
  <2>1. ASSUME NEW n \in 0 .. Depth PROVE Outside(defers', n) = Outside(defers, n)
    <3>1. n <= Len(defers') /\ \A i \in 1 .. n : i \in 1 .. Depth
      BY <1>6
    <3>2. \A i \in 1 .. n : defers'[i] = defers[i]
      BY <1>6, <3>1
    <3> QED BY <1>6, <3>1, <3>2, OutsideKept
  <2> QED BY <2>1
<1>8. Outside(defers, N) = Now
  <2>1. SubSeq(defers, 1, N) = defers
    BY <1>6, SubSeqFull
  <2> QED BY <2>1 DEF Outside, Now
<1>9. /\ DOMAIN blocks' = DOMAIN blocks \cup {N} /\ blocks'[N] = b
      /\ \A n \in DOMAIN blocks : blocks'[n] = blocks[n]
  <2>1. blocks \in Seq(Block)
    BY DEF Shape
  <2> QED BY <1>2, <2>1, AppendFacts
<1>10. ASSUME NEW n \in DOMAIN blocks'
       PROVE  /\ mm[blocks'[n].end] = Outside(defers', n)
              /\ blocks'[n].kind # "else" => mm[blocks'[n].next] = Outside(defers', n)
  <2>1. CASE n \in DOMAIN blocks
    <3>1. n \in 0 .. Depth
      BY <1>2, <1>6, <2>1
    <3> QED BY <1>3, <1>7, <1>9, <2>1, <3>1
  <2>2. CASE n = N
    <3>1. N \in 0 .. Depth
      BY <1>6
    <3>2. b.end \in Nat /\ b.next \in Nat
      BY DEF Block
    <3>3. mm[b.end] = Now /\ mm[b.next] = Now
      BY <1>3, <3>2
    <3> QED BY <1>7, <1>8, <1>9, <2>2, <3>1, <3>3
  <2> QED BY <1>9, <2>1, <2>2
<1>11. ASSUME NEW k \in DOMAIN loops
       PROVE  /\ mm[loops[k].continue] = Outside(defers', loops[k].depth - 1)
              /\ loops[k].left => defers'[loops[k].depth] = <<>>
              /\ ~loops[k].left /\ blocks'[loops[k].depth - 1].kind # "while"
                   => loops[k].continue \notin JumpsIn(code')
  <2>1. PICK n : n = loops[k].depth - 1
    OBVIOUS
  <2>2. n \in DOMAIN blocks /\ loops[k].depth \in 1 .. Depth /\ loops[k].continue \in 0 .. labels - 1
    BY <2>1, OwnedLabels
  <2>3. n \in 0 .. Depth
    BY <1>2, <1>6, <2>2
  <2>4. Outside(defers', n) = Outside(defers, n) /\ mm[loops[k].continue] = Outside(defers, n)
    BY <1>3, <1>7, <2>1, <2>3
  <2>5. loops[k].left => defers'[loops[k].depth] = <<>>
    <3>1. defers'[loops[k].depth] = defers[loops[k].depth]
      BY <1>6, <2>2
    <3> QED BY <3>1 DEF Flow
  <2>6. loops[k].continue \notin u
    <3>1. labels \in Nat
      BY ShapeFacts
    <3> QED BY <2>2, <3>1
  <2>7. ~loops[k].left /\ blocks[n].kind # "while" => loops[k].continue \notin JumpsIn(code)
    BY <2>1 DEF Flow
  <2>8. blocks'[n] = blocks[n]
    BY <1>9, <2>2
  <2> QED BY <1>4, <2>1, <2>4, <2>5, <2>6, <2>7, <2>8
<1>12. ASSUME NEW k \in DOMAIN loops'
       PROVE  /\ mm[loops'[k].continue] = Outside(defers', loops'[k].depth - 1)
              /\ loops'[k].left => defers'[loops'[k].depth] = <<>>
              /\ ~loops'[k].left /\ blocks'[loops'[k].depth - 1].kind # "while"
                   => loops'[k].continue \notin JumpsIn(code')
  <2>1. CASE loops' = loops
    BY <1>11, <2>1
  <2>2. CASE loops' # loops
    <3>1. PICK l \in Loop : /\ loops' = Append(loops, l)
                            /\ l.depth = Len(blocks) + 2 /\ ~l.left
                            /\ l.continue >= labels /\ (b.kind = "while" \/ l.continue \notin u)
      BY <2>2
    <3>2. /\ DOMAIN loops' = DOMAIN loops \cup {Len(loops) + 1} /\ loops'[Len(loops) + 1] = l
          /\ \A j \in DOMAIN loops : loops'[j] = loops[j]
      <4>1. loops \in Seq(Loop)
        BY DEF Shape
      <4> QED BY <3>1, <4>1, AppendFacts
    <3>3. CASE k \in DOMAIN loops
      BY <1>11, <3>2, <3>3
    <3>4. CASE k = Len(loops) + 1
      <4>1. loops'[k] = l
        BY <3>2, <3>4
      <4>2. l.depth - 1 = N
        BY <1>2, <1>6, <3>1
      <4>3. l.continue \in Nat /\ l.left \in BOOLEAN
        BY DEF Loop
      <4>4. mm[l.continue] = Outside(defers', N)
        <5>1. N \in 0 .. Depth
          BY <1>6
        <5> QED BY <1>3, <1>7, <1>8, <3>1, <4>3, <5>1
      <4>5. b.kind # "while" => l.continue \notin JumpsIn(code')
        <5>1. labels \in Nat /\ JumpsIn(code) \subseteq 0 .. labels - 1
          BY ShapeFacts, OwnedLabels
        <5>2. ~(l.continue \in 0 .. labels - 1)
          BY <3>1, <4>3, <5>1
        <5> QED BY <1>4, <3>1, <5>1, <5>2
      <4> QED BY <1>9, <3>1, <4>1, <4>2, <4>4, <4>5
    <3> QED BY <3>2, <3>3, <3>4
  <2> QED BY <2>1, <2>2
<1> QED BY <1>3, <1>5, <1>10, <1>12 DEF Flow

(* From one body of an if to the next.                                     *)
LEMMA NextFlow ==
  ASSUME Shape, Books, NEW N, NEW b \in Block, NEW s, NEW u, NextBranch(N, b, s, u),
         NEW ls, Flow(ls), NEW mm, mm = NewLabels(ls, Outside(defers, N)), Runs(mm, Now, s, Now'),
         \A i \in 1 .. N : defers'[i] = defers[i]
  PROVE  Flow(mm)'
<1>1. /\ N = Len(blocks) /\ blocks # <<>> /\ blocks[N].kind = "if"
      /\ defers' \in Seq(Seq(Nat)) /\ Len(defers') = Len(defers)
      /\ loops' = loops /\ blocks' = [blocks EXCEPT ![N] = b] /\ b.end = blocks[N].end
      /\ (b.kind = "if" /\ b.next = labels) \/ b.kind = "else"
      /\ Piece(s, {blocks[N].next}, u) /\ code' = code \o s /\ u \subseteq Owned(N)'
  BY DEF NextBranch
<1>2. /\ N \in DOMAIN blocks /\ DOMAIN blocks' = DOMAIN blocks /\ blocks'[N] = b
      /\ \A n \in DOMAIN blocks : n # N => blocks'[n] = blocks[n]
      /\ DOMAIN blocks = 1 .. N /\ N \in 0 .. Depth /\ Depth = N + 1 /\ N \in Nat
      /\ Len(defers') = N + 1 /\ blocks[N] \in Block
  <2>1. /\ DOMAIN blocks = 1 .. N /\ N \in Nat /\ Depth = N + 1 /\ N \in DOMAIN blocks
        /\ Len(defers) = Depth
    BY <1>1, BodyEnds, ShapeFacts DEF Depth
  <2>2. N \in 0 .. Depth /\ Len(defers') = N + 1
    BY <1>1, <2>1
  <2> QED BY <1>1, <2>1, <2>2, ShapeFacts
<1>3. /\ mm \in [Nat -> State]
      /\ \A l \in Nat : l >= labels => mm[l] = Outside(defers, N)
      /\ Runs(mm, Have(<< <<>> >>, <<>>), code, Now)
      /\ \A n \in DOMAIN blocks :
           /\ mm[blocks[n].end] = Outside(defers, n)
           /\ blocks[n].kind # "else" => mm[blocks[n].next] = Outside(defers, n)
      /\ \A k \in DOMAIN loops : mm[loops[k].continue] = Outside(defers, loops[k].depth - 1)
  <2>1. Outside(defers, N) \in State
    BY <1>2, OutsideFacts
  <2> QED BY <2>1, NewLabelsFacts
<1>4. JumpsIn(code') = JumpsIn(code) \cup u
  <2>1. blocks[N].next \in Owned(N)
    BY <1>1 DEF Owned
  <2>2. {blocks[N].next} \cap LabelsIn(code) = {}
    BY <1>2, <2>1 DEF Books
  <2> QED BY <1>1, <2>2, CodePiece
<1>5. Runs(mm, Have(<< <<>> >>, <<>>), code', Now')
  BY <1>1, <1>3, RunsBoth
<1>6. \A n \in 0 .. N : Outside(defers', n) = Outside(defers, n)
  <2>1. ASSUME NEW n \in 0 .. N PROVE Outside(defers', n) = Outside(defers, n)
    <3>1. n <= Len(defers') /\ n \in 0 .. Depth /\ \A i \in 1 .. n : i \in 1 .. N
      BY <1>2
    <3>2. \A i \in 1 .. n : defers'[i] = defers[i]
      BY <3>1
    <3> QED BY <1>1, <3>1, <3>2, OutsideKept
  <2> QED BY <2>1
<1>7. labels \in Nat
  BY ShapeFacts
<1>8. ASSUME NEW n \in DOMAIN blocks'
      PROVE  /\ mm[blocks'[n].end] = Outside(defers', n)
             /\ blocks'[n].kind # "else" => mm[blocks'[n].next] = Outside(defers', n)
  <2>1. n \in DOMAIN blocks /\ n \in 0 .. N
    BY <1>2
  <2>2. CASE n # N
    BY <1>2, <1>3, <1>6, <2>1, <2>2
  <2>3. CASE n = N
    <3>1. mm[b.end] = Outside(defers, N)
      BY <1>1, <1>2, <1>3
    <3>2. b.kind # "else" => mm[b.next] = Outside(defers, N)
      <4>1. labels >= labels
        BY <1>7
      <4> QED BY <1>1, <1>3, <1>7, <4>1
    <3> QED BY <1>2, <1>6, <2>1, <2>3, <3>1, <3>2
  <2> QED BY <2>2, <2>3
<1>9. u \subseteq {blocks[N].end, labels}
  <2>1. Owned(N)' = {b.end} \cup (IF b.kind = "if" THEN {b.next} ELSE {})
                      \cup (IF b.kind \in {"for", "ranged"} THEN Continues(N)' ELSE {})
    BY <1>2 DEF Owned
  <2> QED BY <1>1, <2>1
<1>10. ASSUME NEW k \in DOMAIN loops
       PROVE  /\ mm[loops[k].continue] = Outside(defers', loops[k].depth - 1)
              /\ loops[k].left => defers'[loops[k].depth] = <<>>
              /\ ~loops[k].left /\ blocks'[loops[k].depth - 1].kind # "while"
                   => loops[k].continue \notin JumpsIn(code')
  <2>1. PICK n : n = loops[k].depth - 1
    OBVIOUS
  <2>2. /\ n \in DOMAIN blocks /\ blocks[n].kind \in LoopKinds /\ loops[k].depth \in 1 .. Depth
        /\ loops[k].continue \in 0 .. labels - 1
        /\ blocks[n].kind # "while" => loops[k].continue \in Owned(n)
    BY <2>1, OwnedLabels
  <2>3. n # N
    BY <1>1, <2>2 DEF LoopKinds
  <2>4. n \in 0 .. N /\ loops[k].depth \in 1 .. N
    BY <1>2, <2>1, <2>2, <2>3
  <2>5. mm[loops[k].continue] = Outside(defers', n)
    BY <1>3, <1>6, <2>1, <2>4
  <2>6. loops[k].left => defers'[loops[k].depth] = <<>>
    <3>1. defers'[loops[k].depth] = defers[loops[k].depth]
      BY <2>4
    <3> QED BY <3>1 DEF Flow
  <2>7. blocks[n].kind # "while" => loops[k].continue \notin u
    <3>1. Owned(n) \cap Owned(N) = {}
      BY <1>2, <2>2, <2>3 DEF Books
    <3>2. blocks[N].end \in Owned(N)
      BY <1>2, OwnedLabels
    <3>3. loops[k].continue # labels
      BY <1>7, <2>2
    <3> QED BY <1>9, <2>2, <3>1, <3>2, <3>3
  <2>8. ~loops[k].left /\ blocks[n].kind # "while" => loops[k].continue \notin JumpsIn(code)
    BY <2>1 DEF Flow
  <2>9. blocks'[n] = blocks[n]
    BY <1>2, <2>2, <2>3
  <2> QED BY <1>4, <2>1, <2>5, <2>6, <2>7, <2>8, <2>9
<1> QED BY <1>1, <1>3, <1>5, <1>8, <1>10 DEF Flow

(* The end of a statement with a body.  The labels it owed may hold        *)
(* something else if nobody jumps to them.                                 *)
LEMMA CloseFlow ==
  ASSUME Shape, Books, NEW N, NEW s, NEW u, Closes(N, s, u), NEW ls, Flow(ls),
         NEW mm \in [Nat -> State],
         \A l \in Nat : (l \in Owned(N) /\ l \notin JumpsIn(code)) \/ mm[l] = ls[l],
         Runs(mm, Now, s, Now')
  PROVE  Flow(mm)'
<1>1. /\ N = Len(blocks) /\ blocks # <<>> /\ defers' = Front(defers) /\ blocks' = Front(blocks)
      /\ loops' = IF blocks[N].kind \in LoopKinds THEN Front(loops) ELSE loops
      /\ Piece(s, Owned(N), u) /\ code' = code \o s
      /\ u \subseteq LabelsIn(code) \cup Owned(N)
  BY DEF Closes
<1>2. /\ N \in DOMAIN blocks /\ DOMAIN blocks = 1 .. N /\ N \in Nat /\ Depth = N + 1
      /\ Depth = Len(defers) /\ DOMAIN blocks' = DOMAIN blocks \ {N}
      /\ \A n \in DOMAIN blocks' : blocks'[n] = blocks[n]
      /\ defers' \in Seq(Seq(Nat)) /\ Len(defers') = N
      /\ \A i \in 1 .. N : defers'[i] = defers[i]
  <2>1. /\ DOMAIN blocks = 1 .. N /\ N \in Nat /\ Depth = N + 1 /\ N \in DOMAIN blocks
        /\ Len(defers) = Depth /\ defers \in Seq(Seq(Nat)) /\ defers # <<>>
        /\ blocks \in Seq(Block)
    BY <1>1, BodyEnds, ShapeFacts DEF Depth, Shape
  <2>2. /\ DOMAIN Front(blocks) = DOMAIN blocks \ {Len(blocks)}
        /\ \A n \in DOMAIN Front(blocks) : Front(blocks)[n] = blocks[n]
    BY <1>1, <2>1, FrontFacts
  <2>3. /\ Front(defers) \in Seq(Seq(Nat)) /\ Len(Front(defers)) = Len(defers) - 1
        /\ \A i \in DOMAIN Front(defers) : Front(defers)[i] = defers[i]
    BY <2>1, FrontFacts
  <2>4. Len(defers') = N /\ DOMAIN defers' = 1 .. N
    <3>1. Len(defers') = N
      BY <1>1, <2>1, <2>3
    <3>2. \A dd \in Seq(Seq(Nat)) : DOMAIN dd = 1 .. Len(dd)
      OBVIOUS
    <3> QED BY <1>1, <2>3, <3>1, <3>2
  <2> QED BY <1>1, <2>1, <2>2, <2>3, <2>4
<1>3. Owned(N) \cap LabelsIn(code) = {} /\ Owned(N) \subseteq 0 .. labels - 1
      /\ \A n \in DOMAIN blocks : n # N => Owned(n) \cap Owned(N) = {}
  BY <1>2 DEF Books
<1>4. \A l \in Nat : l \notin Owned(N) \/ l \in JumpsIn(code) => mm[l] = ls[l]
  OBVIOUS
<1>5. LabelsIn(code) \subseteq Nat /\ JumpsIn(code) \subseteq Nat /\ labels \in Nat
  <2>1. labels \in Nat
    BY ShapeFacts
  <2>2. 0 .. labels - 1 \subseteq Nat
    BY <2>1
  <2> QED BY <2>1, <2>2, OwnedLabels
<1>6. Runs(mm, Have(<< <<>> >>, <<>>), code', Now')
  <2>1. \A l \in LabelsIn(code) \cup JumpsIn(code) : mm[l] = ls[l]
    BY <1>3, <1>4, <1>5
  <2>2. Runs(ls, Have(<< <<>> >>, <<>>), code, Now)
    BY DEF Flow
  <2>3. Runs(mm, Have(<< <<>> >>, <<>>), code, Now)
    BY <2>1, <2>2, RunsRelabelled
  <2> QED BY <1>1, <2>3, RunsBoth
<1>7. JumpsIn(code') = JumpsIn(code) \cup u
  <2>1. Owned(N) \cap LabelsIn(code) = {}
    BY <1>3
  <2> QED BY <1>1, <2>1, CodePiece
<1>8. \A n \in 0 .. N : Outside(defers', n) = Outside(defers, n)
  <2>1. ASSUME NEW n \in 0 .. N PROVE Outside(defers', n) = Outside(defers, n)
    <3>1. n <= Len(defers') /\ n \in 0 .. Depth /\ \A i \in 1 .. n : i \in 1 .. N
      BY <1>2
    <3>2. \A i \in 1 .. n : defers'[i] = defers[i]
      BY <1>2, <3>1
    <3> QED BY <1>2, <3>1, <3>2, OutsideKept
  <2> QED BY <2>1
<1>9. ASSUME NEW n \in DOMAIN blocks'
      PROVE  /\ mm[blocks'[n].end] = Outside(defers', n)
             /\ blocks'[n].kind # "else" => mm[blocks'[n].next] = Outside(defers', n)
  <2>1. n \in DOMAIN blocks /\ n # N /\ n \in 0 .. N /\ blocks'[n] = blocks[n]
    BY <1>2
  <2>2. Owned(n) \cap Owned(N) = {}
    BY <1>3, <2>1
  <2>3. /\ blocks[n].end \in Owned(n) /\ blocks[n].end \in Nat
        /\ blocks[n].kind # "else" => blocks[n].next \in LabelsIn(code) \cup Owned(n)
                                      /\ blocks[n].next \in Nat
    <3>1. blocks[n] \in Block
      BY <2>1, ShapeFacts
    <3> QED BY <2>1, <3>1, OwnedLabels DEF Block
  <2>4. mm[blocks[n].end] = ls[blocks[n].end]
    BY <1>4, <2>2, <2>3
  <2>5. blocks[n].kind # "else" => mm[blocks[n].next] = ls[blocks[n].next]
    BY <1>3, <1>4, <2>2, <2>3
  <2>6. /\ ls[blocks[n].end] = Outside(defers, n)
        /\ blocks[n].kind # "else" => ls[blocks[n].next] = Outside(defers, n)
    BY <2>1 DEF Flow
  <2> QED BY <1>8, <2>1, <2>4, <2>5, <2>6
<1>10. ASSUME NEW k \in DOMAIN loops'
       PROVE  /\ k \in DOMAIN loops /\ loops'[k] = loops[k] /\ loops[k].depth - 1 # N
  <2>1. PICK n \in DOMAIN blocks : k \in DOMAIN loops => IsLoopOf(k, n)
    BY <1>2 DEF Shape
  <2>2. k \in DOMAIN loops => loops[k].depth = n + 1 /\ blocks[n].kind \in LoopKinds
    BY <2>1 DEF IsLoopOf
  <2>3. CASE blocks[N].kind \in LoopKinds
    <3>1. loops # <<>> /\ IsLoopOf(Len(loops), N)
      BY <1>1, <2>3, TopLoop
    <3>2. loops[Len(loops)].depth = N + 1
      BY <3>1 DEF IsLoopOf
    <3>3. loops \in Seq(Loop) /\ Len(loops) \in Nat /\ DOMAIN loops = 1 .. Len(loops)
      BY ShapeFacts DEF Shape
    <3>4. /\ k \in DOMAIN loops \ {Len(loops)} /\ loops'[k] = loops[k] /\ Len(loops) \in DOMAIN loops
      BY <1>1, <2>3, <3>1, <3>3, FrontFacts
    <3>5. loops[k].depth < loops[Len(loops)].depth
      <4>1. k < Len(loops)
        BY <3>3, <3>4
      <4> QED BY <3>4, <4>1 DEF Shape
    <3>6. n + 1 < N + 1 /\ n \in Nat
      BY <1>2, <2>2, <3>2, <3>4, <3>5
    <3>7. loops[k].depth - 1 # N
      BY <1>2, <2>2, <3>4, <3>6
    <3> QED BY <3>4, <3>7
  <2>4. CASE blocks[N].kind \notin LoopKinds
    <3>1. k \in DOMAIN loops /\ loops'[k] = loops[k]
      BY <1>1, <2>4
    <3>2. n # N
      BY <2>2, <2>4, <3>1
    <3>3. loops[k].depth - 1 # N
      BY <1>2, <2>2, <3>1, <3>2
    <3> QED BY <3>1, <3>3
  <2> QED BY <2>3, <2>4
<1>11. ASSUME NEW k \in DOMAIN loops'
       PROVE  /\ mm[loops'[k].continue] = Outside(defers', loops'[k].depth - 1)
              /\ loops'[k].left => defers'[loops'[k].depth] = <<>>
              /\ ~loops'[k].left /\ blocks'[loops'[k].depth - 1].kind # "while"
                   => loops'[k].continue \notin JumpsIn(code')
  <2>1. PICK n : n = loops[k].depth - 1
    OBVIOUS
  <2>2. k \in DOMAIN loops /\ loops'[k] = loops[k] /\ n # N
    BY <1>10, <2>1
  <2>3. /\ n \in DOMAIN blocks /\ blocks[n].kind \in LoopKinds /\ loops[k].depth \in 1 .. Depth
        /\ loops[k].continue \in 0 .. labels - 1
        /\ loops[k].continue \in LabelsIn(code) \cup Owned(n)
        /\ blocks[n].kind # "while" => loops[k].continue \in Owned(n)
    BY <2>1, <2>2, OwnedLabels
  <2>4. n \in 0 .. N /\ loops[k].depth \in 1 .. N /\ blocks'[n] = blocks[n]
    BY <1>2, <2>1, <2>2, <2>3
  <2>5. Owned(n) \cap Owned(N) = {}
    BY <1>3, <2>2, <2>3
  <2>6. loops[k].continue \notin Owned(N) /\ loops[k].continue \in Nat
    BY <1>3, <1>5, <2>3, <2>5
  <2>7. mm[loops[k].continue] = Outside(defers', n)
    <3>1. mm[loops[k].continue] = ls[loops[k].continue]
      BY <1>4, <2>6
    <3>2. ls[loops[k].continue] = Outside(defers, n)
      BY <2>1, <2>2 DEF Flow
    <3> QED BY <1>8, <2>4, <3>1, <3>2
  <2>8. loops[k].left => defers'[loops[k].depth] = <<>>
    <3>1. defers'[loops[k].depth] = defers[loops[k].depth]
      BY <1>2, <2>4
    <3> QED BY <2>2, <3>1 DEF Flow
  <2>9. blocks[n].kind # "while" => loops[k].continue \notin u
    <3>1. Owned(n) \cap LabelsIn(code) = {}
      BY <2>3 DEF Books
    <3> QED BY <1>1, <2>3, <2>6, <3>1
  <2>10. ~loops[k].left /\ blocks[n].kind # "while" => loops[k].continue \notin JumpsIn(code)
    BY <2>1, <2>2 DEF Flow
  <2> QED BY <1>7, <2>1, <2>2, <2>4, <2>7, <2>8, <2>9, <2>10
<1> QED BY <1>6, <1>9, <1>11 DEF Flow

-----------------------------------------------------------------------------
(* The actions, when neither of the doubtful forms is compiled.            *)
LEMMA DeferFlow ==
  ASSUME Forms = {}, Shape, Books, Defer, NEW ls, Flow(ls)
  PROVE  Flow(ls)'
<1> DEFINE s == <<Register(nodes')>>
<1>1. /\ nodes' = nodes + 1 /\ UNCHANGED <<blocks, labels, loops>> /\ ~BodyIsLeft
      /\ defers' = [defers EXCEPT ![Depth] = Append(@, nodes')]
  BY DEF Defer, Node
<1>2. Stays(s, {})
  BY DeferStays
<1>3. /\ defers \in Seq(Seq(Nat)) /\ defers # <<>> /\ Depth = Len(defers) /\ nodes' \in Nat
      /\ Depth = Len(blocks) + 1 /\ Len(blocks) \in Nat /\ DOMAIN defers = 1 .. Depth
      /\ Len(loops) \in Nat /\ DOMAIN loops = 1 .. Len(loops)
  BY <1>1, ShapeFacts DEF Depth
<1>4. defers' \in Seq(Seq(Nat))
  BY <1>2 DEF Stays
<1>5. Runs(ls, Now, s, Now')
  <2>1. defers' = [defers EXCEPT ![Len(defers)] = Append(@, nodes')]
    BY <1>1, <1>3
  <2>2. PICK dd : dd = defers'
    OBVIOUS
  <2>3. Runs(ls, Have(defers, <<>>), <<Register(nodes')>>, Have(dd, <<>>))
    BY <1>3, <1>4, <2>1, <2>2, RunsRegister
  <2> QED BY <2>2, <2>3 DEF Now
<1>6. \A i \in 1 .. Depth : i # Depth => defers'[i] = defers[i]
  BY <1>1, <1>3
<1>7. \A i \in 1 .. Len(blocks) : defers'[i] = defers[i]
  BY <1>3, <1>6
<1>8. ASSUME NEW k \in DOMAIN loops, loops[k].left
      PROVE  loops[k].depth # Depth
  <2> SUFFICES ASSUME loops[k].depth = Depth PROVE FALSE
    OBVIOUS
  <2>1. Len(loops) \in DOMAIN loops /\ loops # <<>> /\ Last(loops) = loops[Len(loops)]
    BY <1>3 DEF Last
  <2>2. loops[Len(loops)].depth \in 1 .. Depth
    BY <2>1, OwnedLabels
  <2>3. k < Len(loops) => loops[k].depth < loops[Len(loops)].depth
    BY <2>1 DEF Shape
  <2>4. k = Len(loops)
    BY <1>3, <2>2, <2>3
  <2> QED BY <1>1, <1>8, <2>1, <2>4 DEF BodyIsLeft
<1>9. \A k \in DOMAIN loops : loops[k].left => defers'[loops[k].depth] = <<>>
  <2>1. ASSUME NEW k \in DOMAIN loops, loops[k].left PROVE defers'[loops[k].depth] = <<>>
    <3>1. loops[k].depth \in 1 .. Depth
      BY OwnedLabels
    <3>2. defers[loops[k].depth] = <<>>
      BY <2>1 DEF Flow
    <3> QED BY <1>6, <1>8, <2>1, <3>1, <3>2
  <2> QED BY <2>1
<1> HIDE DEF s
<1> QED BY <1>1, <1>2, <1>5, <1>7, <1>9, StayFlow

LEMMA ReturnFlow ==
  ASSUME Shape, Books, Return, NEW ls, Flow(ls)
  PROVE  Flow(ls)'
<1> DEFINE s == <<Leave(0)>> \o EmitToDepth(0) \o <<Ret>>
<1>1. UNCHANGED <<blocks, labels, loops, defers>>
  BY DEF Return
<1>2. Stays(s, {})
  BY ReturnStays
<1>3. Depth \in Nat /\ 0 < Depth /\ 0 <= Depth /\ 0 \in Nat /\ 0 \in 0 .. Depth
  BY ShapeFacts
<1>4. Runs(ls, Now, <<Leave(0)>> \o EmitToDepth(0), Outside(defers, 0))
  BY <1>3, RunsLeaving
<1>5. Outside(defers, 0) \in State /\ Outside(defers, 0).due = <<>> /\ Now \in State /\ Now.due = <<>>
  BY <1>3, OutsideFacts
<1>6. Runs(ls, Outside(defers, 0), <<Ret>>, Now)
  BY <1>5, RunsRet
<1>7. Runs(ls, Now, s, Now')
  <2>1. Runs(ls, Now, s, Now)
    BY <1>4, <1>6, RunsBoth
  <2>2. Now' = Now
    BY <1>1 DEF Now
  <2> QED BY <2>1, <2>2
<1>8. \A k \in DOMAIN loops : loops[k].left => defers'[loops[k].depth] = <<>>
  BY <1>1 DEF Flow
<1> HIDE DEF s
<1> QED BY <1>1, <1>2, <1>7, <1>8, StayFlow

LEMMA ExitFlow ==
  ASSUME Forms = {}, Shape, Books, loops # <<>>, NEW target, Exit(target),
         target \in {Last(loops).break, Last(loops).continue}, NEW ls, Flow(ls)
  PROVE  Flow(ls)'
<1> DEFINE K == Len(loops)
           l == Last(loops)
           s == <<Leave(l.depth - 1)>> \o EmitToDepth(l.depth) \o <<Jump(target)>>
<1>1. /\ UNCHANGED <<blocks, labels, defers>> /\ defers[l.depth] = <<>>
      /\ loops' = [loops EXCEPT ![K].left = TRUE]
  BY DEF Exit
<1>2. Stays(s, {target})
  BY ExitStays
<1>3. K \in DOMAIN loops /\ l = loops[K] /\ l \in Loop
  BY ShapeFacts DEF Last, Shape
<1>4. PICK n : n = l.depth - 1
  OBVIOUS
<1>5. /\ n \in DOMAIN blocks /\ IsLoopOf(K, n) /\ l.depth \in 1 .. Depth /\ n \in Nat
      /\ blocks[n].kind \in LoopKinds /\ n \in 0 .. Depth /\ n < Depth /\ n <= Depth
      /\ l.depth \in Nat /\ l.depth <= Depth
      /\ l.continue \in LabelsIn(code) \cup Owned(n)
  <2>1. /\ n \in DOMAIN blocks /\ IsLoopOf(K, n) /\ l.depth \in 1 .. Depth
        /\ blocks[n].kind \in LoopKinds /\ l.continue \in LabelsIn(code) \cup Owned(n)
    BY <1>3, <1>4, OwnedLabels
  <2>2. Depth \in Nat
    BY ShapeFacts
  <2> HIDE DEF l
  <2> QED BY <1>4, <2>1, <2>2
<1>6. Unwind(defers, n) = Unwind(defers, l.depth)
  <2>1. defers \in Seq(Seq(Nat)) /\ l.depth \in 1 .. Len(defers)
    BY <1>5, ShapeFacts DEF Depth
  <2>2. Unwind(defers, l.depth - 1) = Unwind(defers, l.depth)
    BY <1>1, <2>1, UnwindSkips
  <2> QED BY <1>4, <2>2
<1>7. Runs(ls, Now, <<Leave(n)>> \o EmitToDepth(l.depth), Outside(defers, n))
  BY <1>5, <1>6, RunsLeaving
<1>8. ls[target] = Outside(defers, n) /\ target \in Nat
  <2>1. l.break = blocks[n].end
    BY <1>3, <1>5 DEF IsLoopOf
  <2>2. ls[l.break] = Outside(defers, n)
    BY <1>5, <2>1 DEF Flow
  <2>3. ls[l.continue] = Outside(defers, n)
    BY <1>3, <1>4 DEF Flow
  <2> QED BY <1>3, <2>2, <2>3 DEF Loop
<1>9. Runs(ls, Outside(defers, n), <<Jump(target)>>, Now)
  <2>1. /\ Outside(defers, n) \in State /\ Outside(defers, n).due = <<>>
        /\ Now \in State /\ Now.due = <<>> /\ Prefix(Outside(defers, n).scopes, Now.scopes)
    BY <1>5, OutsideFacts
  <2> QED BY <1>8, <2>1, RunsJump
<1>10. Runs(ls, Now, s, Now')
  <2>1. Runs(ls, Now, s, Now)
    BY <1>4, <1>7, <1>9, RunsBoth
  <2>2. Now' = Now
    BY <1>1 DEF Now
  <2> QED BY <2>1, <2>2
<1>11. loops' = [loops EXCEPT ![K] = [loops[K] EXCEPT !.left = TRUE]] /\ loops'[K].left
       /\ \A k \in DOMAIN loops : k # K => loops'[k] = loops[k]
  <2>1. loops' = [loops EXCEPT ![K] = [loops[K] EXCEPT !.left = TRUE]]
    BY <1>1
  <2>2. [loops[K] EXCEPT !.left = TRUE].left
    BY <1>3 DEF Loop
  <2> QED BY <1>3, <2>1, <2>2
<1>12. ASSUME NEW k \in DOMAIN loops
       PROVE  /\ loops'[k].left => defers'[loops[k].depth] = <<>>
              /\ ~loops'[k].left => ~loops[k].left
              /\ ~loops'[k].left /\ blocks[loops[k].depth - 1].kind # "while"
                   => loops[k].continue \notin {target}
  <2>1. CASE k = K
    BY <1>1, <1>3, <1>11, <2>1
  <2>2. CASE k # K
    <3>1. loops'[k] = loops[k] /\ (loops[k].left => defers'[loops[k].depth] = <<>>)
      BY <1>1, <1>11, <2>2 DEF Flow
    <3>2. PICK m : m = loops[k].depth - 1
      OBVIOUS
    <3>3. m \in DOMAIN blocks /\ loops[k].depth \in 1 .. Depth
          /\ (blocks[m].kind # "while" => loops[k].continue \in Owned(m))
      BY <3>2, OwnedLabels
    <3>4. m # n
      <4>1. k < K \/ K < k
        BY <1>3, <2>2, ShapeFacts
      <4>2. loops[k].depth < loops[K].depth \/ loops[K].depth < loops[k].depth
        BY <1>3, <4>1 DEF Shape
      <4>3. \A x, y \in Nat : x < y \/ y < x => x - 1 # y - 1
        OBVIOUS
      <4>4. loops[k].depth \in Nat /\ loops[K].depth \in Nat
        BY <1>3, ShapeFacts DEF Loop
      <4> HIDE DEF K, l
      <4> QED BY <1>3, <1>4, <3>2, <4>2, <4>3, <4>4
    <3>5. Owned(m) \cap Owned(n) = {} /\ Owned(m) \cap LabelsIn(code) = {}
      BY <1>5, <3>3, <3>4 DEF Books
    <3>6. target \in LabelsIn(code) \cup Owned(n)
      <4>1. l.break = blocks[n].end /\ blocks[n].end \in Owned(n)
        BY <1>3, <1>5, OwnedLabels DEF IsLoopOf
      <4> QED BY <1>5, <4>1
    <3> QED BY <3>1, <3>2, <3>3, <3>5, <3>6
  <2> QED BY <2>1, <2>2
<1>13. \A i \in 1 .. Len(blocks) : defers'[i] = defers[i]
  BY <1>1
<1> HIDE DEF s
<1> QED BY <1>2, <1>10, <1>12, <1>13, StayFlow

(* Where a body is opened.                                                 *)
LEMMA RunsOpening ==
  ASSUME Shape, NEW ls, defers' = Append(defers, <<>>)
  PROVE  Runs(ls, Now, <<Open(Depth + 1)>>, Now')
<1>1. defers \in Seq(Seq(Nat)) /\ Depth + 1 \in Nat /\ Depth + 1 = Len(defers) + 1
  BY ShapeFacts, NumberFacts DEF Depth
<1>2. Runs(ls, Have(defers, <<>>), <<Open(Depth + 1)>>, Have(Append(defers, <<>>), <<>>))
  BY <1>1, RunsOpen
<1>3. Now' = Have(Append(defers, <<>>), <<>>)
  BY DEF Now
<1> QED BY <1>2, <1>3 DEF Now

LEMMA NewLabelsHold ==
  ASSUME Shape, Books, NEW ls, Flow(ls), NEW mm, mm = NewLabels(ls, Now)
  PROVE  \A l \in Nat : l >= labels => mm[l] = Now
<1>1. Now \in State
  BY OutsideFacts
<1> QED BY <1>1, NewLabelsFacts

LEMMA OpenIfFlow ==
  ASSUME Shape, Books, OpenIf, NEW ls, Flow(ls), NEW mm, mm = NewLabels(ls, Now)
  PROVE  Flow(mm)'
<1> DEFINE b == [kind |-> "if", end |-> labels, next |-> labels + 1]
           s == <<Branch(labels + 1), Open(Depth + 1)>>
<1>1. PICK N : N = Len(blocks) + 1
  OBVIOUS
<1>2. defers' = Append(defers, <<>>) /\ loops' = loops
  BY DEF OpenIf, PushScope
<1>3. b \in Block /\ Opens(N, b, s, {}, {labels + 1})
  BY <1>1, OpenIfOpens
<1>4. Now \in State /\ Now.due = <<>>
  BY OutsideFacts
<1>5. labels \in Nat /\ labels + 1 \in Nat /\ labels >= labels /\ labels + 1 >= labels
  <2>1. labels \in Nat
    BY ShapeFacts
  <2> QED BY <2>1
<1>6. mm[labels + 1] = Now
  BY <1>4, <1>5, NewLabelsFacts
<1>7. Runs(mm, Now, <<Branch(labels + 1)>>, Now)
  BY <1>4, <1>5, <1>6, RunsBranch
<1>8. Runs(mm, Now, s, Now')
  <2>1. Runs(mm, Now, Append(<<Branch(labels + 1)>>, Open(Depth + 1)), Now')
    BY <1>2, <1>7, RunsOpening, RunsMore
  <2>2. \A x, y : <<x, y>> = Append(<<x>>, y)
    BY Tuples
  <2> QED BY <2>1, <2>2
<1>9. b.end = labels /\ b.next = labels + 1
  OBVIOUS
<1>10. \A l \in {labels + 1} : l >= labels
  BY <1>5
<1> HIDE DEF b, s
<1> QED BY <1>2, <1>3, <1>5, <1>8, <1>9, <1>10, OpenFlow

LEMMA LoopFlow ==
  ASSUME Shape, Books, NEW kind \in LoopKinds, NEW n \in Nat,
         NEW continue \in Nat, NEW break \in Nat, NEW top \in Nat,
         NEW s, NEW d, NEW u, LoopOpens(kind, n, continue, break, top, s, d, u),
         NEW ls, Flow(ls), NEW mm, mm = NewLabels(ls, Now), Runs(mm, Now, s, Now'),
         continue >= labels, kind = "while" \/ continue \notin u
  PROVE  Flow(mm)'
<1> DEFINE b == [kind |-> kind, end |-> break, next |-> top]
           l == [continue |-> continue, break |-> break, depth |-> Depth + 1, left |-> FALSE]
<1>1. PICK N : N = Len(blocks) + 1
  OBVIOUS
<1>2. b \in Block /\ Opens(N, b, s, d, u)
  BY <1>1, LoopIs
<1>3. /\ loops' = Append(loops, l)
      /\ d \subseteq labels .. (labels + n) - 1 /\ top \in d
      /\ break \in labels .. (labels + n) - 1 /\ u \subseteq d \cup {break}
  BY DEF LoopOpens, OpenLoop
<1>4. labels \in Nat /\ \A x \in labels .. (labels + n) - 1 : x >= labels
  <2>1. labels \in Nat
    BY ShapeFacts
  <2> QED BY <2>1
<1>5. b.end >= labels /\ b.next >= labels /\ \A x \in u : x >= labels
  BY <1>3, <1>4
<1>6. /\ l \in Loop /\ l.depth = Len(blocks) + 2 /\ ~l.left /\ l.continue = continue
      /\ b.kind = kind
  <2>1. Depth + 1 \in Nat /\ Depth + 1 = Len(blocks) + 2
    BY ShapeFacts
  <2> QED BY <2>1 DEF Loop
<1> HIDE DEF b, l
<1> QED BY <1>2, <1>3, <1>5, <1>6, OpenFlow

(* `while` and `for` begin in the same way.                                *)
LEMMA TopRuns ==
  ASSUME Shape, NEW ls, NEW top \in Nat, NEW end \in Nat, ls[top] = Now, ls[end] = Now,
         defers' = Append(defers, <<>>)
  PROVE  Runs(ls, Now, <<Label(top), Branch(end), Open(Depth + 1)>>, Now')
<1>1. Now \in State /\ Now.due = <<>>
  BY OutsideFacts
<1>2. Runs(ls, Now, <<Label(top)>>, Now) /\ Runs(ls, Now, <<Branch(end)>>, Now)
  BY <1>1, RunsLabel, RunsBranch
<1>3. Runs(ls, Now, Append(Append(<<Label(top)>>, Branch(end)), Open(Depth + 1)), Now')
  BY <1>2, RunsOpening, RunsMore
<1>4. \A x, y, z : <<x, y, z>> = Append(Append(<<x>>, y), z)
  BY Tuples
<1>5. <<Label(top), Branch(end), Open(Depth + 1)>>
        = Append(Append(<<Label(top)>>, Branch(end)), Open(Depth + 1))
  BY <1>4
<1> QED BY <1>3, <1>5, Zenon

LEMMA OpenWhileFlow ==
  ASSUME Shape, Books, OpenWhile, NEW ls, Flow(ls), NEW mm, mm = NewLabels(ls, Now)
  PROVE  Flow(mm)'
<1> DEFINE s == <<Label(labels), Branch(labels + 1), Open(Depth + 1)>>
<1>1. /\ labels \in Nat /\ labels + 1 \in Nat
      /\ LoopOpens("while", 2, labels, labels + 1, labels, s, {labels}, {labels + 1})
  BY OpenWhileOpens
<1>2. labels >= labels /\ labels + 1 >= labels /\ "while" \in LoopKinds /\ 2 \in Nat
  BY <1>1 DEF LoopKinds
<1>3. mm[labels] = Now /\ mm[labels + 1] = Now
  BY <1>1, <1>2, NewLabelsFacts, OutsideFacts
<1>4. defers' = Append(defers, <<>>)
  BY DEF OpenWhile, OpenLoop, PushScope
<1>5. Runs(mm, Now, s, Now')
  BY <1>1, <1>3, <1>4, TopRuns
<1> HIDE DEF s
<1> QED BY <1>1, <1>2, <1>5, LoopFlow

LEMMA OpenForFlow ==
  ASSUME Shape, Books, OpenFor, NEW ls, Flow(ls), NEW mm, mm = NewLabels(ls, Now)
  PROVE  Flow(mm)'
<1> DEFINE s == <<Label(labels), Branch(labels + 1), Open(Depth + 1)>>
<1>1. /\ labels \in Nat /\ labels + 1 \in Nat /\ labels + 2 \in Nat
      /\ LoopOpens("for", 3, labels + 2, labels + 1, labels, s, {labels}, {labels + 1})
  BY OpenForOpens
<1>2. /\ labels >= labels /\ labels + 1 >= labels /\ labels + 2 >= labels
      /\ "for" \in LoopKinds /\ 3 \in Nat /\ labels + 2 \notin {labels + 1}
  BY <1>1 DEF LoopKinds
<1>3. mm[labels] = Now /\ mm[labels + 1] = Now
  BY <1>1, <1>2, NewLabelsHold
<1>4. defers' = Append(defers, <<>>)
  BY DEF OpenFor, OpenLoop, PushScope
<1>5. Runs(mm, Now, s, Now')
  BY <1>1, <1>3, <1>4, TopRuns
<1> HIDE DEF s
<1> QED BY <1>1, <1>2, <1>5, LoopFlow

LEMMA OpenRangedFlow ==
  ASSUME Shape, Books, OpenRanged, NEW ls, Flow(ls), NEW mm, mm = NewLabels(ls, Now)
  PROVE  Flow(mm)'
<1> DEFINE s == <<Branch(labels), Jump(labels + 1), Label(labels), Label(labels + 1),
                  Label(labels + 2), Branch(labels + 4), Open(Depth + 1)>>
           d == {labels, labels + 1, labels + 2}
           u == {labels, labels + 1, labels + 4}
<1>1. /\ labels \in Nat /\ labels + 1 \in Nat /\ labels + 2 \in Nat
      /\ labels + 3 \in Nat /\ labels + 4 \in Nat
      /\ LoopOpens("ranged", 5, labels + 3, labels + 4, labels + 2, s, d, u)
  BY OpenRangedOpens
<1>2. /\ labels >= labels /\ labels + 1 >= labels /\ labels + 2 >= labels
      /\ labels + 3 >= labels /\ labels + 4 >= labels
      /\ "ranged" \in LoopKinds /\ 5 \in Nat /\ labels + 3 \notin u
  BY <1>1 DEF LoopKinds
<1>3. Now \in State /\ Now.due = <<>> /\ Prefix(Now.scopes, Now.scopes)
  <2>1. Now \in State /\ Now.due = <<>> /\ Now.scopes = defers /\ defers \in Seq(Seq(Nat))
    BY OutsideFacts, ShapeFacts
  <2>2. SubSeq(defers, 1, Len(defers)) = defers /\ Len(defers) <= Len(defers)
    BY <2>1, SubSeqFull
  <2> QED BY <2>1, <2>2 DEF Prefix
<1>4. /\ mm[labels] = Now /\ mm[labels + 1] = Now /\ mm[labels + 2] = Now
      /\ mm[labels + 4] = Now
  <2>1. \A l \in Nat : l >= labels => mm[l] = Now
    BY NewLabelsHold
  <2> HIDE DEF d, u, s
  <2> QED BY <1>1, <1>2, <2>1
<1>5. defers' = Append(defers, <<>>)
  BY DEF OpenRanged, OpenLoop, PushScope
<1>6. Runs(mm, Now, s, Now')
  <2> DEFINE s2 == Append(<<Branch(labels)>>, Jump(labels + 1))
             s3 == Append(s2, Label(labels))
             s4 == Append(s3, Label(labels + 1))
             s5 == Append(s4, Label(labels + 2))
             s6 == Append(s5, Branch(labels + 4))
             s7 == Append(s6, Open(Depth + 1))
  <2>1. Runs(mm, Now, <<Branch(labels)>>, Now) /\ Runs(mm, Now, <<Branch(labels + 4)>>, Now)
    BY <1>1, <1>3, <1>4, RunsBranch
  <2>2. /\ Runs(mm, Now, <<Label(labels)>>, Now) /\ Runs(mm, Now, <<Label(labels + 1)>>, Now)
        /\ Runs(mm, Now, <<Label(labels + 2)>>, Now)
    BY <1>1, <1>3, <1>4, RunsLabel
  <2>3. Runs(mm, Now, <<Jump(labels + 1)>>, Now)
    BY <1>1, <1>3, <1>4, RunsJump
  <2>4. Runs(mm, Now, s2, Now)
    BY <2>1, <2>3, RunsMore
  <2> HIDE DEF s2
  <2>5. Runs(mm, Now, s3, Now)
    BY <2>2, <2>4, RunsMore
  <2> HIDE DEF s3
  <2>6. Runs(mm, Now, s4, Now)
    BY <2>2, <2>5, RunsMore
  <2> HIDE DEF s4
  <2>7. Runs(mm, Now, s5, Now)
    BY <2>2, <2>6, RunsMore
  <2> HIDE DEF s5
  <2>8. Runs(mm, Now, s6, Now)
    BY <2>1, <2>7, RunsMore
  <2> HIDE DEF s6
  <2>9. Runs(mm, Now, s7, Now')
    BY <1>5, <2>8, RunsOpening, RunsMore
  <2>10. s = s7
    BY Tuples DEF s2, s3, s4, s5, s6
  <2> HIDE DEF s, s7
  <2> QED BY <2>9, <2>10
<1> HIDE DEF s, d, u
<1> QED BY <1>1, <1>2, <1>6, LoopFlow

(* Where a body ends.                                                      *)
LEMMA BodyRuns ==
  ASSUME Shape, blocks # <<>>, NEW N, N = Len(blocks), NEW ls
  PROVE  /\ N \in DOMAIN blocks /\ N \in Nat /\ N \in 0 .. Depth /\ Depth = N + 1 /\ N < Depth
         /\ Depth - 1 = N /\ N <= Depth
         /\ blocks[N].end \in Nat /\ blocks[N].next \in Nat
         /\ Outside(defers, N) \in State /\ Outside(defers, N).due = <<>>
         /\ Prefix(Outside(defers, N).scopes, Outside(defers, N).scopes)
         /\ Prefix(Outside(defers, N).scopes, Now.scopes)
         /\ Runs(ls, Now, <<Leave(Depth - 1)>> \o EmitCurrent, Outside(defers, N))
<1>1. N \in DOMAIN blocks /\ Depth = N + 1 /\ N \in Nat
  BY BodyEnds, ShapeFacts
<1>2. N \in 0 .. Depth /\ N < Depth /\ N <= Depth /\ Depth - 1 = N
  BY <1>1
<1>3. Runs(ls, Now, <<Leave(N)>> \o EmitToDepth(N), Outside(defers, N))
  BY <1>1, <1>2, RunsLeaving
<1>4. blocks[N].end \in Nat /\ blocks[N].next \in Nat
  BY BodyEnds
<1> QED BY <1>1, <1>2, <1>3, <1>4, OutsideFacts DEF EmitCurrent

(* Where the next body begins in its place.                                *)
LEMMA BodyAgain ==
  ASSUME Shape, blocks # <<>>, NEW N, N = Len(blocks), NEW ls,
         defers' = [defers EXCEPT ![Depth] = <<>>]
  PROVE  /\ Runs(ls, Outside(defers, N), <<Open(Depth)>>, Now')
         /\ \A i \in 1 .. N : defers'[i] = defers[i]
<1>1. N \in Nat /\ Depth = N + 1 /\ N \in 0 .. Depth /\ Depth \in Nat
      /\ defers \in Seq(Seq(Nat)) /\ Len(defers) = Depth /\ <<>> \in Seq(Nat)
      /\ SubSeq(defers, 1, N) \in Seq(Seq(Nat)) /\ Len(SubSeq(defers, 1, N)) = N
  BY BodyRuns, ShapeFacts, OutsideFacts, StateFacts DEF Depth
<1>2. \A i \in 1 .. N : defers'[i] = defers[i]
  BY <1>1
<1>3. Runs(ls, Outside(defers, N), <<Open(Depth)>>, Have(Append(SubSeq(defers, 1, N), <<>>), <<>>))
  <2>1. Depth = Len(SubSeq(defers, 1, N)) + 1
    BY <1>1
  <2> QED BY <1>1, <2>1, RunsOpen DEF Outside
<1>4. PICK dd : dd = defers'
  OBVIOUS
<1>5. dd = Append(SubSeq(defers, 1, N), <<>>)
  <2>1. PICK tt : tt = SubSeq(defers, 1, N)
    OBVIOUS
  <2>2. tt \in Seq(Seq(Nat)) /\ Len(tt) = N /\ \A i \in 1 .. N : tt[i] = defers[i]
    BY <1>1, <2>1
  <2>3. PICK uu : uu = Append(tt, <<>>)
    OBVIOUS
  <2>4. /\ uu \in Seq(Seq(Nat)) /\ Len(uu) = N + 1 /\ uu[N + 1] = <<>>
        /\ \A i \in 1 .. N : uu[i] = tt[i]
    <3>1. DOMAIN tt = 1 .. N
      BY <2>2
    <3> QED BY <1>1, <2>2, <2>3, <3>1, AppendFacts
  <2>5. /\ dd \in Seq(Seq(Nat)) /\ Len(dd) = N + 1 /\ dd[N + 1] = <<>>
        /\ \A i \in 1 .. N : dd[i] = defers[i]
    BY <1>1, <1>4
  <2>6. \A i \in 1 .. N + 1 : dd[i] = uu[i]
    <3>1. \A i \in 1 .. N + 1 : i \in 1 .. N \/ i = N + 1
      BY <1>1
    <3> QED BY <2>2, <2>4, <2>5, <3>1
  <2>7. dd = uu
    BY <2>4, <2>5, <2>6, SeqEqual
  <2> QED BY <2>1, <2>3, <2>7
<1>6. Now' = Have(dd, <<>>)
  BY <1>4 DEF Now
<1> QED BY <1>2, <1>3, <1>5, <1>6

LEMMA ElseIfFlow ==
  ASSUME Shape, Books, ElseIf, NEW N, N = Len(blocks), NEW ls, Flow(ls),
         NEW mm, mm = NewLabels(ls, Outside(defers, N))
  PROVE  Flow(mm)'
<1> DEFINE o == Outside(defers, N)
           e == blocks[N].end
           x == blocks[N].next
           b == [blocks[N] EXCEPT !.next = labels]
           h == <<Leave(Depth - 1)>> \o EmitCurrent
           t2 == Append(<<Jump(e)>>, Label(x))
           t3 == Append(t2, Branch(labels))
           t4 == Append(t3, Open(Depth))
           t == <<Jump(e), Label(x), Branch(labels), Open(Depth)>>
           s == h \o t
<1>1. /\ N = Len(blocks) /\ blocks # <<>> /\ blocks[N].kind = "if"
      /\ defers' = [defers EXCEPT ![Depth] = <<>>]
  BY BodyEnds DEF ElseIf, Last
<1>2. /\ N \in DOMAIN blocks /\ N \in 0 .. Depth /\ e \in Nat /\ x \in Nat
      /\ o \in State /\ o.due = <<>> /\ Prefix(o.scopes, o.scopes)
      /\ Runs(mm, Now, h, o)
  BY <1>1, BodyRuns
<1>3. b \in Block /\ NextBranch(N, b, s, {e, labels})
  BY <1>1, ElseIfNext
<1>4. labels \in Nat /\ labels >= labels
  <2>1. labels \in Nat
    BY ShapeFacts
  <2> QED BY <2>1
<1>5. mm = NewLabels(ls, o)
  OBVIOUS
<1> HIDE DEF o
<1>6. mm[e] = o /\ mm[x] = o /\ mm[labels] = o
  <2>1. mm[labels] = o
    <3>1. \A l \in Nat : l >= labels => mm[l] = o
      <4>1. o \in State
        BY <1>2
      <4> HIDE DEF h, e, x
      <4> QED BY <1>5, <4>1, NewLabelsFacts
    <3> QED BY <1>4, <3>1
  <2>2. mm[e] = Outside(defers, N)
    BY <1>2, <1>5, NewLabelsFacts
  <2>3. mm[x] = Outside(defers, N)
    <3>1. blocks[N].kind # "else"
      BY <1>1
    <3> QED BY <1>2, <1>5, <3>1, NewLabelsFacts
  <2> QED BY <2>1, <2>2, <2>3 DEF o
<1> HIDE DEF e, x, h, b
<1>7. Runs(mm, o, t, Now')
  <2>1. Runs(mm, o, <<Jump(e)>>, o)
    BY <1>2, <1>6, RunsJump
  <2>2. Runs(mm, o, <<Label(x)>>, o)
    BY <1>2, <1>6, RunsLabel
  <2>3. Runs(mm, o, <<Branch(labels)>>, o)
    BY <1>2, <1>4, <1>6, RunsBranch
  <2>4. Runs(mm, o, <<Open(Depth)>>, Now')
    BY <1>1, BodyAgain DEF o
  <2>5. Runs(mm, o, t2, o)
    BY <2>1, <2>2, RunsMore
  <2> HIDE DEF t2
  <2>6. Runs(mm, o, t3, o)
    BY <2>3, <2>5, RunsMore
  <2> HIDE DEF t3
  <2>7. Runs(mm, o, t4, Now')
    BY <2>4, <2>6, RunsMore
  <2>8. t = t4
    BY Tuples DEF t2, t3
  <2> HIDE DEF t, t4
  <2> QED BY <2>7, <2>8
<1> HIDE DEF t
<1>8. Runs(mm, Now, s, Now')
  BY <1>2, <1>7, RunsBoth
<1>9. \A i \in 1 .. N : defers'[i] = defers[i]
  BY <1>1, BodyAgain
<1> HIDE DEF s
<1>10. PICK u : u = {e, labels}
  OBVIOUS
<1>11. NextBranch(N, b, s, u) /\ b \in Block
  BY <1>3, <1>10
<1>12. mm = NewLabels(ls, Outside(defers, N))
  OBVIOUS
<1> QED BY <1>8, <1>9, <1>11, <1>12, NextFlow

LEMMA ElseFlow ==
  ASSUME Shape, Books, Else, NEW N, N = Len(blocks), NEW ls, Flow(ls),
         NEW mm, mm = NewLabels(ls, Outside(defers, N))
  PROVE  Flow(mm)'
<1> DEFINE o == Outside(defers, N)
           e == blocks[N].end
           x == blocks[N].next
           b == [blocks[N] EXCEPT !.kind = "else"]
           h == <<Leave(Depth - 1)>> \o EmitCurrent
           t2 == Append(<<Jump(e)>>, Label(x))
           t3 == Append(t2, Open(Depth))
           t == <<Jump(e), Label(x), Open(Depth)>>
           s == h \o t
<1>1. /\ N = Len(blocks) /\ blocks # <<>> /\ blocks[N].kind = "if"
      /\ defers' = [defers EXCEPT ![Depth] = <<>>]
  BY BodyEnds DEF Else, Closing, Last
<1>2. /\ N \in DOMAIN blocks /\ N \in 0 .. Depth /\ e \in Nat /\ x \in Nat
      /\ o \in State /\ o.due = <<>> /\ Prefix(o.scopes, o.scopes)
      /\ Runs(mm, Now, h, o)
  BY <1>1, BodyRuns
<1>3. b \in Block /\ NextBranch(N, b, s, {e})
  BY <1>1, ElseNext
<1>5. mm = NewLabels(ls, o)
  OBVIOUS
<1> HIDE DEF o
<1>6. mm[e] = o /\ mm[x] = o
  <2>2. mm[e] = Outside(defers, N)
    BY <1>2, <1>5, NewLabelsFacts
  <2>3. mm[x] = Outside(defers, N)
    <3>1. blocks[N].kind # "else"
      BY <1>1
    <3> QED BY <1>2, <1>5, <3>1, NewLabelsFacts
  <2> QED BY <2>2, <2>3 DEF o
<1> HIDE DEF e, x, h, b
<1>7. Runs(mm, o, t, Now')
  <2>1. Runs(mm, o, <<Jump(e)>>, o)
    BY <1>2, <1>6, RunsJump
  <2>2. Runs(mm, o, <<Label(x)>>, o)
    BY <1>2, <1>6, RunsLabel
  <2>4. Runs(mm, o, <<Open(Depth)>>, Now')
    BY <1>1, BodyAgain DEF o
  <2>5. Runs(mm, o, t2, o)
    BY <2>1, <2>2, RunsMore
  <2> HIDE DEF t2
  <2>6. Runs(mm, o, t3, Now')
    BY <2>4, <2>5, RunsMore
  <2>8. t = t3
    BY Tuples DEF t2
  <2> HIDE DEF t, t3
  <2> QED BY <2>6, <2>8
<1> HIDE DEF t
<1>8. Runs(mm, Now, s, Now')
  BY <1>2, <1>7, RunsBoth
<1>9. \A i \in 1 .. N : defers'[i] = defers[i]
  BY <1>1, BodyAgain
<1> HIDE DEF s
<1>10. PICK u : u = {e}
  OBVIOUS
<1>11. NextBranch(N, b, s, u) /\ b \in Block
  BY <1>3, <1>10
<1>12. mm = NewLabels(ls, Outside(defers, N))
  OBVIOUS
<1> QED BY <1>8, <1>9, <1>11, <1>12, NextFlow

(* After the body: the scope is gone.                                      *)
LEMMA BodyClosed ==
  ASSUME Shape, blocks # <<>>, NEW N, N = Len(blocks), defers' = Front(defers)
  PROVE  Now' = Outside(defers, N)
<1>1. N \in Nat /\ Depth = N + 1 /\ N \in 0 .. Depth
      /\ defers \in Seq(Seq(Nat)) /\ Len(defers) = Depth /\ defers # <<>>
      /\ SubSeq(defers, 1, N) \in Seq(Seq(Nat)) /\ Len(SubSeq(defers, 1, N)) = N
  BY BodyRuns, ShapeFacts, OutsideFacts DEF Depth
<1>2. /\ Front(defers) \in Seq(Seq(Nat)) /\ Len(Front(defers)) = N
      /\ \A i \in DOMAIN Front(defers) : Front(defers)[i] = defers[i]
  <2>1. Len(defers) - 1 = N
    BY <1>1
  <2> QED BY <1>1, <2>1, FrontFacts
<1>3. PICK dd : dd = Front(defers)
  OBVIOUS
<1>4. PICK tt : tt = SubSeq(defers, 1, N)
  OBVIOUS
<1>5. /\ dd \in Seq(Seq(Nat)) /\ Len(dd) = N
      /\ \A i \in 1 .. N : dd[i] = defers[i]
  BY <1>2, <1>3
<1>6. /\ tt \in Seq(Seq(Nat)) /\ Len(tt) = N
      /\ \A i \in 1 .. N : tt[i] = defers[i]
  BY <1>1, <1>4
<1>7. dd = tt
  BY <1>5, <1>6, SeqEqual
<1> QED BY <1>3, <1>4, <1>7 DEF Now, Outside

LEMMA CloseIfFlow ==
  ASSUME Shape, Books, CloseIf, NEW N, N = Len(blocks), NEW ls, Flow(ls)
  PROVE  Flow(ls)'
<1> DEFINE o == Outside(defers, N)
           e == blocks[N].end
           h == <<Leave(Depth - 1)>> \o EmitCurrent
           s == h \o <<Label(e)>>
<1>1. blocks # <<>> /\ defers' = Front(defers) /\ N = Len(blocks)
  BY DEF CloseIf, Closing, PopScope
<1>2. N \in DOMAIN blocks /\ e \in Nat /\ o \in State /\ Runs(ls, Now, h, o)
  BY <1>1, BodyRuns
<1>3. ls[e] = o /\ ls \in [Nat -> State]
  BY <1>2 DEF Flow
<1>4. Runs(ls, o, <<Label(e)>>, o)
  BY <1>2, <1>3, RunsLabel
<1>5. Now' = o
  BY <1>1, BodyClosed
<1>6. Closes(N, s, {})
  BY CloseIfCloses
<1> HIDE DEF h, o, e
<1>7. Runs(ls, Now, s, Now')
  BY <1>2, <1>4, <1>5, RunsBoth
<1>8. PICK u : u = {}
  OBVIOUS
<1>9. Closes(N, s, u)
  BY <1>6, <1>8
<1> HIDE DEF s
<1>10. PICK mm : mm = ls
  OBVIOUS
<1> QED BY <1>3, <1>7, <1>9, <1>10, CloseFlow

(* A jump to the top of a loop, and the label after it.                    *)
LEMMA BackRuns ==
  ASSUME NEW ls, NEW top \in Nat, NEW end \in Nat, NEW o \in State, o.due = <<>>,
         Prefix(o.scopes, o.scopes), ls[top] = o, ls[end] = o
  PROVE  Runs(ls, o, <<Jump(top), Label(end)>>, o)
<1>1. Runs(ls, o, <<Jump(top)>>, o)
  BY RunsJump
<1>2. Runs(ls, o, <<Label(end)>>, o)
  BY RunsLabel
<1>3. Runs(ls, o, Append(<<Jump(top)>>, Label(end)), o)
  BY <1>1, <1>2, RunsMore
<1>4. <<Jump(top), Label(end)>> = Append(<<Jump(top)>>, Label(end))
  BY Tuples
<1> QED BY <1>3, <1>4, Zenon

LEMMA CloseWhileFlow ==
  ASSUME Shape, Books, CloseWhile, NEW N, N = Len(blocks), NEW ls, Flow(ls)
  PROVE  Flow(ls)'
<1> DEFINE o == Outside(defers, N)
           e == blocks[N].end
           x == blocks[N].next
           h == <<Leave(Depth - 1)>> \o EmitCurrent
           t == <<Jump(x), Label(e)>>
           s == h \o t
<1>1. blocks # <<>> /\ defers' = Front(defers) /\ N = Len(blocks) /\ blocks[N].kind = "while"
  BY BodyEnds DEF CloseWhile, Closing, CloseLoop, PopScope, Last
<1>2. /\ N \in DOMAIN blocks /\ e \in Nat /\ x \in Nat /\ o \in State /\ o.due = <<>>
      /\ Prefix(o.scopes, o.scopes) /\ Runs(ls, Now, h, o)
  BY <1>1, BodyRuns
<1>3. ls[e] = o /\ ls[x] = o /\ ls \in [Nat -> State]
  BY <1>1, <1>2 DEF Flow
<1>4. Runs(ls, o, t, o)
  <2> HIDE DEF o, e, x
  <2> QED BY <1>2, <1>3, BackRuns
<1>5. Now' = o
  BY <1>1, BodyClosed
<1>6. Closes(N, s, {x})
  BY CloseWhileCloses
<1> HIDE DEF h, o, e, t
<1>7. Runs(ls, Now, s, Now')
  BY <1>2, <1>4, <1>5, RunsBoth
<1>8. PICK u : u = {x}
  OBVIOUS
<1>9. Closes(N, s, u)
  BY <1>6, <1>8
<1> HIDE DEF s
<1>10. PICK mm : mm = ls
  OBVIOUS
<1> QED BY <1>3, <1>7, <1>9, <1>10, CloseFlow

LEMMA CloseForFlow ==
  ASSUME Shape, Books, CloseFor, NEW N, N = Len(blocks), NEW ls, Flow(ls)
  PROVE  Flow(ls)'
<1> DEFINE o == Outside(defers, N)
           e == blocks[N].end
           x == blocks[N].next
           c == Last(loops).continue
           h == <<Leave(Depth - 1)>> \o EmitCurrent
           t2 == Append(<<Label(c)>>, Iterate)
           t3 == Append(t2, Jump(x))
           t4 == Append(t3, Label(e))
           t == <<Label(c), Iterate, Jump(x), Label(e)>>
           s == h \o t
<1>1. blocks # <<>> /\ defers' = Front(defers) /\ N = Len(blocks) /\ blocks[N].kind = "for"
  BY BodyEnds DEF CloseFor, Closing, CloseLoop, PopScope, Last
<1>2. /\ N \in DOMAIN blocks /\ e \in Nat /\ x \in Nat /\ o \in State /\ o.due = <<>>
      /\ Prefix(o.scopes, o.scopes) /\ Runs(ls, Now, h, o)
  BY <1>1, BodyRuns
<1>3. ls[e] = o /\ ls[x] = o /\ ls \in [Nat -> State]
  BY <1>1, <1>2 DEF Flow
<1>4. c \in Nat /\ ls[c] = o
  <2>1. loops # <<>> /\ IsLoopOf(Len(loops), N) /\ c \in Nat
    BY <1>1, TopLoop DEF LoopKinds
  <2>2. Len(loops) \in DOMAIN loops /\ c = loops[Len(loops)].continue
    BY <2>1, ShapeFacts DEF Last
  <2>3. loops[Len(loops)].depth = N + 1 /\ N \in Nat
    BY <1>1, <2>1, ShapeFacts DEF IsLoopOf
  <2>4. loops[Len(loops)].depth - 1 = N
    BY <2>3
  <2> QED BY <2>1, <2>2, <2>4 DEF Flow
<1>5. Now' = o
  BY <1>1, BodyClosed
<1>6. Closes(N, s, {x})
  BY CloseForCloses
<1> HIDE DEF h, o, e, x, c
<1>7. Runs(ls, o, t, o)
  <2>1. Runs(ls, o, <<Label(c)>>, o)
    BY <1>2, <1>4, RunsLabel
  <2>2. Runs(ls, o, <<Iterate>>, o)
    BY <1>2, RunsIterate
  <2>3. Runs(ls, o, <<Jump(x)>>, o)
    BY <1>2, <1>3, RunsJump
  <2>4. Runs(ls, o, <<Label(e)>>, o)
    BY <1>2, <1>3, RunsLabel
  <2>5. Runs(ls, o, t2, o)
    BY <2>1, <2>2, RunsMore
  <2> HIDE DEF t2
  <2>6. Runs(ls, o, t3, o)
    BY <2>3, <2>5, RunsMore
  <2> HIDE DEF t3
  <2>7. Runs(ls, o, t4, o)
    BY <2>4, <2>6, RunsMore
  <2>8. t = t4
    BY Tuples DEF t2, t3
  <2> HIDE DEF t, t4
  <2> QED BY <2>7, <2>8
<1> HIDE DEF t
<1>8. Runs(ls, Now, s, Now')
  BY <1>2, <1>5, <1>7, RunsBoth
<1>9. PICK u : u = {x}
  OBVIOUS
<1>10. Closes(N, s, u)
  BY <1>6, <1>9
<1> HIDE DEF s
<1>11. PICK mm : mm = ls
  OBVIOUS
<1> QED BY <1>3, <1>8, <1>10, <1>11, CloseFlow

(* What holds where continue goes, when the body of a ranged for ends.     *)
RangedLabels(ls) ==
  LET l == Last(loops)
  IN  IF l.left THEN ls
      ELSE [ls EXCEPT ![l.continue] = Have(SubSeq(defers, 1, Depth - 1), Unwind(defers, Depth - 1))]

LEMMA CloseRangedFlow ==
  ASSUME Shape, Books, CloseRanged, NEW N, N = Len(blocks), NEW ls, Flow(ls),
         NEW mm, mm = RangedLabels(ls)
  PROVE  Flow(mm)'
<1> DEFINE o == Outside(defers, N)
           e == blocks[N].end
           x == blocks[N].next
           l == Last(loops)
           c == l.continue
           a == Have(SubSeq(defers, 1, N), Unwind(defers, N))
           h == <<Leave(Depth - 1), Label(c)>>
           t == <<Jump(x), Label(e)>>
           s == h \o EmitCurrent \o t
<1>1. blocks # <<>> /\ defers' = Front(defers) /\ N = Len(blocks) /\ blocks[N].kind = "ranged"
  BY BodyEnds DEF CloseRanged, Closing, CloseLoop, PopScope, Last
<1>2. /\ N \in DOMAIN blocks /\ e \in Nat /\ x \in Nat /\ o \in State /\ o.due = <<>>
      /\ N \in Nat /\ Depth = N + 1 /\ Depth - 1 = N /\ N \in 0 .. Depth /\ N < Depth /\ N <= Depth
      /\ Prefix(o.scopes, o.scopes)
  BY <1>1, BodyRuns
<1>3. ls[e] = o /\ ls[x] = o /\ ls \in [Nat -> State]
  BY <1>1, <1>2 DEF Flow
<1>4. /\ c \in Nat /\ ls[c] = o /\ (l.left => defers[Depth] = <<>>)
      /\ (~l.left => c \notin JumpsIn(code))
  <2>1. loops # <<>> /\ IsLoopOf(Len(loops), N) /\ c \in Nat
    BY <1>1, TopLoop DEF LoopKinds
  <2>2. Len(loops) \in DOMAIN loops /\ l = loops[Len(loops)]
    BY <2>1, ShapeFacts DEF Last
  <2>3. loops[Len(loops)].depth = N + 1
    BY <1>1, <2>1, ShapeFacts DEF IsLoopOf
  <2>4. loops[Len(loops)].depth - 1 = N /\ loops[Len(loops)].depth = Depth
    BY <1>2, <2>3
  <2>5. blocks[N].kind # "while"
    BY <1>1
  <2> QED BY <2>1, <2>2, <2>4, <2>5 DEF Flow
<1>5. defers \in Seq(Seq(Nat)) /\ N < Len(defers) /\ Depth = Len(defers) /\ defers # <<>>
  BY <1>2, ShapeFacts DEF Depth
<1>6. /\ SubSeq(defers, 1, N) \in Seq(Seq(Nat)) /\ Unwind(defers, N) \in Seq(Nat)
      /\ a \in State
  <2>1. SubSeq(defers, 1, N) \in Seq(Seq(Nat))
    BY <1>2, <1>5
  <2>2. Unwind(defers, N) \in Seq(Nat)
    BY <1>2, <1>5, UnwindType
  <2> QED BY <2>1, <2>2, StateFacts
<1>7. /\ c \in Owned(N) /\ c # e /\ x \in LabelsIn(code) /\ c # x
  <2>1. Continues(N) = {c}
    BY <1>1, TopLoop DEF LoopKinds
  <2>2. c \in Owned(N)
    BY <1>1, <2>1 DEF Owned
  <2>3. Owned(N) \cap LabelsIn(code) = {} /\ e \notin Continues(N) /\ x \in LabelsIn(code)
    BY <1>1, <1>2 DEF Books, LoopKinds
  <2> HIDE DEF c, e, x
  <2> QED BY <2>1, <2>2, <2>3
<1>8. /\ mm \in [Nat -> State] /\ mm[c] = a /\ mm[e] = o /\ mm[x] = o
      /\ \A j \in Nat : (j \in Owned(N) /\ j \notin JumpsIn(code)) \/ mm[j] = ls[j]
  <2>1. CASE l.left
    <3>1. mm = ls
      BY <2>1 DEF RangedLabels
    <3>2. Unwind(defers, N) = <<>>
      <4>1. AllEmpty(defers, N + 1)
        BY <1>2, <1>4, <1>5, <2>1 DEF AllEmpty
      <4> QED BY <1>2, <1>5, <4>1, UnwindEmpty
    <3>3. a = o
      BY <3>2 DEF Outside
    <3> HIDE DEF a, o, c, e, x
    <3> QED BY <1>3, <1>4, <3>1, <3>3
  <2>2. CASE ~l.left
    <3>1. mm = [ls EXCEPT ![c] = a]
      BY <1>2, <2>2 DEF RangedLabels
    <3> HIDE DEF a, o, c, e, x
    <3> QED BY <1>2, <1>3, <1>4, <1>6, <1>7, <2>2, <3>1
  <2> QED BY <2>1, <2>2
<1>9. Runs(mm, Now, h, a)
  <2>1. Runs(mm, Now, <<Leave(N)>>, a)
    BY <1>2, <1>5, RunsLeave DEF Now
  <2>2. Runs(mm, a, <<Label(c)>>, a)
    <3> HIDE DEF a, c
    <3> QED BY <1>4, <1>6, <1>8, RunsLabel
  <2>3. Runs(mm, Now, Append(<<Leave(N)>>, Label(c)), a)
    BY <2>1, <2>2, RunsMore
  <2>4. h = Append(<<Leave(N)>>, Label(c))
    BY <1>2, Tuples
  <2> HIDE DEF h, a, c
  <2> QED BY <2>3, <2>4
<1>10. Runs(mm, a, EmitCurrent, o)
  <2>1. Runs(mm, Have(SubSeq(defers, 1, N), Unwind(defers, N)), EmitToDepth(N),
             Have(SubSeq(defers, 1, N), <<>>))
    BY <1>2, <1>5, <1>6, RunsDefers
  <2> QED BY <1>2, <2>1 DEF EmitCurrent, Outside
<1>11. Now' = o
  BY <1>1, BodyClosed
<1>12. Closes(N, s, {x})
  BY CloseRangedCloses
<1> HIDE DEF a, o, e, x, c, h
<1>13. Runs(mm, o, t, o)
  BY <1>2, <1>8, BackRuns
<1> HIDE DEF t
<1>14. Runs(mm, Now, s, Now')
  <2>1. Runs(mm, Now, h \o EmitCurrent, o)
    BY <1>9, <1>10, RunsBoth
  <2> QED BY <1>11, <1>13, <2>1, RunsBoth
<1>15. PICK u : u = {x}
  OBVIOUS
<1>16. Closes(N, s, u)
  BY <1>12, <1>15
<1> HIDE DEF s
<1> QED BY <1>8, <1>14, <1>16, CloseFlow

(* At the beginning nothing is compiled.                                   *)
LEMMA FlowInit == Init => \E ls : Flow(ls)
<1> SUFFICES ASSUME Init PROVE \E ls : Flow(ls)
  OBVIOUS
<1> DEFINE a == Have(<< <<>> >>, <<>>)
           ls == [l \in Nat |-> a]
<1>1. << <<>> >> \in Seq(Seq(Nat)) /\ <<>> \in Seq(Nat)
  OBVIOUS
<1>2. a \in State
  BY <1>1, StateFacts
<1>3. code = <<>> /\ Now = a /\ DOMAIN blocks = {} /\ DOMAIN loops = {}
  BY DEF Init, Now
<1> HIDE DEF a
<1>4. ls \in [Nat -> State]
  BY <1>2
<1> HIDE DEF ls
<1>5. Runs(ls, a, code, Now)
  BY <1>2, <1>3, RunsNothing
<1>6. Flow(ls)
  BY <1>3, <1>4, <1>5 DEF Flow, a
<1> QED BY <1>6

(* Every statement leads on from where the code before it leads.           *)
LEMMA FlowNext ==
  ASSUME Forms = {}, Shape, Books, Compile, ~EndFunction, NEW ls, Flow(ls)
  PROVE  (\E mm : Flow(mm))'
<1>1. PICK mm : mm = NewLabels(ls, Now)
  OBVIOUS
<1>2. PICK nn : nn = NewLabels(ls, Outside(defers, Len(blocks)))
  OBVIOUS
<1>3. PICK rr : rr = RangedLabels(ls)
  OBVIOUS
<1>4. CASE Defer
  BY <1>4, DeferFlow
<1>5. CASE OpenIf
  BY <1>1, <1>5, OpenIfFlow
<1>6. CASE ElseIf
  BY <1>2, <1>6, ElseIfFlow
<1>7. CASE Else
  BY <1>2, <1>7, ElseFlow
<1>8. CASE CloseIf
  BY <1>8, CloseIfFlow
<1>9. CASE OpenWhile
  BY <1>1, <1>9, OpenWhileFlow
<1>10. CASE CloseWhile
  BY <1>10, CloseWhileFlow
<1>11. CASE OpenFor
  BY <1>1, <1>11, OpenForFlow
<1>12. CASE CloseFor
  BY <1>12, CloseForFlow
<1>13. CASE OpenRanged
  BY <1>1, <1>13, OpenRangedFlow
<1>14. CASE CloseRanged
  BY <1>3, <1>14, CloseRangedFlow
<1>15. CASE Break \/ Continue
  <2>1. PICK target \in {Last(loops).break, Last(loops).continue} : loops # <<>> /\ Exit(target)
    BY <1>15 DEF Break, Continue
  <2> QED BY <2>1, ExitFlow
<1>16. CASE Return
  BY <1>16, ReturnFlow
<1> QED BY <1>4, <1>5, <1>6, <1>7, <1>8, <1>9, <1>10, <1>11, <1>12, <1>13, <1>14, <1>15, <1>16
        DEF Compile

-----------------------------------------------------------------------------
(* The code that is linked.  Nothing but `return` is at R, and no label    *)
(* after it: what follows is never reached.                                *)
Sealed(c, R) ==
  /\ c \in Seq(Instruction) /\ OnceIn(c) /\ JumpsIn(c) \subseteq LabelsIn(c)
  /\ R \in DOMAIN c /\ c[R].op = "ret"
  /\ \A i \in DOMAIN c : c[i].op = "label" => i < R

(* From position i on the code does nothing, up to p.                      *)
Idle(c, i, p) == \A j \in i .. p - 1 : IsNoop(c[j])

(* A jump that was taken away led to p, and nothing is in between.         *)
Removed(c, w, R, i) ==
  /\ w[i].due = <<>> /\ Prefix(w[i].scopes, w[i + 1].scopes)
  /\ \E p \in i + 1 .. R - 1 : w[p] = w[i] /\ Idle(c, i + 1, p)

(* w[i] holds before instruction i.                                        *)
Traced(c, ls, w, R) ==
  /\ w \in [1 .. R -> State]
  /\ w[1] = Have(<< <<>> >>, <<>>) /\ w[R].due = <<>>
  /\ \A i \in 1 .. R - 1 : IF c[i].op = "nop" THEN Removed(c, w, R, i)
                           ELSE Rule(ls, w[i], c[i], w[i + 1])

(* Two sequences, element by element.                                      *)
LEMMA ConcatFacts ==
  ASSUME NEW s \in Seq(Instruction), NEW t \in Seq(Instruction)
  PROVE  /\ s \o t \in Seq(Instruction) /\ Len(s \o t) = Len(s) + Len(t)
         /\ Len(s) \in Nat /\ Len(t) \in Nat
         /\ \A i \in 1 .. Len(s) : (s \o t)[i] = s[i]
         /\ \A i \in 1 .. Len(t) : (s \o t)[Len(s) + i] = t[i]
OBVIOUS

(* The end of the function.                                                *)
LEMMA EndSealed ==
  ASSUME Shape, Books, EndFunction
  PROVE  /\ Sealed(code', Len(code) + 2)
         /\ code \in Seq(Instruction) /\ Len(code) \in Nat /\ code' \in Seq(Instruction)
         /\ \A i \in 1 .. Len(code) : code'[i] = code[i]
         /\ code'[Len(code) + 1] = Leave(0) /\ code'[Len(code) + 2] = Ret
         /\ \A i \in DOMAIN code' : code'[i].op = "label" => i \in 1 .. Len(code)
<1> DEFINE L == Len(code)
           t == <<Leave(0), Ret>>
           e == EmitCurrent
<1>1. Resolved' /\ code' = code \o (t \o e)
  BY EndInv DEF EndFunction, Emit
<1>2. code \in Seq(Instruction) /\ L \in Nat
  BY DEF Books
<1>3. e \in Seq(Instruction) /\ LabelsIn(e) = {}
  <2>1. Depth - 1 \in Nat /\ Depth - 1 <= Depth /\ defers \in Seq(Seq(Nat))
    BY ShapeFacts
  <2> QED BY <2>1, EmittedDefers DEF EmitCurrent
<1>4. /\ t \in Seq(Instruction) /\ Len(t) = 2 /\ t[1] = Leave(0) /\ t[2] = Ret
  <2>1. Leave(0) \in Instruction /\ Ret \in Instruction
    BY Instructions
  <2> QED BY <2>1
<1> HIDE DEF t, e
<1>5. PICK u : u = t \o e
  OBVIOUS
<1>6. /\ u \in Seq(Instruction) /\ Len(u) = 2 + Len(e) /\ Len(e) \in Nat
      /\ u[1] = t[1] /\ u[2] = t[2]
      /\ \A i \in 1 .. Len(e) : u[2 + i] = e[i]
  <2>1. /\ t \o e \in Seq(Instruction) /\ Len(t \o e) = 2 + Len(e) /\ Len(e) \in Nat
        /\ \A i \in 1 .. 2 : (t \o e)[i] = t[i]
        /\ \A i \in 1 .. Len(e) : (t \o e)[2 + i] = e[i]
    <3>1. t \in Seq(Instruction) /\ e \in Seq(Instruction)
      BY <1>3, <1>4
    <3> QED BY <1>4, <3>1, ConcatFacts
  <2>2. 1 \in 1 .. 2 /\ 2 \in 1 .. 2
    OBVIOUS
  <2> QED BY <1>5, <2>1, <2>2
<1>7. PICK c : c = code'
  OBVIOUS
<1>8. /\ c \in Seq(Instruction) /\ Len(c) = L + Len(u) /\ Len(u) \in Nat
      /\ \A i \in 1 .. L : c[i] = code[i]
      /\ \A i \in 1 .. Len(u) : c[L + i] = u[i]
  <2>1. c = code \o u
    BY <1>1, <1>5, <1>7
  <2>2. /\ code \o u \in Seq(Instruction) /\ Len(code \o u) = L + Len(u) /\ Len(u) \in Nat
        /\ \A i \in 1 .. L : (code \o u)[i] = code[i]
        /\ \A i \in 1 .. Len(u) : (code \o u)[L + i] = u[i]
    <3>1. code \in Seq(Instruction) /\ u \in Seq(Instruction) /\ L = Len(code)
      BY <1>2, <1>6
    <3> QED BY <3>1, ConcatFacts
  <2> QED BY <2>1, <2>2
<1> HIDE DEF L
<1>9. /\ \A i \in DOMAIN c : i \in 1 .. L + Len(u)
      /\ L + 1 \in DOMAIN c /\ L + 2 \in DOMAIN c
      /\ c[L + 1] = Leave(0) /\ c[L + 2] = Ret
  <2>1. DOMAIN c = 1 .. L + Len(u)
    BY <1>8
  <2>2. 1 \in 1 .. Len(u) /\ 2 \in 1 .. Len(u)
    BY <1>6
  <2>3. L + 1 \in 1 .. L + Len(u) /\ L + 2 \in 1 .. L + Len(u)
    BY <1>2, <2>2
  <2> QED BY <1>4, <1>6, <1>8, <2>1, <2>2, <2>3
<1>10. ASSUME NEW i \in DOMAIN c, c[i].op = "label" PROVE i \in 1 .. L
  <2> SUFFICES ASSUME i \notin 1 .. L PROVE FALSE
    OBVIOUS
  <2>1. Leave(0).op = "leave" /\ Ret.op = "ret" /\ 0 \in Nat
    BY Instructions
  <2>2. CASE i \in L + 1 .. L + 2
    <3>1. i = L + 1 \/ i = L + 2
      BY <1>2, <2>2
    <3> QED BY <1>9, <1>10, <2>1, <3>1
  <2>3. CASE i \notin L + 1 .. L + 2
    <3>1. PICK j : j = i - (L + 2)
      OBVIOUS
    <3>2. j \in 1 .. Len(e) /\ 2 + j \in 1 .. Len(u) /\ i = L + (2 + j)
      <4>1. i \in 1 .. L + (2 + Len(e))
        BY <1>6, <1>9
      <4>2. \A x, y, z \in Nat : x \in 1 .. y + (2 + z) /\ x \notin 1 .. y /\ x \notin y + 1 .. y + 2
              => x - (y + 2) \in 1 .. z /\ x = y + (2 + (x - (y + 2)))
                 /\ 2 + (x - (y + 2)) \in 1 .. 2 + z
        OBVIOUS
      <4>3. i \in Nat /\ Len(e) \in Nat /\ L \in Nat
        BY <1>2, <1>6, <4>1
      <4> QED BY <1>6, <2>3, <3>1, <4>1, <4>2, <4>3
    <3>3. c[i] = e[j]
      BY <1>6, <1>8, <3>2
    <3>4. j \in DOMAIN e
      BY <1>3, <3>2
    <3>5. e[j].to \in LabelsIn(e)
      BY <1>10, <3>3, <3>4 DEF LabelsIn
    <3> QED BY <1>3, <3>5
  <2> QED BY <2>2, <2>3
<1>11. \A i \in 1 .. L : i < L + 2
  BY <1>2
<1>12. Sealed(c, L + 2)
  <2>1. OnceIn(c) /\ JumpsIn(c) \subseteq LabelsIn(c)
    BY <1>1, <1>7 DEF Resolved
  <2> QED BY <1>8, <1>9, <1>10, <1>11, <2>1, Instructions DEF Sealed
<1> QED BY <1>2, <1>7, <1>8, <1>9, <1>10, <1>12 DEF L

(* What holds in a piece of code holds in its beginning.                   *)
LEMMA TracedBy ==
  ASSUME NEW c, NEW ls, NEW v \in Seq(State), NEW R \in 1 .. Len(v),
         v[1] = Have(<< <<>> >>, <<>>), v[R].due = <<>>,
         \A i \in 1 .. R - 1 : Rule(ls, v[i], c[i], v[i + 1])
  PROVE  \E w : Traced(c, ls, w, R)
<1> DEFINE w == [i \in 1 .. R |-> v[i]]
<1>1. R \in Nat /\ 1 \in 1 .. R /\ R \in 1 .. R /\ \A i \in 1 .. R : v[i] \in State
  OBVIOUS
<1>2. \A i \in 1 .. R - 1 : i \in 1 .. R /\ i + 1 \in 1 .. R
  BY <1>1
<1>3. w \in [1 .. R -> State] /\ \A i \in 1 .. R : w[i] = v[i]
  BY <1>1
<1> HIDE DEF w
<1>4. ASSUME NEW i \in 1 .. R - 1
      PROVE  Rule(ls, w[i], c[i], w[i + 1]) /\ c[i].op # "nop"
  <2>1. w[i] = v[i] /\ w[i + 1] = v[i + 1]
    BY <1>2, <1>3
  <2>2. Rule(ls, w[i], c[i], w[i + 1])
    BY <2>1
  <2> QED BY <2>2 DEF Rule
<1>5. Traced(c, ls, w, R)
  BY <1>1, <1>3, <1>4 DEF Traced
<1> QED BY <1>5

(* So the function can be traced to where it returns: at its end, if it    *)
(* has deferred nothing, or where its last statement does.                 *)
LEMMA EndTraced ==
  ASSUME Forms = {}, Shape, Books, EndFunction, NEW ls, Flow(ls)
  PROVE  \E R, w : Sealed(code', R) /\ Traced(code', ls, w, R)
<1> DEFINE a == Have(<< <<>> >>, <<>>)
<1>1. PICK L : L = Len(code)
  OBVIOUS
<1>2. PICK c : c = code'
  OBVIOUS
<1>3. /\ Sealed(c, L + 2) /\ code \in Seq(Instruction) /\ L \in Nat /\ c \in Seq(Instruction)
      /\ \A i \in 1 .. L : c[i] = code[i]
      /\ c[L + 1] = Leave(0) /\ c[L + 2] = Ret
      /\ \A i \in DOMAIN c : c[i].op = "label" => i \in 1 .. L
  BY <1>1, <1>2, EndSealed
<1>4. Runs(ls, a, code, Now) /\ a \in State
  <2>1. << <<>> >> \in Seq(Seq(Nat)) /\ <<>> \in Seq(Nat)
    OBVIOUS
  <2> QED BY <2>1, StateFacts DEF Flow
<1> HIDE DEF a
<1>5. CASE defers = << <<>> >>
  <2> DEFINE b == Have(SubSeq(defers, 1, 0), Unwind(defers, 0))
  <2>1. defers \in Seq(Seq(Nat)) /\ Len(defers) = 1 /\ 0 \in Nat /\ 0 < Len(defers) /\ defers[1] = <<>>
    BY <1>5, ShapeFacts
  <2>2. Runs(ls, a, Append(code, Leave(0)), b)
    <3>1. Runs(ls, Now, <<Leave(0)>>, b)
      BY <2>1, RunsLeave DEF Now
    <3> HIDE DEF b
    <3> QED BY <1>4, <3>1, RunsMore
  <2>3. b.due = <<>>
    <3>1. AllEmpty(defers, 0 + 1)
      BY <2>1 DEF AllEmpty
    <3>2. Unwind(defers, 0) = <<>>
      <4>1. 0 <= Len(defers)
        BY <2>1
      <4> QED BY <2>1, <3>1, <4>1, UnwindEmpty
    <3> QED BY <3>2 DEF Have
  <2> HIDE DEF b
  <2>4. PICK s : s = Append(code, Leave(0))
    OBVIOUS
  <2>5. /\ Len(s) = L + 1 /\ \A i \in 1 .. L + 1 : s[i] = c[i]
    <3>1. Leave(0) \in Instruction
      BY Instructions
    <3>2. /\ Len(s) = L + 1 /\ s[L + 1] = Leave(0) /\ \A i \in 1 .. L : s[i] = code[i]
      BY <1>1, <1>3, <2>4, <3>1
    <3>3. \A i \in 1 .. L + 1 : i \in 1 .. L \/ i = L + 1
      BY <1>3
    <3> QED BY <1>3, <3>2, <3>3
  <2>6. PICK v : Trace(ls, v, a, s, b)
    BY <2>2, <2>4 DEF Runs
  <2>7. /\ v \in Seq(State) /\ Len(v) = (L + 1) + 1 /\ v[1] = a /\ v[(L + 1) + 1] = b
        /\ \A i \in 1 .. L + 1 : Rule(ls, v[i], s[i], v[i + 1])
    BY <2>5, <2>6 DEF Trace
  <2>8. (L + 1) + 1 = L + 2 /\ L + 2 \in 1 .. L + 2 /\ (L + 2) - 1 = L + 1
    BY <1>3
  <2>9. \A i \in 1 .. (L + 2) - 1 : Rule(ls, v[i], c[i], v[i + 1])
    BY <2>5, <2>7, <2>8
  <2>10. PICK R : R = L + 2
    OBVIOUS
  <2>11. R \in 1 .. Len(v) /\ v[R].due = <<>>
    BY <2>3, <2>7, <2>8, <2>10
  <2>12. \E w : Traced(c, ls, w, R)
    BY <2>7, <2>9, <2>10, <2>11, TracedBy DEF a
  <2> QED BY <1>2, <1>3, <2>10, <2>12
<1>6. CASE defers # << <<>> >>
  <2>1. PICK v : Trace(ls, v, a, code, Now)
    BY <1>4 DEF Runs
  <2>2. /\ v \in Seq(State) /\ Len(v) = L + 1 /\ v[1] = a /\ v[L + 1] = Now
        /\ \A i \in 1 .. L : Rule(ls, v[i], code[i], v[i + 1])
    BY <1>1, <2>1 DEF Trace
  <2>3. L # 0
    <3> SUFFICES ASSUME L = 0 PROVE FALSE
      OBVIOUS
    <3>1. Now = a
      BY <2>2
    <3>2. Now.scopes = a.scopes
      BY <3>1
    <3> QED BY <1>6, <3>2 DEF Now, Have, a
  <2>4. code[L] = Ret /\ Ret.op = "ret"
    BY <1>1, <1>6, Instructions DEF EndFunction, Last
  <2>5. L \in 1 .. L /\ L \in 1 .. Len(v) /\ \A i \in 1 .. L - 1 : i \in 1 .. L
    BY <1>3, <2>2, <2>3
  <2>6. v[L].due = <<>>
    <3>1. Rule(ls, v[L], code[L], v[L + 1])
      BY <2>2, <2>5
    <3> QED BY <2>4, <3>1 DEF Rule
  <2>7. \A i \in 1 .. L - 1 : Rule(ls, v[i], c[i], v[i + 1])
    BY <1>3, <2>2, <2>5
  <2>8. \E w : Traced(c, ls, w, L)
    BY <2>2, <2>5, <2>6, <2>7, TracedBy DEF a
  <2>9. Sealed(c, L)
    <3>1. c[L] = Ret /\ L \in DOMAIN c
      <4>1. L + 2 \in DOMAIN c /\ DOMAIN c = 1 .. Len(c) /\ Len(c) \in Nat
        BY <1>3 DEF Sealed
      <4>2. L \in 1 .. Len(c)
        BY <1>3, <2>5, <4>1
      <4> QED BY <1>3, <2>4, <2>5, <4>1, <4>2
    <3>2. ASSUME NEW i \in DOMAIN c, c[i].op = "label" PROVE i < L
      <4>1. i \in 1 .. L /\ i # L
        BY <1>3, <2>4, <3>1, <3>2
      <4> QED BY <1>3, <4>1
    <3> QED BY <1>3, <2>4, <3>1, <3>2 DEF Sealed
  <2> QED BY <1>2, <2>8, <2>9
<1> QED BY <1>5, <1>6

-----------------------------------------------------------------------------
(* Where a label is: Position chooses it.                                  *)
LEMMA PositionFacts ==
  ASSUME NEW R, Sealed(code, R), NEW i \in DOMAIN code, IsJump(code[i])
  PROVE  /\ Position(code[i].to) \in DOMAIN code
         /\ code[Position(code[i].to)] = Label(code[i].to)
         /\ Position(code[i].to) \in 1 .. R - 1
         /\ code[i].to \in Nat
<1> DEFINE p == Position(code[i].to)
<1>1. code[i].to \in LabelsIn(code) /\ code \in Seq(Instruction) /\ code[i].to \in JumpsIn(code)
  BY DEF Sealed, JumpsIn
<1>2. PICK j \in DOMAIN code : code[j].op = "label" /\ code[j].to = code[i].to
  BY <1>1 DEF LabelsIn
<1>3. code[j] = Label(code[i].to)
  BY <1>1, <1>2, OnlyLabels
<1>4. p \in DOMAIN code /\ code[p] = Label(code[i].to)
  BY <1>3 DEF Position
<1> HIDE DEF p
<1>5. code[p].op = "label"
  BY <1>4 DEF Label
<1>6. p < R /\ R \in DOMAIN code
  BY <1>4, <1>5 DEF Sealed
<1>7. p \in 1 .. R - 1
  <2>1. DOMAIN code = 1 .. Len(code) /\ Len(code) \in Nat
    BY <1>1
  <2> QED BY <1>4, <1>6, <2>1
<1>8. code[i].to \in Nat
  <2>1. \A ins \in Instruction : IsJump(ins) => ins.to \in Nat
    BY DEF Instruction, IsJump, Label, Jump, Branch, Deferred, Register, Open, Leave,
           Iterate, Ret, Nop
  <2> QED BY <1>1, <2>1
<1> QED BY <1>4, <1>7, <1>8 DEF p

(* The peephole pass keeps both.                                           *)
LEMMA PeepholeSealed ==
  ASSUME NEW R, Sealed(code, R), Peephole
  PROVE  /\ Sealed(code', R) /\ DOMAIN code' = DOMAIN code
         /\ \A i \in DOMAIN code : code'[i] = IF FallsThrough(i) THEN Nop ELSE code[i]
<1>1. Resolved /\ Resolved'
  BY PeepholeInv DEF Resolved, Sealed
<1>2. /\ DOMAIN code' = DOMAIN code
      /\ \A i \in DOMAIN code : code'[i] = IF FallsThrough(i) THEN Nop ELSE code[i]
  BY DEF Peephole
<1>3. \A i \in DOMAIN code : FallsThrough(i) => code[i].op = "jump"
  BY DEF FallsThrough
<1>4. Nop.op = "nop"
  BY DEF Nop
<1>5. R \in DOMAIN code' /\ code'[R].op = "ret"
  BY <1>2, <1>3 DEF Sealed
<1>6. \A i \in DOMAIN code' : code'[i].op = "label" => i < R
  BY <1>2, <1>3, <1>4 DEF Sealed
<1> QED BY <1>1, <1>2, <1>5, <1>6 DEF Sealed, Resolved

LEMMA PeepholeTraced ==
  ASSUME NEW R, NEW ls, NEW w, Sealed(code, R), Traced(code, ls, w, R), Peephole
  PROVE  Traced(code', ls, w, R)
<1>1. PICK c : c = code'
  OBVIOUS
<1>2. /\ DOMAIN c = DOMAIN code
      /\ \A i \in DOMAIN code : c[i] = IF FallsThrough(i) THEN Nop ELSE code[i]
  BY <1>1, PeepholeSealed
<1>3. /\ code \in Seq(Instruction) /\ DOMAIN code = 1 .. Len(code) /\ Len(code) \in Nat
      /\ R \in Nat /\ \A i \in 1 .. R : i \in DOMAIN code
  <2>1. code \in Seq(Instruction) /\ R \in DOMAIN code
    BY DEF Sealed
  <2> QED BY <2>1
<1>4. \A i \in DOMAIN code : IsNoop(code[i]) => IsNoop(c[i])
  BY <1>2 DEF IsNoop, Nop
<1>5. \A i \in 1 .. R - 1 : i \in 1 .. R /\ \A p \in i + 1 .. R - 1 : \A j \in i + 1 .. p - 1 : j \in 1 .. R
  BY <1>3
<1>6. ASSUME NEW i \in 1 .. R - 1
      PROVE  IF c[i].op = "nop" THEN Removed(c, w, R, i) ELSE Rule(ls, w[i], c[i], w[i + 1])
  <2>1. i \in DOMAIN code
    BY <1>3, <1>5
  <2>2. CASE code[i].op = "nop"
    <3>1. Removed(code, w, R, i)
      BY <2>2 DEF Traced
    <3>2. Removed(c, w, R, i)
      BY <1>3, <1>4, <1>5, <3>1 DEF Removed, Idle
    <3>3. c[i].op = "nop"
      BY <1>2, <2>1, <2>2 DEF FallsThrough
    <3> QED BY <3>2, <3>3
  <2>3. CASE code[i].op # "nop" /\ ~FallsThrough(i)
    BY <1>2, <2>1, <2>3 DEF Traced
  <2>4. CASE code[i].op # "nop" /\ FallsThrough(i)
    <3> DEFINE p == Position(code[i].to)
    <3>1. code[i].op = "jump" /\ i <= p /\ \A j \in i + 1 .. p - 1 : IsNoop(code[j])
      BY <2>4 DEF FallsThrough
    <3>2. p \in 1 .. R - 1 /\ code[p] = Label(code[i].to)
      BY <2>1, <3>1, PositionFacts DEF IsJump
    <3> HIDE DEF p
    <3>3. code[p].op = "label" /\ code[p].to = code[i].to
      BY <3>2 DEF Label
    <3>4. p \in i + 1 .. R - 1
      <4>1. p # i
        BY <3>1, <3>3
      <4> QED BY <1>3, <3>1, <3>2, <4>1
    <3>5. Rule(ls, w[i], code[i], w[i + 1]) /\ Rule(ls, w[p], code[p], w[p + 1])
      BY <2>4, <3>2, <3>3 DEF Traced
    <3>6. /\ w[i].due = <<>> /\ Prefix(w[i].scopes, w[i + 1].scopes) /\ w[p] = w[i]
      BY <3>1, <3>3, <3>5 DEF Rule
    <3>7. \A j \in i + 1 .. p - 1 : IsNoop(c[j])
      BY <1>3, <1>4, <1>5, <3>1, <3>4
    <3>8. c[i].op = "nop"
      BY <1>2, <2>1, <2>4 DEF Nop
    <3> QED BY <3>4, <3>6, <3>7, <3>8 DEF Removed, Idle
  <2> QED BY <2>2, <2>3, <2>4
<1> QED BY <1>1, <1>6 DEF Traced

-----------------------------------------------------------------------------
(* One is the beginning of another: element by element.                    *)
LEMMA PrefixIs ==
  ASSUME NEW s \in Seq(Seq(Nat)), NEW t \in Seq(Seq(Nat))
  PROVE  Prefix(s, t) <=> Len(s) <= Len(t) /\ \A i \in 1 .. Len(s) : s[i] = t[i]
<1>1. CASE Len(s) <= Len(t)
  <2> DEFINE u == SubSeq(t, 1, Len(s))
  <2>1. u \in Seq(Seq(Nat)) /\ Len(u) = Len(s) /\ \A i \in 1 .. Len(s) : u[i] = t[i]
    BY <1>1
  <2> HIDE DEF u
  <2>2. s = u <=> \A i \in 1 .. Len(s) : s[i] = u[i]
    BY <2>1, SeqEqual
  <2> QED BY <1>1, <2>1, <2>2 DEF Prefix, u
<1> QED BY <1>1 DEF Prefix

(* What the machine holds is what is traced, or, where a jump was taken    *)
(* away, what is traced where it led to, with nothing in between.          *)
Accepts(c, w, R, i, a) ==
  \/ a = w[i]
  \/ /\ a.due = <<>> /\ Prefix(a.scopes, w[i].scopes)
     /\ \E p \in i .. R - 1 : w[p] = a /\ Idle(c, i, p)

(* Something is due, or will be when the scopes above depth n are left.    *)
Stuck(n, a) ==
  \/ a.due # <<>>
  \/ \E m \in n + 1 .. Len(a.scopes) : a.scopes[m] # <<>>

(* The operands.                                                           *)
LEMMA Operands ==
  \A ins \in Instruction :
    /\ ins.op \in {"open", "leave"} => ins.depth \in Nat
    /\ ins.op \in {"register", "deferred"} => ins.stmt \in Nat
    /\ ins.op \in {"label", "jump", "branch", "deferred", "register", "open", "leave",
                   "iterate", "ret", "nop"}
BY DEF Instruction, Label, Jump, Branch, Deferred, Register, Open, Leave, Iterate, Ret, Nop

(* Instructions that do nothing execute no deferred statement.             *)
LEMMA StuckStep ==
  ASSUME NEW c, NEW ls, NEW w, NEW R \in Nat, Traced(c, ls, w, R), NEW i \in 1 .. R - 1,
         c[i] \in Instruction, IsNoop(c[i]), NEW n \in Nat, Stuck(n, w[i])
  PROVE  Stuck(n, w[i + 1])
<1> DEFINE a == w[i]
           b == w[i + 1]
<1>1. a \in State /\ b \in State
  <2>1. i \in 1 .. R /\ i + 1 \in 1 .. R /\ w \in [1 .. R -> State]
    BY DEF Traced
  <2> QED BY <2>1
<1>2. IF c[i].op = "nop" THEN Removed(c, w, R, i) ELSE Rule(ls, a, c[i], b)
  BY DEF Traced
<1>3. /\ a.scopes \in Seq(Seq(Nat)) /\ b.scopes \in Seq(Seq(Nat))
      /\ Len(a.scopes) \in Nat /\ Len(b.scopes) \in Nat
  BY <1>1, StateFacts
<1>4. CASE c[i].op = "label"
  BY <1>2, <1>4 DEF Rule
<1>5. ASSUME c[i].op # "label"
      PROVE  /\ a.due = <<>>
             /\ \E m \in n + 1 .. Len(a.scopes) : a.scopes[m] # <<>>
  <2>1. c[i].op \in {"nop", "register", "open", "leave"}
    BY <1>5 DEF IsNoop, IsMark
  <2>2. a.due = <<>>
    BY <1>2, <2>1 DEF Rule, Removed
  <2> QED BY <2>2 DEF Stuck
<1>6. CASE c[i].op = "nop"
  <2>1. Prefix(a.scopes, b.scopes)
    BY <1>2, <1>6 DEF Removed
  <2>2. PICK m \in n + 1 .. Len(a.scopes) : a.scopes[m] # <<>>
    BY <1>5, <1>6
  <2> HIDE DEF a, b
  <2>3. m \in 1 .. Len(a.scopes) /\ m \in n + 1 .. Len(b.scopes) /\ b.scopes[m] = a.scopes[m]
    <3>1. Len(a.scopes) <= Len(b.scopes) /\ \A j \in 1 .. Len(a.scopes) : a.scopes[j] = b.scopes[j]
      BY <1>3, <2>1, PrefixIs
    <3>2. m \in 1 .. Len(a.scopes) /\ m \in n + 1 .. Len(b.scopes)
      BY <1>3, <3>1
    <3> QED BY <3>1, <3>2
  <2>4. Stuck(n, b)
    BY <2>2, <2>3 DEF Stuck
  <2> QED BY <2>4 DEF b
<1>7. CASE c[i].op = "register"
  <2>1. /\ a.scopes # <<>>
        /\ b = Have([a.scopes EXCEPT ![Len(a.scopes)] = Append(@, c[i].stmt)], <<>>)
    BY <1>2, <1>7 DEF Rule
  <2>2. b.scopes = [a.scopes EXCEPT ![Len(a.scopes)] = Append(@, c[i].stmt)]
    BY <2>1 DEF Have
  <2>3. PICK m \in n + 1 .. Len(a.scopes) : a.scopes[m] # <<>>
    BY <1>5, <1>7
  <2> HIDE DEF a, b
  <2>4. /\ DOMAIN b.scopes = DOMAIN a.scopes /\ Len(b.scopes) = Len(a.scopes)
        /\ m \in DOMAIN a.scopes
    <3>1. DOMAIN a.scopes = 1 .. Len(a.scopes) /\ DOMAIN b.scopes = 1 .. Len(b.scopes)
      BY <1>3
    <3>2. DOMAIN b.scopes = DOMAIN a.scopes
      BY <2>2
    <3> QED BY <1>3, <3>1, <3>2
  <2>5. b.scopes[m] # <<>>
    <3>1. CASE m # Len(a.scopes)
      BY <2>2, <2>3, <2>4, <3>1
    <3>2. CASE m = Len(a.scopes)
      <4>1. b.scopes[m] = Append(a.scopes[m], c[i].stmt) /\ a.scopes[m] \in Seq(Nat)
        BY <1>3, <2>2, <2>4, <3>2
      <4>2. \A s \in Seq(Nat) : \A e : Append(s, e) # <<>>
        OBVIOUS
      <4> QED BY <4>1, <4>2
    <3> QED BY <3>1, <3>2
  <2>6. Stuck(n, b)
    BY <2>3, <2>4, <2>5 DEF Stuck
  <2> QED BY <2>6 DEF b
<1>8. CASE c[i].op = "open"
  <2>1. b = Have(Append(a.scopes, <<>>), <<>>)
    BY <1>2, <1>8 DEF Rule
  <2>2. b.scopes = Append(a.scopes, <<>>)
    BY <2>1 DEF Have
  <2>3. PICK m \in n + 1 .. Len(a.scopes) : a.scopes[m] # <<>>
    BY <1>5, <1>8
  <2> HIDE DEF a, b
  <2>4. m \in n + 1 .. Len(b.scopes) /\ b.scopes[m] = a.scopes[m]
    <3>1. Len(b.scopes) = Len(a.scopes) + 1 /\ \A j \in 1 .. Len(a.scopes) : b.scopes[j] = a.scopes[j]
      BY <1>3, <2>2
    <3>2. m \in 1 .. Len(a.scopes) /\ m \in n + 1 .. Len(a.scopes) + 1
      BY <1>3
    <3> QED BY <3>1, <3>2
  <2>5. Stuck(n, b)
    BY <2>3, <2>4 DEF Stuck
  <2> QED BY <2>5 DEF b
<1>9. CASE c[i].op = "leave"
  <2> DEFINE d == c[i].depth
  <2>1. d < Len(a.scopes) /\ b = Have(SubSeq(a.scopes, 1, d), Unwind(a.scopes, d))
    BY <1>2, <1>9 DEF Rule
  <2>2. b.scopes = SubSeq(a.scopes, 1, d) /\ b.due = Unwind(a.scopes, d)
    <3>1. \A x, y : Have(x, y).scopes = x /\ Have(x, y).due = y
      BY DEF Have
    <3> HIDE DEF a, b, d
    <3> QED BY <2>1, <3>1
  <2>3. PICK m \in n + 1 .. Len(a.scopes) : a.scopes[m] # <<>>
    BY <1>5, <1>9
  <2>4. d \in Nat
    BY <1>9, Operands
  <2> HIDE DEF a, b, d
  <2>5. CASE m <= d
    <3>1. Len(b.scopes) = d /\ \A j \in 1 .. d : b.scopes[j] = a.scopes[j]
      <4>1. PICK s : s = a.scopes
        OBVIOUS
      <4>2. s \in Seq(Seq(Nat)) /\ d \in Nat /\ d < Len(s)
        BY <1>3, <2>1, <2>4, <4>1
      <4>3. Len(SubSeq(s, 1, d)) = d /\ \A j \in 1 .. d : SubSeq(s, 1, d)[j] = s[j]
        BY <4>2
      <4> QED BY <2>2, <4>1, <4>3
    <3>2. m \in n + 1 .. d /\ m \in 1 .. d
      BY <1>3, <2>4, <2>5
    <3>3. Stuck(n, b)
      BY <2>3, <3>1, <3>2 DEF Stuck
    <3> QED BY <3>3 DEF b
  <2>6. CASE ~(m <= d)
    <3>1. m \in d + 1 .. Len(a.scopes)
      BY <1>3, <2>4, <2>6
    <3>2. ~AllEmpty(a.scopes, d + 1)
      BY <2>3, <3>1 DEF AllEmpty
    <3>3. d <= Len(a.scopes)
      BY <1>3, <2>1, <2>4
    <3>4. Unwind(a.scopes, d) # <<>>
      BY <1>3, <2>4, <3>2, <3>3, UnwindEmpty
    <3>5. Stuck(n, b)
      BY <2>2, <3>4 DEF Stuck
    <3> QED BY <3>5 DEF b
  <2> QED BY <2>5, <2>6
<1> QED BY <1>4, <1>6, <1>7, <1>8, <1>9 DEF IsNoop, IsMark

(* So nothing can be stuck where a jump that was taken away leads over.    *)
LEMMA NotStuck ==
  ASSUME NEW c, NEW ls, NEW w, NEW R, Sealed(c, R), Traced(c, ls, w, R),
         NEW i \in 1 .. R - 1, NEW p \in i .. R - 1, Idle(c, i, p), w[p].due = <<>>
  PROVE  ~Stuck(Len(w[p].scopes), w[i])
<1> SUFFICES ASSUME Stuck(Len(w[p].scopes), w[i]) PROVE FALSE
  OBVIOUS
<1>1. R \in Nat /\ \A k \in 1 .. R : c[k] \in Instruction
  <2>1. c \in Seq(Instruction) /\ R \in DOMAIN c
    BY DEF Sealed
  <2> QED BY <2>1
<1>2. w[p] \in State
  <2>1. p \in 1 .. R
    BY <1>1
  <2> QED BY <2>1 DEF Traced
<1>3. PICK n \in Nat : n = Len(w[p].scopes)
  <2>1. w[p].scopes \in Seq(Seq(Nat))
    BY <1>2, StateFacts
  <2>2. \A s \in Seq(Seq(Nat)) : Len(s) \in Nat
    OBVIOUS
  <2> QED BY <2>1, <2>2
<1> DEFINE good == {k \in 0 .. p - i : Stuck(n, w[i + k])}
<1>4. p - i \in Nat /\ i \in Nat /\ p \in Nat
  BY <1>1
<1>5. 0 \in good
  <2>1. 0 \in 0 .. p - i /\ i + 0 = i
    BY <1>4
  <2> QED BY <1>3, <2>1
<1>6. ASSUME NEW k \in 1 .. p - i, k - 1 \in good PROVE k \in good
  <2>1. PICK j : j = i + (k - 1)
    OBVIOUS
  <2>2. /\ j \in 1 .. R - 1 /\ j \in 1 .. R /\ j \in i .. p - 1 /\ j + 1 = i + k /\ k \in 0 .. p - i
    BY <1>1, <1>4, <2>1
  <2>3. Stuck(n, w[j]) /\ IsNoop(c[j]) /\ c[j] \in Instruction
    BY <1>1, <1>6, <2>1, <2>2 DEF Idle
  <2>4. Stuck(n, w[j + 1])
    BY <1>1, <2>2, <2>3, StuckStep
  <2> QED BY <2>2, <2>4
<1> HIDE DEF good
<1>7. p - i \in good
  <2>1. PICK q : q = p - i
    OBVIOUS
  <2>2. q \in Nat /\ q \in 0 .. q /\ \A k \in 1 .. q : k - 1 \in good => k \in good
    BY <1>4, <1>6, <2>1
  <2>3. \A k \in 0 .. q : k \in good
    BY <1>5, <2>2, Upward
  <2> QED BY <2>1, <2>2, <2>3
<1>8. Stuck(n, w[p])
  <2>1. i + (p - i) = p
    BY <1>4
  <2> QED BY <1>7, <2>1 DEF good
<1>9. n + 1 .. n = {}
  OBVIOUS
<1> QED BY <1>3, <1>8, <1>9 DEF Stuck

(* The common facts about what is accepted.                                *)
LEMMA AcceptsFacts ==
  ASSUME NEW c, NEW ls, NEW w, NEW R, Sealed(c, R), Traced(c, ls, w, R),
         NEW i \in 1 .. R, NEW a, Accepts(c, w, R, i, a)
  PROVE  /\ R \in Nat /\ c[i] \in Instruction /\ i \in DOMAIN c
         /\ a \in State /\ w[i] \in State
         /\ i # R => i \in 1 .. R - 1 /\ w[i + 1] \in State /\ i + 1 \in 1 .. R
<1>1. c \in Seq(Instruction) /\ R \in DOMAIN c
  BY DEF Sealed
<1>2. R \in Nat /\ c[i] \in Instruction /\ i \in DOMAIN c
  BY <1>1
<1>3. w[i] \in State /\ \A p \in i .. R - 1 : w[p] \in State
  <2>1. \A p \in i .. R - 1 : p \in 1 .. R
    BY <1>2
  <2> QED BY <2>1 DEF Traced
<1>4. a \in State
  BY <1>3 DEF Accepts
<1>5. i # R => i \in 1 .. R - 1 /\ w[i + 1] \in State /\ i + 1 \in 1 .. R
  <2>1. i # R => i \in 1 .. R - 1 /\ i + 1 \in 1 .. R
    BY <1>2
  <2> QED BY <2>1 DEF Traced
<1> QED BY <1>2, <1>3, <1>4, <1>5

(* A label, or a jump that was taken away, changes nothing.                *)
LEMMA AcceptsOver ==
  ASSUME NEW c, NEW ls, NEW w, NEW R, Sealed(c, R), Traced(c, ls, w, R),
         NEW i \in 1 .. R - 1, ~Remains(c[i]), NEW a, Accepts(c, w, R, i, a)
  PROVE  Accepts(c, w, R, i + 1, a)
<1>1. /\ R \in Nat /\ i \in 1 .. R /\ i # R
  <2>1. R \in Nat
    BY DEF Sealed
  <2> QED BY <2>1
<1>2. a \in State /\ w[i] \in State /\ w[i + 1] \in State
  BY <1>1, AcceptsFacts
<1>3. /\ a.scopes \in Seq(Seq(Nat)) /\ w[i].scopes \in Seq(Seq(Nat))
      /\ w[i + 1].scopes \in Seq(Seq(Nat))
  BY <1>2, StateFacts
<1>4. c[i].op = "nop" \/ c[i].op = "label"
  BY DEF Remains
<1>5. CASE c[i].op = "label" /\ a = w[i]
  BY <1>5 DEF Traced, Rule, Accepts
<1>6. CASE c[i].op = "nop" /\ a = w[i]
  BY <1>6 DEF Traced, Removed, Accepts
<1>7. CASE a # w[i]
  <2>1. PICK p \in i .. R - 1 : w[p] = a /\ Idle(c, i, p)
    BY <1>7 DEF Accepts
  <2>2. a.due = <<>> /\ Prefix(a.scopes, w[i].scopes)
    BY <1>7 DEF Accepts
  <2>3. p \in i + 1 .. R - 1
    <3>1. p # i
      BY <1>7, <2>1
    <3> QED BY <1>1, <3>1
  <2>4. Idle(c, i + 1, p)
    <3>1. \A j \in i + 1 .. p - 1 : j \in i .. p - 1
      BY <1>1
    <3> QED BY <2>1, <3>1 DEF Idle
  <2>5. Prefix(a.scopes, w[i + 1].scopes)
    <3>1. CASE c[i].op = "label"
      BY <2>2, <3>1 DEF Traced, Rule
    <3>2. CASE c[i].op = "nop"
      <4>1. Prefix(w[i].scopes, w[i + 1].scopes)
        BY <3>2 DEF Traced, Removed
      <4>2. \A s, t, u \in Seq(Seq(Nat)) : Prefix(s, t) /\ Prefix(t, u) => Prefix(s, u)
        <5> SUFFICES ASSUME NEW s \in Seq(Seq(Nat)), NEW t \in Seq(Seq(Nat)),
                            NEW u \in Seq(Seq(Nat)), Prefix(s, t), Prefix(t, u)
                     PROVE  Prefix(s, u)
          OBVIOUS
        <5>1. Len(s) <= Len(t) /\ Len(t) <= Len(u)
              /\ (\A k \in 1 .. Len(s) : s[k] = t[k]) /\ \A k \in 1 .. Len(t) : t[k] = u[k]
          BY PrefixIs
        <5>2. \A k \in 1 .. Len(s) : k \in 1 .. Len(t)
          BY <5>1
        <5>3. Len(s) <= Len(u) /\ \A k \in 1 .. Len(s) : s[k] = u[k]
          BY <5>1, <5>2
        <5> QED BY <5>3, PrefixIs
      <4> QED BY <1>3, <2>2, <4>1, <4>2
    <3> QED BY <1>4, <3>1, <3>2
  <2> QED BY <2>1, <2>2, <2>3, <2>4, <2>5 DEF Accepts
<1> QED BY <1>4, <1>5, <1>6, <1>7

(* A real instruction, and the mark of a defer, are only met where what is *)
(* traced holds.                                                           *)
LEMMA Exactly ==
  ASSUME NEW c, NEW ls, NEW w, NEW R, Sealed(c, R), Traced(c, ls, w, R),
         NEW i \in 1 .. R - 1, NEW a, Accepts(c, w, R, i, a),
         ~IsNoop(c[i]) \/ c[i].op = "register"
  PROVE  a = w[i]
<1> SUFFICES ASSUME a # w[i] PROVE FALSE
  OBVIOUS
<1>1. /\ R \in Nat /\ i \in 1 .. R /\ i # R
  <2>1. R \in Nat
    BY DEF Sealed
  <2> QED BY <2>1
<1>2. a \in State /\ w[i] \in State /\ w[i + 1] \in State
  BY <1>1, AcceptsFacts
<1>3. PICK p \in i .. R - 1 : w[p] = a /\ Idle(c, i, p)
  BY DEF Accepts
<1>4. a.due = <<>> /\ Prefix(a.scopes, w[i].scopes)
  BY DEF Accepts
<1>5. p \in i + 1 .. R - 1 /\ i \in i .. p - 1 /\ p \in Nat
  <2>1. p # i
    BY <1>3
  <2> QED BY <1>1, <2>1
<1>6. IsNoop(c[i])
  BY <1>3, <1>5 DEF Idle
<1>7. c[i].op = "register"
  BY <1>6
<1>8. Rule(ls, w[i], c[i], w[i + 1])
  BY <1>7 DEF Traced
<1>9. /\ w[i].due = <<>> /\ w[i].scopes # <<>>
      /\ w[i + 1] = Have([w[i].scopes EXCEPT ![Len(w[i].scopes)] = Append(@, c[i].stmt)], <<>>)
  BY <1>7, <1>8 DEF Rule
<1>10. PICK s : s = a.scopes
  OBVIOUS
<1>11. PICK t : t = w[i].scopes
  OBVIOUS
<1>12. s \in Seq(Seq(Nat)) /\ t \in Seq(Seq(Nat)) /\ t # <<>>
  BY <1>2, <1>9, <1>10, <1>11, StateFacts
<1>13. Len(s) <= Len(t) /\ \A k \in 1 .. Len(s) : s[k] = t[k]
  BY <1>4, <1>10, <1>11, <1>12, PrefixIs
<1>14. Len(s) # Len(t)
  <2> SUFFICES ASSUME Len(s) = Len(t) PROVE FALSE
    OBVIOUS
  <2>1. s = t
    BY <1>12, <1>13, SeqEqual
  <2>2. a = Have(s, <<>>) /\ w[i] = Have(t, <<>>)
    <3>1. a = Have(a.scopes, a.due) /\ w[i] = Have(w[i].scopes, w[i].due)
      BY <1>2, StateFacts
    <3> QED BY <1>4, <1>9, <1>10, <1>11, <3>1
  <2> QED BY <2>1, <2>2
<1>15. Stuck(Len(s), w[i + 1])
  <2> DEFINE u == [t EXCEPT ![Len(t)] = Append(@, c[i].stmt)]
  <2>1. w[i + 1].scopes = u
    BY <1>9, <1>11 DEF Have
  <2>2. Len(t) \in DOMAIN t /\ Len(t) \in Nat /\ Len(s) \in Nat /\ t[Len(t)] \in Seq(Nat)
    BY <1>12
  <2>3. \A x \in Seq(Nat) : \A e : Append(x, e) # <<>>
    OBVIOUS
  <2>4. u[Len(t)] # <<>> /\ DOMAIN u = DOMAIN t
    BY <2>2, <2>3
  <2> HIDE DEF u
  <2>5. u \in Seq(Seq(Nat)) /\ Len(u) = Len(t)
    <3>1. u \in Seq(Seq(Nat))
      BY <1>2, <2>1, StateFacts
    <3> QED BY <1>12, <2>2, <2>4, <3>1
  <2>6. Len(t) \in Len(s) + 1 .. Len(u)
    BY <1>13, <1>14, <2>2, <2>5
  <2> QED BY <2>1, <2>4, <2>6 DEF Stuck
<1>16. /\ i + 1 \in 1 .. R - 1 /\ p \in (i + 1) .. R - 1
  BY <1>1, <1>5
<1>17. Idle(c, i + 1, p)
  <2>1. \A j \in i + 1 .. p - 1 : j \in i .. p - 1
    BY <1>1
  <2> QED BY <1>3, <2>1 DEF Idle
<1>18. PICK k : k = i + 1
  OBVIOUS
<1>19. ~Stuck(Len(w[p].scopes), w[k])
  BY <1>3, <1>4, <1>16, <1>17, <1>18, NotStuck
<1> QED BY <1>3, <1>10, <1>15, <1>18, <1>19

(* A body is entered.                                                      *)
LEMMA AcceptsOpen ==
  ASSUME NEW c, NEW ls, NEW w, NEW R, Sealed(c, R), Traced(c, ls, w, R),
         NEW i \in 1 .. R - 1, c[i].op = "open", NEW a, Accepts(c, w, R, i, a),
         NEW b, b = Have(IF Len(a.scopes) = c[i].depth - 1 THEN Append(a.scopes, <<>>)
                         ELSE a.scopes, a.due)
  PROVE  Accepts(c, w, R, i + 1, b)
<1>1. /\ R \in Nat /\ i \in 1 .. R /\ i # R
  <2>1. R \in Nat
    BY DEF Sealed
  <2> QED BY <2>1
<1>2. a \in State /\ w[i] \in State /\ w[i + 1] \in State
  BY <1>1, AcceptsFacts
<1>3. Rule(ls, w[i], c[i], w[i + 1])
  BY DEF Traced
<1>4. /\ w[i].due = <<>> /\ Len(w[i].scopes) = c[i].depth - 1
      /\ w[i + 1] = Have(Append(w[i].scopes, <<>>), <<>>)
  BY <1>3 DEF Rule
<1>5. CASE a = w[i]
  BY <1>4, <1>5 DEF Accepts
<1>6. CASE a # w[i]
  <2>1. PICK p \in i .. R - 1 : w[p] = a /\ Idle(c, i, p)
    BY <1>6 DEF Accepts
  <2>2. a.due = <<>> /\ Prefix(a.scopes, w[i].scopes)
    BY <1>6 DEF Accepts
  <2>3. p \in i + 1 .. R - 1
    <3>1. p # i
      BY <1>6, <2>1
    <3> QED BY <1>1, <3>1
  <2>4. Idle(c, i + 1, p)
    <3>1. \A j \in i + 1 .. p - 1 : j \in i .. p - 1
      BY <1>1
    <3> QED BY <2>1, <3>1 DEF Idle
  <2>5. PICK s : s = a.scopes
    OBVIOUS
  <2>6. PICK t : t = w[i].scopes
    OBVIOUS
  <2>7. s \in Seq(Seq(Nat)) /\ t \in Seq(Seq(Nat)) /\ <<>> \in Seq(Nat)
    BY <1>2, <2>5, <2>6, StateFacts
  <2>8. Len(s) <= Len(t) /\ \A k \in 1 .. Len(s) : s[k] = t[k]
    BY <2>2, <2>5, <2>6, <2>7, PrefixIs
  <2>9. Len(s) # Len(t)
    <3> SUFFICES ASSUME Len(s) = Len(t) PROVE FALSE
      OBVIOUS
    <3>1. s = t
      BY <2>7, <2>8, SeqEqual
    <3>2. a = Have(s, <<>>) /\ w[i] = Have(t, <<>>)
      <4>1. a = Have(a.scopes, a.due) /\ w[i] = Have(w[i].scopes, w[i].due)
        BY <1>2, StateFacts
      <4> QED BY <1>4, <2>2, <2>5, <2>6, <4>1
    <3> QED BY <1>6, <3>1, <3>2
  <2>10. b = a
    <3>1. Len(a.scopes) # c[i].depth - 1
      BY <1>4, <2>5, <2>6, <2>9
    <3>2. b = Have(a.scopes, a.due)
      BY <3>1
    <3> QED BY <1>2, <3>2, StateFacts
  <2>11. PICK u : u = Append(t, <<>>)
    OBVIOUS
  <2>12. /\ u \in Seq(Seq(Nat)) /\ Len(u) = Len(t) + 1
         /\ \A k \in 1 .. Len(t) : u[k] = t[k]
    BY <2>7, <2>11
  <2>13. Prefix(s, u)
    <3>1. Len(s) <= Len(u) /\ \A k \in 1 .. Len(s) : k \in 1 .. Len(t)
      BY <2>7, <2>8, <2>12
    <3>2. \A k \in 1 .. Len(s) : s[k] = u[k]
      BY <2>8, <2>12, <3>1
    <3> QED BY <2>7, <2>12, <3>1, <3>2, PrefixIs
  <2>14. w[i + 1].scopes = u
    BY <1>4, <2>6, <2>11 DEF Have
  <2> QED BY <2>1, <2>2, <2>3, <2>4, <2>5, <2>10, <2>13, <2>14 DEF Accepts
<1> QED BY <1>5, <1>6

(* Scopes are left.                                                        *)
LEMMA AcceptsLeave ==
  ASSUME NEW c, NEW ls, NEW w, NEW R, Sealed(c, R), Traced(c, ls, w, R),
         NEW i \in 1 .. R - 1, c[i].op = "leave", NEW a, Accepts(c, w, R, i, a),
         NEW b, b = Have(IF Len(a.scopes) > c[i].depth THEN SubSeq(a.scopes, 1, c[i].depth)
                         ELSE a.scopes, a.due \o Unwind(a.scopes, c[i].depth))
  PROVE  Accepts(c, w, R, i + 1, b)
<1>1. /\ R \in Nat /\ i \in 1 .. R /\ i # R
  <2>1. R \in Nat
    BY DEF Sealed
  <2> QED BY <2>1
<1>2. a \in State /\ w[i] \in State /\ w[i + 1] \in State /\ c[i] \in Instruction
  BY <1>1, AcceptsFacts
<1>3. Rule(ls, w[i], c[i], w[i + 1])
  BY DEF Traced
<1>4. PICK d : d = c[i].depth
  OBVIOUS
<1>5. PICK s : s = a.scopes
  OBVIOUS
<1>6. PICK t : t = w[i].scopes
  OBVIOUS
<1>7. /\ w[i].due = <<>> /\ d < Len(t)
      /\ w[i + 1] = Have(SubSeq(t, 1, d), Unwind(t, d))
  BY <1>3, <1>4, <1>6 DEF Rule
<1>8. d \in Nat /\ s \in Seq(Seq(Nat)) /\ t \in Seq(Seq(Nat)) /\ Len(s) \in Nat /\ Len(t) \in Nat
      /\ a.due \in Seq(Nat)
  BY <1>2, <1>4, <1>5, <1>6, Operands, StateFacts
<1>9. b = Have(IF Len(s) > d THEN SubSeq(s, 1, d) ELSE s, a.due \o Unwind(s, d))
  BY <1>4, <1>5
<1>10. \A x \in Seq(Nat) : <<>> \o x = x
  OBVIOUS
<1>11. CASE a = w[i]
  <2>1. s = t /\ a.due = <<>> /\ Len(s) > d
    BY <1>5, <1>6, <1>7, <1>8, <1>11
  <2>2. Unwind(t, d) \in Seq(Nat)
    <3>1. d <= Len(t)
      BY <1>7, <1>8
    <3> QED BY <1>8, <3>1, UnwindType
  <2>3. b = w[i + 1]
    <3>1. a.due \o Unwind(s, d) = Unwind(t, d)
      BY <1>10, <2>1, <2>2
    <3> QED BY <1>7, <1>9, <2>1, <3>1
  <2> QED BY <2>3 DEF Accepts
<1>12. CASE a # w[i]
  <2>1. PICK p \in i .. R - 1 : w[p] = a /\ Idle(c, i, p)
    BY <1>12 DEF Accepts
  <2>2. a.due = <<>> /\ Prefix(s, t)
    BY <1>5, <1>6, <1>12 DEF Accepts
  <2>3. p \in i + 1 .. R - 1
    <3>1. p # i
      BY <1>12, <2>1
    <3> QED BY <1>1, <3>1
  <2>4. Idle(c, i + 1, p)
    <3>1. \A j \in i + 1 .. p - 1 : j \in i .. p - 1
      BY <1>1
    <3> QED BY <2>1, <3>1 DEF Idle
  <2>5. Len(s) <= Len(t) /\ \A k \in 1 .. Len(s) : s[k] = t[k]
    BY <1>8, <2>2, PrefixIs
  <2>6. PICK u : u = SubSeq(t, 1, d)
    OBVIOUS
  <2>7. /\ u \in Seq(Seq(Nat)) /\ Len(u) = d /\ \A k \in 1 .. d : u[k] = t[k]
    BY <1>7, <1>8, <2>6
  <2>8. CASE Len(s) <= d
    <3>1. Unwind(s, d) = <<>>
      <4>1. SubSeq(s, d + 1, Len(s)) = <<>>
        BY <1>8, <2>8
      <4>2. <<>> \in Seq(Seq(Nat)) /\ AllEmpty(<<>>, 1)
        BY DEF AllEmpty
      <4>3. FlattenSeq(<<>>) = <<>>
        BY <4>2, FlattenEmpty
      <4>4. Reverse(<<>>) = <<>>
        <5>1. Reverse(<<>>) = [k \in 1 .. Len(<<>>) |-> (<<>>)[(Len(<<>>) - k) + 1]]
          BY DEF Reverse
        <5>2. 1 .. Len(<<>>) = {}
          OBVIOUS
        <5>3. \A f : [k \in {} |-> f[k]] = <<>>
          OBVIOUS
        <5> QED BY <5>1, <5>2, <5>3
      <4> QED BY <4>1, <4>3, <4>4 DEF Unwind
    <3>2. b = a
      <4>1. ~(Len(s) > d)
        BY <1>8, <2>8
      <4>2. a.due \o Unwind(s, d) = a.due
        <5>1. <<>> \o <<>> = <<>>
          OBVIOUS
        <5> QED BY <2>2, <3>1, <5>1
      <4>3. b = Have(s, a.due)
        BY <1>9, <4>1, <4>2
      <4> QED BY <1>2, <1>5, <4>3, StateFacts
    <3>3. Prefix(s, u)
      <4>1. \A k \in 1 .. Len(s) : k \in 1 .. d
        BY <1>8, <2>8
      <4>2. \A k \in 1 .. Len(s) : s[k] = u[k]
        BY <2>5, <2>7, <4>1
      <4> QED BY <1>8, <2>7, <2>8, <4>2, PrefixIs
    <3>4. w[i + 1].scopes = u
      <4>1. \A x, y : Have(x, y).scopes = x
        BY DEF Have
      <4> QED BY <1>7, <2>6, <4>1
    <3> QED BY <1>5, <2>1, <2>2, <2>3, <2>4, <3>2, <3>3, <3>4 DEF Accepts
  <2>9. CASE ~(Len(s) <= d)
    <3>1. d <= Len(t) /\ d <= Len(s) /\ Len(s) > d
      BY <1>7, <1>8, <2>9
    <3>2. Unwind(t, d) = <<>>
      <4> SUFFICES ASSUME Unwind(t, d) # <<>> PROVE FALSE
        OBVIOUS
      <4>1. Stuck(Len(s), w[i + 1])
        <5>1. \A x, y : Have(x, y).due = y
          BY DEF Have
        <5>2. w[i + 1].due = Unwind(t, d)
          BY <1>7, <5>1
        <5> QED BY <5>2 DEF Stuck
      <4>2. PICK k : k = i + 1
        OBVIOUS
      <4>3. k \in 1 .. R - 1 /\ p \in k .. R - 1
        BY <1>1, <2>3, <4>2
      <4>4. ~Stuck(Len(w[p].scopes), w[k])
        BY <2>1, <2>2, <2>4, <4>2, <4>3, NotStuck
      <4> QED BY <1>5, <2>1, <4>1, <4>2, <4>4
    <3>3. Unwind(s, d) = <<>>
      <4>1. AllEmpty(t, d + 1)
        BY <1>8, <3>1, <3>2, UnwindEmpty
      <4>2. \A m \in d + 1 .. Len(s) : m \in d + 1 .. Len(t) /\ m \in 1 .. Len(s)
        <5>1. Len(s) <= Len(t)
          BY <2>5
        <5> QED BY <1>8, <5>1
      <4>3. AllEmpty(s, d + 1)
        BY <2>5, <4>1, <4>2 DEF AllEmpty
      <4> QED BY <1>8, <3>1, <4>3, UnwindEmpty
    <3>4. SubSeq(s, 1, d) = u
      <4>1. PICK v : v = SubSeq(s, 1, d)
        OBVIOUS
      <4>2. v \in Seq(Seq(Nat)) /\ Len(v) = d /\ \A k \in 1 .. d : v[k] = s[k] /\ k \in 1 .. Len(s)
        <5>1. d <= Len(s)
          BY <3>1
        <5>2. SubSeq(s, 1, d) \in Seq(Seq(Nat)) /\ Len(SubSeq(s, 1, d)) = d
              /\ \A k \in 1 .. d : SubSeq(s, 1, d)[k] = s[k]
          BY <1>8, <5>1
        <5>3. \A k \in 1 .. d : k \in 1 .. Len(s)
          BY <1>8, <5>1
        <5> QED BY <4>1, <5>2, <5>3
      <4>3. \A k \in 1 .. d : v[k] = u[k]
        BY <2>5, <2>7, <4>2
      <4>4. v = u
        BY <2>7, <4>2, <4>3, SeqEqual
      <4> QED BY <4>1, <4>4
    <3>5. b = Have(u, <<>>)
      <4>1. a.due \o Unwind(s, d) = <<>>
        <5>1. <<>> \o <<>> = <<>>
          OBVIOUS
        <5> QED BY <2>2, <3>3, <5>1
      <4> QED BY <1>9, <3>1, <3>4, <4>1
    <3>6. b = w[i + 1]
      BY <1>7, <2>6, <3>2, <3>5
    <3> QED BY <3>6 DEF Accepts
  <2> QED BY <2>8, <2>9
<1> QED BY <1>11, <1>12

-----------------------------------------------------------------------------
(* The counter of label_pass when it comes to i.                           *)
Kept(c, i) == Cardinality({j \in DOMAIN c : j < i /\ Remains(c[j])})

LEMMA KeptFacts ==
  ASSUME NEW c \in Seq(Instruction), NEW i \in DOMAIN c
  PROVE  /\ Kept(c, i) \in Nat /\ Kept(c, 1) = 0
         /\ Remains(c[i]) => Kept(c, i + 1) = Kept(c, i) + 1
         /\ ~Remains(c[i]) => Kept(c, i + 1) = Kept(c, i)
<1> DEFINE A == {j \in DOMAIN c : j < i /\ Remains(c[j])}
           B == {j \in DOMAIN c : j < i + 1 /\ Remains(c[j])}
<1>1. DOMAIN c = 1 .. Len(c) /\ Len(c) \in Nat /\ i \in Nat
  OBVIOUS
<1>2. IsFiniteSet(A) /\ Cardinality(A) \in Nat
  <2>1. IsFiniteSet(1 .. Len(c))
    BY <1>1, FS_Interval
  <2>2. A \in SUBSET (1 .. Len(c))
    BY <1>1
  <2> HIDE DEF A
  <2> QED BY <2>1, <2>2, FS_Subset, FS_CardinalityType
<1>3. Kept(c, 1) = 0
  <2>1. {j \in DOMAIN c : j < 1 /\ Remains(c[j])} = {}
    BY <1>1
  <2> QED BY <2>1, FS_EmptySet DEF Kept
<1>4. Remains(c[i]) => B = A \cup {i} /\ i \notin A
  BY <1>1
<1>5. ~Remains(c[i]) => B = A
  BY <1>1
<1>6. Kept(c, i) = Cardinality(A) /\ Kept(c, i + 1) = Cardinality(B)
  BY DEF Kept
<1> HIDE DEF A, B
<1>7. Remains(c[i]) => Cardinality(B) = Cardinality(A) + 1
  BY <1>2, <1>4, FS_AddElement
<1> QED BY <1>2, <1>3, <1>5, <1>6, <1>7

(* What is executed for the instructions of c, and where.                  *)
Linked(c) ==
  \A i \in DOMAIN c : Remains(c[i]) =>
    /\ Kept(c, i) + 1 \in DOMAIN code
    /\ IF IsJump(c[i])
       THEN \E p \in DOMAIN c :
              /\ c[p] = Label(c[i].to)
              /\ code[Kept(c, i) + 1] = [c[i] EXCEPT !.to = Kept(c, p) + 1]
       ELSE code[Kept(c, i) + 1] = c[i]

LEMMA LabelPassLinks ==
  ASSUME NEW R, Sealed(code, R), LabelPass, NEW c, c = code
  PROVE  Linked(c)'
<1> DEFINE left == {i \in DOMAIN code : Remains(code[i])}
           patched == [i \in DOMAIN code |->
                         IF IsJump(code[i]) THEN [code[i] EXCEPT !.to = Target(@)]
                         ELSE code[i]]
<1>1. code' = [n \in 1 .. Cardinality(left) |-> patched[CHOOSE i \in left : Before(i) = n - 1]]
  BY DEF LabelPass
<1>2. code \in Seq(Instruction) /\ DOMAIN code = 1 .. Len(code) /\ Len(code) \in Nat
  BY DEF Sealed
<1>3. left \in SUBSET Nat /\ IsFiniteSet(left)
  <2>1. IsFiniteSet(1 .. Len(code))
    BY <1>2, FS_Interval
  <2>2. left \in SUBSET (1 .. Len(code))
    BY <1>2
  <2>3. 1 .. Len(code) \subseteq Nat
    OBVIOUS
  <2> HIDE DEF left
  <2> QED BY <2>1, <2>2, <2>3, FS_Subset
<1>4. \A i : Before(i) = Cardinality({u \in left : u < i})
  <2>1. \A i : {j \in DOMAIN code : j < i /\ Remains(code[j])} = {u \in left : u < i}
    OBVIOUS
  <2> QED BY <2>1 DEF Before
<1>5. ASSUME NEW i \in left
      PROVE  /\ Before(i) \in Nat /\ Before(i) + 1 \in 1 .. Cardinality(left)
             /\ \A j \in left : Before(j) = Before(i) => j = i
  <2>1. Before(i) \in Nat
    BY <1>2, KeptFacts DEF Before, Kept
  <2> HIDE DEF left
  <2>2. /\ \A u, v \in left :
             Cardinality({x \in left : x < u}) = Cardinality({x \in left : x < v}) => u = v
        /\ \A u \in left : Cardinality({x \in left : x < u}) + 1 \in 1 .. Cardinality(left)
    BY <1>3, RankIsBijective
  <2>3. Before(i) + 1 \in 1 .. Cardinality(left)
    BY <1>4, <2>2
  <2>4. \A j \in left : Before(j) = Before(i) => j = i
    BY <1>4, <2>2
  <2> QED BY <2>1, <2>3, <2>4
<1>6. ASSUME NEW i \in left
      PROVE  Before(i) + 1 \in DOMAIN code' /\ code'[Before(i) + 1] = patched[i]
  <2>1. (Before(i) + 1) - 1 = Before(i)
    <3>1. Before(i) \in Nat
      BY <1>5
    <3> HIDE DEF left
    <3>2. \A x \in Nat : (x + 1) - 1 = x
      OBVIOUS
    <3> QED BY <3>1, <3>2
  <2>2. (CHOOSE j \in left : Before(j) = (Before(i) + 1) - 1) = i
    <3> HIDE DEF left
    <3> QED BY <1>5, <2>1
  <2> HIDE DEF left, patched
  <2> QED BY <1>1, <1>5, <2>2
<1>7. PICK d : d = code'
  OBVIOUS
<1>8. \A i : Kept(c, i) = Before(i)
  BY DEF Kept, Before
<1>9. ASSUME NEW i \in DOMAIN c, Remains(c[i])
      PROVE  /\ Kept(c, i) + 1 \in DOMAIN d
             /\ IF IsJump(c[i])
                THEN \E p \in DOMAIN c :
                       /\ c[p] = Label(c[i].to)
                       /\ d[Kept(c, i) + 1] = [c[i] EXCEPT !.to = Kept(c, p) + 1]
                ELSE d[Kept(c, i) + 1] = c[i]
  <2>1. i \in left
    BY <1>9
  <2>2. Kept(c, i) + 1 \in DOMAIN d /\ d[Kept(c, i) + 1] = patched[i]
    BY <1>6, <1>7, <1>8, <2>1
  <2>3. CASE IsJump(c[i])
    <3> DEFINE p == Position(c[i].to)
    <3>1. p \in DOMAIN c /\ c[p] = Label(c[i].to)
      BY <2>3, PositionFacts
    <3>2. Target(c[i].to) = Kept(c, p) + 1
      BY <1>8 DEF Target
    <3> HIDE DEF p
    <3>3. patched[i] = [c[i] EXCEPT !.to = Kept(c, p) + 1]
      BY <2>3, <3>2
    <3> QED BY <2>2, <2>3, <3>1, <3>3
  <2>4. CASE ~IsJump(c[i])
    BY <2>2, <2>4
  <2> QED BY <2>3, <2>4
<1>10. Linked(c)'
  BY <1>7, <1>9 DEF Linked
<1> QED BY <1>10

(* The instruction pointer is where instruction i of the linked code is,   *)
(* or the next that is left; and the machine holds what is accepted there. *)
Follows(c, ls, w, R, i) ==
  /\ Sealed(c, R) /\ Linked(c) /\ i \in 1 .. R /\ pc = Kept(c, i) + 1
  /\ Forms = {} => Traced(c, ls, w, R) /\ Accepts(c, w, R, i, Have(scopes, due))

LEMMA FollowsFacts ==
  ASSUME NEW c, NEW ls, NEW w, NEW R, NEW i, Follows(c, ls, w, R, i)
  PROVE  /\ c \in Seq(Instruction) /\ i \in DOMAIN c /\ R \in Nat /\ i \in Nat
         /\ R \in DOMAIN c /\ c[i] \in Instruction
         /\ i # R => i \in 1 .. R - 1 /\ i + 1 \in 1 .. R
<1>1. c \in Seq(Instruction) /\ R \in DOMAIN c /\ i \in 1 .. R
  BY DEF Follows, Sealed
<1> QED BY <1>1

(* There is a real instruction it has come to.                             *)
LEMMA ComesTo ==
  ASSUME NEW c, NEW ls, NEW w, NEW R, NEW i, Follows(c, ls, w, R, i)
  PROVE  \E k : Follows(c, ls, w, R, k) /\ Remains(c[k])
<1> DEFINE S == {k \in 1 .. R : Follows(c, ls, w, R, k)}
<1>1. R \in Nat
  BY FollowsFacts
<1>2. i \in S
  BY DEF Follows
<1>3. S \in SUBSET Nat /\ \A k \in S : k <= R
  BY <1>1
<1>4. \A k \in S : Follows(c, ls, w, R, k)
  OBVIOUS
<1>5. \A k : Follows(c, ls, w, R, k) => k \in S
  BY DEF Follows
<1> HIDE DEF S
<1>6. PICK k \in S : \A j \in S : j <= k
  BY <1>1, <1>2, <1>3, GreatestNatural
<1>7. Follows(c, ls, w, R, k)
  BY <1>4
<1>8. ASSUME ~Remains(c[k]) PROVE FALSE
  <2>1. k # R
    <3>1. Remains(c[R])
      BY <1>7 DEF Follows, Sealed, Remains
    <3> QED BY <1>8, <3>1
  <2>2. /\ c \in Seq(Instruction) /\ k \in DOMAIN c /\ k \in 1 .. R - 1 /\ k + 1 \in 1 .. R
        /\ k \in Nat
    BY <1>7, <2>1, FollowsFacts
  <2>3. Kept(c, k + 1) = Kept(c, k)
    BY <1>8, <2>2, KeptFacts
  <2>4. Forms = {} => Traced(c, ls, w, R) /\ Accepts(c, w, R, k + 1, Have(scopes, due))
    BY <1>7, <1>8, <2>2, AcceptsOver DEF Follows
  <2>5. Follows(c, ls, w, R, k + 1)
    BY <1>7, <2>2, <2>3, <2>4 DEF Follows
  <2>6. k + 1 <= k
    BY <1>5, <1>6, <2>5
  <2> QED BY <2>2, <2>6
<1> QED BY <1>7, <1>8

(* What is executed there.                                                 *)
LEMMA Executed ==
  ASSUME NEW c, NEW ls, NEW w, NEW R, NEW i, Follows(c, ls, w, R, i), Remains(c[i])
  PROVE  /\ pc \in DOMAIN code /\ code[pc].op = c[i].op
         /\ ~IsJump(c[i]) => code[pc] = c[i]
         /\ IsJump(c[i]) => \E p \in 1 .. R - 1 : c[p] = Label(c[i].to) /\ code[pc].to = Kept(c, p) + 1
         /\ c[i].op # "ret" => i # R /\ Kept(c, i + 1) + 1 = pc + 1
<1>1. c \in Seq(Instruction) /\ i \in DOMAIN c /\ c[i] \in Instruction
  BY FollowsFacts
<1>2. Sealed(c, R) /\ Linked(c) /\ pc = Kept(c, i) + 1
  BY DEF Follows
<1>3. pc \in DOMAIN code
  BY <1>1, <1>2 DEF Linked
<1>4. ASSUME ~IsJump(c[i]) PROVE code[pc] = c[i]
  BY <1>1, <1>2, <1>4 DEF Linked
<1>5. ASSUME IsJump(c[i])
      PROVE  \E p \in 1 .. R - 1 : /\ c[p] = Label(c[i].to) /\ code[pc].to = Kept(c, p) + 1
                                   /\ code[pc].op = c[i].op
  <2>1. PICK p \in DOMAIN c : /\ c[p] = Label(c[i].to)
                              /\ code[pc] = [c[i] EXCEPT !.to = Kept(c, p) + 1]
    BY <1>1, <1>2, <1>5 DEF Linked
  <2>2. \A x : Label(x).op = "label"
    BY DEF Label
  <2>3. p < R /\ R \in DOMAIN c
    BY <1>2, <2>1, <2>2 DEF Sealed
  <2>4. p \in 1 .. R - 1
    <3>1. DOMAIN c = 1 .. Len(c) /\ Len(c) \in Nat
      BY <1>1
    <3> QED BY <2>3, <3>1
  <2>5. \A ins \in Instruction : IsJump(ins) =>
           \A x : [ins EXCEPT !.to = x].op = ins.op /\ [ins EXCEPT !.to = x].to = x
    BY DEF Instruction, IsJump, Label, Jump, Branch, Deferred, Register, Open, Leave,
           Iterate, Ret, Nop
  <2>6. code[pc].op = c[i].op /\ code[pc].to = Kept(c, p) + 1
    BY <1>1, <1>5, <2>1, <2>5
  <2> QED BY <2>1, <2>4, <2>6
<1>6. ASSUME c[i].op # "ret" PROVE i # R /\ Kept(c, i + 1) + 1 = pc + 1
  <2>1. i # R
    BY <1>2, <1>6 DEF Sealed
  <2>2. Kept(c, i + 1) = Kept(c, i) + 1
    BY <1>1, KeptFacts
  <2> QED BY <1>2, <2>1, <2>2
<1> QED BY <1>3, <1>4, <1>5, <1>6

-----------------------------------------------------------------------------
(* The steps of the machine.                                               *)
Running == \E c, ls, w, R, i : Follows(c, ls, w, R, i)

LEMMA Moves ==
  ASSUME NEW c, NEW ls, NEW w, NEW R, NEW i, Follows(c, ls, w, R, i), code' = code,
         NEW k \in 1 .. R, pc' = Kept(c, k) + 1,
         Forms = {} => Accepts(c, w, R, k, Have(scopes', due'))
  PROVE  Running'
<1>1. Linked(c)'
  BY DEF Follows, Linked
<1>2. Follows(c, ls, w, R, k)'
  BY <1>1 DEF Follows
<1> QED BY <1>2 DEF Running

(* Instructions that are not marks execute as they are traced.             *)
LEMMA Real ==
  ASSUME Forms = {}, NEW c, NEW ls, NEW w, NEW R, NEW i, Follows(c, ls, w, R, i),
         c[i].op \in {"jump", "branch", "iterate", "deferred", "register"}
  PROVE  /\ i \in 1 .. R - 1 /\ Traced(c, ls, w, R)
         /\ Have(scopes, due) = w[i] /\ scopes = w[i].scopes /\ due = w[i].due
         /\ Rule(ls, w[i], c[i], w[i + 1])
<1>1. Sealed(c, R) /\ Traced(c, ls, w, R) /\ Accepts(c, w, R, i, Have(scopes, due))
  BY DEF Follows
<1>2. i \in 1 .. R - 1
  <2>1. i # R
    BY <1>1 DEF Sealed
  <2> QED BY <2>1, FollowsFacts
<1>3. ~IsNoop(c[i]) \/ c[i].op = "register"
  BY DEF IsNoop, IsMark
<1>4. Have(scopes, due) = w[i]
  BY <1>1, <1>2, <1>3, Exactly
<1>5. \A x, y : Have(x, y).scopes = x /\ Have(x, y).due = y
  BY DEF Have
<1>6. Rule(ls, w[i], c[i], w[i + 1])
  BY <1>1, <1>2 DEF Traced
<1> QED BY <1>1, <1>2, <1>4, <1>5, <1>6

LEMMA RunNext == Running /\ Execute => Running'
<1> SUFFICES ASSUME Running, Execute PROVE Running'
  OBVIOUS
<1>1. PICK c, ls, w, R, i : Follows(c, ls, w, R, i) /\ Remains(c[i])
  BY ComesTo DEF Running
<1>2. /\ code[pc].op = c[i].op
      /\ ~IsJump(c[i]) => code[pc] = c[i]
      /\ IsJump(c[i]) => \E p \in 1 .. R - 1 : c[p] = Label(c[i].to) /\ code[pc].to = Kept(c, p) + 1
      /\ c[i].op # "ret" => i # R /\ Kept(c, i + 1) + 1 = pc + 1
  BY <1>1, Executed
<1>3. i # R => i \in 1 .. R - 1 /\ i + 1 \in 1 .. R
  BY <1>1, FollowsFacts
<1>4. R \in Nat /\ \A p \in 1 .. R - 1 : p \in 1 .. R
  <2>1. R \in Nat
    BY <1>1, FollowsFacts
  <2> QED BY <2>1
<1>5. Forms = {} => /\ Sealed(c, R) /\ Traced(c, ls, w, R)
                    /\ Accepts(c, w, R, i, Have(scopes, due))
  BY <1>1 DEF Follows
<1>6. CASE ExecJump \/ (ExecBranch /\ pc' = code[pc].to)
  <2>1. /\ c[i].op \in {"jump", "branch"} /\ code' = code /\ UNCHANGED <<scopes, due>>
        /\ pc' = code[pc].to
    BY <1>2, <1>6 DEF ExecJump, ExecBranch, Executing, At
  <2>2. PICK p \in 1 .. R - 1 : c[p] = Label(c[i].to) /\ pc' = Kept(c, p) + 1
    BY <1>2, <2>1 DEF IsJump
  <2>3. ASSUME Forms = {} PROVE Accepts(c, w, R, p, Have(scopes', due'))
    <3>1. Have(scopes, due) = w[i] /\ w[i] = ls[c[i].to]
      <4>1. Have(scopes, due) = w[i] /\ Rule(ls, w[i], c[i], w[i + 1])
        BY <1>1, <2>1, <2>3, Real
      <4> QED BY <2>1, <4>1 DEF Rule
    <3>2. c[p].op = "label" /\ c[p].to = c[i].to
      BY <2>2 DEF Label
    <3>3. w[p] = ls[c[i].to]
      BY <1>5, <2>3, <3>2 DEF Traced, Rule
    <3> QED BY <2>1, <3>1, <3>3 DEF Accepts
  <2> QED BY <1>1, <1>4, <2>1, <2>2, <2>3, Moves
<1>7. CASE (ExecBranch /\ Advance) \/ ExecIterate \/ ExecDeferred \/ ExecRegister
  <2>1. /\ c[i].op \in {"branch", "iterate", "deferred", "register"} /\ code' = code
        /\ pc' = pc + 1
    BY <1>2, <1>7 DEF ExecBranch, ExecIterate, ExecDeferred, ExecRegister, Advance, Executing, At
  <2>2. i + 1 \in 1 .. R /\ pc' = Kept(c, i + 1) + 1
    BY <1>2, <1>3, <2>1
  <2>3. ASSUME Forms = {} PROVE Accepts(c, w, R, i + 1, Have(scopes', due'))
    <3>1. /\ Have(scopes, due) = w[i] /\ scopes = w[i].scopes /\ due = w[i].due
          /\ Rule(ls, w[i], c[i], w[i + 1])
      BY <1>1, <2>1, <2>3, Real
    <3>2. CASE c[i].op \in {"branch", "iterate"}
      <4>1. UNCHANGED <<scopes, due>>
        BY <1>2, <1>7, <3>2 DEF ExecBranch, ExecIterate, ExecDeferred, ExecRegister, Executing, At
      <4> QED BY <3>1, <3>2, <4>1 DEF Rule, Accepts
    <3>3. CASE c[i].op = "deferred"
      <4>1. /\ scopes' = scopes
            /\ due' = IF due # <<>> /\ Head(due) = c[i].stmt THEN Tail(due) ELSE due
        BY <1>2, <1>7, <3>3 DEF ExecBranch, ExecIterate, ExecDeferred, ExecRegister, Executing, At,
                            IsJump
      <4>2. /\ w[i].due # <<>> /\ Head(w[i].due) = c[i].stmt
            /\ w[i + 1] = Have(w[i].scopes, Tail(w[i].due))
        BY <3>1, <3>3 DEF Rule
      <4>3. Have(scopes', due') = w[i + 1]
        BY <3>1, <4>1, <4>2
      <4> QED BY <4>3 DEF Accepts
    <3>4. CASE c[i].op = "register"
      <4>1. /\ due' = due
            /\ scopes' = [scopes EXCEPT ![Len(scopes)] = Append(@, c[i].stmt)]
        BY <1>2, <1>7, <3>4 DEF ExecBranch, ExecIterate, ExecDeferred, ExecRegister, Executing, At,
                            IsJump
      <4>2. /\ w[i].due = <<>>
            /\ w[i + 1] = Have([w[i].scopes EXCEPT ![Len(w[i].scopes)] = Append(@, c[i].stmt)], <<>>)
        BY <3>1, <3>4 DEF Rule
      <4>3. Have(scopes', due') = w[i + 1]
        BY <3>1, <4>1, <4>2
      <4> QED BY <4>3 DEF Accepts
    <3> QED BY <2>1, <3>2, <3>3, <3>4
  <2> QED BY <1>1, <2>1, <2>2, <2>3, Moves
<1>8. CASE ExecOpen
  <2>1. /\ c[i].op = "open" /\ code' = code /\ pc' = pc + 1 /\ due' = due
        /\ scopes' = IF Len(scopes) = code[pc].depth - 1 THEN Append(scopes, <<>>) ELSE scopes
    BY <1>2, <1>8 DEF ExecOpen, Advance, Executing, At
  <2>2. i \in 1 .. R - 1 /\ i + 1 \in 1 .. R /\ pc' = Kept(c, i + 1) + 1 /\ code[pc] = c[i]
    BY <1>2, <1>3, <2>1 DEF IsJump
  <2>3. ASSUME Forms = {} PROVE Accepts(c, w, R, i + 1, Have(scopes', due'))
    <3>1. PICK a : a = Have(scopes, due)
      OBVIOUS
    <3>2. a.scopes = scopes /\ a.due = due
      BY <3>1 DEF Have
    <3>3. PICK b : b = Have(scopes', due')
      OBVIOUS
    <3>4. b = Have(IF Len(a.scopes) = c[i].depth - 1 THEN Append(a.scopes, <<>>)
                   ELSE a.scopes, a.due)
      BY <2>1, <2>2, <3>2, <3>3
    <3>5. Accepts(c, w, R, i, a)
      BY <1>5, <2>3, <3>1
    <3>6. Accepts(c, w, R, i + 1, b)
      BY <1>5, <2>1, <2>2, <2>3, <3>4, <3>5, AcceptsOpen
    <3> QED BY <3>3, <3>6
  <2> QED BY <1>1, <2>1, <2>2, <2>3, Moves
<1>9. CASE ExecLeave
  <2>1. /\ c[i].op = "leave" /\ code' = code /\ pc' = pc + 1
        /\ due' = due \o Unwind(scopes, code[pc].depth)
        /\ scopes' = IF Len(scopes) > code[pc].depth
                     THEN SubSeq(scopes, 1, code[pc].depth) ELSE scopes
    BY <1>2, <1>9 DEF ExecLeave, Advance, Executing, At
  <2>2. i \in 1 .. R - 1 /\ i + 1 \in 1 .. R /\ pc' = Kept(c, i + 1) + 1 /\ code[pc] = c[i]
    BY <1>2, <1>3, <2>1 DEF IsJump
  <2>3. ASSUME Forms = {} PROVE Accepts(c, w, R, i + 1, Have(scopes', due'))
    <3>1. PICK a : a = Have(scopes, due)
      OBVIOUS
    <3>2. a.scopes = scopes /\ a.due = due
      BY <3>1 DEF Have
    <3>3. PICK b : b = Have(scopes', due')
      OBVIOUS
    <3>4. b = Have(IF Len(a.scopes) > c[i].depth THEN SubSeq(a.scopes, 1, c[i].depth)
                   ELSE a.scopes, a.due \o Unwind(a.scopes, c[i].depth))
      BY <2>1, <2>2, <3>2, <3>3
    <3>5. Accepts(c, w, R, i, a)
      BY <1>5, <2>3, <3>1
    <3>6. Accepts(c, w, R, i + 1, b)
      BY <1>5, <2>1, <2>2, <2>3, <3>4, <3>5, AcceptsLeave
    <3> QED BY <3>3, <3>6
  <2> QED BY <1>1, <2>1, <2>2, <2>3, Moves
<1>10. CASE Returned
  <2>1. UNCHANGED <<code, pc, scopes, due>>
    BY <1>10 DEF Returned, vars, machine
  <2>2. Follows(c, ls, w, R, i)' /\ Linked(c)'
    BY <1>1, <2>1 DEF Follows, Linked
  <2> QED BY <2>2 DEF Running
<1> QED BY <1>6, <1>7, <1>8, <1>9, <1>10 DEF Execute, ExecBranch

-----------------------------------------------------------------------------
(* The whole invariant.                                                    *)
Fresh == pc = 1 /\ scopes = << <<>> >> /\ due = <<>>

Linking ==
  \E R, ls, w : Sealed(code, R) /\ (Forms = {} => Traced(code, ls, w, R))

FlowInv ==
  /\ phase \in {"compile", "link", "run"}
  /\ nodes \in 0 .. MaxNodes
  /\ phase \in {"compile", "link"} => Fresh
  /\ phase = "compile" => Shape /\ Books /\ (Forms = {} => \E ls : Flow(ls))
  /\ phase = "link" => Linking
  /\ phase = "run" => Running

LEMMA FInit == Init => FlowInv
<1> SUFFICES ASSUME Init PROVE FlowInv
  OBVIOUS
<1>1. phase = "compile" /\ nodes = 0 /\ Fresh
  BY DEF Init, Fresh
<1>2. Shape /\ Books
  BY <1>1, DInit DEF DInv
<1>3. 0 \in 0 .. MaxNodes
  BY DeferAssumption
<1> QED BY <1>1, <1>2, <1>3, FlowInit DEF FlowInv

LEMMA CompileNext == FlowInv /\ Compile => FlowInv'
<1> SUFFICES ASSUME FlowInv, Compile PROVE FlowInv'
  OBVIOUS
<1>1. /\ phase = "compile" /\ UNCHANGED machine
      /\ nodes' = nodes \/ (nodes < MaxNodes /\ nodes' = nodes + 1)
      /\ ~EndFunction => phase' = phase
      /\ EndFunction => phase' = "link"
  <2>1. CASE Defer \/ OpenIf \/ OpenWhile \/ OpenFor \/ OpenRanged \/ Return
    <3>1. Node
      BY <2>1 DEF Defer, OpenIf, OpenWhile, OpenFor, OpenRanged, Return
    <3>2. phase' = phase /\ phase = "compile"
      BY <3>1 DEF Node
    <3>3. ~EndFunction
      BY <3>2 DEF EndFunction
    <3> QED BY <3>1, <3>3 DEF Node
  <2>2. CASE Break \/ Continue
    <3>1. Node
      BY <2>2 DEF Break, Continue, Exit
    <3>2. phase' = phase /\ phase = "compile"
      BY <3>1 DEF Node
    <3>3. ~EndFunction
      BY <3>2 DEF EndFunction
    <3> QED BY <3>1, <3>3 DEF Node
  <2>3. CASE ElseIf
    <3>1. /\ phase = "compile" /\ phase' = phase /\ UNCHANGED machine
          /\ nodes < MaxNodes /\ nodes' = nodes + 1
      BY <2>3 DEF ElseIf
    <3>2. ~EndFunction
      BY <3>1 DEF EndFunction
    <3> QED BY <3>1, <3>2
  <2>4. CASE Else \/ CloseIf \/ CloseWhile \/ CloseFor \/ CloseRanged
    <3>1. \E kind : Closing(kind)
      BY <2>4 DEF Else, CloseIf, CloseWhile, CloseFor, CloseRanged
    <3>2. phase = "compile" /\ phase' = phase /\ nodes' = nodes /\ UNCHANGED machine
      BY <3>1 DEF Closing
    <3>3. ~EndFunction
      BY <3>2 DEF EndFunction
    <3> QED BY <3>2, <3>3
  <2>5. CASE EndFunction
    BY <2>5 DEF EndFunction
  <2> QED BY <2>1, <2>2, <2>3, <2>4, <2>5 DEF Compile
<1>2. Shape /\ Books /\ (Forms = {} => \E ls : Flow(ls)) /\ Fresh /\ nodes \in 0 .. MaxNodes
  BY <1>1 DEF FlowInv
<1>3. Fresh' /\ nodes' \in 0 .. MaxNodes
  <2>1. Fresh'
    BY <1>1, <1>2 DEF Fresh, machine
  <2>2. nodes' \in 0 .. MaxNodes
    <3>1. \A m \in Nat : \A n \in 0 .. m : n < m => n + 1 \in 0 .. m
      OBVIOUS
    <3> QED BY <1>1, <1>2, <3>1, DeferAssumption
  <2> QED BY <2>1, <2>2
<1>4. CASE EndFunction
  <2>1. ASSUME Forms = {} PROVE Linking'
    <3>1. PICK ls : Flow(ls)
      BY <1>2, <2>1
    <3>2. PICK R, w : Sealed(code', R) /\ Traced(code', ls, w, R)
      BY <1>2, <1>4, <2>1, <3>1, EndTraced
    <3> QED BY <3>2 DEF Linking
  <2>2. ASSUME Forms # {} PROVE Linking'
    <3>1. \E R : Sealed(code', R)
      BY <1>2, <1>4, EndSealed
    <3> QED BY <2>2, <3>1 DEF Linking
  <2>3. phase' = "link"
    BY <1>1, <1>4
  <2>4. Linking'
    BY <2>1, <2>2
  <2> QED BY <1>3, <2>3, <2>4 DEF FlowInv
<1>5. CASE ~EndFunction
  <2>1. Shape' /\ Books'
    <3>1. DInv
      BY <1>1, <1>2 DEF DInv
    <3>2. DInv'
      BY <3>1, DNext DEF Next
    <3> QED BY <1>1, <1>5, <3>2 DEF DInv
  <2>2. ASSUME Forms = {} PROVE (\E ls : Flow(ls))'
    <3>1. PICK ls : Flow(ls)
      BY <1>2, <2>2
    <3> QED BY <1>2, <1>5, <2>2, <3>1, FlowNext
  <2>3. phase' = "compile"
    BY <1>1, <1>5
  <2> QED BY <1>3, <2>1, <2>2, <2>3 DEF FlowInv
<1> QED BY <1>4, <1>5

LEMMA LabelPassNext == FlowInv /\ LabelPass => FlowInv'
<1> SUFFICES ASSUME FlowInv, LabelPass PROVE FlowInv'
  OBVIOUS
<1>1. phase = "link" /\ phase' = "run" /\ UNCHANGED machine /\ nodes' = nodes
  BY DEF LabelPass, compiler
<1>2. Linking /\ Fresh /\ nodes \in 0 .. MaxNodes
  BY <1>1 DEF FlowInv
<1>3. PICK R, ls, w : Sealed(code, R) /\ (Forms = {} => Traced(code, ls, w, R))
  BY <1>2 DEF Linking
<1>4. PICK c : c = code
  OBVIOUS
<1>5. Sealed(c, R) /\ (Forms = {} => Traced(c, ls, w, R)) /\ Linked(c)'
  BY <1>3, <1>4, LabelPassLinks
<1>6. pc' = 1 /\ scopes' = << <<>> >> /\ due' = <<>>
  BY <1>1, <1>2 DEF Fresh, machine
<1>7. /\ 1 \in 1 .. R /\ Kept(c, 1) + 1 = 1
  <2>1. c \in Seq(Instruction) /\ R \in DOMAIN c
    BY <1>5 DEF Sealed
  <2>2. 1 \in 1 .. R
    BY <2>1
  <2>3. Kept(c, 1) = 0
    BY <2>1, KeptFacts
  <2> QED BY <2>2, <2>3
<1>8. Forms = {} => Accepts(c, w, R, 1, Have(scopes', due'))
  BY <1>5, <1>6 DEF Traced, Accepts
<1>9. Follows(c, ls, w, R, 1)'
  BY <1>5, <1>6, <1>7, <1>8 DEF Follows
<1>10. Running'
  BY <1>9 DEF Running
<1> QED BY <1>1, <1>2, <1>10 DEF FlowInv

LEMMA FNext == FlowInv /\ [Next]_vars => FlowInv'
<1> SUFFICES ASSUME FlowInv, [Next]_vars PROVE FlowInv'
  OBVIOUS
<1>1. CASE Compile
  BY <1>1, CompileNext
<1>2. CASE Peephole
  <2>1. phase = "link" /\ UNCHANGED <<phase, nodes, machine>>
    BY <1>2 DEF Peephole, compiler
  <2>2. PICK R, ls, w : Sealed(code, R) /\ (Forms = {} => Traced(code, ls, w, R))
    BY <2>1 DEF FlowInv, Linking
  <2>3. Sealed(code', R) /\ (Forms = {} => Traced(code', ls, w, R))
    BY <1>2, <2>2, PeepholeSealed, PeepholeTraced
  <2>4. Linking'
    BY <2>3 DEF Linking
  <2> QED BY <2>1, <2>4 DEF FlowInv, Fresh, machine
<1>3. CASE LabelPass
  BY <1>3, LabelPassNext
<1>4. CASE Execute
  <2>1. phase = "run" /\ UNCHANGED <<phase, nodes>>
    BY <1>4 DEF Execute, ExecJump, ExecBranch, ExecIterate, ExecDeferred, ExecRegister,
                ExecOpen, ExecLeave, Returned, Executing, At, vars, compiler
  <2>2. Running'
    BY <1>4, <2>1, RunNext DEF FlowInv
  <2> QED BY <2>1, <2>2 DEF FlowInv
<1>5. CASE UNCHANGED vars
  <2>1. /\ UNCHANGED <<phase, nodes, code, labels, defers, loops, blocks, pc, scopes, due>>
    BY <1>5 DEF vars, compiler, machine
  <2>2. phase = "compile" => Shape' /\ Books'
    <3>1. phase = "compile" => DInv /\ DInv'
      BY <1>5, DNext DEF FlowInv, DInv
    <3> QED BY <2>1, <3>1 DEF DInv
  <2>3. Running => Running'
    BY <2>1 DEF Running, Follows, Linked
  <2>4. (\E ls : Flow(ls)) => (\E ls : Flow(ls))'
    BY <2>1 DEF Flow, Now
  <2>5. Linking => Linking'
    BY <2>1 DEF Linking
  <2> QED BY <2>1, <2>2, <2>3, <2>4, <2>5 DEF FlowInv, Fresh
<1> QED BY <1>1, <1>2, <1>3, <1>4, <1>5 DEF Next

(* What it says of types.                                                  *)
LEMMA FlowTypes == FlowInv => TypeOK
<1> SUFFICES ASSUME FlowInv PROVE TypeOK
  OBVIOUS
<1>1. phase = "run" => pc \in DOMAIN code
  <2>1. ASSUME phase = "run" PROVE pc \in DOMAIN code
    <3>1. PICK c, ls, w, R, i : Follows(c, ls, w, R, i) /\ Remains(c[i])
      BY <2>1, ComesTo DEF FlowInv, Running
    <3> QED BY <3>1, Executed
  <2> QED BY <2>1
<1>2. phase = "compile" => Len(defers) = Len(blocks) + 1
  BY DEF FlowInv, Shape
<1> QED BY <1>1, <1>2 DEF FlowInv, TypeOK

(* What it says of what is due.                                            *)
LEMMA FlowDue ==
  ASSUME Forms = {}, FlowInv, phase = "run"
  PROVE  /\ code[pc].op # "deferred" => due = <<>>
         /\ code[pc].op = "deferred" => due # <<>> /\ Head(due) = code[pc].stmt
<1>1. PICK c, ls, w, R, i : Follows(c, ls, w, R, i) /\ Remains(c[i])
  BY ComesTo DEF FlowInv, Running
<1>2. code[pc].op = c[i].op /\ (~IsJump(c[i]) => code[pc] = c[i])
  BY <1>1, Executed
<1>3. CASE c[i].op = "deferred"
  <2>1. code[pc] = c[i]
    BY <1>2, <1>3 DEF IsJump
  <2>2. due = w[i].due /\ Rule(ls, w[i], c[i], w[i + 1])
    BY <1>1, <1>3, Real
  <2> QED BY <1>3, <2>1, <2>2 DEF Rule
<1>4. CASE c[i].op # "deferred"
  <2>1. /\ Sealed(c, R) /\ Traced(c, ls, w, R) /\ Accepts(c, w, R, i, Have(scopes, due))
        /\ i \in 1 .. R
    BY <1>1 DEF Follows
  <2>2. Have(scopes, due).due = due
    BY DEF Have
  <2>3. CASE Have(scopes, due) = w[i]
    <3>1. CASE i = R
      BY <1>2, <1>4, <2>1, <2>2, <2>3, <3>1 DEF Traced
    <3>2. CASE i # R
      <4>1. i \in 1 .. R - 1
        BY <1>1, <3>2, FollowsFacts
      <4>2. c[i].op # "label" /\ c[i].op # "nop"
        BY <1>1 DEF Remains
      <4>3. Rule(ls, w[i], c[i], w[i + 1])
        BY <2>1, <4>1, <4>2 DEF Traced
      <4> QED BY <1>2, <1>4, <2>2, <2>3, <4>2, <4>3 DEF Rule
    <3> QED BY <3>1, <3>2
  <2>4. CASE Have(scopes, due) # w[i]
    BY <1>2, <1>4, <2>1, <2>2, <2>4 DEF Accepts
  <2> QED BY <2>3, <2>4
<1> QED BY <1>3, <1>4

(* The instruction pointer never leaves the code of a function, and while  *)
(* it is compiled there is one scope more than there are blocks open       *)
(* (compile_function and label_pass of kit.cc.c, defer.c).                 *)
THEOREM TypeCorrect == Spec => []TypeOK
<1>1. Init => FlowInv
  BY FInit
<1>2. FlowInv /\ [Next]_vars => FlowInv'
  BY FNext
<1>3. FlowInv => TypeOK
  BY FlowTypes
<1> QED BY <1>1, <1>2, <1>3, PTL DEF Spec

(* Once a block is left, whichever way and however deep, nothing of a      *)
(* program that keeps to what the code supports is executed before what    *)
(* the block deferred (defer_emit_to_depth of defer.c, and its calls in    *)
(* break, continue, return, the loops and the branches of an if), also     *)
(* after the peephole pass has taken jumps away.                           *)
THEOREM DefersComeFirst ==
  ASSUME Forms = {}
  PROVE  Spec => []NothingOvertakes
<1>1. Init => FlowInv
  BY FInit
<1>2. FlowInv /\ [Next]_vars => FlowInv'
  BY FNext
<1>3. FlowInv => NothingOvertakes
  BY FlowDue DEF NothingOvertakes
<1> QED BY <1>1, <1>2, <1>3, PTL DEF Spec

(* A deferred statement is executed only because a block that deferred it  *)
(* was left, and the last deferred first (defer_emit_current_scope and     *)
(* defer_emit_to_depth of defer.c go down from the last entry).            *)
THEOREM DeferredLastFirst ==
  ASSUME Forms = {}
  PROVE  Spec => DeferredInTurn
<1>1. Init => FlowInv
  BY FInit
<1>2. FlowInv /\ [Next]_vars => FlowInv'
  BY FNext
<1>3. FlowInv => (ExecDeferred => due # <<>> /\ Head(due) = code[pc].stmt)
  BY FlowDue DEF ExecDeferred, Executing, At
<1> QED BY <1>1, <1>2, <1>3, PTL DEF Spec, DeferredInTurn
===============================================================================
