-------------------------- MODULE KitContainersProofs --------------------------
(***************************************************************************)
(* Proofs about the list and the map of KitContainers, for any number of   *)
(* objects, slots and entries, any hash function and any order of texts.   *)
(*                                                                         *)
(* In this order: an assignment through a key reaches exactly what is      *)
(* found under that key, and the entries lie in the map's arrays as long   *)
(* as no more than twice those it was made for are in it; kit_tim_sort     *)
(* loses nothing and leaves nothing out of order; every operation keeps    *)
(* the types and the balance of the reference counters, so that nothing is *)
(* freed in use; and the storage implements the sequence and the table of  *)
(* KitCollection.                                                          *)
(***************************************************************************)
EXTENDS KitContainers, KitNaturals

(* The map's part of TypeOK, and what GrownRoom keeps: the arrays are as   *)
(* long as at first until they are full, and twice as long from then on.   *)
MapInv ==
  /\ keys \in Seq(Value) /\ vals \in Seq(Value) /\ Len(keys) = Len(vals)
  /\ held \subseteq Str
  /\ made \in Nat \ {0} /\ room \in {made, 2 * made}
  /\ room = made => Len(keys) <= made

-----------------------------------------------------------------------------
(* The least index at which something holds, if there is one.              *)
LEMMA LowestIsLeast ==
  ASSUME NEW S \in SUBSET Nat, S # {}
  PROVE  Lowest(S) \in S /\ \A j \in S : Lowest(S) <= j
BY LeastNatural DEF Lowest

(* What a search finds is an index of an entry with that key.              *)
LEMMA FoundIsEntry ==
  ASSUME MapInv, NEW k, Found(keys, k) # {}
  PROVE  Lowest(Found(keys, k)) \in 1 .. Len(keys) /\ Lowest(Found(keys, k)) \in Found(keys, k)
<1>1. DOMAIN keys = 1 .. Len(keys) /\ Len(keys) \in Nat
  BY DEF MapInv
<1>2. Found(keys, k) \subseteq 1 .. Len(keys) /\ Found(keys, k) \in SUBSET Nat
  BY <1>1 DEF Found
<1> QED BY <1>2, LowestIsLeast

(* The arguments of the operations are values.                             *)
LEMMA ArgumentIsValue ==
  ASSUME held \subseteq Str
  PROVE  Argument \subseteq Value
BY DEF Argument, Value, Strings

(* The invariant of the map holds at the beginning.                        *)
LEMMA InitMapInv == Init => MapInv
<1> SUFFICES ASSUME Init PROVE MapInv
  OBVIOUS
<1>1. PICK ks \in Literal(MaxLiteral), vs \in Literal(MaxLiteral) :
        /\ Len(vs) = Len(ks)
        /\ keys = ks /\ vals = vs /\ made = Larger(MinCapacity, Len(ks))
        /\ room = made /\ held = Str
  BY DEF Init
<1>2. \A s \in Literal(MaxLiteral) : s \in Seq(Value) /\ Len(s) \in Nat
  <2> SUFFICES ASSUME NEW s \in Literal(MaxLiteral) PROVE s \in Seq(Value) /\ Len(s) \in Nat
    OBVIOUS
  <2>1. PICK n \in 0 .. MaxLiteral : s \in [1 .. n -> Plain \cup Strings]
    BY DEF Literal, BoundedSeq, SeqOf
  <2>2. MaxLiteral \in Nat
    BY ContainerAssumption
  <2>3. s \in Seq(Plain \cup Strings)
    BY <2>1, <2>2
  <2> QED BY <2>3 DEF Value
<1>3. MinCapacity \in Nat /\ MinCapacity >= 1
  BY ContainerAssumption
<1> QED BY <1>1, <1>2, <1>3 DEF MapInv, Larger

(* What leaves the map alone.                                              *)
LEMMA MapUntouched ==
  ASSUME MapInv, UNCHANGED map, held' \subseteq Str
  PROVE  MapInv'
BY DEF MapInv, map

(* A script's other operations leave it as it is.                         *)
LEMMA ScriptMapInv ==
  ASSUME MapInv, Script
  PROVE  MapInv'
<1>1. ASSUME NEW o \in Str, Make(o) \/ Drop(o) PROVE MapInv'
  <2>1. UNCHANGED map /\ held' \subseteq Str
    BY <1>1 DEF Make, Drop, MapInv, map
  <2> QED BY <2>1, MapUntouched
<1>2. ASSUME NEW v, Take(v) PROVE MapInv'
  <2>1. UNCHANGED map /\ held' \subseteq Str
    BY <1>2 DEF Take, MapInv, map
  <2> QED BY <2>1, MapUntouched
<1>3. ASSUME NEW i \in 1 .. size, ListIndex(i) PROVE MapInv'
  BY <1>3, <1>2 DEF ListIndex
<1>4. ASSUME NEW k \in Argument, MapIndex(k) PROVE MapInv'
  BY <1>4, <1>2 DEF MapIndex
<1> QED BY <1>1, <1>3, <1>4 DEF Script

(* The operations on the list leave it as it is.                           *)
LEMMA ListMapInv ==
  ASSUME MapInv, List
  PROVE  MapInv'
<1>1. UNCHANGED <<map, held>>
  <2>1. CASE ListPop \/ ListRenew \/ ListSort
    BY <2>1 DEF ListPop, ListRenew, ListSort
  <2>2. CASE \E v \in Argument : ListAppend(v)
    BY <2>2 DEF ListAppend
  <2>3. CASE \E i \in 1 .. size : ListRemove(i)
    BY <2>3 DEF ListRemove
  <2>4. CASE \E i \in 1 .. size + 1, v \in Argument : ListInsert(i, v)
    BY <2>4 DEF ListInsert
  <2>5. CASE \E i \in 1 .. size, v \in Argument : ListAssign(i, v)
    BY <2>5 DEF ListAssign
  <2>6. CASE \E n \in 0 .. MaxCapacity : ListReserve(n) \/ ListResize(n)
    BY <2>6 DEF ListReserve, ListResize
  <2> QED BY <2>1, <2>2, <2>3, <2>4, <2>5, <2>6 DEF List
<1>2. held' \subseteq Str
  BY <1>1 DEF MapInv
<1> QED BY <1>1, <1>2, MapUntouched

(* An assignment keeps it, growing or not.                                 *)
LEMMA AssignMapInv ==
  ASSUME MapInv, NEW k \in Argument, NEW v \in Argument, MapAssign(k, v)
  PROVE  MapInv'
<1>1. k \in Value /\ v \in Value
  BY ArgumentIsValue DEF MapInv
<1>2. CASE Found(keys, k) # {}
  <2>1. PICK i \in 1 .. Len(vals) : vals' = [vals EXCEPT ![i] = v]
    BY <1>2, FoundIsEntry DEF MapAssign, MapInv
  <2>2. UNCHANGED <<keys, made, room, held>>
    BY <1>2 DEF MapAssign
  <2>3. vals' \in Seq(Value) /\ Len(vals') = Len(vals)
    BY <1>1, <2>1 DEF MapInv
  <2> QED BY <2>2, <2>3 DEF MapInv
<1>3. CASE Found(keys, k) = {}
  <2>1. /\ keys' = Append(keys, k) /\ vals' = Append(vals, v)
        /\ room' = GrownRoom /\ UNCHANGED <<made, held>>
    BY <1>3 DEF MapAssign
  <2>2. /\ keys' \in Seq(Value) /\ vals' \in Seq(Value)
        /\ Len(keys') = Len(keys) + 1 /\ Len(vals') = Len(keys')
    BY <1>1, <2>1 DEF MapInv
  <2>3. /\ room' \in {made', 2 * made'}
        /\ room' = made' => Len(keys') <= made'
    <3>1. Len(keys) \in Nat /\ made \in Nat \ {0}
      BY DEF MapInv
    <3>2. CASE Len(keys) >= made
      BY <2>1, <3>1, <3>2 DEF GrownRoom
    <3>3. CASE Len(keys) < made
      BY <2>1, <2>2, <3>1, <3>3 DEF GrownRoom, MapInv
    <3> QED BY <3>1, <3>2, <3>3
  <2> QED BY <2>1, <2>2, <2>3 DEF MapInv
<1> QED BY <1>2, <1>3

(* Every step keeps it.                                                    *)
LEMMA StepMapInv == MapInv /\ [Next]_vars => MapInv'
<1> SUFFICES ASSUME MapInv, [Next]_vars PROVE MapInv'
  OBVIOUS
<1>1. CASE Script
  BY <1>1, ScriptMapInv
<1>2. CASE List
  BY <1>2, ListMapInv
<1>3. CASE MapKeys \/ MapValues
  <2>1. UNCHANGED map /\ held' \subseteq Str
    BY <1>3 DEF MapKeys, MapValues, MapListed, MapInv
  <2> QED BY <2>1, MapUntouched
<1>4. CASE MapRenew
  <2>1. MinCapacity \in Nat \ {0}
    BY ContainerAssumption
  <2> QED BY <1>4, <2>1 DEF MapRenew, MapInv
<1>5. CASE \E k, v \in Argument : MapAssign(k, v)
  BY <1>5, AssignMapInv
<1>6. CASE UNCHANGED vars
  BY <1>6, MapUntouched DEF vars, MapInv
<1> QED BY <1>1, <1>2, <1>3, <1>4, <1>5, <1>6 DEF Next, Map

(* The keys and the values keep their types and their common length.       *)
THEOREM MapTypeCorrect == Spec => []MapInv
<1> QED BY InitMapInv, StepMapInv, PTL DEF Spec

(* The entries lie in the arrays, up to twice what the map was made for.   *)
THEOREM EntriesFit == Spec => []MapFits
<1>1. MapInv => MapFits
  BY DEF MapInv, MapFits
<1> QED BY <1>1, MapTypeCorrect, PTL

-----------------------------------------------------------------------------
(* Comparing the hashes and then the keys tells keys apart by their type   *)
(* and content: numbers of two types that are equal have other hashes.     *)
LEMMA SameKey ==
  ASSUME NEW v \in Value, NEW w \in Value
  PROVE  (Hash(v) = Hash(w) /\ Equal(v, w)) <=> Same(v) = Same(w)
<1>1. ASSUME Same(v) = Same(w) PROVE Hash(v) = Hash(w) /\ Equal(v, w)
  BY <1>1 DEF Same, Hash, Equal
<1>2. ASSUME Hash(v) = Hash(w), Equal(v, w), Same(v) # Same(w) PROVE FALSE
  <2>1. Content(v) = Content(w) /\ v[1] # w[1] /\ {v[1], w[1]} = {"int", "float"}
    BY <1>2 DEF Equal, Same
  <2>2. v \in Plain /\ w \in Plain /\ v \notin Strings /\ w \notin Strings
    BY <2>1 DEF Value, Strings, Ref, Null
  <2>3. v \in {"int", "float"} \X Int /\ w \in {"int", "float"} \X Int
    BY <2>2, ContainerAssumption
  <2>4. Same(v) = v /\ Same(w) = w /\ v[2] = w[2]
    BY <2>1, <2>2, <2>3 DEF Same, Content
  <2>5. Digest(v) # Digest(w)
    BY <2>1, <2>2, <2>4, ContainerAssumption
  <2> QED BY <2>4, <2>5, <1>2 DEF Hash
<1> QED BY <1>1, <1>2

(* A search finds the entries whose key is the same value.                 *)
LEMMA FoundByIdentity ==
  ASSUME NEW ks \in Seq(Value), NEW k \in Value
  PROVE  Found(ks, k) = {i \in DOMAIN ks : Same(ks[i]) = Same(k)}
<1>1. \A i \in DOMAIN ks : ks[i] \in Value
  OBVIOUS
<1>2. \A i \in DOMAIN ks :
        (Hash(ks[i]) = Hash(k) /\ Equal(k, ks[i])) <=> Same(ks[i]) = Same(k)
  <2> TAKE i \in DOMAIN ks
  <2>1. (Hash(k) = Hash(ks[i]) /\ Equal(k, ks[i])) <=> Same(k) = Same(ks[i])
    BY <1>1, SameKey
  <2> QED BY <2>1
<1> QED BY <1>2 DEF Found

(* Where Table looks: the first entry of an identity.                      *)
IsFirst(ks, x, i) == Same(ks[i]) = x /\ \A j \in 1 .. i - 1 : Same(ks[j]) # x

First(ks, x) == CHOOSE i \in DOMAIN ks : IsFirst(ks, x, i)

(* A table with one of its values set.                                     *)
With(table, x, v) ==
  [y \in {x} \cup DOMAIN table |-> IF y = x THEN v ELSE table[y]]

TableOf(ks, vs) == [x \in {Same(ks[i]) : i \in DOMAIN ks} |-> vs[First(ks, x)]]

(* The table is what the arrays of keys and values say.                    *)
LEMMA TableIs == Table = TableOf(keys, vals) /\ Table' = TableOf(keys', vals')
BY DEF Table, TableOf, First, IsFirst

(* Only the first of the entries of one key counts.                        *)
LEMMA OnlyFirst ==
  ASSUME NEW ks \in Seq(Value), NEW x, NEW i \in DOMAIN ks, IsFirst(ks, x, i)
  PROVE  First(ks, x) = i
<1>1. ASSUME NEW j \in DOMAIN ks, IsFirst(ks, x, j) PROVE j = i
  <2>1. i \in Nat /\ j \in Nat /\ i >= 1 /\ j >= 1
    OBVIOUS
  <2>2. ~(j < i)
    BY <2>1, <1>1 DEF IsFirst
  <2>3. ~(i < j)
    BY <2>1, <1>1 DEF IsFirst
  <2> QED BY <2>1, <2>2, <2>3
<1>2. First(ks, x) \in DOMAIN ks /\ IsFirst(ks, x, First(ks, x))
  BY DEF First
<1> QED BY <1>1, <1>2

(* There is a first one if there is one.                                   *)
LEMMA HasFirst ==
  ASSUME NEW ks \in Seq(Value), NEW x \in {Same(ks[i]) : i \in DOMAIN ks}
  PROVE  First(ks, x) \in DOMAIN ks /\ IsFirst(ks, x, First(ks, x))
<1> DEFINE S == {i \in DOMAIN ks : Same(ks[i]) = x}
<1>1. S \in SUBSET Nat /\ S # {} /\ DOMAIN ks = 1 .. Len(ks) /\ Len(ks) \in Nat
  OBVIOUS
<1>2. PICK i \in S : \A j \in S : i <= j
  BY <1>1, LeastNatural
<1>3. i \in DOMAIN ks /\ i \in Nat /\ i <= Len(ks)
  BY <1>1
<1>4. \A j \in 1 .. i - 1 : j \in DOMAIN ks /\ ~(i <= j)
  BY <1>1, <1>3
<1>5. \A j \in 1 .. i - 1 : Same(ks[j]) # x
  BY <1>2, <1>4
<1>6. IsFirst(ks, x, i)
  BY <1>5 DEF IsFirst
<1> QED BY <1>3, <1>6, OnlyFirst

(* The new value is at the first entry, whether it was there or is new.    *)
LEMMA ReplaceEntry ==
  ASSUME NEW ks \in Seq(Value), NEW vs \in Seq(Value), Len(ks) = Len(vs),
         NEW k \in Value, NEW v \in Value, Found(ks, k) # {}
  PROVE  TableOf(ks, [vs EXCEPT ![Lowest(Found(ks, k))] = v])
           = With(TableOf(ks, vs), Same(k), v)
<1> DEFINE i   == Lowest(Found(ks, k))
           new == [vs EXCEPT ![i] = v]
           ids == {Same(ks[j]) : j \in DOMAIN ks}
<1>1. Found(ks, k) = {j \in DOMAIN ks : Same(ks[j]) = Same(k)}
  BY FoundByIdentity
<1>2. DOMAIN ks = 1 .. Len(ks) /\ DOMAIN vs = DOMAIN ks /\ Len(ks) \in Nat
  OBVIOUS
<1>3. i \in Found(ks, k) /\ \A j \in Found(ks, k) : i <= j
  <2>1. Found(ks, k) \in SUBSET Nat
    BY <1>1, <1>2
  <2> QED BY <2>1, LowestIsLeast
<1>4. i \in DOMAIN ks /\ i \in Nat /\ i <= Len(ks) /\ Same(ks[i]) = Same(k)
  BY <1>1, <1>2, <1>3
<1> HIDE DEF i
<1>5. First(ks, Same(k)) = i
  <2>1. \A j \in 1 .. i - 1 : j \in DOMAIN ks /\ ~(i <= j)
    BY <1>2, <1>4
  <2>2. \A j \in 1 .. i - 1 : Same(ks[j]) # Same(k)
    BY <2>1, <1>1, <1>3
  <2> QED BY <2>2, <1>4, OnlyFirst DEF IsFirst
<1>6. Same(k) \in ids
  BY <1>4
<1>7. ASSUME NEW x \in ids, x # Same(k)
      PROVE  new[First(ks, x)] = vs[First(ks, x)]
  <2>1. First(ks, x) \in DOMAIN ks /\ Same(ks[First(ks, x)]) = x
    BY HasFirst DEF IsFirst
  <2>2. First(ks, x) # i
    BY <2>1, <1>4, <1>7
  <2> QED BY <2>1, <2>2, <1>2
<1>8. new[First(ks, Same(k))] = v
  BY <1>4, <1>5, <1>2
<1>9. TableOf(ks, new) = [x \in ids |-> IF x = Same(k) THEN v ELSE vs[First(ks, x)]]
  BY <1>7, <1>8 DEF TableOf
<1>10. With(TableOf(ks, vs), Same(k), v)
         = [x \in ids |-> IF x = Same(k) THEN v ELSE vs[First(ks, x)]]
  <2>1. {Same(k)} \cup ids = ids
    BY <1>6
  <2> QED BY <2>1 DEF TableOf, With
<1> QED BY <1>9, <1>10 DEF i

(* An entry added at the end counts if its key had none.                   *)
LEMMA AddEntry ==
  ASSUME NEW ks \in Seq(Value), NEW vs \in Seq(Value), Len(ks) = Len(vs),
         NEW k \in Value, NEW v \in Value, Found(ks, k) = {}
  PROVE  TableOf(Append(ks, k), Append(vs, v)) = With(TableOf(ks, vs), Same(k), v)
<1> DEFINE n   == Len(ks) + 1
           all == Append(ks, k)
           new == Append(vs, v)
           ids == {Same(ks[j]) : j \in DOMAIN ks}
<1>1. /\ all \in Seq(Value) /\ DOMAIN all = DOMAIN ks \cup {n} /\ n \notin DOMAIN ks
      /\ all[n] = k /\ new[n] = v
      /\ \A j \in DOMAIN ks : all[j] = ks[j] /\ new[j] = vs[j]
      /\ \A j \in DOMAIN ks : 1 .. j - 1 \subseteq DOMAIN ks
      /\ 1 .. n - 1 = DOMAIN ks
  OBVIOUS
<1> HIDE DEF n, all, new
<1>2. \A j \in DOMAIN ks : Same(ks[j]) # Same(k)
  BY FoundByIdentity
<1>3. First(all, Same(k)) = n
  <2>1. IsFirst(all, Same(k), n)
    BY <1>1, <1>2 DEF IsFirst
  <2> QED BY <2>1, <1>1, OnlyFirst
<1>4. ASSUME NEW x \in ids
      PROVE  x # Same(k) /\ new[First(all, x)] = vs[First(ks, x)]
  <2>1. First(ks, x) \in DOMAIN ks /\ IsFirst(ks, x, First(ks, x))
    BY HasFirst
  <2>2. IsFirst(all, x, First(ks, x))
    BY <2>1, <1>1 DEF IsFirst
  <2>3. First(all, x) = First(ks, x)
    BY <2>1, <2>2, <1>1, OnlyFirst
  <2> QED BY <2>1, <2>3, <1>1, <1>2
<1>5. {Same(all[j]) : j \in DOMAIN all} = {Same(k)} \cup ids
  BY <1>1
<1>6. TableOf(all, new)
        = [x \in {Same(k)} \cup ids |-> IF x = Same(k) THEN v ELSE vs[First(ks, x)]]
  BY <1>1, <1>3, <1>4, <1>5 DEF TableOf
<1>7. With(TableOf(ks, vs), Same(k), v)
        = [x \in {Same(k)} \cup ids |-> IF x = Same(k) THEN v ELSE vs[First(ks, x)]]
  BY DEF TableOf, With
<1> QED BY <1>6, <1>7 DEF all, new

(* The table after an assignment.                                          *)
LEMMA AssignIsWith ==
  ASSUME MapInv, NEW k \in Argument, NEW v \in Argument, MapAssign(k, v)
  PROVE  Table' = With(Table, Same(k), v)
<1>1. k \in Value /\ v \in Value
  BY ArgumentIsValue DEF MapInv
<1>2. keys \in Seq(Value) /\ vals \in Seq(Value) /\ Len(keys) = Len(vals)
  BY DEF MapInv
<1>3. CASE Found(keys, k) # {}
  <2>1. keys' = keys /\ vals' = [vals EXCEPT ![Lowest(Found(keys, k))] = v]
    BY <1>3 DEF MapAssign
  <2> QED BY <1>1, <1>2, <1>3, <2>1, TableIs, ReplaceEntry
<1>4. CASE Found(keys, k) = {}
  <2>1. keys' = Append(keys, k) /\ vals' = Append(vals, v)
    BY <1>4 DEF MapAssign
  <2> QED BY <1>1, <1>2, <1>4, <2>1, TableIs, AddEntry
<1> QED BY <1>3, <1>4

(* An assignment reaches what is found under its key, and nothing else,    *)
(* whichever keys share a hash: kit_map_find_or_insert, for any hash that  *)
(* tells a number from the equal number of the other type.                 *)
THEOREM AssignReachesItsKey == Spec => AssignIsUnderItsKey
<1>1. MapInv /\ [Next]_vars
        => [\A k, v \in Argument :
              MapAssign(k, v) =>
                Table' = [x \in {Same(k)} \cup DOMAIN Table |->
                            IF x = Same(k) THEN v ELSE Table[x]]]_vars
  BY AssignIsWith DEF With
<1> QED BY <1>1, MapTypeCorrect, PTL DEF Spec, AssignIsUnderItsKey

-----------------------------------------------------------------------------
(* What the operators of the sequences do, place by place.                 *)
LEMMA SubSeqIs ==
  ASSUME NEW S, NEW s \in Seq(S), NEW l \in Nat, NEW e \in l .. Len(s)
  PROVE  /\ SubSeq(s, l + 1, e) \in Seq(S) /\ Len(SubSeq(s, l + 1, e)) = e - l
         /\ \A r \in 1 .. e - l : SubSeq(s, l + 1, e)[r] = s[l + r]
<1>1. l + 1 \in 1 .. Len(s) + 1 /\ e \in (l + 1) - 1 .. Len(s) /\ e \in Nat
  OBVIOUS
<1>2. SubSeq(s, l + 1, e) \in Seq(S)
  BY <1>1
<1>3. Len(SubSeq(s, l + 1, e)) = e - l
  <2>1. CASE e = l
    BY <2>1
  <2>2. CASE e > l
    BY <2>2
  <2> QED BY <1>1, <2>1, <2>2
<1>4. ASSUME NEW r \in 1 .. e - l PROVE SubSeq(s, l + 1, e)[r] = s[l + r]
  BY <1>4
<1> QED BY <1>2, <1>3, <1>4

(* An element put in, and the others moved up.                             *)
LEMMA InsertAtIs ==
  ASSUME NEW S, NEW s \in Seq(S), NEW i \in 1 .. Len(s) + 1, NEW v \in S
  PROVE  InsertAt(s, i, v)
           = [j \in 1 .. Len(s) + 1 |->
                IF j < i THEN s[j] ELSE IF j = i THEN v ELSE s[j - 1]]
<1> DEFINE a == SubSeq(s, 1, i - 1)
           b == SubSeq(s, i, Len(s))
<1>1. a \in Seq(S) /\ Len(a) = i - 1 /\ \A j \in 1 .. i - 1 : a[j] = s[j]
  OBVIOUS
<1>2. b \in Seq(S) /\ Len(b) = Len(s) - i + 1 /\ \A j \in 1 .. Len(b) : b[j] = s[i - 1 + j]
  OBVIOUS
<1>3. InsertAt(s, i, v) = a \o <<v>> \o b
  BY DEF InsertAt
<1> HIDE DEF a, b
<1> DEFINE t == a \o <<v>> \o b
<1>4. t \in Seq(S) /\ Len(t) = Len(s) + 1
  BY <1>1, <1>2
<1>5. ASSUME NEW j \in 1 .. Len(s) + 1
      PROVE  t[j] = IF j < i THEN s[j] ELSE IF j = i THEN v ELSE s[j - 1]
  <2>1. CASE j < i
    BY <1>1, <1>2, <2>1
  <2>2. CASE j = i
    BY <1>1, <1>2, <2>2
  <2>3. CASE j > i
    <3>1. j - i \in 1 .. Len(b) /\ t[j] = b[j - i] /\ i - 1 + (j - i) = j - 1
      BY <1>1, <1>2, <2>3
    <3>2. b[j - i] = s[i - 1 + (j - i)]
      BY <1>2, <3>1
    <3> HIDE DEF t
    <3> QED BY <2>3, <3>1, <3>2
  <2> HIDE DEF t
  <2> QED BY <2>1, <2>2, <2>3
<1> HIDE DEF t
<1>6. t = [j \in 1 .. Len(s) + 1 |-> t[j]]
  BY <1>4
<1> QED BY <1>3, <1>5, <1>6 DEF t

(* The same for an element that is taken out.                              *)
LEMMA RemoveAtIs ==
  ASSUME NEW S, NEW s \in Seq(S), NEW i \in 1 .. Len(s)
  PROVE  RemoveAt(s, i) = [j \in 1 .. Len(s) - 1 |-> IF j < i THEN s[j] ELSE s[j + 1]]
<1> DEFINE a == SubSeq(s, 1, i - 1)
           b == SubSeq(s, i + 1, Len(s))
<1>1. a \in Seq(S) /\ Len(a) = i - 1 /\ \A j \in 1 .. i - 1 : a[j] = s[j]
  OBVIOUS
<1>2. b \in Seq(S) /\ Len(b) = Len(s) - i /\ \A j \in 1 .. Len(b) : b[j] = s[i + j]
  OBVIOUS
<1>3. RemoveAt(s, i) = a \o b
  BY DEF RemoveAt
<1> HIDE DEF a, b
<1> DEFINE t == a \o b
<1>4. t \in Seq(S) /\ Len(t) = Len(s) - 1
  <2>1. a \in Seq(S) /\ b \in Seq(S)
    BY <1>1, <1>2
  <2>2. t \in Seq(S) /\ Len(t) = Len(a) + Len(b)
    BY <2>1
  <2> HIDE DEF t
  <2> QED BY <1>1, <1>2, <2>2
<1>5. ASSUME NEW j \in 1 .. Len(s) - 1
      PROVE  t[j] = IF j < i THEN s[j] ELSE s[j + 1]
  <2>1. CASE j < i
    BY <1>1, <1>2, <2>1
  <2>2. CASE j >= i
    <3>1. j - (i - 1) \in 1 .. Len(b) /\ t[j] = b[j - (i - 1)] /\ i + (j - (i - 1)) = j + 1
      BY <1>1, <1>2, <2>2
    <3>2. b[j - (i - 1)] = s[i + (j - (i - 1))]
      BY <1>2, <3>1
    <3> HIDE DEF t
    <3> QED BY <2>2, <3>1, <3>2
  <2> HIDE DEF t
  <2> QED BY <2>1, <2>2
<1> HIDE DEF t
<1>6. t = [j \in 1 .. Len(s) - 1 |-> t[j]]
  BY <1>4
<1> QED BY <1>3, <1>5, <1>6 DEF t

-----------------------------------------------------------------------------
(* Sorting.  The elements of s in another order.                           *)
Reorders(p, n) ==
  /\ p \in [1 .. n -> 1 .. n]
  /\ \A i, j \in 1 .. n : p[i] = p[j] => i = j

Rearranged(s, t) ==
  /\ t \in Seq(Slot) /\ Len(t) = Len(s)
  /\ \E p : Reorders(p, Len(s)) /\ \A i \in 1 .. Len(s) : t[i] = s[p[i]]

(* None comes after the next; the same within each part of n elements.     *)
Ordered(s) == \A i \in 1 .. Len(s) - 1 : ~After(s[i], s[i + 1])

OrderedParts(s, n) ==
  \A i \in 1 .. Len(s) - 1 : i % n # 0 => ~After(s[i], s[i + 1])

(* Of two values at most one comes after the other.                        *)
LEMMA AfterIsOrder ==
  ASSUME NEW v \in Slot, NEW w \in Slot, After(v, w)
  PROVE  ~After(w, v)
<1>1. ASSUME NEW x \in Slot PROVE Rank(x) \in Nat /\ Content(x) \in Int
  <2>1. CASE x \in Strings
    <3>1. PICK o \in Str : x = <<"string", o>>
      BY <2>1 DEF Strings, Ref
    <3>2. Text[o] \in Nat
      BY ContainerAssumption
    <3> QED BY <2>1, <3>1, <3>2 DEF Rank, Content
  <2>2. CASE x \in Plain /\ x \notin Strings
    <3>1. x \in {"int", "float"} \X Int
      BY <2>2, ContainerAssumption
    <3> QED BY <2>2, <3>1 DEF Rank, Content
  <2>3. CASE x \in {Null, Blank} /\ x \notin Strings
    BY <2>3 DEF Rank, Content, Null, Blank
  <2> QED BY <2>1, <2>2, <2>3 DEF Slot, Value
<1>2. /\ Rank(v) \in Nat /\ Content(v) \in Int
      /\ Rank(w) \in Nat /\ Content(w) \in Int
  BY <1>1
<1> QED BY <1>2 DEF After

(* One element is put into an ordered sequence.                            *)
LEMMA InsertedIs ==
  ASSUME NEW s \in Seq(Slot), NEW v \in Slot
  PROVE  \E n \in 0 .. Len(s) :
           /\ Inserted(s, v) = [j \in 1 .. Len(s) + 1 |->
                                  IF j <= n THEN s[j] ELSE IF j = n + 1 THEN v ELSE s[j - 1]]
           /\ n > 0 => ~After(s[n], v)
           /\ \A j \in n + 1 .. Len(s) : After(s[j], v)
<1> DEFINE Place(n) == /\ n > 0 => ~After(s[n], v)
                       /\ \A j \in n + 1 .. Len(s) : After(s[j], v)
           before == {n \in 1 .. Len(s) : ~After(s[n], v)}
           at == CHOOSE n \in 0 .. Len(s) : Place(n)
<1>1. \E n \in 0 .. Len(s) : Place(n)
  <2>1. CASE before = {}
    <3>1. Place(0)
      BY <2>1
    <3> QED BY <3>1
  <2>2. CASE before # {}
    <3>1. before \in SUBSET Nat /\ Len(s) \in Nat /\ \A n \in before : n <= Len(s)
      OBVIOUS
    <3>2. PICK n \in before : \A j \in before : j <= n
      BY <2>2, <3>1, GreatestNatural
    <3>3. n \in 0 .. Len(s) /\ Place(n)
      BY <3>2
    <3> QED BY <3>3
  <2> QED BY <2>1, <2>2
<1>2. at \in 0 .. Len(s) /\ Place(at)
  <2> HIDE DEF Place
  <2> QED BY <1>1
<1>3. Inserted(s, v) = InsertAt(s, at + 1, v)
  BY DEF Inserted
<1> HIDE DEF at
<1>4. InsertAt(s, at + 1, v)
        = [j \in 1 .. Len(s) + 1 |->
             IF j <= at THEN s[j] ELSE IF j = at + 1 THEN v ELSE s[j - 1]]
  <2>1. at + 1 \in 1 .. Len(s) + 1
    BY <1>2
  <2>2. \A j \in 1 .. Len(s) + 1 : j < at + 1 <=> j <= at
    BY <1>2
  <2> QED BY <2>1, <2>2, InsertAtIs
<1> QED BY <1>2, <1>3, <1>4

(* What was ordered still is.                                              *)
LEMMA InsertedIsOrdered ==
  ASSUME NEW s \in Seq(Slot), NEW v \in Slot, Ordered(s)
  PROVE  Inserted(s, v) \in Seq(Slot) /\ Len(Inserted(s, v)) = Len(s) + 1
         /\ Ordered(Inserted(s, v))
<1>1. PICK n \in 0 .. Len(s) :
           /\ Inserted(s, v) = [j \in 1 .. Len(s) + 1 |->
                                  IF j <= n THEN s[j] ELSE IF j = n + 1 THEN v ELSE s[j - 1]]
           /\ n > 0 => ~After(s[n], v)
           /\ \A j \in n + 1 .. Len(s) : After(s[j], v)
  BY InsertedIs
<1> DEFINE t == Inserted(s, v)
<1> HIDE DEF t
<1>2. /\ t \in Seq(Slot) /\ Len(t) = Len(s) + 1
      /\ \A j \in 1 .. Len(s) + 1 :
           t[j] = IF j <= n THEN s[j] ELSE IF j = n + 1 THEN v ELSE s[j - 1]
  BY <1>1 DEF t
<1>3. ASSUME NEW i \in 1 .. Len(t) - 1 PROVE ~After(t[i], t[i + 1])
  <2>1. CASE i < n
    <3>1. t[i] = s[i] /\ t[i + 1] = s[i + 1] /\ i \in 1 .. Len(s) - 1
      BY <1>2, <2>1
    <3> QED BY <3>1 DEF Ordered
  <2>2. CASE i = n
    BY <1>1, <1>2, <2>2
  <2>3. CASE i = n + 1
    <3>1. t[i] = v /\ t[i + 1] = s[n + 1] /\ n + 1 \in n + 1 .. Len(s)
      BY <1>2, <2>3
    <3>2. After(s[n + 1], v) /\ s[n + 1] \in Slot
      BY <3>1, <1>1
    <3> QED BY <3>1, <3>2, AfterIsOrder
  <2>4. CASE i > n + 1
    <3>1. t[i] = s[i - 1] /\ t[i + 1] = s[(i - 1) + 1] /\ i - 1 \in 1 .. Len(s) - 1
      BY <1>2, <2>4
    <3> QED BY <3>1 DEF Ordered
  <2> QED BY <2>1, <2>2, <2>3, <2>4
<1> QED BY <1>2, <1>3 DEF Ordered, t

(* The elements of s up to one, in another order, and the next of them     *)
(* inserted.                                                               *)
LEMMA InsertedIsReordered ==
  ASSUME NEW s \in Seq(Slot), NEW k \in 1 .. Len(s), NEW t \in Seq(Slot), Len(t) = k - 1,
         NEW p, Reorders(p, k - 1), \A i \in 1 .. k - 1 : t[i] = s[p[i]]
  PROVE  \E q : Reorders(q, k) /\ \A i \in 1 .. k : Inserted(t, s[k])[i] = s[q[i]]
<1>1. PICK n \in 0 .. Len(t) :
        Inserted(t, s[k]) = [j \in 1 .. Len(t) + 1 |->
                               IF j <= n THEN t[j] ELSE IF j = n + 1 THEN s[k] ELSE t[j - 1]]
  <2>1. s[k] \in Slot
    OBVIOUS
  <2> QED BY <2>1, InsertedIs
<1> DEFINE q == [j \in 1 .. k |-> IF j <= n THEN p[j] ELSE IF j = n + 1 THEN k ELSE p[j - 1]]
<1>2. \A j \in 1 .. k - 1 : p[j] \in 1 .. k - 1
  BY DEF Reorders
<1>3. \A j \in 1 .. k : q[j] = IF j <= n THEN p[j] ELSE IF j = n + 1 THEN k ELSE p[j - 1]
  OBVIOUS
<1>4. q \in [1 .. k -> 1 .. k]
  <2>1. ASSUME NEW j \in 1 .. k PROVE q[j] \in 1 .. k
    <3>1. j # n + 1 => (IF j <= n THEN j ELSE j - 1) \in 1 .. k - 1
      OBVIOUS
    <3> QED BY <1>2, <1>3, <3>1
  <2>2. q = [j \in 1 .. k |-> q[j]]
    OBVIOUS
  <2> HIDE DEF q
  <2> QED BY <2>1, <2>2
<1> HIDE DEF q
<1>5. ASSUME NEW i \in 1 .. k, NEW j \in 1 .. k, q[i] = q[j] PROVE i = j
  <2> DEFINE At(l) == IF l <= n THEN l ELSE l - 1
  <2>1. \A l \in 1 .. k : l # n + 1 => At(l) \in 1 .. k - 1 /\ q[l] = p[At(l)]
    BY <1>3
  <2>2. CASE i = n + 1 \/ j = n + 1
    BY <1>2, <1>3, <1>5, <2>1, <2>2
  <2>3. CASE i # n + 1 /\ j # n + 1
    <3>1. p[At(i)] = p[At(j)] /\ At(i) \in 1 .. k - 1 /\ At(j) \in 1 .. k - 1
      BY <1>5, <2>1, <2>3
    <3>2. At(i) = At(j)
      BY <3>1 DEF Reorders
    <3> QED BY <2>3, <3>2
  <2> QED BY <2>2, <2>3
<1>6. ASSUME NEW i \in 1 .. k PROVE Inserted(t, s[k])[i] = s[q[i]]
  <2>1. Inserted(t, s[k])[i] = IF i <= n THEN t[i] ELSE IF i = n + 1 THEN s[k] ELSE t[i - 1]
    BY <1>1
  <2>2. CASE i <= n
    BY <1>3, <2>1, <2>2
  <2>3. CASE i = n + 1
    BY <1>3, <2>1, <2>3
  <2>4. CASE i > n + 1
    <3>1. i - 1 \in 1 .. k - 1
      BY <2>4
    <3> QED BY <1>3, <2>1, <2>4, <3>1
  <2> QED BY <2>2, <2>3, <2>4
<1> QED BY <1>4, <1>5, <1>6 DEF Reorders

(* An insertion sort sorts.                                                *)
LEMMA InsertionSortSorts ==
  ASSUME NEW s \in Seq(Slot)
  PROVE  Rearranged(s, InsertionSort(s)) /\ Ordered(InsertionSort(s))
<1> DEFINE n == Len(s)
           Recursion(f) ==
             f = [i \in 0 .. n |-> IF i = 0 THEN <<>> ELSE Inserted(f[i - 1], s[i])]
           S == {t \in Seq(Slot) : Ordered(t)}
           step == [x \in (1 .. n) \X S |-> Inserted(x[2], s[x[1]])]
<1>1. n \in Nat /\ n = Len(s) /\ \A i \in 1 .. n : s[i] \in Slot
  OBVIOUS
<1> HIDE DEF n
<1>2. <<>> \in S
  BY DEF Ordered
<1>3. step \in [(1 .. n) \X S -> S]
  <2>1. \A x \in (1 .. n) \X S : Inserted(x[2], s[x[1]]) \in S
    BY <1>1, InsertedIsOrdered
  <2> HIDE DEF S
  <2> QED BY <2>1
<1>4. \E f : Recursion(f)
  <2> HIDE DEF S, step
  <2>1. PICK f : Recursive(f, S, <<>>, n, step)
    BY <1>1, <1>2, <1>3, RecursionExists
  <2>2. ASSUME NEW i \in 1 .. n PROVE f[i] = Inserted(f[i - 1], s[i])
    <3>1. f[i] = step[<<i, f[i - 1]>>] /\ <<i, f[i - 1]>> \in (1 .. n) \X S
      BY <2>1, <1>1 DEF Recursive
    <3> QED BY <3>1 DEF step
  <2>3. Recursion(f)
    BY <2>1, <2>2, <1>1 DEF Recursive
  <2> QED BY <2>3
<1> DEFINE sorted == CHOOSE f : Recursion(f)
<1>5. InsertionSort(s) = sorted[n]
  BY DEF InsertionSort, n
<1>6. Recursion(sorted)
  BY <1>4
<1> HIDE DEF sorted
<1>7. sorted[0] = <<>> /\ \A i \in 1 .. n : sorted[i] = Inserted(sorted[i - 1], s[i])
  BY <1>1, <1>6
<1> DEFINE Sorted(i) ==
             /\ sorted[i] \in Seq(Slot) /\ Len(sorted[i]) = i /\ Ordered(sorted[i])
             /\ \E p : Reorders(p, i) /\ \A j \in 1 .. i : sorted[i][j] = s[p[j]]
           good == {i \in 0 .. n : Sorted(i)}
<1>8. 0 \in good
  <2>1. Reorders(<<>>, 0)
    BY DEF Reorders
  <2>2. Sorted(0)
    BY <2>1, <1>7, <1>2
  <2> QED BY <1>1, <2>2
<1>9. ASSUME NEW i \in 1 .. n, i - 1 \in good PROVE i \in good
  <2>1. Sorted(i - 1) /\ sorted[i] = Inserted(sorted[i - 1], s[i])
    BY <1>7, <1>9
  <2>2. sorted[i] \in Seq(Slot) /\ Len(sorted[i]) = i /\ Ordered(sorted[i])
    <3>1. Len(sorted[i - 1]) + 1 = i
      BY <1>1, <2>1
    <3> QED BY <1>1, <2>1, <3>1, InsertedIsOrdered
  <2>3. \E p : Reorders(p, i) /\ \A j \in 1 .. i : sorted[i][j] = s[p[j]]
    <3>1. PICK p : Reorders(p, i - 1) /\ \A j \in 1 .. i - 1 : sorted[i - 1][j] = s[p[j]]
      BY <2>1
    <3>2. i \in 1 .. Len(s)
      BY <1>1
    <3> QED BY <2>1, <3>1, <3>2, InsertedIsReordered
  <2> QED BY <2>2, <2>3
<1> HIDE DEF good
<1>10. n \in good
  <2>1. \A i \in 0 .. n : i \in good
    BY <1>1, <1>8, <1>9, Upward
  <2> QED BY <1>1, <2>1
<1> QED BY <1>1, <1>5, <1>10 DEF good, Rearranged

-----------------------------------------------------------------------------
(* When the k-th element merged is one of the left part, of which i came   *)
(* before it.                                                              *)
FromLeft(s, t, k, i) ==
  i < Len(s) /\ (k - 1 - i = Len(t) \/ After(t[k - i], s[i + 1]))

Counts(taken, s, t) ==
  /\ taken[0] = 0
  /\ \A k \in 1 .. Len(s) + Len(t) :
       taken[k] = IF FromLeft(s, t, k, taken[k - 1]) THEN taken[k - 1] + 1 ELSE taken[k - 1]
  /\ \A k \in 0 .. Len(s) + Len(t) :
       taken[k] \in 0 .. Len(s) /\ k - taken[k] \in 0 .. Len(t)

(* How many have come from the left, and from the right.                   *)
LEMMA TakenLeftIs ==
  ASSUME NEW s \in Seq(Slot), NEW t \in Seq(Slot)
  PROVE  Counts(TakenLeft(s, t), s, t)
<1> DEFINE n == Len(s) + Len(t)
           Left(k, i) == i < Len(s) /\ (k - 1 - i = Len(t) \/ After(t[k - 1 - i + 1], s[i + 1]))
           Recursion(f) ==
             f = [k \in 0 .. n |->
                    IF k = 0 THEN 0 ELSE IF Left(k, f[k - 1]) THEN f[k - 1] + 1 ELSE f[k - 1]]
           step == [x \in (1 .. n) \X Nat |-> IF Left(x[1], x[2]) THEN x[2] + 1 ELSE x[2]]
           taken == CHOOSE f : Recursion(f)
<1>1. TakenLeft(s, t) = taken
  BY DEF TakenLeft
<1>2. n \in Nat /\ n = Len(s) + Len(t)
  OBVIOUS
<1> HIDE DEF n
<1>3. \E f : Recursion(f)
  <2> HIDE DEF Left
  <2>1. step \in [(1 .. n) \X Nat -> Nat]
    <3>1. \A x \in (1 .. n) \X Nat : (IF Left(x[1], x[2]) THEN x[2] + 1 ELSE x[2]) \in Nat
      OBVIOUS
    <3> QED BY <3>1
  <2> HIDE DEF step
  <2>2. PICK f : Recursive(f, Nat, 0, n, step)
    BY <1>2, <2>1, RecursionExists
  <2>3. ASSUME NEW k \in 1 .. n
        PROVE  f[k] = IF Left(k, f[k - 1]) THEN f[k - 1] + 1 ELSE f[k - 1]
    <3>1. f[k] = step[<<k, f[k - 1]>>]
      BY <2>2 DEF Recursive
    <3>2. k - 1 \in 0 .. n /\ f \in [0 .. n -> Nat]
      BY <2>2, <1>2 DEF Recursive
    <3>3. <<k, f[k - 1]>> \in (1 .. n) \X Nat
      BY <3>2
    <3> QED BY <3>1, <3>3 DEF step
  <2>4. Recursion(f)
    BY <2>2, <2>3, <1>2 DEF Recursive
  <2> QED BY <2>4
<1>4. Recursion(taken)
  BY <1>3
<1> HIDE DEF taken
<1>5. /\ taken[0] = 0
      /\ \A k \in 1 .. n :
           taken[k] = IF Left(k, taken[k - 1]) THEN taken[k - 1] + 1 ELSE taken[k - 1]
  <2> HIDE DEF Left
  <2>1. 0 \in 0 .. n /\ \A k \in 1 .. n : k \in 0 .. n /\ k # 0
    BY <1>2
  <2> QED BY <2>1, <1>4, Zenon
<1> DEFINE good == {k \in 0 .. n : taken[k] \in 0 .. Len(s) /\ k - taken[k] \in 0 .. Len(t)}
<1>6. 0 \in good
  BY <1>2, <1>5
<1>7. ASSUME NEW k \in 1 .. n, k - 1 \in good PROVE k \in good
  <2>1. taken[k - 1] \in 0 .. Len(s) /\ k - 1 - taken[k - 1] \in 0 .. Len(t)
    BY <1>7
  <2>2. CASE Left(k, taken[k - 1])
    <3>1. taken[k] = taken[k - 1] + 1 /\ taken[k - 1] < Len(s)
      BY <1>5, <2>2
    <3> QED BY <1>2, <2>1, <3>1
  <2>3. CASE ~Left(k, taken[k - 1])
    <3>1. taken[k] = taken[k - 1]
      BY <1>5, <2>3
    <3>2. taken[k - 1] = Len(s) \/ k - 1 - taken[k - 1] # Len(t)
      BY <2>1, <2>3
    <3> QED BY <1>2, <2>1, <3>1, <3>2
  <2> QED BY <2>2, <2>3
<1> HIDE DEF good
<1>8. \A k \in 0 .. n : k \in good
  BY <1>2, <1>6, <1>7, Upward
<1>9. ASSUME NEW k \in 1 .. n PROVE Left(k, taken[k - 1]) <=> FromLeft(s, t, k, taken[k - 1])
  <2>1. k - 1 \in 0 .. n
    BY <1>2
  <2>2. k - 1 - taken[k - 1] + 1 = k - taken[k - 1]
    BY <1>2, <1>8, <2>1 DEF good
  <2> QED BY <2>2 DEF FromLeft
<1>10. \A k \in 1 .. n :
         taken[k] = IF FromLeft(s, t, k, taken[k - 1]) THEN taken[k - 1] + 1 ELSE taken[k - 1]
  <2> HIDE DEF Left
  <2> QED BY <1>5, <1>9
<1>11. \A k \in 0 .. n : taken[k] \in 0 .. Len(s) /\ k - taken[k] \in 0 .. Len(t)
  BY <1>8 DEF good
<1> QED BY <1>1, <1>2, <1>5, <1>10, <1>11 DEF Counts

(* Neither number decreases.                                               *)
LEMMA TakenGrows ==
  ASSUME NEW s \in Seq(Slot), NEW t \in Seq(Slot), NEW taken, Counts(taken, s, t)
  PROVE  \A b \in 0 .. Len(s) + Len(t) : \A a \in 0 .. b :
           taken[a] <= taken[b] /\ a - taken[a] <= b - taken[b]
<1> DEFINE n == Len(s) + Len(t)
           good == {b \in 0 .. n : \A a \in 0 .. b :
                      taken[a] <= taken[b] /\ a - taken[a] <= b - taken[b]}
<1>1. n \in Nat /\ n = Len(s) + Len(t)
  OBVIOUS
<1> HIDE DEF n
<1>2. \A k \in 0 .. n : taken[k] \in Nat
  BY <1>1 DEF Counts
<1>3. \A k \in 1 .. n : taken[k] \in {taken[k - 1], taken[k - 1] + 1}
  BY <1>1 DEF Counts
<1>4. 0 \in good
  BY <1>1, <1>2
<1>5. ASSUME NEW b \in 1 .. n, b - 1 \in good PROVE b \in good
  <2>1. b - 1 \in 0 .. n /\ b \in 0 .. n /\ taken[b - 1] \in Nat /\ taken[b] \in Nat
    BY <1>1, <1>2
  <2>2. ASSUME NEW a \in 0 .. b PROVE taken[a] <= taken[b] /\ a - taken[a] <= b - taken[b]
    <3>1. a \in 0 .. n /\ taken[a] \in Nat
      BY <1>1, <1>2
    <3>2. CASE a = b
      BY <3>1, <3>2
    <3>3. CASE a # b
      <4>1. a \in 0 .. b - 1
        BY <3>3
      <4>2. taken[a] <= taken[b - 1] /\ a - taken[a] <= b - 1 - taken[b - 1]
        BY <1>5, <4>1
      <4>3. taken[b] = taken[b - 1] \/ taken[b] = taken[b - 1] + 1
        BY <1>3
      <4> QED BY <2>1, <3>1, <4>2, <4>3
    <3> QED BY <3>2, <3>3
  <2> QED BY <2>1, <2>2
<1> HIDE DEF good
<1>6. \A b \in 0 .. n : b \in good
  BY <1>1, <1>4, <1>5, Upward
<1> QED BY <1>1, <1>6 DEF good

(* What merge puts in each place: the next of the left or of the right     *)
(* part.                                                                   *)
LEMMA MergeIs ==
  ASSUME NEW s \in Seq(Slot), NEW t \in Seq(Slot), NEW k \in 1 .. Len(s) + Len(t)
  PROVE  LET taken == TakenLeft(s, t)
         IN  \/ /\ FromLeft(s, t, k, taken[k - 1])
                /\ taken[k] = taken[k - 1] + 1 /\ taken[k] \in 1 .. Len(s)
                /\ k - taken[k] \in 0 .. Len(t)
                /\ Merge(s, t)[k] = s[taken[k]]
             \/ /\ ~FromLeft(s, t, k, taken[k - 1])
                /\ taken[k] = taken[k - 1] /\ taken[k] \in 0 .. Len(s)
                /\ k - taken[k] \in 1 .. Len(t)
                /\ Merge(s, t)[k] = t[k - taken[k]]
<1> DEFINE taken == TakenLeft(s, t)
<1>1. Merge(s, t)[k] = IF taken[k] > taken[k - 1] THEN s[taken[k]] ELSE t[k - taken[k]]
  BY DEF Merge
<1>2. Counts(taken, s, t)
  BY TakenLeftIs
<1> HIDE DEF taken
<1>3. k \in 0 .. Len(s) + Len(t) /\ k - 1 \in 0 .. Len(s) + Len(t)
  OBVIOUS
<1>4. /\ taken[k] \in 0 .. Len(s) /\ k - taken[k] \in 0 .. Len(t)
      /\ taken[k - 1] \in 0 .. Len(s) /\ k - 1 - taken[k - 1] \in 0 .. Len(t)
  BY <1>2, <1>3 DEF Counts
<1>5. taken[k] = IF FromLeft(s, t, k, taken[k - 1]) THEN taken[k - 1] + 1 ELSE taken[k - 1]
  BY <1>2 DEF Counts
<1>6. CASE FromLeft(s, t, k, taken[k - 1])
  BY <1>1, <1>4, <1>5, <1>6 DEF taken
<1>7. CASE ~FromLeft(s, t, k, taken[k - 1])
  <2>1. taken[k] = taken[k - 1]
    BY <1>5, <1>7
  <2>2. k - taken[k] \in 1 .. Len(t) /\ ~(taken[k] > taken[k - 1])
    BY <1>3, <1>4, <2>1
  <2> QED BY <1>1, <1>4, <1>7, <2>1, <2>2 DEF taken
<1> QED BY <1>6, <1>7

(* Nothing of either part is lost.                                         *)
LEMMA MergeIsRearranged ==
  ASSUME NEW s \in Seq(Slot), NEW t \in Seq(Slot)
  PROVE  Rearranged(s \o t, Merge(s, t))
<1> DEFINE taken == TakenLeft(s, t)
           n == Len(s) + Len(t)
           u == s \o t
           m == Merge(s, t)
           Left(k) == FromLeft(s, t, k, taken[k - 1])
           p == [k \in 1 .. n |-> IF Left(k) THEN taken[k] ELSE Len(s) + (k - taken[k])]
<1>1. /\ u \in Seq(Slot) /\ Len(u) = n /\ n \in Nat /\ n = Len(s) + Len(t)
      /\ Len(s) \in Nat /\ Len(t) \in Nat
      /\ \A i \in 1 .. Len(s) : u[i] = s[i] /\ s[i] \in Slot
      /\ \A i \in 1 .. Len(t) : u[Len(s) + i] = t[i] /\ t[i] \in Slot
  OBVIOUS
<1>2. Counts(taken, s, t)
  BY TakenLeftIs
<1>3. \A k \in 1 .. n :
        \/ /\ Left(k)
           /\ taken[k] = taken[k - 1] + 1 /\ taken[k] \in 1 .. Len(s)
           /\ k - taken[k] \in 0 .. Len(t) /\ m[k] = s[taken[k]]
        \/ /\ ~Left(k)
           /\ taken[k] = taken[k - 1] /\ taken[k] \in 0 .. Len(s)
           /\ k - taken[k] \in 1 .. Len(t) /\ m[k] = t[k - taken[k]]
  BY MergeIs
<1>4. \A b \in 0 .. n : \A a \in 0 .. b :
        taken[a] <= taken[b] /\ a - taken[a] <= b - taken[b]
  BY <1>2, TakenGrows
<1>5. m = [k \in 1 .. n |-> m[k]]
  BY DEF Merge
<1>6. \A k \in 1 .. n : p[k] = IF Left(k) THEN taken[k] ELSE Len(s) + (k - taken[k])
  OBVIOUS
<1>7. \A k \in 0 .. n : taken[k] \in Nat
  BY <1>1, <1>2 DEF Counts
<1> HIDE DEF taken, n, u, m, Left
<1>8. p \in [1 .. n -> 1 .. n]
  <2>1. \A k \in 1 .. n : (IF Left(k) THEN taken[k] ELSE Len(s) + (k - taken[k])) \in 1 .. n
    <3> TAKE k \in 1 .. n
    <3>1. CASE Left(k)
      BY <1>1, <1>3, <3>1
    <3>2. CASE ~Left(k)
      BY <1>1, <1>3, <3>2
    <3> QED BY <3>1, <3>2
  <2> QED BY <2>1
<1> HIDE DEF p
<1>9. ASSUME NEW a \in 1 .. n, NEW b \in 1 .. n, a < b PROVE p[a] # p[b]
  <2>1. /\ b - 1 \in 0 .. n /\ a \in 0 .. b - 1 /\ b \in 0 .. n /\ a \in 0 .. n
        /\ taken[a] \in Nat /\ taken[b] \in Nat /\ taken[b - 1] \in Nat
    BY <1>1, <1>7, <1>9
  <2>2. taken[a] <= taken[b - 1] /\ a - taken[a] <= b - 1 - taken[b - 1]
    BY <1>4, <2>1
  <2>3. /\ Left(a) => taken[a] \in 1 .. Len(s) /\ p[a] = taken[a]
        /\ ~Left(a) => a - taken[a] \in 1 .. Len(t) /\ p[a] = Len(s) + (a - taken[a])
    BY <1>3, <1>6
  <2>4. /\ Left(b) => taken[b] \in 1 .. Len(s) /\ p[b] = taken[b] /\ taken[b] = taken[b - 1] + 1
        /\ ~Left(b) => /\ b - taken[b] \in 1 .. Len(t) /\ p[b] = Len(s) + (b - taken[b])
                       /\ taken[b] = taken[b - 1]
    BY <1>3, <1>6
  <2>5. Len(s) \in Nat /\ Len(t) \in Nat /\ a \in Nat /\ b \in Nat
    BY <1>1
  <2>6. taken[a] \in Nat /\ taken[b] \in Nat /\ taken[b - 1] \in Nat
    BY <2>1
  <2>7. CASE Left(a) /\ Left(b)
    <3>1. p[a] = taken[a] /\ p[b] = taken[b - 1] + 1
      BY <2>3, <2>4, <2>7
    <3> QED BY <2>2, <2>6, <3>1
  <2>8. CASE ~Left(a) /\ ~Left(b)
    <3>1. p[a] = Len(s) + (a - taken[a]) /\ p[b] = Len(s) + (b - taken[b - 1])
      BY <2>3, <2>4, <2>8
    <3> QED BY <2>2, <2>5, <2>6, <3>1
  <2>9. CASE Left(a) /\ ~Left(b)
    <3>1. p[a] \in 1 .. Len(s) /\ p[b] = Len(s) + (b - taken[b]) /\ b - taken[b] \in 1 .. Len(t)
      BY <2>3, <2>4, <2>9
    <3> QED BY <2>5, <3>1
  <2>10. CASE ~Left(a) /\ Left(b)
    <3>1. p[b] \in 1 .. Len(s) /\ p[a] = Len(s) + (a - taken[a]) /\ a - taken[a] \in 1 .. Len(t)
      BY <2>3, <2>4, <2>10
    <3> QED BY <2>5, <3>1
  <2> QED BY <2>7, <2>8, <2>9, <2>10
<1>10. \A a, b \in 1 .. n : p[a] = p[b] => a = b
  BY <1>1, <1>9
<1>11. ASSUME NEW k \in 1 .. n PROVE m[k] = u[p[k]] /\ m[k] \in Slot
  <2>1. CASE Left(k)
    BY <1>1, <1>3, <1>6, <2>1
  <2>2. CASE ~Left(k)
    BY <1>1, <1>3, <1>6, <2>2
  <2> QED BY <2>1, <2>2
<1>12. m \in Seq(Slot) /\ Len(m) = n
  BY <1>1, <1>5, <1>11
<1>13. Reorders(p, n)
  BY <1>8, <1>10 DEF Reorders
<1> QED BY <1>1, <1>11, <1>12, <1>13 DEF Rearranged, u, m

(* Two ordered parts are merged into one.                                  *)
LEMMA MergeIsOrdered ==
  ASSUME NEW s \in Seq(Slot), NEW t \in Seq(Slot), Ordered(s), Ordered(t)
  PROVE  Ordered(Merge(s, t))
<1> DEFINE taken == TakenLeft(s, t)
           n == Len(s) + Len(t)
           m == Merge(s, t)
           Left(k) == FromLeft(s, t, k, taken[k - 1])
<1>1. /\ Len(m) = n /\ n \in Nat /\ n = Len(s) + Len(t)
      /\ \A i \in 1 .. Len(s) : s[i] \in Slot
      /\ \A i \in 1 .. Len(t) : t[i] \in Slot
  <2>1. s \o t \in Seq(Slot) /\ Len(s \o t) = n
    OBVIOUS
  <2>2. Len(m) = n
    BY <2>1, MergeIsRearranged DEF Rearranged
  <2> QED BY <2>2
<1>2. \A k \in 1 .. n :
        \/ /\ Left(k)
           /\ taken[k] = taken[k - 1] + 1 /\ taken[k] \in 1 .. Len(s)
           /\ k - taken[k] \in 0 .. Len(t) /\ m[k] = s[taken[k]]
        \/ /\ ~Left(k)
           /\ taken[k] = taken[k - 1] /\ taken[k] \in 0 .. Len(s)
           /\ k - taken[k] \in 1 .. Len(t) /\ m[k] = t[k - taken[k]]
  BY MergeIs
<1>3. \A k \in 1 .. n : Left(k) <=>
        taken[k - 1] < Len(s)
        /\ (k - 1 - taken[k - 1] = Len(t) \/ After(t[k - taken[k - 1]], s[taken[k - 1] + 1]))
  BY DEF FromLeft
<1>4. Counts(taken, s, t)
  BY TakenLeftIs
<1> HIDE DEF taken, n, m, Left
<1>5. ASSUME NEW k \in 1 .. n - 1 PROVE ~After(m[k], m[k + 1])
  <2>1. k \in 1 .. n /\ k + 1 \in 1 .. n /\ k + 1 - 1 = k
    BY <1>1
  <2> DEFINE i == taken[k]
             j == k - taken[k]
  <2>2. \/ /\ Left(k)
           /\ i = taken[k - 1] + 1 /\ i \in 1 .. Len(s)
           /\ j \in 0 .. Len(t) /\ m[k] = s[i]
        \/ /\ ~Left(k)
           /\ i = taken[k - 1] /\ i \in 0 .. Len(s)
           /\ j \in 1 .. Len(t) /\ m[k] = t[j]
    BY <1>2, <2>1
  <2>3. \/ /\ Left(k + 1)
           /\ taken[k + 1] = i + 1 /\ taken[k + 1] \in 1 .. Len(s)
           /\ k + 1 - taken[k + 1] \in 0 .. Len(t) /\ m[k + 1] = s[taken[k + 1]]
        \/ /\ ~Left(k + 1)
           /\ taken[k + 1] = i /\ taken[k + 1] \in 0 .. Len(s)
           /\ k + 1 - taken[k + 1] \in 1 .. Len(t) /\ m[k + 1] = t[k + 1 - taken[k + 1]]
    BY <1>2, <2>1
  <2>4. i \in Nat /\ j \in Nat /\ k \in Nat /\ Len(s) \in Nat /\ Len(t) \in Nat /\ k = i + j
    <3>1. i \in Nat /\ k \in Nat /\ Len(s) \in Nat /\ Len(t) \in Nat
      BY <2>1, <2>2
    <3> QED BY <2>2, <3>1
  <2>5. \/ Left(k + 1) /\ m[k + 1] = s[i + 1] /\ i + 1 \in 1 .. Len(s)
        \/ ~Left(k + 1) /\ m[k + 1] = t[j + 1] /\ j + 1 \in 1 .. Len(t)
    <3>1. k + 1 - i = j + 1
      BY <2>4
    <3> HIDE DEF j
    <3> QED BY <2>3, <3>1
  <2> HIDE DEF i, j
  <2>6. CASE Left(k) /\ Left(k + 1)
    <3>1. m[k] = s[i] /\ m[k + 1] = s[i + 1] /\ i \in 1 .. Len(s) - 1
      BY <2>2, <2>4, <2>5, <2>6
    <3> QED BY <3>1 DEF Ordered
  <2>7. CASE ~Left(k) /\ ~Left(k + 1)
    <3>1. m[k] = t[j] /\ m[k + 1] = t[j + 1] /\ j \in 1 .. Len(t) - 1
      BY <2>2, <2>4, <2>5, <2>7
    <3> QED BY <3>1 DEF Ordered
  <2>8. CASE Left(k) /\ ~Left(k + 1)
    <3>1. /\ m[k] = s[i] /\ i \in 1 .. Len(s) /\ i = taken[k - 1] + 1
          /\ m[k + 1] = t[j + 1] /\ j + 1 \in 1 .. Len(t)
      BY <2>2, <2>5, <2>8
    <3>2. \/ k - 1 - taken[k - 1] = Len(t)
          \/ After(t[k - taken[k - 1]], s[taken[k - 1] + 1])
      BY <1>3, <2>1, <2>8
    <3>3. taken[k - 1] = i - 1
      <4>1. k - 1 \in 0 .. n
        BY <1>1, <2>1
      <4>2. taken[k - 1] \in Nat
        BY <1>4, <1>1, <4>1 DEF Counts
      <4>3. i = taken[k - 1] + 1 /\ i \in Nat
        BY <2>4, <3>1
      <4> QED BY <4>2, <4>3
    <3>4. k - 1 - taken[k - 1] = j /\ k - taken[k - 1] = j + 1
      BY <2>4, <3>3
    <3>5. After(t[j + 1], s[i])
      <4>1. k - 1 - taken[k - 1] # Len(t)
        BY <2>4, <3>1, <3>4
      <4>2. taken[k - 1] + 1 = i
        BY <3>1
      <4> QED BY <3>2, <3>4, <4>1, <4>2
    <3>6. s[i] \in Slot /\ t[j + 1] \in Slot
      BY <1>1, <3>1
    <3> QED BY <3>1, <3>5, <3>6, AfterIsOrder
  <2>9. CASE ~Left(k) /\ Left(k + 1)
    <3>1. /\ m[k] = t[j] /\ i = taken[k - 1]
          /\ m[k + 1] = s[i + 1] /\ i + 1 \in 1 .. Len(s)
      BY <2>2, <2>5, <2>9
    <3>2. taken[k - 1] < Len(s) /\ k - taken[k - 1] = j
      <4>1. i < Len(s) /\ k - i = j
        <5>1. \A x, y, z, l \in Nat : x + 1 \in 1 .. l /\ z = x + y => x < l /\ z - x = y
          OBVIOUS
        <5> QED BY <2>4, <3>1, <5>1
      <4> QED BY <3>1, <4>1
    <3>3. ~After(t[k - taken[k - 1]], s[taken[k - 1] + 1])
      BY <1>3, <2>1, <2>9, <3>2
    <3> QED BY <3>1, <3>2, <3>3
  <2> QED BY <2>6, <2>7, <2>8, <2>9
<1> QED BY <1>1, <1>5 DEF Ordered, m

-----------------------------------------------------------------------------
(* The place before the part of n elements that i is in, and that part.    *)
Left(i, n) == ((i - 1) \div n) * n

PartAt(s, left, n) == SubSeq(s, left + 1, Lesser(left + n, Len(s)))

(* The parts of s lie side by side.                                        *)
LEMMA LeftIs ==
  ASSUME NEW n \in Nat \ {0}, NEW i \in Nat \ {0}
  PROVE  /\ Left(i, n) \in Nat /\ Left(i, n) < i /\ i <= Left(i, n) + n
         /\ \A j \in Nat \ {0} :
              Left(i, n) < j /\ j <= Left(i, n) + n => Left(j, n) = Left(i, n)
         /\ \E p \in Nat : Left(i, n) = p * n
<1> DEFINE p == (i - 1) \div n
<1>1. i - 1 \in Nat
  OBVIOUS
<1>2. /\ p \in Nat /\ p * n \in Nat /\ p * n <= i - 1 /\ i - 1 < p * n + n
  BY <1>1, Division
<1>3. Left(i, n) = p * n
  BY DEF Left
<1> HIDE DEF p
<1>4. ASSUME NEW j \in Nat \ {0}, p * n < j, j <= p * n + n PROVE Left(j, n) = p * n
  <2>1. j - 1 \in Nat /\ p * n <= j - 1 /\ j - 1 < p * n + n
    BY <1>2, <1>4
  <2>2. p = (j - 1) \div n
    BY <1>2, <2>1, Division
  <2> QED BY <2>2 DEF Left
<1> DEFINE l == p * n
<1>5. l \in Nat /\ l < i /\ i <= l + n
  <2>1. l \in Nat /\ l <= i - 1 /\ i - 1 < l + n
    BY <1>2
  <2> HIDE DEF l
  <2> QED BY <2>1
<1> QED BY <1>2, <1>3, <1>4, <1>5

(* What a place has in its part.                                           *)
LEMMA PartAtIs ==
  ASSUME NEW s \in Seq(Slot), NEW n \in Nat \ {0}, NEW i \in 1 .. Len(s)
  PROVE  LET l    == Left(i, n)
             part == PartAt(s, l, n)
         IN  /\ l \in Nat /\ part \in Seq(Slot) /\ l + Len(part) <= Len(s)
             /\ Len(part) = Lesser(l + n, Len(s)) - l
             /\ i - l \in 1 .. Len(part)
             /\ \A r \in 1 .. Len(part) : part[r] = s[l + r]
             /\ \A r \in 1 .. Len(part) : Left(l + r, n) = l
<1> DEFINE l == Left(i, n)
           part == PartAt(s, l, n)
           end == Lesser(l + n, Len(s))
<1>1. /\ l \in Nat /\ l < i /\ i <= l + n
      /\ \A j \in Nat \ {0} : l < j /\ j <= l + n => Left(j, n) = l
  <2>1. i \in Nat \ {0}
    OBVIOUS
  <2> QED BY <2>1, LeftIs
<1>2. part = SubSeq(s, l + 1, end)
  BY DEF PartAt
<1> HIDE DEF l, part
<1>3. end \in Nat /\ i <= end /\ end <= Len(s) /\ end <= l + n
  BY <1>1 DEF Lesser
<1> HIDE DEF end
<1>4. /\ part \in Seq(Slot) /\ Len(part) = end - l
      /\ \A r \in 1 .. Len(part) : part[r] = s[l + r]
  <2>1. end \in l .. Len(s)
    BY <1>1, <1>3
  <2> QED BY <1>1, <1>2, <2>1, SubSeqIs
<1>5. i - l \in 1 .. Len(part) /\ l + Len(part) <= Len(s)
  BY <1>1, <1>3, <1>4
<1>6. ASSUME NEW r \in 1 .. Len(part) PROVE Left(l + r, n) = l
  BY <1>1, <1>3, <1>4, <1>6
<1> QED BY <1>1, <1>4, <1>5, <1>6 DEF l, part, end

(* If G has the elements of each part in another order, the parts side by  *)
(* side are those of s in another order.                                   *)
LEMMA PartsAreRearranged ==
  ASSUME NEW s \in Seq(Slot), NEW n \in Nat \ {0}, NEW G,
         \A i \in 1 .. Len(s) : Rearranged(PartAt(s, Left(i, n), n), G[Left(i, n)])
  PROVE  Rearranged(s, [i \in 1 .. Len(s) |-> G[Left(i, n)][i - Left(i, n)]])
<1> DEFINE L(i) == Left(i, n)
           part(l) == PartAt(s, l, n)
           t == [i \in 1 .. Len(s) |-> G[L(i)][i - L(i)]]
           Order(q, l) == Reorders(q, Len(part(l)))
                          /\ \A r \in 1 .. Len(part(l)) : G[l][r] = part(l)[q[r]]
           order(l) == CHOOSE q : Order(q, l)
           p == [i \in 1 .. Len(s) |-> L(i) + order(L(i))[i - L(i)]]
<1>1. \A i \in 1 .. Len(s) :
             /\ L(i) \in Nat /\ part(L(i)) \in Seq(Slot) /\ L(i) + Len(part(L(i))) <= Len(s)
             /\ i - L(i) \in 1 .. Len(part(L(i)))
             /\ \A r \in 1 .. Len(part(L(i))) : part(L(i))[r] = s[L(i) + r]
             /\ \A r \in 1 .. Len(part(L(i))) : L(L(i) + r) = L(i)
  BY PartAtIs
<1>2. \A i \in 1 .. Len(s) : Rearranged(part(L(i)), G[L(i)])
  OBVIOUS
<1>3. \A i \in 1 .. Len(s) : Order(order(L(i)), L(i))
  BY <1>2 DEF Rearranged
<1>4. \A i \in 1 .. Len(s) : p[i] = L(i) + order(L(i))[i - L(i)] /\ t[i] = G[L(i)][i - L(i)]
  OBVIOUS
<1> HIDE DEF L, part, t, order, p
<1>5. ASSUME NEW i \in 1 .. Len(s)
      PROVE  /\ order(L(i))[i - L(i)] \in 1 .. Len(part(L(i)))
             /\ p[i] \in 1 .. Len(s) /\ L(p[i]) = L(i)
             /\ t[i] = s[p[i]] /\ t[i] \in Slot
  <2> DEFINE l == L(i)
             r == order(L(i))[i - L(i)]
  <2>1. /\ l \in Nat /\ part(l) \in Seq(Slot) /\ l + Len(part(l)) <= Len(s)
        /\ i - l \in 1 .. Len(part(l))
        /\ \A k \in 1 .. Len(part(l)) : part(l)[k] = s[l + k]
        /\ \A k \in 1 .. Len(part(l)) : L(l + k) = l
    BY <1>1
  <2>2. r \in 1 .. Len(part(l)) /\ G[l][i - l] = part(l)[r]
    <3>1. Reorders(order(l), Len(part(l))) /\ G[l][i - l] = part(l)[order(l)[i - l]]
      BY <1>3, <2>1
    <3> QED BY <2>1, <3>1 DEF Reorders
  <2>3. p[i] = l + r /\ t[i] = G[l][i - l]
    BY <1>4
  <2> HIDE DEF l, r
  <2>4. p[i] \in 1 .. Len(s) /\ L(p[i]) = l /\ t[i] = s[p[i]]
    BY <2>1, <2>2, <2>3
  <2>5. t[i] \in Slot
    BY <2>4
  <2> QED BY <2>2, <2>4, <2>5 DEF l, r
<1>6. ASSUME NEW i \in 1 .. Len(s), NEW j \in 1 .. Len(s), p[i] = p[j] PROVE i = j
  <2>1. L(i) = L(j)
    BY <1>5, <1>6
  <2> DEFINE l == L(i)
  <2>2. /\ l \in Nat /\ i - l \in 1 .. Len(part(l)) /\ j - l \in 1 .. Len(part(l))
        /\ Reorders(order(l), Len(part(l)))
    BY <1>1, <1>3, <2>1
  <2>3. p[i] = l + order(l)[i - l] /\ p[j] = l + order(l)[j - l]
    BY <1>4, <2>1
  <2> HIDE DEF l
  <2>4. order(l)[i - l] \in 1 .. Len(part(l)) /\ order(l)[j - l] \in 1 .. Len(part(l))
    BY <1>5, <2>1 DEF l
  <2>5. order(l)[i - l] = order(l)[j - l]
    <3> DEFINE a == order(l)[i - l]
               b == order(l)[j - l]
    <3>0. a \in Int /\ b \in Int
      BY <2>4
    <3>1. a \in Int /\ b \in Int /\ l + a = l + b
      BY <3>0, <1>6, <2>3, Zenon
    <3> HIDE DEF a, b
    <3>2. a = b
      BY <2>2, <3>1
    <3> QED BY <3>2 DEF a, b
  <2>6. i - l = j - l
    BY <2>2, <2>5 DEF Reorders
  <2> QED BY <2>2, <2>6
<1>7. Reorders(p, Len(s))
  <2>1. p = [i \in 1 .. Len(s) |-> p[i]]
    BY DEF p
  <2>2. p \in [1 .. Len(s) -> 1 .. Len(s)]
    BY <1>5, <2>1
  <2> QED BY <1>6, <2>2 DEF Reorders
<1>8. t \in Seq(Slot) /\ Len(t) = Len(s)
  <2>1. t = [i \in 1 .. Len(s) |-> t[i]]
    BY DEF t
  <2> QED BY <1>5, <2>1
<1>9. Rearranged(s, t)
  BY <1>5, <1>7, <1>8 DEF Rearranged
<1> QED BY <1>9 DEF t, L

(* If each of them is ordered, all of them are.                            *)
LEMMA PartsAreOrdered ==
  ASSUME NEW s \in Seq(Slot), NEW n \in Nat \ {0}, NEW G,
         \A i \in 1 .. Len(s) : Len(G[Left(i, n)]) = Len(PartAt(s, Left(i, n), n)),
         \A i \in 1 .. Len(s) : Ordered(G[Left(i, n)])
  PROVE  OrderedParts([i \in 1 .. Len(s) |-> G[Left(i, n)][i - Left(i, n)]], n)
<1> DEFINE t == [i \in 1 .. Len(s) |-> G[Left(i, n)][i - Left(i, n)]]
<1>1. \A i \in 1 .. Len(s) : t[i] = G[Left(i, n)][i - Left(i, n)]
  OBVIOUS
<1> HIDE DEF t
<1>2. ASSUME NEW i \in 1 .. Len(s) - 1, i % n # 0 PROVE ~After(t[i], t[i + 1])
  <2> DEFINE l == Left(i, n)
  <2>1. i \in 1 .. Len(s) /\ i + 1 \in 1 .. Len(s) /\ i \in Nat \ {0} /\ i + 1 \in Nat \ {0}
    OBVIOUS
  <2>2. /\ l \in Nat /\ Len(PartAt(s, l, n)) = Lesser(l + n, Len(s)) - l
        /\ i - l \in 1 .. Len(PartAt(s, l, n))
    BY <2>1, PartAtIs
  <2>3. /\ l < i /\ i <= l + n
        /\ \A j \in Nat \ {0} : l < j /\ j <= l + n => Left(j, n) = l
        /\ \E p \in Nat : l = p * n
    BY <2>1, LeftIs
  <2>4. t[i] = G[l][i - l] /\ t[i + 1] = G[Left(i + 1, n)][(i + 1) - Left(i + 1, n)]
    BY <1>1, <2>1
  <2>5. Len(G[l]) = Len(PartAt(s, l, n)) /\ Ordered(G[l])
    BY <2>1
  <2> HIDE DEF l
  <2>6. i # l + n
    <3> SUFFICES ASSUME i = l + n PROVE FALSE
      OBVIOUS
    <3>1. PICK p \in Nat : l = p * n
      BY <2>3
    <3>2. i = (p + 1) * n + 0
      BY <3>1
    <3>3. i % n = 0
      <4>1. p + 1 \in Nat /\ 0 \in 0 .. n - 1
        OBVIOUS
      <4> QED BY <3>2, <4>1, Remainder
    <3> QED BY <1>2, <3>3
  <2>7. Left(i + 1, n) = l /\ (i + 1) - l = (i - l) + 1 /\ i - l \in 1 .. Len(G[l]) - 1
    <3>1. l < i + 1 /\ i + 1 <= l + n
      BY <2>1, <2>2, <2>3, <2>6
    <3>2. i + 1 <= Lesser(l + n, Len(s))
      BY <2>1, <2>2, <3>1 DEF Lesser
    <3>3. Lesser(l + n, Len(s)) \in Nat
      BY <2>1, <2>2 DEF Lesser
    <3> QED BY <2>1, <2>2, <2>3, <2>5, <3>1, <3>2, <3>3
  <2> QED BY <2>4, <2>5, <2>7 DEF Ordered
<1>3. Len(t) = Len(s)
  BY DEF t
<1> QED BY <1>2, <1>3 DEF OrderedParts, t

(* Rearranging twice.                                                      *)
LEMMA RearrangedAgain ==
  ASSUME NEW s \in Seq(Slot), NEW t, NEW u, Rearranged(s, t), Rearranged(t, u)
  PROVE  Rearranged(s, u)
<1> DEFINE n == Len(s)
<1>1. PICK p : Reorders(p, n) /\ \A i \in 1 .. n : t[i] = s[p[i]]
  BY DEF Rearranged
<1>2. PICK q : Reorders(q, Len(t)) /\ \A i \in 1 .. Len(t) : u[i] = t[q[i]]
  BY DEF Rearranged
<1>3. u \in Seq(Slot) /\ Len(u) = n /\ Len(t) = n
  BY DEF Rearranged
<1> HIDE DEF n
<1> DEFINE r == [i \in 1 .. n |-> p[q[i]]]
<1>4. \A i \in 1 .. n : q[i] \in 1 .. n /\ p[i] \in 1 .. n
  BY <1>1, <1>2, <1>3 DEF Reorders
<1>5. Reorders(r, n)
  <2>1. r \in [1 .. n -> 1 .. n]
    BY <1>4
  <2>2. ASSUME NEW i \in 1 .. n, NEW j \in 1 .. n, r[i] = r[j] PROVE i = j
    <3>1. p[q[i]] = p[q[j]]
      BY <2>2
    <3>2. q[i] = q[j]
      BY <1>1, <1>4, <3>1 DEF Reorders
    <3> QED BY <1>2, <1>3, <3>2 DEF Reorders
  <2> QED BY <2>1, <2>2 DEF Reorders
<1>6. \A i \in 1 .. n : u[i] = s[r[i]]
  BY <1>1, <1>2, <1>3, <1>4
<1> QED BY <1>3, <1>5, <1>6 DEF Rearranged, n

(* The runs at the beginning.                                              *)
LEMMA RunsAreSorted ==
  ASSUME NEW s \in Seq(Slot)
  PROVE  /\ Rearranged(s, InParts(s, Run, InsertionSort))
         /\ OrderedParts(InParts(s, Run, InsertionSort), Run)
<1> DEFINE n == Run
           Lefts == {Left(i, n) : i \in 1 .. Len(s)}
           G == [l \in Lefts |-> InsertionSort(PartAt(s, l, n))]
<1>1. n \in Nat \ {0}
  BY ContainerAssumption
<1>2. InParts(s, Run, InsertionSort)
        = [i \in 1 .. Len(s) |-> InsertionSort(PartAt(s, Left(i, n), n))[i - Left(i, n)]]
  BY DEF InParts, PartAt, Left
<1>3. \A i \in 1 .. Len(s) : G[Left(i, n)] = InsertionSort(PartAt(s, Left(i, n), n))
  OBVIOUS
<1> HIDE DEF n, G
<1>4. InParts(s, Run, InsertionSort) = [i \in 1 .. Len(s) |-> G[Left(i, n)][i - Left(i, n)]]
  BY <1>2, <1>3
<1>5. \A i \in 1 .. Len(s) : Rearranged(PartAt(s, Left(i, n), n), G[Left(i, n)])
                             /\ Ordered(G[Left(i, n)])
  <2> TAKE i \in 1 .. Len(s)
  <2>1. PartAt(s, Left(i, n), n) \in Seq(Slot)
    BY <1>1, PartAtIs
  <2> QED BY <1>3, <2>1, InsertionSortSorts
<1>6. \A i \in 1 .. Len(s) : Len(G[Left(i, n)]) = Len(PartAt(s, Left(i, n), n))
  BY <1>5 DEF Rearranged
<1>7. Rearranged(s, [i \in 1 .. Len(s) |-> G[Left(i, n)][i - Left(i, n)]])
  BY <1>1, <1>5, PartsAreRearranged
<1>8. OrderedParts([i \in 1 .. Len(s) |-> G[Left(i, n)][i - Left(i, n)]], n)
  BY <1>1, <1>5, <1>6, PartsAreOrdered
<1> QED BY <1>4, <1>7, <1>8 DEF n

(* The two halves of a part that is twice as wide are ordered.             *)
LEMMA HalvesAreOrdered ==
  ASSUME NEW s \in Seq(Slot), NEW w \in Nat \ {0}, OrderedParts(s, w),
         NEW i \in 1 .. Len(s)
  PROVE  LET part == PartAt(s, Left(i, 2 * w), 2 * w)
             mid  == Lesser(w, Len(part))
         IN  /\ part \in Seq(Slot)
             /\ SubSeq(part, 1, mid) \in Seq(Slot) /\ Ordered(SubSeq(part, 1, mid))
             /\ SubSeq(part, mid + 1, Len(part)) \in Seq(Slot)
             /\ Ordered(SubSeq(part, mid + 1, Len(part)))
             /\ SubSeq(part, 1, mid) \o SubSeq(part, mid + 1, Len(part)) = part
<1> DEFINE l    == Left(i, 2 * w)
           part == PartAt(s, l, 2 * w)
           mid  == Lesser(w, Len(part))
           a    == SubSeq(part, 1, mid)
           b    == SubSeq(part, mid + 1, Len(part))
<1>1. 2 * w \in Nat \ {0} /\ i \in Nat \ {0}
  OBVIOUS
<1>2. PICK p \in Nat : l = p * (2 * w)
  BY <1>1, LeftIs
<1>3. /\ l \in Nat /\ part \in Seq(Slot) /\ l + Len(part) <= Len(s)
      /\ Len(part) = Lesser(l + 2 * w, Len(s)) - l
      /\ \A r \in 1 .. Len(part) : part[r] = s[l + r]
  BY <1>1, PartAtIs
<1> HIDE DEF l, part
<1>4. Len(part) \in Nat /\ mid \in Nat /\ mid <= Len(part) /\ mid <= w
      /\ (mid = w \/ mid = Len(part))
  BY <1>3 DEF Lesser
<1>5. Len(part) <= 2 * w
  BY <1>3 DEF Lesser
<1> HIDE DEF mid
<1>6. a \in Seq(Slot) /\ Len(a) = mid /\ \A r \in 1 .. mid : a[r] = part[r]
  <2>1. mid \in 0 .. Len(part)
    BY <1>4
  <2>2. /\ SubSeq(part, 0 + 1, mid) \in Seq(Slot) /\ Len(SubSeq(part, 0 + 1, mid)) = mid - 0
        /\ \A r \in 1 .. mid - 0 : SubSeq(part, 0 + 1, mid)[r] = part[0 + r]
    BY <1>3, <2>1, SubSeqIs
  <2> QED BY <1>4, <2>2
<1>7. /\ b \in Seq(Slot) /\ Len(b) = Len(part) - mid
      /\ \A r \in 1 .. Len(part) - mid : b[r] = part[mid + r]
  <2>1. Len(part) \in mid .. Len(part)
    BY <1>4
  <2> QED BY <1>3, <1>4, <2>1, SubSeqIs
<1> HIDE DEF a, b
<1>8. a \o b = part
  <2> DEFINE c == a \o b
  <2>1. a \in Seq(Slot) /\ b \in Seq(Slot)
    BY <1>6, <1>7
  <2>2. c \in Seq(Slot) /\ Len(c) = Len(a) + Len(b)
    BY <2>1
  <2>3. Len(c) = Len(part)
    <3> HIDE DEF c
    <3> QED BY <1>4, <1>6, <1>7, <2>2
  <2>4. ASSUME NEW r \in 1 .. Len(part) PROVE c[r] = part[r]
    <3>1. CASE r <= mid
      BY <1>4, <1>6, <1>7, <3>1
    <3>2. CASE r > mid
      <4>1. c[r] = b[r - mid] /\ r - mid \in 1 .. Len(part) - mid /\ mid + (r - mid) = r
        BY <1>4, <1>6, <1>7, <3>2
      <4> HIDE DEF c
      <4> QED BY <1>7, <4>1
    <3> HIDE DEF c
    <3> QED BY <1>4, <3>1, <3>2
  <2> HIDE DEF c
  <2>5. c = [r \in 1 .. Len(part) |-> c[r]] /\ part = [r \in 1 .. Len(part) |-> part[r]]
    BY <1>3, <2>2, <2>3
  <2>6. c = part
    BY <2>4, <2>5
  <2> QED BY <2>6 DEF c
<1>9. \A r \in 1 .. w - 1 : (l + r) % w = r /\ (l + w + r) % w = r
  <2> TAKE r \in 1 .. w - 1
  <2>1. l + r = (2 * p) * w + r /\ l + w + r = (2 * p + 1) * w + r
    BY <1>2
  <2>2. 2 * p \in Nat /\ 2 * p + 1 \in Nat /\ r \in 0 .. w - 1
    OBVIOUS
  <2> QED BY <2>1, <2>2, Remainder
<1>10. \A j \in 1 .. Len(s) - 1 : j % w # 0 => ~After(s[j], s[j + 1])
  BY DEF OrderedParts
<1>11. ASSUME NEW r \in 1 .. Len(a) - 1 PROVE ~After(a[r], a[r + 1])
  <2>1. r \in 1 .. mid - 1 /\ r \in 1 .. w - 1 /\ r + 1 \in 1 .. mid /\ r \in 1 .. mid
    BY <1>4, <1>6
  <2>2. a[r] = s[l + r] /\ a[r + 1] = s[l + (r + 1)]
    BY <1>3, <1>4, <1>6, <2>1
  <2>3. l + (r + 1) = (l + r) + 1 /\ l + r \in 1 .. Len(s) - 1
    BY <1>3, <1>4, <2>1
  <2>4. (l + r) % w # 0
    BY <1>9, <2>1
  <2> QED BY <1>10, <2>2, <2>3, <2>4
<1>12. ASSUME NEW r \in 1 .. Len(b) - 1 PROVE ~After(b[r], b[r + 1])
  <2>1. mid = w /\ r \in 1 .. w - 1 /\ r + 1 \in 1 .. Len(part) - mid /\ r \in 1 .. Len(part) - mid
    BY <1>4, <1>5, <1>7
  <2>2. b[r] = part[w + r] /\ b[r + 1] = part[w + (r + 1)]
    BY <1>7, <2>1
  <2>3. b[r] = s[l + (w + r)] /\ b[r + 1] = s[l + (w + (r + 1))]
    <3>1. w + r \in 1 .. Len(part) /\ w + (r + 1) \in 1 .. Len(part)
      BY <1>4, <2>1
    <3> QED BY <1>3, <2>2, <3>1
  <2>4. /\ l + (w + r) = l + w + r /\ l + (w + (r + 1)) = (l + w + r) + 1
        /\ l + w + r \in 1 .. Len(s) - 1
    BY <1>3, <1>4, <2>1
  <2>5. (l + w + r) % w # 0
    BY <1>9, <2>1
  <2> QED BY <1>10, <2>3, <2>4, <2>5
<1>13. Ordered(a) /\ Ordered(b)
  BY <1>11, <1>12 DEF Ordered
<1> QED BY <1>3, <1>6, <1>7, <1>8, <1>13 DEF a, b, mid, part, l

(* A pass over parts that are ordered makes parts twice as wide that are.  *)
LEMMA MergePassSorts ==
  ASSUME NEW s \in Seq(Slot), NEW w \in Nat \ {0}, OrderedParts(s, w)
  PROVE  Rearranged(s, MergePass(s, w)) /\ OrderedParts(MergePass(s, w), 2 * w)
<1> DEFINE n == 2 * w
           Halves(part) == LET mid == Lesser(w, Len(part))
                           IN  Merge(SubSeq(part, 1, mid), SubSeq(part, mid + 1, Len(part)))
           Lefts == {Left(i, n) : i \in 1 .. Len(s)}
           G == [l \in Lefts |-> Halves(PartAt(s, l, n))]
<1>1. n \in Nat \ {0} /\ n = 2 * w
  OBVIOUS
<1>2. MergePass(s, w)
        = [i \in 1 .. Len(s) |-> Halves(PartAt(s, Left(i, n), n))[i - Left(i, n)]]
  BY DEF MergePass, InParts, PartAt, Left
<1>3. \A i \in 1 .. Len(s) : G[Left(i, n)] = Halves(PartAt(s, Left(i, n), n))
  <2> HIDE DEF Halves
  <2> QED OBVIOUS
<1> HIDE DEF n, G
<1>4. MergePass(s, w) = [i \in 1 .. Len(s) |-> G[Left(i, n)][i - Left(i, n)]]
  <2> HIDE DEF Halves
  <2> QED BY <1>2, <1>3
<1>5. ASSUME NEW i \in 1 .. Len(s)
      PROVE  Rearranged(PartAt(s, Left(i, n), n), G[Left(i, n)]) /\ Ordered(G[Left(i, n)])
  <2> DEFINE part == PartAt(s, Left(i, n), n)
             mid == Lesser(w, Len(part))
             a == SubSeq(part, 1, mid)
             b == SubSeq(part, mid + 1, Len(part))
  <2>1. /\ part \in Seq(Slot) /\ a \in Seq(Slot) /\ Ordered(a)
        /\ b \in Seq(Slot) /\ Ordered(b) /\ a \o b = part
    BY HalvesAreOrdered DEF n
  <2>2. G[Left(i, n)] = Merge(a, b)
    BY <1>3
  <2> HIDE DEF part, a, b
  <2>3. Rearranged(a \o b, Merge(a, b)) /\ Ordered(Merge(a, b))
    BY <2>1, MergeIsRearranged, MergeIsOrdered
  <2> QED BY <2>1, <2>2, <2>3 DEF part
<1>6. \A i \in 1 .. Len(s) : Len(G[Left(i, n)]) = Len(PartAt(s, Left(i, n), n))
  BY <1>5 DEF Rearranged
<1>7. Rearranged(s, [i \in 1 .. Len(s) |-> G[Left(i, n)][i - Left(i, n)]])
  BY <1>1, <1>5, PartsAreRearranged
<1>8. OrderedParts([i \in 1 .. Len(s) |-> G[Left(i, n)][i - Left(i, n)]], n)
  BY <1>1, <1>5, <1>6, PartsAreOrdered
<1> QED BY <1>1, <1>4, <1>7, <1>8

(* kit_tim_sort sorts: the same elements, and none that comes after the    *)
(* next, however many there are and however long the runs.                 *)
THEOREM TimSortSorts ==
  ASSUME NEW s \in Seq(Slot)
  PROVE  Rearranged(s, TimSort(s)) /\ Ordered(TimSort(s))
<1> DEFINE n == Len(s)
           runs == [width |-> Run, seq |-> InParts(s, Run, InsertionSort)]
           Pass(r) == IF r.width >= n THEN r
                      ELSE [width |-> 2 * r.width, seq |-> MergePass(r.seq, r.width)]
           Recursion(f) == f = [k \in 0 .. n |-> IF k = 0 THEN runs ELSE Pass(f[k - 1])]
           S == {r \in [width : Nat \ {0}, seq : Seq(Slot)] : OrderedParts(r.seq, r.width)}
           step == [x \in (1 .. n) \X S |-> Pass(x[2])]
           pass == CHOOSE f : Recursion(f)
<1>1. TimSort(s) = pass[n].seq
  BY DEF TimSort
<1>2. n \in Nat /\ n = Len(s)
  OBVIOUS
<1>3. /\ runs \in S /\ Rearranged(s, runs.seq) /\ runs.width >= 1
  <2>1. Run \in Nat \ {0}
    BY ContainerAssumption
  <2>2. InParts(s, Run, InsertionSort) \in Seq(Slot)
    BY RunsAreSorted DEF Rearranged
  <2> QED BY <2>1, <2>2, RunsAreSorted
<1>4. ASSUME NEW r \in S
      PROVE  /\ Pass(r) \in S /\ Rearranged(r.seq, Pass(r).seq)
             /\ Pass(r).width >= n \/ Pass(r).width > r.width
  <2>1. r \in [width : Nat \ {0}, seq : Seq(Slot)] /\ OrderedParts(r.seq, r.width)
    OBVIOUS
  <2>2. CASE r.width >= n
    <3>1. Rearranged(r.seq, r.seq)
      <4>1. Reorders([i \in 1 .. Len(r.seq) |-> i], Len(r.seq))
        BY DEF Reorders
      <4> QED BY <2>1, <4>1 DEF Rearranged
    <3> QED BY <2>2, <3>1
  <2>3. CASE r.width < n
    <3>1. Rearranged(r.seq, MergePass(r.seq, r.width))
          /\ OrderedParts(MergePass(r.seq, r.width), 2 * r.width)
      BY <2>1, MergePassSorts
    <3>2. MergePass(r.seq, r.width) \in Seq(Slot) /\ 2 * r.width \in Nat \ {0}
      BY <2>1, <3>1 DEF Rearranged
    <3>3. Pass(r) = [width |-> 2 * r.width, seq |-> MergePass(r.seq, r.width)]
      BY <1>2, <2>1, <2>3
    <3> HIDE DEF Pass
    <3> QED BY <2>1, <3>1, <3>2, <3>3
  <2> QED BY <1>2, <2>1, <2>2, <2>3
<1> HIDE DEF n, runs, Pass
<1>5. \E f : Recursion(f)
  <2>1. step \in [(1 .. n) \X S -> S]
    <3>1. \A x \in (1 .. n) \X S : Pass(x[2]) \in S
      BY <1>4
    <3> HIDE DEF S
    <3> QED BY <3>1
  <2> HIDE DEF S, step
  <2>2. PICK f : Recursive(f, S, runs, n, step)
    BY <1>2, <1>3, <2>1, RecursionExists
  <2>3. ASSUME NEW k \in 1 .. n PROVE f[k] = Pass(f[k - 1])
    <3>1. f[k] = step[<<k, f[k - 1]>>] /\ <<k, f[k - 1]>> \in (1 .. n) \X S
      BY <2>2, <1>2 DEF Recursive
    <3> QED BY <3>1 DEF step
  <2>4. Recursion(f)
    BY <2>2, <2>3, <1>2 DEF Recursive
  <2> QED BY <2>4
<1>6. Recursion(pass)
  BY <1>5
<1> HIDE DEF pass
<1>7. pass[0] = runs /\ \A k \in 1 .. n : pass[k] = Pass(pass[k - 1])
  BY <1>2, <1>6
<1> DEFINE Done(k) == /\ pass[k] \in S /\ Rearranged(s, pass[k].seq)
                      /\ pass[k].width >= n \/ pass[k].width > k
           good == {k \in 0 .. n : Done(k)}
<1> HIDE DEF S
<1>8. 0 \in good
  BY <1>2, <1>3, <1>7 DEF S
<1>9. ASSUME NEW k \in 1 .. n, k - 1 \in good PROVE k \in good
  <2>1. Done(k - 1)
    BY <1>9
  <2>2. pass[k] = Pass(pass[k - 1])
    BY <1>7
  <2>3. /\ pass[k] \in S /\ Rearranged(pass[k - 1].seq, pass[k].seq)
        /\ pass[k].width >= n \/ pass[k].width > pass[k - 1].width
    BY <2>1, <2>2, <1>4
  <2>4. Rearranged(s, pass[k].seq)
    BY <2>1, <2>3, RearrangedAgain
  <2>5. pass[k - 1].width \in Nat /\ pass[k].width \in Nat
    BY <2>1, <2>3 DEF S
  <2>6. pass[k].width >= n \/ pass[k].width > k
    <3>1. CASE pass[k - 1].width >= n
      <4>1. pass[k] = pass[k - 1]
        BY <2>2, <3>1 DEF Pass
      <4> QED BY <3>1, <4>1
    <3>2. CASE pass[k - 1].width > k - 1
      BY <1>2, <2>3, <2>5, <3>2
    <3> QED BY <2>1, <3>1, <3>2
  <2> QED BY <2>3, <2>4, <2>6
<1> HIDE DEF good
<1>10. n \in good
  <2>1. \A k \in 0 .. n : k \in good
    BY <1>2, <1>8, <1>9, Upward
  <2> QED BY <1>2, <2>1
<1>11. Done(n)
  BY <1>10 DEF good
<1> DEFINE t == pass[n].seq
           w == pass[n].width
<1>12. t \in Seq(Slot) /\ Len(t) = n /\ w \in Nat \ {0} /\ w >= n /\ OrderedParts(t, w)
  <2>1. w \in Nat \ {0} /\ OrderedParts(t, w)
    BY <1>11 DEF S
  <2>2. t \in Seq(Slot) /\ Len(t) = n
    BY <1>2, <1>11 DEF Rearranged
  <2> QED BY <1>2, <1>11, <2>1, <2>2
<1> HIDE DEF t, w
<1>13. ASSUME NEW i \in 1 .. n - 1 PROVE ~After(t[i], t[i + 1])
  <2>1. i \in 0 .. w - 1 /\ 0 \in Nat
    BY <1>2, <1>12
  <2>2. (0 * w + i) % w = i
    BY <1>12, <2>1, Remainder
  <2>3. 0 * w + i = i
    BY <1>12
  <2>4. i % w # 0
    BY <2>2, <2>3
  <2> QED BY <1>12, <2>4 DEF OrderedParts
<1>14. Ordered(t)
  BY <1>12, <1>13 DEF Ordered
<1> QED BY <1>1, <1>11, <1>14 DEF t

-----------------------------------------------------------------------------
(* How often a value is in a sequence.                                     *)
Many(s, v) == Cardinality({i \in DOMAIN s : s[i] = v})

(* 1 if it is so, 0 if not.                                                *)
One(b) == IF b THEN 1 ELSE 0

(* A number of times.                                                      *)
LEMMA ManyIsNat ==
  ASSUME NEW S, NEW s \in Seq(S), NEW v
  PROVE  IsFiniteSet({i \in DOMAIN s : s[i] = v}) /\ Many(s, v) \in Nat
<1>1. Len(s) \in Nat /\ DOMAIN s = 1 .. Len(s)
  OBVIOUS
<1>2. IsFiniteSet(1 .. Len(s))
  BY <1>1, FS_Interval
<1>3. {i \in DOMAIN s : s[i] = v} \in SUBSET (1 .. Len(s))
  BY <1>1
<1>4. IsFiniteSet({i \in DOMAIN s : s[i] = v})
  BY <1>2, <1>3, FS_Subset
<1> QED BY <1>4, FS_CardinalityType DEF Many

(* In two sequences, the one after the other.                              *)
LEMMA ManyOfBoth ==
  ASSUME NEW S, NEW s \in Seq(S), NEW t \in Seq(S), NEW v
  PROVE  Many(s \o t, v) = Many(s, v) + Many(t, v)
<1> DEFINE u == s \o t
           n == Len(s)
           A == {i \in DOMAIN s : s[i] = v}
           B == {i \in DOMAIN t : t[i] = v}
           C == {n + i : i \in B}
<1>1. /\ n \in Nat /\ n = Len(s) /\ Len(t) \in Nat
      /\ DOMAIN s = 1 .. n /\ DOMAIN t = 1 .. Len(t) /\ DOMAIN u = 1 .. n + Len(t)
      /\ \A i \in 1 .. n : u[i] = s[i]
      /\ \A i \in 1 .. Len(t) : u[n + i] = t[i]
  OBVIOUS
<1> HIDE DEF u, n
<1>2. {i \in DOMAIN u : u[i] = v} = A \cup C
  <2>1. ASSUME NEW i \in DOMAIN u PROVE u[i] = v <=> i \in A \cup C
    <3>1. CASE i <= n
      BY <1>1, <3>1
    <3>2. CASE i > n
      <4>1. i - n \in 1 .. Len(t) /\ n + (i - n) = i /\ i \notin A
        BY <1>1, <3>2
      <4>2. u[i] = t[i - n]
        BY <1>1, <4>1
      <4>3. i \in C <=> i - n \in B
        BY <1>1, <4>1
      <4> QED BY <1>1, <4>1, <4>2, <4>3
    <3> QED BY <1>1, <3>1, <3>2
  <2>2. A \cup C \subseteq DOMAIN u
    BY <1>1
  <2> HIDE DEF A, C
  <2> QED BY <2>1, <2>2
<1>3. A \cap C = {}
  BY <1>1
<1>4. IsFiniteSet(A) /\ IsFiniteSet(B) /\ Cardinality(A) \in Nat /\ Cardinality(B) \in Nat
  BY ManyIsNat, FS_CardinalityType
<1>5. IsFiniteSet(C) /\ Cardinality(C) = Cardinality(B)
  <2> DEFINE f == [i \in B |-> n + i]
  <2>1. f \in [B -> C]
    OBVIOUS
  <2>2. \A i, j \in B : f[i] = f[j] => i = j
    BY <1>1
  <2>3. \A c \in C : \E i \in B : f[i] = c
    OBVIOUS
  <2> HIDE DEF f, B, C
  <2>4. f \in Bijection(B, C)
    BY <2>1, <2>2, <2>3 DEF Bijection, Injection, Surjection, IsInjective
  <2>5. ExistsBijection(B, C)
    BY <2>4 DEF ExistsBijection
  <2> QED BY <1>4, <2>5, FS_Bijection
<1> HIDE DEF A, B, C
<1>6. Cardinality(A \cup C) = Cardinality(A) + Cardinality(B)
  <2>1. Cardinality(A \cup C) = Cardinality(A) + Cardinality(C) - Cardinality({})
    BY <1>3, <1>4, <1>5, FS_Union
  <2> QED BY <1>4, <1>5, <2>1, FS_EmptySet
<1> QED BY <1>2, <1>6 DEF Many, A, B, u

(* In none, and in one of one element.                                     *)
LEMMA ManyOfFew ==
  /\ \A v : Many(<<>>, v) = 0
  /\ \A v, w : Many(<<w>>, v) = One(w = v)
<1>1. ASSUME NEW v PROVE Many(<<>>, v) = 0
  <2>1. {i \in DOMAIN <<>> : <<>>[i] = v} = {}
    OBVIOUS
  <2> QED BY <2>1, FS_EmptySet DEF Many
<1>2. ASSUME NEW v, NEW w PROVE Many(<<w>>, v) = One(w = v)
  <2>1. CASE w = v
    <3>1. {i \in DOMAIN <<w>> : <<w>>[i] = v} = {1}
      BY <2>1
    <3> QED BY <2>1, <3>1, FS_Singleton DEF Many, One
  <2>2. CASE w # v
    <3>1. {i \in DOMAIN <<w>> : <<w>>[i] = v} = {}
      BY <2>2
    <3> QED BY <2>2, <3>1, FS_EmptySet DEF Many, One
  <2> QED BY <2>1, <2>2
<1> QED BY <1>1, <1>2

(* After one more.                                                         *)
LEMMA ManyAppended ==
  ASSUME NEW S, NEW s \in Seq(S), NEW w \in S, NEW v
  PROVE  Many(Append(s, w), v) = Many(s, v) + One(w = v)
<1>1. Append(s, w) = s \o <<w>> /\ <<w>> \in Seq(S)
  OBVIOUS
<1>2. Many(s \o <<w>>, v) = Many(s, v) + Many(<<w>>, v)
  BY <1>1, ManyOfBoth
<1> QED BY <1>1, <1>2, ManyOfFew

(* A sequence cut in two.                                                  *)
LEMMA ManyCut ==
  ASSUME NEW S, NEW s \in Seq(S), NEW n \in 0 .. Len(s), NEW v
  PROVE  /\ SubSeq(s, 1, n) \in Seq(S) /\ SubSeq(s, n + 1, Len(s)) \in Seq(S)
         /\ Many(s, v) = Many(SubSeq(s, 1, n), v) + Many(SubSeq(s, n + 1, Len(s)), v)
<1> DEFINE a == SubSeq(s, 1, n)
           b == SubSeq(s, n + 1, Len(s))
           c == a \o b
<1>1. a \in Seq(S) /\ Len(a) = n /\ \A r \in 1 .. n : a[r] = s[r]
  <2>1. /\ SubSeq(s, 0 + 1, n) \in Seq(S) /\ Len(SubSeq(s, 0 + 1, n)) = n - 0
        /\ \A r \in 1 .. n - 0 : SubSeq(s, 0 + 1, n)[r] = s[0 + r]
    BY SubSeqIs
  <2> QED BY <2>1
<1>2. b \in Seq(S) /\ Len(b) = Len(s) - n /\ \A r \in 1 .. Len(s) - n : b[r] = s[n + r]
  <2>1. Len(s) \in n .. Len(s) /\ n \in Nat
    OBVIOUS
  <2> QED BY <2>1, SubSeqIs
<1> HIDE DEF a, b
<1>3. c \in Seq(S) /\ Len(c) = Len(s)
  <2>0. a \in Seq(S) /\ b \in Seq(S)
    BY <1>1, <1>2
  <2>1. c \in Seq(S) /\ Len(c) = Len(a) + Len(b)
    BY <2>0
  <2> HIDE DEF c
  <2> QED BY <1>1, <1>2, <2>1
<1>4. ASSUME NEW r \in 1 .. Len(s) PROVE c[r] = s[r]
  <2>1. CASE r <= n
    BY <1>1, <1>2, <2>1
  <2>2. CASE r > n
    <3>1. c[r] = b[r - n] /\ r - n \in 1 .. Len(s) - n /\ n + (r - n) = r
      BY <1>1, <1>2, <2>2
    <3> HIDE DEF c
    <3> QED BY <1>2, <3>1
  <2> HIDE DEF c
  <2> QED BY <2>1, <2>2
<1> HIDE DEF c
<1>5. c = [r \in 1 .. Len(s) |-> c[r]] /\ s = [r \in 1 .. Len(s) |-> s[r]]
  BY <1>3
<1>6. c = s
  BY <1>4, <1>5
<1>7. Many(c, v) = Many(a, v) + Many(b, v)
  BY <1>1, <1>2, ManyOfBoth DEF c
<1> QED BY <1>1, <1>2, <1>6, <1>7 DEF a, b

(* One element put in, taken out, or replaced.                             *)
LEMMA ManyInserted ==
  ASSUME NEW S, NEW s \in Seq(S), NEW i \in 1 .. Len(s) + 1, NEW w \in S, NEW v
  PROVE  Many(InsertAt(s, i, w), v) = Many(s, v) + One(w = v)
<1> DEFINE a == SubSeq(s, 1, i - 1)
           b == SubSeq(s, i, Len(s))
<1>1. i - 1 \in 0 .. Len(s) /\ (i - 1) + 1 = i
  OBVIOUS
<1>2. a \in Seq(S) /\ b \in Seq(S) /\ Many(s, v) = Many(a, v) + Many(b, v)
  <2>1. /\ SubSeq(s, 1, i - 1) \in Seq(S) /\ SubSeq(s, (i - 1) + 1, Len(s)) \in Seq(S)
        /\ Many(s, v) = Many(SubSeq(s, 1, i - 1), v) + Many(SubSeq(s, (i - 1) + 1, Len(s)), v)
    BY <1>1, ManyCut
  <2> QED BY <1>1, <2>1
<1>3. InsertAt(s, i, w) = a \o <<w>> \o b
  BY DEF InsertAt
<1> HIDE DEF a, b
<1>4. a \o <<w>> \in Seq(S) /\ <<w>> \in Seq(S)
  BY <1>2
<1>5. Many(a \o <<w>>, v) = Many(a, v) + Many(<<w>>, v)
  BY <1>2, <1>4, ManyOfBoth
<1>6. Many(a \o <<w>> \o b, v) = Many(a \o <<w>>, v) + Many(b, v)
  BY <1>2, <1>4, ManyOfBoth
<1>7. Many(a, v) \in Nat /\ Many(b, v) \in Nat /\ One(w = v) \in Nat
  BY <1>2, ManyIsNat DEF One
<1> QED BY <1>2, <1>3, <1>5, <1>6, <1>7, ManyOfFew

(* Taken out, it is once less there.                                       *)
LEMMA ManyRemoved ==
  ASSUME NEW S, NEW s \in Seq(S), NEW i \in 1 .. Len(s), NEW v
  PROVE  Many(RemoveAt(s, i), v) = Many(s, v) - One(s[i] = v)
<1> DEFINE t == RemoveAt(s, i)
<1>1. t = [j \in 1 .. Len(s) - 1 |-> IF j < i THEN s[j] ELSE s[j + 1]]
  BY RemoveAtIs
<1> HIDE DEF t
<1>2. t \in Seq(S) /\ Len(t) = Len(s) - 1
  BY <1>1
<1>3. i \in 1 .. Len(t) + 1 /\ s[i] \in S
  BY <1>2
<1>4. InsertAt(t, i, s[i])
        = [j \in 1 .. Len(t) + 1 |-> IF j < i THEN t[j] ELSE IF j = i THEN s[i] ELSE t[j - 1]]
  <2>1. \A w \in S :
          InsertAt(t, i, w)
            = [j \in 1 .. Len(t) + 1 |-> IF j < i THEN t[j] ELSE IF j = i THEN w ELSE t[j - 1]]
    BY <1>2, <1>3, InsertAtIs
  <2> QED BY <1>3, <2>1
<1>5. InsertAt(t, i, s[i]) = s
  <2> DEFINE u == [j \in 1 .. Len(t) + 1 |->
                     IF j < i THEN t[j] ELSE IF j = i THEN s[i] ELSE t[j - 1]]
  <2>1. u = [j \in 1 .. Len(s) |-> u[j]] /\ s = [j \in 1 .. Len(s) |-> s[j]]
    BY <1>2
  <2>2. ASSUME NEW j \in 1 .. Len(s) PROVE u[j] = s[j]
    <3>1. u[j] = IF j < i THEN t[j] ELSE IF j = i THEN s[i] ELSE t[j - 1]
      BY <1>2
    <3> HIDE DEF u
    <3>2. CASE j < i
      <4>1. j \in 1 .. Len(s) - 1
        BY <3>2
      <4> QED BY <1>1, <3>1, <3>2, <4>1
    <3>3. CASE j = i
      BY <3>1, <3>3
    <3>4. CASE j > i
      <4>1. j - 1 \in 1 .. Len(s) - 1 /\ ~(j - 1 < i) /\ (j - 1) + 1 = j
        BY <3>4
      <4>2. t[j - 1] = s[(j - 1) + 1]
        BY <1>1, <4>1
      <4> QED BY <3>1, <3>4, <4>1, <4>2
    <3> QED BY <3>2, <3>3, <3>4
  <2> HIDE DEF u
  <2>3. u = s
    BY <2>1, <2>2
  <2> QED BY <1>4, <2>3 DEF u
<1>6. Many(s, v) = Many(t, v) + One(s[i] = v)
  BY <1>2, <1>3, <1>5, ManyInserted
<1>7. Many(t, v) \in Nat /\ One(s[i] = v) \in Nat
  BY <1>2, ManyIsNat DEF One
<1> QED BY <1>6, <1>7 DEF t

(* Replaced by another.                                                    *)
LEMMA ManyReplaced ==
  ASSUME NEW S, NEW s \in Seq(S), NEW i \in 1 .. Len(s), NEW w \in S, NEW v
  PROVE  Many([s EXCEPT ![i] = w], v) = Many(s, v) - One(s[i] = v) + One(w = v)
<1> DEFINE t == RemoveAt(s, i)
           u == [s EXCEPT ![i] = w]
<1>1. t = [j \in 1 .. Len(s) - 1 |-> IF j < i THEN s[j] ELSE s[j + 1]]
  BY RemoveAtIs
<1>2. u \in Seq(S) /\ Len(u) = Len(s) /\ u[i] = w
      /\ \A j \in 1 .. Len(s) : j # i => u[j] = s[j]
  OBVIOUS
<1> HIDE DEF t, u
<1>3. RemoveAt(u, i) = [j \in 1 .. Len(u) - 1 |-> IF j < i THEN u[j] ELSE u[j + 1]]
  BY <1>2, RemoveAtIs, Zenon
<1>4. RemoveAt(u, i) = t
  BY <1>1, <1>3, <1>2
<1>5. Many(t, v) = Many(s, v) - One(s[i] = v)
  BY ManyRemoved DEF t
<1>6. Many(t, v) = Many(u, v) - One(w = v)
  BY <1>2, <1>4, ManyRemoved
<1>7. Many(s, v) \in Nat /\ Many(u, v) \in Nat /\ One(s[i] = v) \in Nat /\ One(w = v) \in Nat
  BY <1>2, ManyIsNat DEF One
<1> QED BY <1>5, <1>6, <1>7 DEF u

(* In another order it is there as often.                                  *)
LEMMA ManyRearranged ==
  ASSUME NEW s \in Seq(Slot), NEW t, Rearranged(s, t), NEW v
  PROVE  Many(t, v) = Many(s, v)
<1> DEFINE n == Len(s)
           A == {i \in 1 .. n : t[i] = v}
           B == {i \in 1 .. n : s[i] = v}
<1>1. PICK p : Reorders(p, n) /\ \A i \in 1 .. n : t[i] = s[p[i]]
  BY DEF Rearranged
<1>2. t \in Seq(Slot) /\ Len(t) = n /\ n \in Nat /\ DOMAIN s = 1 .. n /\ DOMAIN t = 1 .. n
  BY DEF Rearranged
<1> HIDE DEF n
<1>3. p \in [1 .. n -> 1 .. n] /\ \A i, j \in 1 .. n : p[i] = p[j] => i = j
  BY <1>1 DEF Reorders
<1>4. p \in Surjection(1 .. n, 1 .. n)
  <2>1. p \in Injection(1 .. n, 1 .. n)
    BY <1>3 DEF Injection, IsInjective
  <2>2. IsFiniteSet(1 .. n)
    BY <1>2, FS_Interval
  <2> QED BY <2>1, <2>2, FS_Injection
<1> DEFINE f == [i \in A |-> p[i]]
<1>5. f \in [A -> B] /\ \A i, j \in A : f[i] = f[j] => i = j
  BY <1>1, <1>3
<1>6. \A b \in B : \E i \in A : f[i] = b
  <2> TAKE b \in B
  <2>1. PICK i \in 1 .. n : p[i] = b
    BY <1>4 DEF Surjection
  <2>2. i \in A
    BY <1>1, <2>1
  <2> QED BY <2>1, <2>2
<1>7. IsFiniteSet(A)
  <2>1. A = {i \in DOMAIN t : t[i] = v}
    BY <1>2
  <2> QED BY <1>2, <2>1, ManyIsNat
<1> HIDE DEF f, A, B
<1>8. ExistsBijection(A, B)
  <2>1. f \in Bijection(A, B)
    BY <1>5, <1>6 DEF Bijection, Injection, Surjection, IsInjective
  <2> QED BY <2>1 DEF ExistsBijection
<1>9. Cardinality(A) = Cardinality(B)
  BY <1>7, <1>8, FS_Bijection
<1> QED BY <1>2, <1>9 DEF Many, A, B

-----------------------------------------------------------------------------
(* Types.  The front of an array of slots.                                 *)
LEMMA FrontIs ==
  ASSUME NEW S, NEW s \in Seq(S), NEW n \in 0 .. Len(s)
  PROVE  /\ SubSeq(s, 1, n) \in Seq(S) /\ Len(SubSeq(s, 1, n)) = n
         /\ \A i \in 1 .. n : SubSeq(s, 1, n)[i] = s[i]
<1>1. /\ SubSeq(s, 0 + 1, n) \in Seq(S) /\ Len(SubSeq(s, 0 + 1, n)) = n - 0
      /\ \A r \in 1 .. n - 0 : SubSeq(s, 0 + 1, n)[r] = s[0 + r]
  BY SubSeqIs
<1> QED BY <1>1

(* It is the sequence that has its length and its elements.                *)
LEMMA FrontIsOnly ==
  ASSUME NEW S, NEW s \in Seq(S), NEW e \in Seq(S), Len(e) \in 0 .. Len(s),
         \A i \in 1 .. Len(e) : s[i] = e[i]
  PROVE  SubSeq(s, 1, Len(e)) = e
<1> DEFINE t == SubSeq(s, 1, Len(e))
<1>1. t \in Seq(S) /\ Len(t) = Len(e) /\ \A i \in 1 .. Len(e) : t[i] = e[i]
  BY FrontIs
<1> HIDE DEF t
<1>2. t = [i \in 1 .. Len(e) |-> t[i]] /\ e = [i \in 1 .. Len(e) |-> e[i]]
  BY <1>1
<1>3. t = e
  BY <1>1, <1>2
<1> QED BY <1>3 DEF t

(* The elements of the list are slots of the array.                        *)
LEMMA ElementsAre ==
  ASSUME TypeOK
  PROVE  /\ slots \in Seq(Slot) /\ size \in Nat /\ Len(slots) \in Nat /\ size <= Len(slots)
         /\ Elements \in Seq(Slot) /\ Len(Elements) = size
         /\ \A i \in 1 .. size : Elements[i] = slots[i]
<1>1. slots \in Seq(Slot) /\ size \in 0 .. Len(slots)
  BY DEF TypeOK, Capacity
<1>2. Elements = SubSeq(slots, 1, size)
  BY DEF Elements
<1> QED BY <1>1, <1>2, FrontIs

(* A longer array: what was there, and null.                               *)
LEMMA ReservedIs ==
  ASSUME TypeOK, NEW capacity \in Nat, size <= capacity
  PROVE  /\ Reserved(capacity) \in Seq(Slot) /\ Len(Reserved(capacity)) = capacity
         /\ \A i \in 1 .. size : Reserved(capacity)[i] = slots[i]
         /\ \A i \in size + 1 .. capacity : Reserved(capacity)[i] = Null
<1>1. \A i \in 1 .. capacity : (IF i <= size THEN slots[i] ELSE Null) \in Slot
  <2>1. Null \in Slot
    BY DEF Slot, Value
  <2> QED BY <2>1, ElementsAre
<1>2. Reserved(capacity) = [i \in 1 .. capacity |-> IF i <= size THEN slots[i] ELSE Null]
  BY DEF Reserved
<1>3. Reserved(capacity) \in Seq(Slot) /\ Len(Reserved(capacity)) = capacity
  BY <1>1, <1>2
<1>4. size \in Nat
  BY ElementsAre
<1> QED BY <1>2, <1>3, <1>4

(* The array an element is added to has a slot for it.                     *)
LEMMA GrownIs ==
  ASSUME TypeOK
  PROVE  /\ Grown \in Seq(Slot) /\ Len(Grown) \in Nat /\ size + 1 <= Len(Grown)
         /\ \A i \in 1 .. size : Grown[i] = slots[i] /\ Grown[i] \in Slot
         /\ Grown[size + 1] \in Slot
<1>1. /\ slots \in Seq(Slot) /\ size \in Nat /\ Len(slots) \in Nat /\ size <= Len(slots)
  BY ElementsAre
<1> DEFINE more == Larger(2 * Len(slots), 1)
<1>2. CASE size < Len(slots)
  <2>1. Grown = slots
    BY <1>2 DEF Grown, Capacity
  <2> QED BY <1>1, <1>2, <2>1
<1>3. CASE ~(size < Len(slots))
  <2>1. Grown = Reserved(more) /\ size = Len(slots)
    BY <1>1, <1>3 DEF Grown, Capacity
  <2>2. more \in Nat /\ size + 1 <= more
    BY <1>1, <2>1 DEF Larger
  <2> HIDE DEF more
  <2>3. /\ Reserved(more) \in Seq(Slot) /\ Len(Reserved(more)) = more
        /\ \A i \in 1 .. size : Reserved(more)[i] = slots[i]
    BY <1>1, <2>2, ReservedIs
  <2> QED BY <1>1, <2>1, <2>2, <2>3
<1> QED BY <1>2, <1>3

(* What each operation on the list makes of its elements.                  *)
Becomes(e) ==
  slots' \in Seq(Slot) /\ size' \in 0 .. Len(slots') /\ e \in Seq(Slot) /\ Elements' = e

(* The array holds them at its front.                                      *)
LEMMA BecomesIf ==
  ASSUME slots' \in Seq(Slot), NEW e \in Seq(Slot), size' = Len(e), Len(e) <= Len(slots'),
         \A i \in 1 .. Len(e) : slots'[i] = e[i]
  PROVE  Becomes(e)
<1>1. Len(e) \in 0 .. Len(slots')
  OBVIOUS
<1>2. SubSeq(slots', 1, Len(e)) = e
  BY <1>1, FrontIsOnly
<1>3. Elements' = SubSeq(slots', 1, size')
  BY DEF Elements
<1> QED BY <1>1, <1>2, <1>3 DEF Becomes

(* Appending.                                                              *)
LEMMA AppendBecomes ==
  ASSUME TypeOK, NEW v \in Slot, ListAppend(v)
  PROVE  Becomes(Append(Elements, v))
<1> DEFINE e == Append(Elements, v)
           g == Grown
<1>1. /\ g \in Seq(Slot) /\ Len(g) \in Nat /\ size + 1 <= Len(g)
      /\ \A i \in 1 .. size : g[i] = slots[i] /\ g[i] \in Slot
  BY GrownIs
<1>2. size \in Nat /\ Elements \in Seq(Slot) /\ Len(Elements) = size
      /\ \A i \in 1 .. size : Elements[i] = slots[i]
  BY ElementsAre
<1>3. e \in Seq(Slot) /\ Len(e) = size + 1 /\ e[size + 1] = v
      /\ \A i \in 1 .. size : e[i] = slots[i]
  BY <1>2
<1>4. slots' = [g EXCEPT ![size + 1] = v] /\ size' = size + 1
  BY DEF ListAppend
<1> HIDE DEF e, g
<1>5. slots' \in Seq(Slot) /\ Len(slots') = Len(g) /\ slots'[size + 1] = v
      /\ \A i \in 1 .. size : slots'[i] = slots[i]
  BY <1>1, <1>2, <1>4
<1>6. \A i \in 1 .. Len(e) : slots'[i] = e[i]
  BY <1>2, <1>3, <1>5
<1> QED BY <1>1, <1>3, <1>4, <1>5, <1>6, BecomesIf DEF e

(* Popping.                                                                *)
LEMMA PopBecomes ==
  ASSUME TypeOK, ListPop
  PROVE  Becomes(Front(Elements)) /\ size \in 1 .. Len(Elements)
         /\ Front(Elements) = RemoveAt(Elements, size)
<1>1. /\ slots \in Seq(Slot) /\ size \in Nat /\ Len(slots) \in Nat /\ size <= Len(slots)
      /\ Elements \in Seq(Slot) /\ Len(Elements) = size
      /\ \A i \in 1 .. size : Elements[i] = slots[i]
  BY ElementsAre
<1>2. size > 0 /\ size' = size - 1 /\ slots' = slots
  BY DEF ListPop
<1> DEFINE e == Front(Elements)
<1>3. size - 1 \in 0 .. Len(Elements) /\ e = SubSeq(Elements, 1, size - 1)
  BY <1>1, <1>2 DEF Front
<1> HIDE DEF e
<1>4. e \in Seq(Slot) /\ Len(e) = size - 1 /\ \A i \in 1 .. size - 1 : e[i] = Elements[i]
  BY <1>1, <1>3, FrontIs
<1>5. RemoveAt(Elements, size)
        = [j \in 1 .. Len(Elements) - 1 |-> IF j < size THEN Elements[j] ELSE Elements[j + 1]]
  <2>1. size \in 1 .. Len(Elements)
    BY <1>1, <1>2
  <2> QED BY <1>1, <2>1, RemoveAtIs, Zenon
<1>6. e = [j \in 1 .. size - 1 |-> e[j]]
  BY <1>4
<1>7. RemoveAt(Elements, size) = [j \in 1 .. size - 1 |-> Elements[j]]
  BY <1>1, <1>5
<1>8. e = RemoveAt(Elements, size)
  BY <1>4, <1>6, <1>7
<1>9. \A i \in 1 .. Len(e) : slots'[i] = e[i]
  BY <1>1, <1>2, <1>4
<1>10. Becomes(e)
  BY <1>1, <1>2, <1>4, <1>9, BecomesIf
<1> QED BY <1>1, <1>2, <1>8, <1>10 DEF e

(* Removing.                                                               *)
LEMMA RemoveBecomes ==
  ASSUME TypeOK, NEW i \in 1 .. size, ListRemove(i)
  PROVE  Becomes(RemoveAt(Elements, i))
<1>1. /\ slots \in Seq(Slot) /\ size \in Nat /\ Len(slots) \in Nat /\ size <= Len(slots)
      /\ Elements \in Seq(Slot) /\ Len(Elements) = size
      /\ \A j \in 1 .. size : Elements[j] = slots[j]
  BY ElementsAre
<1>2. /\ slots' = [j \in DOMAIN slots |-> IF j \in i .. size - 1 THEN slots[j + 1]
                                          ELSE IF j = size THEN Null ELSE slots[j]]
      /\ size' = size - 1
  BY DEF ListRemove
<1> DEFINE e == RemoveAt(Elements, i)
<1>3. e = [j \in 1 .. size - 1 |-> IF j < i THEN Elements[j] ELSE Elements[j + 1]]
  BY <1>1, RemoveAtIs
<1> HIDE DEF e
<1>4. e \in Seq(Slot) /\ Len(e) = size - 1
  BY <1>1, <1>3
<1>5. slots' \in Seq(Slot) /\ Len(slots') = Len(slots)
  <2>1. Null \in Slot
    BY DEF Slot, Value
  <2> QED BY <1>1, <1>2, <2>1
<1>6. \A j \in 1 .. size - 1 : slots'[j] = e[j]
  <2> TAKE j \in 1 .. size - 1
  <2>1. j \in DOMAIN slots /\ j # size
    BY <1>1
  <2>2. slots'[j] = IF j < i THEN slots[j] ELSE slots[j + 1]
    BY <1>2, <2>1
  <2>3. j \in 1 .. size /\ j + 1 \in 1 .. size
    BY <1>1
  <2> QED BY <1>1, <1>3, <2>2, <2>3
<1>7. Len(e) <= Len(slots') /\ \A j \in 1 .. Len(e) : slots'[j] = e[j]
  BY <1>1, <1>4, <1>5, <1>6
<1> QED BY <1>2, <1>4, <1>5, <1>7, BecomesIf DEF e

(* Inserting.                                                              *)
LEMMA InsertBecomes ==
  ASSUME TypeOK, NEW i \in 1 .. size + 1, NEW v \in Slot, ListInsert(i, v)
  PROVE  Becomes(InsertAt(Elements, i, v))
<1> DEFINE e == InsertAt(Elements, i, v)
           g == Grown
<1>1. /\ g \in Seq(Slot) /\ Len(g) \in Nat /\ size + 1 <= Len(g)
      /\ \A j \in 1 .. size : g[j] = slots[j] /\ g[j] \in Slot
      /\ g[size + 1] \in Slot
  BY GrownIs
<1>2. /\ slots' = [j \in DOMAIN g |-> IF j = i THEN v
                                      ELSE IF j \in i + 1 .. size + 1 THEN g[j - 1] ELSE g[j]]
      /\ size' = size + 1
  BY DEF ListInsert
<1>3. size \in Nat /\ Elements \in Seq(Slot) /\ Len(Elements) = size
      /\ \A j \in 1 .. size : Elements[j] = slots[j]
  BY ElementsAre
<1>4. e = [j \in 1 .. size + 1 |->
             IF j < i THEN Elements[j] ELSE IF j = i THEN v ELSE Elements[j - 1]]
  BY <1>3, InsertAtIs
<1> HIDE DEF e, g
<1>5. e \in Seq(Slot) /\ Len(e) = size + 1
  BY <1>3, <1>4
<1>6. slots' \in Seq(Slot) /\ Len(slots') = Len(g)
  <2>1. ASSUME NEW j \in 1 .. Len(g)
        PROVE  (IF j = i THEN v ELSE IF j \in i + 1 .. size + 1 THEN g[j - 1] ELSE g[j]) \in Slot
    <3>1. j \in i + 1 .. size + 1 => j - 1 \in 1 .. Len(g)
      BY <1>1, <1>3
    <3> QED BY <1>1, <3>1
  <2>2. DOMAIN g = 1 .. Len(g)
    BY <1>1
  <2> QED BY <1>1, <1>2, <2>1, <2>2
<1>7. \A j \in 1 .. size + 1 : slots'[j] = e[j]
  <2> TAKE j \in 1 .. size + 1
  <2>1. slots'[j] = IF j = i THEN v ELSE IF j \in i + 1 .. size + 1 THEN g[j - 1] ELSE g[j]
    BY <1>1, <1>2, <1>3
  <2>2. e[j] = IF j < i THEN Elements[j] ELSE IF j = i THEN v ELSE Elements[j - 1]
    BY <1>4
  <2>3. CASE j = i
    BY <2>1, <2>2, <2>3
  <2>4. CASE j < i
    <3>1. j \in 1 .. size /\ j \notin i + 1 .. size + 1
      BY <1>3, <2>4
    <3> QED BY <1>1, <1>3, <2>1, <2>2, <2>4, <3>1
  <2>5. CASE j > i
    <3>1. j - 1 \in 1 .. size /\ j \in i + 1 .. size + 1
      BY <1>3, <2>5
    <3> QED BY <1>1, <1>3, <2>1, <2>2, <2>5, <3>1
  <2> QED BY <1>3, <2>3, <2>4, <2>5
<1> QED BY <1>1, <1>2, <1>5, <1>6, <1>7, BecomesIf DEF e

(* Assigning.                                                              *)
LEMMA PutBecomes ==
  ASSUME TypeOK, NEW i \in 1 .. size, NEW v \in Slot, ListAssign(i, v)
  PROVE  Becomes([Elements EXCEPT ![i] = v])
<1> DEFINE e == [Elements EXCEPT ![i] = v]
<1>1. /\ slots \in Seq(Slot) /\ size \in Nat /\ Len(slots) \in Nat /\ size <= Len(slots)
      /\ Elements \in Seq(Slot) /\ Len(Elements) = size
      /\ \A j \in 1 .. size : Elements[j] = slots[j]
  BY ElementsAre
<1>2. slots' = [slots EXCEPT ![i] = v] /\ size' = size
  BY DEF ListAssign
<1>3. e \in Seq(Slot) /\ Len(e) = size /\ e[i] = v
      /\ \A j \in 1 .. size : j # i => e[j] = slots[j]
  BY <1>1
<1> HIDE DEF e
<1>4. slots' \in Seq(Slot) /\ Len(slots') = Len(slots) /\ slots'[i] = v
      /\ \A j \in 1 .. size : j # i => slots'[j] = slots[j]
  BY <1>1, <1>2
<1>5. \A j \in 1 .. size : slots'[j] = e[j]
  BY <1>3, <1>4
<1> QED BY <1>1, <1>2, <1>3, <1>4, <1>5, BecomesIf DEF e

(* Reserving.                                                              *)
LEMMA ReserveBecomes ==
  ASSUME TypeOK, NEW n \in Nat, ListReserve(n)
  PROVE  Becomes(Elements)
<1>1. /\ slots \in Seq(Slot) /\ size \in Nat /\ Len(slots) \in Nat /\ size <= Len(slots)
      /\ Elements \in Seq(Slot) /\ Len(Elements) = size
      /\ \A j \in 1 .. size : Elements[j] = slots[j]
  BY ElementsAre
<1> DEFINE c == Len(slots) + n
<1>2. slots' = Reserved(c) /\ size' = size /\ c \in Nat /\ size <= c
  BY <1>1 DEF ListReserve, Capacity
<1> HIDE DEF c
<1>3. /\ Reserved(c) \in Seq(Slot) /\ Len(Reserved(c)) = c
      /\ \A j \in 1 .. size : Reserved(c)[j] = slots[j]
  BY <1>2, ReservedIs
<1> QED BY <1>1, <1>2, <1>3, BecomesIf

(* Resizing: the elements that there were, cut, or some more behind them.  *)
LEMMA ResizeBecomes ==
  ASSUME TypeOK, NEW n \in Nat, ListResize(n)
  PROVE  /\ n < size => Becomes(SubSeq(Elements, 1, n))
         /\ n > size => /\ Becomes(Elements \o SubSeq(slots', size + 1, n))
                        /\ SubSeq(slots', size + 1, n) \in Seq(Slot)
                        /\ \A r \in 1 .. n - size :
                             SubSeq(slots', size + 1, n)[r] = slots'[size + r]
                        /\ Len(SubSeq(slots', size + 1, n)) = n - size
<1>1. /\ slots \in Seq(Slot) /\ size \in Nat /\ Len(slots) \in Nat /\ size <= Len(slots)
      /\ Elements \in Seq(Slot) /\ Len(Elements) = size
      /\ \A j \in 1 .. size : Elements[j] = slots[j]
  BY ElementsAre
<1>2. slots' \in Seq(Slot) /\ n <= Len(slots') /\ size' = n /\ n # size
      /\ \A i \in 1 .. size : i <= n => slots'[i] = slots[i]
  <2>1. CASE n > Len(slots)
    <3> DEFINE c == Larger(n, 2 * Len(slots))
    <3>1. slots' = Reserved(c) /\ size' = n /\ n # size
      BY <2>1 DEF ListResize, Capacity
    <3>2. c \in Nat /\ n <= c /\ size <= c
      BY <1>1, <2>1 DEF Larger
    <3> HIDE DEF c
    <3>3. /\ Reserved(c) \in Seq(Slot) /\ Len(Reserved(c)) = c
          /\ \A j \in 1 .. size : Reserved(c)[j] = slots[j]
      BY <3>2, ReservedIs
    <3> QED BY <3>1, <3>2, <3>3
  <2>2. CASE ~(n > Len(slots))
    <3>1. slots' = slots /\ size' = n /\ n # size
      BY <2>2 DEF ListResize, Capacity
    <3> QED BY <1>1, <2>2, <3>1
  <2> QED BY <2>1, <2>2
<1>3. ASSUME n < size PROVE Becomes(SubSeq(Elements, 1, n))
  <2> DEFINE e == SubSeq(Elements, 1, n)
  <2>1. n \in 0 .. Len(Elements)
    BY <1>1, <1>3
  <2>2. e \in Seq(Slot) /\ Len(e) = n /\ \A j \in 1 .. n : e[j] = Elements[j]
    BY <1>1, <2>1, FrontIs
  <2> HIDE DEF e
  <2>3. \A j \in 1 .. n : slots'[j] = e[j]
    BY <1>1, <1>2, <1>3, <2>2
  <2> QED BY <1>2, <2>2, <2>3, BecomesIf DEF e
<1>4. ASSUME n > size
      PROVE  /\ Becomes(Elements \o SubSeq(slots', size + 1, n))
             /\ SubSeq(slots', size + 1, n) \in Seq(Slot)
             /\ \A r \in 1 .. n - size : SubSeq(slots', size + 1, n)[r] = slots'[size + r]
             /\ Len(SubSeq(slots', size + 1, n)) = n - size
  <2> DEFINE b == SubSeq(slots', size + 1, n)
             e == Elements \o b
  <2>1. n \in size .. Len(slots')
    BY <1>1, <1>2, <1>4
  <2>2. b \in Seq(Slot) /\ Len(b) = n - size /\ \A r \in 1 .. n - size : b[r] = slots'[size + r]
    BY <1>1, <1>2, <2>1, SubSeqIs
  <2> HIDE DEF b
  <2>3. e \in Seq(Slot) /\ Len(e) = Len(Elements) + Len(b)
    BY <1>1, <2>2
  <2>4. Len(e) = n
    <3> HIDE DEF e
    <3> QED BY <1>1, <2>2, <2>3
  <2>5. ASSUME NEW j \in 1 .. n PROVE slots'[j] = e[j]
    <3>1. CASE j <= size
      <4>1. e[j] = Elements[j] /\ j \in 1 .. size
        BY <1>1, <2>2, <3>1
      <4> HIDE DEF e
      <4> QED BY <1>1, <1>2, <4>1
    <3>2. CASE j > size
      <4>1. e[j] = b[j - size] /\ j - size \in 1 .. n - size /\ size + (j - size) = j
        BY <1>1, <2>2, <3>2
      <4> HIDE DEF e
      <4> QED BY <2>2, <4>1
    <3> HIDE DEF e
    <3> QED BY <1>1, <3>1, <3>2
  <2> HIDE DEF e
  <2>6. Becomes(e)
    BY <1>2, <2>3, <2>4, <2>5, BecomesIf
  <2> QED BY <2>2, <2>6 DEF b, e
<1> QED BY <1>3, <1>4

(* Starting again.                                                         *)
LEMMA RenewBecomes ==
  ASSUME TypeOK, ListRenew
  PROVE  Becomes(<<>>)
<1>1. slots' = InitialSlots(<<>>) /\ size' = 0
  BY DEF ListRenew
<1>2. Larger(MinCapacity, 0) \in Nat
  BY ContainerAssumption DEF Larger
<1>3. slots' = [i \in 1 .. Larger(MinCapacity, 0) |-> Blank]
  BY <1>1, <1>2 DEF InitialSlots
<1>4. slots' \in Seq(Slot) /\ Len(slots') \in Nat
  BY <1>2, <1>3 DEF Slot
<1>5. <<>> \in Seq(Slot) /\ Len(<<>>) = 0 /\ \A i \in 1 .. Len(<<>>) : slots'[i] = <<>>[i]
  OBVIOUS
<1>6. size' = Len(<<>>) /\ Len(<<>>) <= Len(slots')
  BY <1>1, <1>4, <1>5
<1> QED BY <1>4, <1>5, <1>6, BecomesIf

(* Sorting.                                                                *)
LEMMA SortBecomes ==
  ASSUME TypeOK, ListSort
  PROVE  Becomes(TimSort(Elements))
<1>1. /\ slots \in Seq(Slot) /\ size \in Nat /\ Len(slots) \in Nat /\ size <= Len(slots)
      /\ Elements \in Seq(Slot) /\ Len(Elements) = size
  BY ElementsAre
<1> DEFINE e == TimSort(Elements)
           b == SubSeq(slots, size + 1, Len(slots))
<1>2. slots' = e \o b /\ size' = size
  BY DEF ListSort, Capacity
<1>3. e \in Seq(Slot) /\ Len(e) = size
  BY <1>1, TimSortSorts DEF Rearranged
<1>4. b \in Seq(Slot) /\ Len(b) = Len(slots) - size
  <2>1. Len(slots) \in size .. Len(slots)
    BY <1>1
  <2> QED BY <1>1, <2>1, SubSeqIs
<1> HIDE DEF e, b
<1>5. slots' \in Seq(Slot) /\ Len(slots') = Len(e) + Len(b)
      /\ \A i \in 1 .. Len(e) : slots'[i] = e[i]
  <2>1. e \in Seq(Slot) /\ b \in Seq(Slot)
    BY <1>3, <1>4
  <2> QED BY <1>2, <2>1
<1>6. Len(e) <= Len(slots')
  BY <1>1, <1>3, <1>4, <1>5
<1> QED BY <1>2, <1>3, <1>5, <1>6, BecomesIf DEF e

(* What is acquired and released is counted.                               *)
LEMMA CountedIs ==
  ASSUME TypeOK, NEW acq \in Seq(Slot), NEW rel \in Seq(Slot)
  PROVE  /\ Counted(acq, rel) \in [Str -> Int]
         /\ \A o \in Str : Counted(acq, rel)[o] = count[o] + Many(acq, Ref(o)) - Many(rel, Ref(o))
<1>1. \A o \in Str : count[o] \in Int
  BY DEF TypeOK
<1>2. \A o \in Str : Many(acq, Ref(o)) \in Nat /\ Many(rel, Ref(o)) \in Nat
  BY ManyIsNat
<1>3. Counted(acq, rel)
        = [o \in Str |-> count[o] + Many(acq, Ref(o)) - Many(rel, Ref(o))]
  BY DEF Counted, Occurrences, Many
<1> QED BY <1>1, <1>2, <1>3

(* The values of the language are slots; so are the entries of the map.    *)
LEMMA ValuesAreSlots ==
  /\ Value \subseteq Slot
  /\ \A s \in Seq(Value) : s \in Seq(Slot)
  /\ TypeOK => Argument \subseteq Value
<1>1. Value \subseteq Slot
  BY DEF Slot
<1>2. \A s \in Seq(Value) : s \in Seq(Slot)
  BY <1>1
<1> QED BY <1>1, <1>2, ArgumentIsValue DEF TypeOK

(* What an insertion acquires and releases, and a truncation releases.     *)
LEMMA InsertCounts ==
  ASSUME TypeOK, NEW i \in 1 .. size + 1
  PROVE  LET a == SubSeq(Grown, i, size)
             b == SubSeq(Grown, i + 1, size + 1)
         IN  /\ a \in Seq(Slot) /\ b \in Seq(Slot)
             /\ \A v : Many(a, v) - Many(b, v)
                        = IF i <= size THEN One(Grown[i] = v) - One(Grown[size + 1] = v) ELSE 0
<1> DEFINE g == Grown
           a == SubSeq(g, i, size)
           b == SubSeq(g, i + 1, size + 1)
           c == SubSeq(g, i + 1, size)
<1>1. /\ g \in Seq(Slot) /\ Len(g) \in Nat /\ size + 1 <= Len(g)
      /\ size \in Nat /\ i \in Nat
  BY GrownIs, ElementsAre
<1> HIDE DEF g
<1>2. CASE i = size + 1
  <2>1. a = <<>> /\ b = <<>>
    BY <1>1, <1>2
  <2>2. a \in Seq(Slot) /\ b \in Seq(Slot) /\ ~(i <= size)
    BY <1>1, <1>2, <2>1
  <2>3. \A v : Many(a, v) - Many(b, v) = 0
    <3> HIDE DEF a, b
    <3> QED BY <2>1, ManyOfFew
  <2> QED BY <2>2, <2>3 DEF a, b, g
<1>3. CASE i <= size
  <2>1. c \in Seq(Slot) /\ Len(c) = size - i /\ \A r \in 1 .. size - i : c[r] = g[i + r]
    <3>1. size \in i .. Len(g)
      BY <1>1, <1>3
    <3> QED BY <1>1, <3>1, SubSeqIs
  <2>2. a = <<g[i]>> \o c /\ g[i] \in Slot
    BY <1>1, <1>3
  <2>3. b = Append(c, g[size + 1]) /\ g[size + 1] \in Slot
    BY <1>1, <1>3
  <2> HIDE DEF a, b, c
  <2>4. a \in Seq(Slot) /\ b \in Seq(Slot) /\ <<g[i]>> \in Seq(Slot)
    BY <2>1, <2>2, <2>3
  <2>5. ASSUME NEW v
        PROVE  Many(a, v) - Many(b, v) = One(g[i] = v) - One(g[size + 1] = v)
    <3>1. Many(a, v) = Many(<<g[i]>>, v) + Many(c, v)
      BY <2>1, <2>2, <2>4, ManyOfBoth
    <3>2. Many(b, v) = Many(c, v) + One(g[size + 1] = v)
      BY <2>1, <2>3, ManyAppended
    <3>3. Many(<<g[i]>>, v) = One(g[i] = v)
      BY ManyOfFew
    <3>4. Many(c, v) \in Nat /\ One(g[i] = v) \in Nat /\ One(g[size + 1] = v) \in Nat
      BY <2>1, ManyIsNat DEF One
    <3> QED BY <3>1, <3>2, <3>3, <3>4
  <2> QED BY <1>1, <1>3, <2>4, <2>5 DEF a, b, g
<1> QED BY <1>1, <1>2, <1>3

(* Only a truncation releases.                                             *)
LEMMA ResizeCounts ==
  ASSUME TypeOK, NEW n \in Nat
  PROVE  /\ SubSeq(slots, n + 1, size) \in Seq(Slot)
         /\ n >= size => SubSeq(slots, n + 1, size) = <<>>
         /\ n < size => SubSeq(slots, n + 1, size) = SubSeq(Elements, n + 1, Len(Elements))
<1>1. /\ slots \in Seq(Slot) /\ size \in Nat /\ Len(slots) \in Nat /\ size <= Len(slots)
      /\ Elements \in Seq(Slot) /\ Len(Elements) = size
      /\ \A i \in 1 .. size : Elements[i] = slots[i]
  BY ElementsAre
<1>2. CASE n >= size
  <2>1. SubSeq(slots, n + 1, size) = <<>>
    BY <1>1, <1>2
  <2> QED BY <1>1, <1>2, <2>1
<1>3. CASE n < size
  <2> DEFINE a == SubSeq(slots, n + 1, size)
             b == SubSeq(Elements, n + 1, size)
  <2>1. size \in n .. Len(slots) /\ size \in n .. Len(Elements)
    BY <1>1, <1>3
  <2>2. a \in Seq(Slot) /\ Len(a) = size - n /\ \A r \in 1 .. size - n : a[r] = slots[n + r]
    BY <1>1, <2>1, SubSeqIs
  <2>3. b \in Seq(Slot) /\ Len(b) = size - n /\ \A r \in 1 .. size - n : b[r] = Elements[n + r]
    BY <1>1, <2>1, SubSeqIs
  <2> HIDE DEF a, b
  <2>4. ASSUME NEW r \in 1 .. size - n PROVE a[r] = b[r]
    <3>1. n + r \in 1 .. size
      BY <1>1
    <3> QED BY <1>1, <2>2, <2>3, <3>1
  <2>5. a = [r \in 1 .. size - n |-> a[r]] /\ b = [r \in 1 .. size - n |-> b[r]]
    BY <2>2, <2>3
  <2>6. a = b
    BY <2>4, <2>5
  <2> QED BY <1>1, <1>3, <2>2, <2>6 DEF a, b
<1> QED BY <1>1, <1>2, <1>3

(* The types of the list, and of the rest.                                 *)
ListTypeOK == slots \in Seq(Slot) /\ size \in 0 .. Capacity

RestTypeOK == count \in [Str -> Int] /\ undefined \in BOOLEAN

(* An operation that makes other elements keeps the list's.                *)
LEMMA BecomesKeepsType ==
  ASSUME NEW e, Becomes(e)
  PROVE  ListTypeOK'
BY DEF Becomes, ListTypeOK, Capacity

(* The script's steps keep the types.                                      *)
LEMMA ScriptType ==
  ASSUME TypeOK, Script
  PROVE  UNCHANGED <<list, map, undefined>> /\ RestTypeOK'
<1>1. ASSUME NEW o \in Str, Make(o) \/ Drop(o) PROVE UNCHANGED <<list, map, undefined>> /\ RestTypeOK'
  BY <1>1 DEF Make, Drop, TypeOK, RestTypeOK
<1>2. ASSUME NEW v, Take(v) PROVE UNCHANGED <<list, map, undefined>> /\ RestTypeOK'
  <2>1. PICK o \in Str : v = Ref(o)
    BY <1>2 DEF Take
  <2>2. v \in Slot
    BY <2>1 DEF Slot, Value, Strings
  <2>3. <<v>> \in Seq(Slot) /\ <<>> \in Seq(Slot)
    BY <2>2
  <2>4. Counted(<<v>>, <<>>) \in [Str -> Int]
    BY <2>3, CountedIs
  <2> QED BY <1>2, <2>4 DEF Take, TypeOK, RestTypeOK
<1>3. ASSUME NEW i \in 1 .. size, ListIndex(i)
      PROVE  UNCHANGED <<list, map, undefined>> /\ RestTypeOK'
  BY <1>2, <1>3 DEF ListIndex
<1>4. ASSUME NEW k \in Argument, MapIndex(k)
      PROVE  UNCHANGED <<list, map, undefined>> /\ RestTypeOK'
  BY <1>2, <1>4 DEF MapIndex
<1> QED BY <1>1, <1>3, <1>4 DEF Script

(* So do the operations on the list,                                       *)
LEMMA ListType ==
  ASSUME TypeOK, List
  PROVE  ListTypeOK' /\ RestTypeOK'
<1>1. /\ slots \in Seq(Slot) /\ size \in Nat /\ Len(slots) \in Nat /\ size <= Len(slots)
      /\ Elements \in Seq(Slot) /\ \A i \in 1 .. size : slots[i] \in Slot
      /\ undefined \in BOOLEAN /\ count \in [Str -> Int]
  <2>1. undefined \in BOOLEAN /\ count \in [Str -> Int]
    BY DEF TypeOK
  <2> QED BY <2>1, ElementsAre
<1>2. \A v \in Slot : <<v>> \in Seq(Slot)
  OBVIOUS
<1>3. <<>> \in Seq(Slot)
  OBVIOUS
<1>4. Argument \subseteq Slot
  BY ValuesAreSlots
<1>5. CASE ListPop
  <2>1. slots[size] \in Slot
    BY <1>1, <1>5 DEF ListPop
  <2>2. Counted(<<>>, <<slots[size]>>) \in [Str -> Int]
    BY <1>2, <1>3, <2>1, CountedIs
  <2>3. RestTypeOK'
    BY <1>1, <1>5, <2>2 DEF ListPop, RestTypeOK
  <2> QED BY <1>5, <2>3, PopBecomes, BecomesKeepsType
<1>6. CASE ListRenew
  <2>1. Counted(<<>>, Elements) \in [Str -> Int]
    BY <1>1, <1>3, CountedIs
  <2>2. RestTypeOK'
    BY <1>1, <1>6, <2>1 DEF ListRenew, RestTypeOK
  <2> QED BY <1>6, <2>2, RenewBecomes, BecomesKeepsType
<1>7. CASE ListSort
  <2>1. RestTypeOK'
    BY <1>1, <1>7 DEF ListSort, RestTypeOK
  <2> QED BY <1>7, <2>1, SortBecomes, BecomesKeepsType
<1>8. ASSUME NEW v \in Argument, ListAppend(v) PROVE ListTypeOK' /\ RestTypeOK'
  <2>1. Counted(<<v>>, <<>>) \in [Str -> Int]
    BY <1>2, <1>3, <1>4, CountedIs
  <2>2. RestTypeOK'
    BY <1>1, <1>8, <2>1 DEF ListAppend, RestTypeOK
  <2> QED BY <1>4, <1>8, <2>2, AppendBecomes, BecomesKeepsType
<1>9. ASSUME NEW i \in 1 .. size, ListRemove(i) PROVE ListTypeOK' /\ RestTypeOK'
  <2>1. Counted(<<>>, <<slots[i]>>) \in [Str -> Int]
    BY <1>1, <1>2, <1>3, CountedIs
  <2>2. RestTypeOK'
    BY <1>1, <1>9, <2>1 DEF ListRemove, RestTypeOK
  <2> QED BY <1>9, <2>2, RemoveBecomes, BecomesKeepsType
<1>10. ASSUME NEW i \in 1 .. size + 1, NEW v \in Argument, ListInsert(i, v)
       PROVE  ListTypeOK' /\ RestTypeOK'
  <2> DEFINE a == SubSeq(Grown, i, size)
             b == SubSeq(Grown, i + 1, size + 1)
  <2>1. a \in Seq(Slot) /\ b \in Seq(Slot)
    BY <1>1, InsertCounts
  <2> HIDE DEF a, b
  <2>2. Append(a, v) \in Seq(Slot)
    BY <1>4, <2>1
  <2>3. Counted(Append(a, v), b) \in [Str -> Int]
    BY <2>1, <2>2, CountedIs
  <2>4. count' = Counted(Append(a, v), b) /\ undefined' \in BOOLEAN
    BY <1>10 DEF ListInsert, a, b
  <2>5. RestTypeOK'
    BY <2>3, <2>4 DEF RestTypeOK
  <2> QED BY <1>4, <1>10, <2>5, InsertBecomes, BecomesKeepsType
<1>11. ASSUME NEW i \in 1 .. size, NEW v \in Argument, ListAssign(i, v)
       PROVE  ListTypeOK' /\ RestTypeOK'
  <2>1. Counted(<<v>>, <<slots[i]>>) \in [Str -> Int]
    BY <1>1, <1>2, <1>4, CountedIs
  <2>2. RestTypeOK'
    BY <1>1, <1>11, <2>1 DEF ListAssign, RestTypeOK
  <2> QED BY <1>4, <1>11, <2>2, PutBecomes, BecomesKeepsType
<1>12. ASSUME NEW n \in Nat, ListReserve(n) PROVE ListTypeOK' /\ RestTypeOK'
  <2>1. RestTypeOK'
    BY <1>1, <1>12 DEF ListReserve, RestTypeOK
  <2> QED BY <1>12, <2>1, ReserveBecomes, BecomesKeepsType
<1>13. ASSUME NEW n \in Nat, ListResize(n) PROVE ListTypeOK' /\ RestTypeOK'
  <2>1. SubSeq(slots, n + 1, size) \in Seq(Slot)
    BY <1>1, ResizeCounts
  <2>2. Counted(<<>>, SubSeq(slots, n + 1, size)) \in [Str -> Int]
    BY <1>3, <2>1, CountedIs
  <2>3. RestTypeOK'
    BY <1>13, <2>2 DEF ListResize, RestTypeOK
  <2>4. n < size \/ n > size
    BY <1>1, <1>13 DEF ListResize
  <2> QED BY <1>13, <2>3, <2>4, ResizeBecomes, BecomesKeepsType
<1>14. 0 .. MaxCapacity \subseteq Nat
  OBVIOUS
<1> QED BY <1>5, <1>6, <1>7, <1>8, <1>9, <1>10, <1>11, <1>12, <1>13, <1>14 DEF List

(* and those on the map.                                                   *)
LEMMA MapType ==
  ASSUME TypeOK, Map
  PROVE  UNCHANGED list /\ RestTypeOK'
<1>1. keys \in Seq(Slot) /\ vals \in Seq(Slot) /\ Argument \subseteq Slot /\ undefined \in BOOLEAN
  BY ValuesAreSlots DEF TypeOK
<1>2. \A v \in Slot : <<v>> \in Seq(Slot)
  OBVIOUS
<1>3. <<>> \in Seq(Slot) /\ keys \o vals \in Seq(Slot)
  BY <1>1
<1>4. CASE MapKeys \/ MapValues
  <2>1. Counted(keys, <<>>) \in [Str -> Int] /\ Counted(vals, <<>>) \in [Str -> Int]
    BY <1>1, <1>3, CountedIs
  <2> QED BY <1>1, <1>4, <2>1 DEF MapKeys, MapValues, MapListed, RestTypeOK
<1>5. CASE MapRenew
  <2>1. Counted(<<>>, keys \o vals) \in [Str -> Int]
    BY <1>3, CountedIs
  <2> QED BY <1>1, <1>5, <2>1 DEF MapRenew, RestTypeOK
<1>6. ASSUME NEW k \in Argument, NEW v \in Argument, MapAssign(k, v)
      PROVE  UNCHANGED list /\ RestTypeOK'
  <2>1. CASE Found(keys, k) # {}
    <3> DEFINE i == Lowest(Found(keys, k))
    <3>1. i \in 1 .. Len(vals)
      <4>1. Found(keys, k) \in SUBSET Nat /\ Found(keys, k) \subseteq 1 .. Len(keys)
        BY DEF Found, TypeOK
      <4>2. i \in Found(keys, k)
        BY <2>1, <4>1, LowestIsLeast
      <4> QED BY <4>1, <4>2 DEF TypeOK
    <3>2. count' = Counted(<<v>>, <<vals[i]>>) /\ undefined' = undefined /\ UNCHANGED list
      BY <1>6, <2>1 DEF MapAssign
    <3> HIDE DEF i
    <3>3. vals[i] \in Slot
      BY <1>1, <3>1
    <3>4. Counted(<<v>>, <<vals[i]>>) \in [Str -> Int]
      BY <1>1, <1>2, <3>3, CountedIs
    <3> QED BY <1>1, <3>2, <3>4 DEF RestTypeOK
  <2>2. CASE Found(keys, k) = {}
    <3>1. /\ count' = Counted(<<k, v>>, <<>>) /\ undefined' = (Len(keys) >= room')
          /\ UNCHANGED list
      BY <1>6, <2>2 DEF MapAssign
    <3>2. <<k, v>> \in Seq(Slot)
      BY <1>1
    <3>3. Counted(<<k, v>>, <<>>) \in [Str -> Int]
      BY <1>3, <3>2, CountedIs
    <3> QED BY <3>1, <3>3 DEF RestTypeOK
  <2> QED BY <2>1, <2>2
<1> QED BY <1>4, <1>5, <1>6 DEF Map

(* TypeOK is the types of the list, the map and the rest.                  *)
LEMMA TypeStep == TypeOK /\ MapInv /\ [Next]_vars => TypeOK'
<1> SUFFICES ASSUME TypeOK, MapInv, [Next]_vars PROVE TypeOK'
  OBVIOUS
<1>1. MapInv'
  BY StepMapInv
<1>2. made' \in Nat /\ room' \in Nat
  <2>1. made' \in Nat /\ (room' = made' \/ room' = 2 * made')
    BY <1>1 DEF MapInv
  <2> QED BY <2>1
<1>3. ListTypeOK' /\ RestTypeOK'
  <2>1. CASE Script
    BY <2>1, ScriptType DEF ListTypeOK, TypeOK, list, Capacity
  <2>2. CASE List
    BY <2>2, ListType
  <2>3. CASE Map
    BY <2>3, MapType DEF ListTypeOK, TypeOK, list, Capacity
  <2>4. CASE UNCHANGED vars
    BY <2>4 DEF vars, list, ListTypeOK, RestTypeOK, TypeOK, Capacity
  <2> QED BY <2>1, <2>2, <2>3, <2>4 DEF Next
<1> QED BY <1>1, <1>2, <1>3 DEF TypeOK, ListTypeOK, RestTypeOK, MapInv

-----------------------------------------------------------------------------
(* The balance of references.  Where an object is referred to.             *)
LEMMA ReferencesAre ==
  ASSUME NEW e \in Seq(Slot), NEW k \in Seq(Slot), NEW v \in Seq(Slot), NEW o
  PROVE  Occurrences(e \o k \o v, o) = Many(e, Ref(o)) + Many(k, Ref(o)) + Many(v, Ref(o))
<1>1. e \o k \in Seq(Slot)
  OBVIOUS
<1>2. Many(e \o k, Ref(o)) = Many(e, Ref(o)) + Many(k, Ref(o))
  BY ManyOfBoth
<1>3. Many((e \o k) \o v, Ref(o)) = Many(e \o k, Ref(o)) + Many(v, Ref(o))
  BY <1>1, ManyOfBoth
<1>4. Many(e, Ref(o)) \in Nat /\ Many(k, Ref(o)) \in Nat /\ Many(v, Ref(o)) \in Nat
  BY ManyIsNat
<1>5. Occurrences(e \o k \o v, o) = Many((e \o k) \o v, Ref(o))
  BY DEF Occurrences, Many
<1> QED BY <1>2, <1>3, <1>4, <1>5

(* What is left over, from what is counted and what refers to it.          *)
LeftOver(counter, e, k, v, h, o) ==
  counter[o] - (Many(e, Ref(o)) + Many(k, Ref(o)) + Many(v, Ref(o)) + One(o \in h))

(* The parts of it before and after a step, all of them numbers.           *)
LEMMA SurplusIs ==
  ASSUME TypeOK, TypeOK', NEW o \in Str
  PROVE  /\ Surplus(o) = LeftOver(count, Elements, keys, vals, held, o)
         /\ Surplus(o)' = LeftOver(count', Elements', keys', vals', held', o)
         /\ count[o] \in Int /\ count'[o] \in Int
         /\ Many(Elements, Ref(o)) \in Nat /\ Many(Elements', Ref(o)) \in Nat
         /\ Many(keys, Ref(o)) \in Nat /\ Many(keys', Ref(o)) \in Nat
         /\ Many(vals, Ref(o)) \in Nat /\ Many(vals', Ref(o)) \in Nat
         /\ One(o \in held) \in Nat /\ One(o \in held') \in Nat
<1>1. /\ Elements \in Seq(Slot) /\ keys \in Seq(Slot) /\ vals \in Seq(Slot)
  BY ElementsAre, ValuesAreSlots DEF TypeOK
<1>2. /\ Elements' \in Seq(Slot) /\ keys' \in Seq(Slot) /\ vals' \in Seq(Slot)
  <2>1. slots' \in Seq(Slot) /\ size' \in 0 .. Len(slots')
    BY DEF TypeOK, Capacity
  <2>2. Elements' = SubSeq(slots', 1, size')
    BY DEF Elements
  <2>3. keys' \in Seq(Value) /\ vals' \in Seq(Value)
    BY DEF TypeOK
  <2> QED BY <2>1, <2>2, <2>3, FrontIs, ValuesAreSlots
<1>3. count[o] \in Int /\ count'[o] \in Int
  BY DEF TypeOK
<1>4. /\ Many(Elements, Ref(o)) \in Nat /\ Many(Elements', Ref(o)) \in Nat
      /\ Many(keys, Ref(o)) \in Nat /\ Many(keys', Ref(o)) \in Nat
      /\ Many(vals, Ref(o)) \in Nat /\ Many(vals', Ref(o)) \in Nat
  BY <1>1, <1>2, ManyIsNat
<1>5. One(o \in held) \in Nat /\ One(o \in held') \in Nat
  BY DEF One
<1>6. Surplus(o) = LeftOver(count, Elements, keys, vals, held, o)
  BY <1>1, ReferencesAre DEF Surplus, References, LeftOver, One
<1>7. Surplus(o)' = LeftOver(count', Elements', keys', vals', held', o)
  BY <1>2, ReferencesAre DEF Surplus, References, LeftOver, One
<1> QED BY <1>3, <1>4, <1>5, <1>6, <1>7

(* What leaves references behind.                                          *)
Leaves == \/ MapKeys \/ MapValues
          \/ \E i \in 1 .. size, v \in Argument : ListInsert(i, v)

Balance(o) == \/ Surplus(o)' = Surplus(o)
              \/ Surplus(o)' > Surplus(o) /\ Leaves

(* References that the list and the map neither gain nor lose.             *)
LEMMA SameCollections ==
  ASSUME UNCHANGED <<list, map>>
  PROVE  Elements' = Elements /\ keys' = keys /\ vals' = vals
BY DEF list, map, Elements

(* The script's steps.                                                     *)
LEMMA ScriptBalances ==
  ASSUME TypeOK, TypeOK', NothingFreedInUse, ~undefined, Script, NEW o \in Str
  PROVE  Surplus(o)' = Surplus(o)
<1>1. ASSUME NEW p \in Str, Make(p) PROVE Surplus(o)' = Surplus(o)
  <2>1. count[p] = 0 /\ held' = held \cup {p} /\ count' = [count EXCEPT ![p] = 1]
        /\ UNCHANGED <<list, map>>
    BY <1>1 DEF Make
  <2>2. CASE o = p
    <3>1. Surplus(o) >= 0
      BY DEF NothingFreedInUse
    <3>2. count'[o] = 1 /\ o \in held'
      BY <2>1, <2>2 DEF TypeOK
    <3>3. One(o \in held') = 1 /\ One(o \in held) \in {0, 1}
      BY <3>2 DEF One
    <3> QED BY <2>1, <2>2, <3>1, <3>2, <3>3, SameCollections, SurplusIs DEF LeftOver
  <2>3. CASE o # p
    <3>1. count'[o] = count[o] /\ (o \in held' <=> o \in held)
      BY <2>1, <2>3 DEF TypeOK
    <3>2. One(o \in held') = One(o \in held)
      BY <3>1 DEF One
    <3> QED BY <2>1, <3>1, <3>2, SameCollections, SurplusIs DEF LeftOver
  <2> QED BY <2>2, <2>3
<1>2. ASSUME NEW p \in Str, Drop(p) PROVE Surplus(o)' = Surplus(o)
  <2>1. p \in held /\ held' = held \ {p} /\ count' = [count EXCEPT ![p] = @ - 1]
        /\ UNCHANGED <<list, map>>
    BY <1>2 DEF Drop
  <2>2. CASE o = p
    <3>1. count'[o] = count[o] - 1 /\ o \notin held' /\ o \in held
      BY <2>1, <2>2 DEF TypeOK
    <3>2. One(o \in held') = 0 /\ One(o \in held) = 1
      BY <3>1 DEF One
    <3> QED BY <2>1, <3>1, <3>2, SameCollections, SurplusIs DEF LeftOver
  <2>3. CASE o # p
    <3>1. count'[o] = count[o] /\ (o \in held' <=> o \in held)
      BY <2>1, <2>3 DEF TypeOK
    <3>2. One(o \in held') = One(o \in held)
      BY <3>1 DEF One
    <3> QED BY <2>1, <3>1, <3>2, SameCollections, SurplusIs DEF LeftOver
  <2> QED BY <2>2, <2>3
<1>3. ASSUME NEW v, Take(v) PROVE Surplus(o)' = Surplus(o)
  <2>1. PICK p \in Str \ held : v = Ref(p) /\ held' = held \cup {p}
    BY <1>3 DEF Take
  <2>2. count' = Counted(<<v>>, <<>>) /\ UNCHANGED <<list, map>>
    BY <1>3 DEF Take
  <2>3. <<v>> \in Seq(Slot) /\ <<>> \in Seq(Slot)
    <3>1. v \in Slot
      BY <2>1 DEF Slot, Value, Strings
    <3> QED BY <3>1
  <2>4. count'[o] = count[o] + One(v = Ref(o))
    <3>1. count'[o] = count[o] + Many(<<v>>, Ref(o)) - Many(<<>>, Ref(o))
      BY <2>2, <2>3, CountedIs
    <3>2. Many(<<v>>, Ref(o)) = One(v = Ref(o)) /\ Many(<<>>, Ref(o)) = 0
      BY ManyOfFew
    <3>3. count[o] \in Int /\ One(v = Ref(o)) \in Int
      BY DEF TypeOK, One
    <3> QED BY <3>1, <3>2, <3>3
  <2>5. One(v = Ref(o)) = One(o = p)
    BY <2>1 DEF Ref, One
  <2>6. One(o \in held') = One(o \in held) + One(o = p)
    BY <2>1 DEF One
  <2>7. One(o = p) \in Nat
    BY DEF One
  <2>8. Elements' = Elements /\ keys' = keys /\ vals' = vals
    BY <2>2, SameCollections
  <2>9. LeftOver(count', Elements', keys', vals', held', o)
          = LeftOver(count, Elements, keys, vals, held, o)
    <3>1. \A c, x, a, b, d, h \in Int :
            (c + x) - (a + b + d + (h + x)) = c - (a + b + d + h)
      OBVIOUS
    <3>2. /\ count[o] \in Int /\ One(o \in held) \in Int /\ One(o = p) \in Int
          /\ Many(Elements, Ref(o)) \in Int /\ Many(keys, Ref(o)) \in Int
          /\ Many(vals, Ref(o)) \in Int
      BY <2>7, SurplusIs
    <3>3. LeftOver(count', Elements', keys', vals', held', o)
            = (count[o] + One(o = p))
                - (Many(Elements, Ref(o)) + Many(keys, Ref(o)) + Many(vals, Ref(o))
                     + (One(o \in held) + One(o = p)))
      BY <2>4, <2>5, <2>6, <2>8 DEF LeftOver
    <3> QED BY <3>1, <3>2, <3>3 DEF LeftOver
  <2> QED BY <2>9, SurplusIs
<1>4. ASSUME NEW i \in 1 .. size, ListIndex(i) PROVE Surplus(o)' = Surplus(o)
  BY <1>3, <1>4 DEF ListIndex
<1>5. ASSUME NEW k \in Argument, MapIndex(k) PROVE Surplus(o)' = Surplus(o)
  BY <1>3, <1>5 DEF MapIndex
<1> QED BY <1>1, <1>2, <1>4, <1>5 DEF Script

(* An operation on the list that acquires as many references as elements   *)
(* that refer to an object come, and releases as many as go.               *)
LEMMA ListBalance ==
  ASSUME TypeOK, TypeOK', NEW o \in Str, UNCHANGED <<map, held>>, NEW d \in Int,
         Many(Elements', Ref(o)) = Many(Elements, Ref(o)) + d
  PROVE  /\ count'[o] = count[o] + d => Surplus(o)' = Surplus(o)
         /\ count'[o] > count[o] + d => Surplus(o)' > Surplus(o)
<1>1. keys' = keys /\ vals' = vals /\ held' = held
  BY DEF map
<1> QED BY <1>1, SurplusIs DEF LeftOver

(* The operations on the list.                                             *)
LEMMA ListBalances ==
  ASSUME TypeOK, TypeOK', List, ~undefined', NEW o \in Str
  PROVE  Balance(o)
<1> DEFINE R == Ref(o)
<1>1. /\ slots \in Seq(Slot) /\ size \in Nat /\ Len(slots) \in Nat /\ size <= Len(slots)
      /\ Elements \in Seq(Slot) /\ Len(Elements) = size
      /\ \A i \in 1 .. size : Elements[i] = slots[i] /\ slots[i] \in Slot
  BY ElementsAre
<1>2. \A v \in Slot : <<v>> \in Seq(Slot)
  OBVIOUS
<1>3. <<>> \in Seq(Slot)
  OBVIOUS
<1>4. Argument \subseteq Slot
  BY ValuesAreSlots
<1>5. count[o] \in Int /\ Many(Elements, R) \in Nat /\ Many(Elements', R) \in Nat
  BY SurplusIs
<1>6. \A b : One(b) \in {0, 1}
  BY DEF One
<1>7. CASE ListPop
  <2>1. Elements' = RemoveAt(Elements, size) /\ size \in 1 .. Len(Elements)
    BY <1>7, PopBecomes DEF Becomes
  <2>2. Many(Elements', R) = Many(Elements, R) - One(slots[size] = R)
    BY <1>1, <2>1, ManyRemoved
  <2>3. count'[o] = count[o] + Many(<<>>, R) - Many(<<slots[size]>>, R)
    <3>1. count' = Counted(<<>>, <<slots[size]>>) /\ <<slots[size]>> \in Seq(Slot)
      BY <1>1, <1>7, <2>1 DEF ListPop
    <3> QED BY <1>3, <3>1, CountedIs
  <2>4. count'[o] = count[o] - One(slots[size] = R)
    BY <1>5, <1>6, <2>3, ManyOfFew
  <2>5. UNCHANGED <<map, held>> /\ - One(slots[size] = R) \in Int
    BY <1>6, <1>7 DEF ListPop
  <2>6. Surplus(o)' = Surplus(o)
    BY <1>5, <1>6, <2>2, <2>4, <2>5, ListBalance
  <2> QED BY <2>6 DEF Balance
<1>8. CASE ListRenew
  <2>1. Elements' = <<>>
    BY <1>8, RenewBecomes DEF Becomes
  <2>2. count'[o] = count[o] + Many(<<>>, R) - Many(Elements, R)
    <3>1. count' = Counted(<<>>, Elements)
      BY <1>8 DEF ListRenew
    <3> QED BY <1>1, <1>3, <3>1, CountedIs
  <2>3. UNCHANGED <<map, held>> /\ - Many(Elements, R) \in Int
    BY <1>5, <1>8 DEF ListRenew
  <2>4. Surplus(o)' = Surplus(o)
    BY <1>5, <2>1, <2>2, <2>3, ListBalance, ManyOfFew
  <2> QED BY <2>4 DEF Balance
<1>9. CASE ListSort
  <2>1. Elements' = TimSort(Elements)
    BY <1>9, SortBecomes DEF Becomes
  <2>2. Many(Elements', R) = Many(Elements, R)
    BY <1>1, <2>1, TimSortSorts, ManyRearranged
  <2>3. UNCHANGED <<map, held>> /\ count' = count
    BY <1>9 DEF ListSort
  <2>4. Surplus(o)' = Surplus(o)
    BY <1>5, <2>2, <2>3, ListBalance
  <2> QED BY <2>4 DEF Balance
<1>10. ASSUME NEW v \in Argument, ListAppend(v) PROVE Balance(o)
  <2>1. v \in Slot /\ Elements' = Append(Elements, v)
    BY <1>4, <1>10, AppendBecomes DEF Becomes
  <2>2. Many(Elements', R) = Many(Elements, R) + One(v = R)
    BY <1>1, <2>1, ManyAppended
  <2>3. count'[o] = count[o] + Many(<<v>>, R) - Many(<<>>, R)
    <3>1. count' = Counted(<<v>>, <<>>) /\ <<v>> \in Seq(Slot)
      BY <1>2, <1>10, <2>1 DEF ListAppend
    <3> QED BY <1>3, <3>1, CountedIs
  <2>4. UNCHANGED <<map, held>> /\ One(v = R) \in Int
    BY <1>6, <1>10 DEF ListAppend
  <2>5. count'[o] = count[o] + One(v = R)
    BY <1>5, <1>6, <2>3, ManyOfFew
  <2>6. Surplus(o)' = Surplus(o)
    BY <2>2, <2>4, <2>5, ListBalance
  <2> QED BY <2>6 DEF Balance
<1>11. ASSUME NEW i \in 1 .. size, ListRemove(i) PROVE Balance(o)
  <2>1. Elements' = RemoveAt(Elements, i) /\ i \in 1 .. Len(Elements)
    BY <1>1, <1>11, RemoveBecomes DEF Becomes
  <2>2. Many(Elements', R) = Many(Elements, R) - One(slots[i] = R)
    BY <1>1, <2>1, ManyRemoved
  <2>3. count'[o] = count[o] + Many(<<>>, R) - Many(<<slots[i]>>, R)
    <3>1. count' = Counted(<<>>, <<slots[i]>>) /\ <<slots[i]>> \in Seq(Slot)
      BY <1>1, <1>11 DEF ListRemove
    <3> QED BY <1>3, <3>1, CountedIs
  <2>4. count'[o] = count[o] - One(slots[i] = R)
    BY <1>5, <1>6, <2>3, ManyOfFew
  <2>5. UNCHANGED <<map, held>> /\ - One(slots[i] = R) \in Int
    BY <1>6, <1>11 DEF ListRemove
  <2>6. Surplus(o)' = Surplus(o)
    BY <1>5, <1>6, <2>2, <2>4, <2>5, ListBalance
  <2> QED BY <2>6 DEF Balance
<1>12. ASSUME NEW i \in 1 .. size + 1, NEW v \in Argument, ListInsert(i, v) PROVE Balance(o)
  <2> DEFINE a == SubSeq(Grown, i, size)
             b == SubSeq(Grown, i + 1, size + 1)
             left == IF i <= size THEN One(Grown[i] = R) ELSE 0
  <2>1. v \in Slot /\ Elements' = InsertAt(Elements, i, v) /\ i \in 1 .. Len(Elements) + 1
    BY <1>1, <1>4, <1>12, InsertBecomes DEF Becomes
  <2>2. Many(Elements', R) = Many(Elements, R) + One(v = R)
    BY <1>1, <2>1, ManyInserted
  <2>3. /\ a \in Seq(Slot) /\ b \in Seq(Slot)
        /\ Many(a, R) - Many(b, R)
             = IF i <= size THEN One(Grown[i] = R) - One(Grown[size + 1] = R) ELSE 0
    BY InsertCounts
  <2>4. i <= size => One(Grown[size + 1] = R) = 0
    <3>1. i <= size => Grown[size + 1] \notin Strings
      BY <1>12 DEF ListInsert
    <3> QED BY <3>1 DEF Strings, One
  <2>5. Many(a, R) - Many(b, R) = left /\ left \in {0, 1}
    BY <1>6, <2>3, <2>4
  <2>6. count' = Counted(Append(a, v), b) /\ UNCHANGED <<map, held>>
    BY <1>12 DEF ListInsert
  <2> HIDE DEF a, b
  <2>7. Append(a, v) \in Seq(Slot) /\ Many(Append(a, v), R) = Many(a, R) + One(v = R)
    BY <2>1, <2>3, ManyAppended
  <2>8. count'[o] = count[o] + Many(Append(a, v), R) - Many(b, R)
    BY <2>3, <2>6, <2>7, CountedIs
  <2>9. Many(a, R) \in Nat /\ Many(b, R) \in Nat /\ One(v = R) \in Int
    <3>1. a \in Seq(Slot) /\ b \in Seq(Slot)
      BY <2>3
    <3>2. Many(a, R) \in Nat /\ Many(b, R) \in Nat
      BY <3>1, ManyIsNat
    <3> QED BY <3>2 DEF One
  <2>10. left = 1 => i \in 1 .. size
    BY <1>1
  <2> HIDE DEF left
  <2>11. count'[o] = (count[o] + One(v = R)) + left
    <3>1. \A c, x, y, z, l \in Int : x - y = l => c + (x + z) - y = (c + z) + l
      OBVIOUS
    <3>2. count'[o] = count[o] + (Many(a, R) + One(v = R)) - Many(b, R)
      BY <2>7, <2>8
    <3>3. left \in Int /\ Many(a, R) \in Int /\ Many(b, R) \in Int /\ count[o] \in Int
      BY <1>5, <2>5, <2>9
    <3> QED BY <2>5, <2>9, <3>1, <3>2, <3>3
  <2>12. CASE left = 0
    <3>1. count'[o] = count[o] + One(v = R)
      BY <1>5, <2>9, <2>11, <2>12
    <3> QED BY <2>2, <2>6, <2>9, <3>1, ListBalance DEF Balance
  <2>13. CASE left = 1
    <3>1. count'[o] > count[o] + One(v = R)
      BY <1>5, <2>9, <2>11, <2>13
    <3>2. Surplus(o)' > Surplus(o)
      BY <2>2, <2>6, <2>9, <3>1, ListBalance
    <3>3. Leaves
      BY <1>12, <2>10, <2>13 DEF Leaves
    <3> QED BY <3>2, <3>3 DEF Balance
  <2> QED BY <2>5, <2>12, <2>13
<1>13. ASSUME NEW i \in 1 .. size, NEW v \in Argument, ListAssign(i, v) PROVE Balance(o)
  <2>1. v \in Slot /\ Elements' = [Elements EXCEPT ![i] = v] /\ i \in 1 .. Len(Elements)
    BY <1>1, <1>4, <1>13, PutBecomes DEF Becomes
  <2>2. Many(Elements', R) = Many(Elements, R) - One(slots[i] = R) + One(v = R)
    <3>1. Elements[i] = slots[i]
      BY <1>1
    <3>2. Many([Elements EXCEPT ![i] = v], R) = Many(Elements, R) - One(Elements[i] = R) + One(v = R)
      <4>1. Elements \in Seq(Slot) /\ i \in 1 .. Len(Elements) /\ v \in Slot
        BY <1>1, <2>1
      <4>2. ASSUME NEW s \in Seq(Slot), NEW j \in 1 .. Len(s), NEW w \in Slot
            PROVE  Many([s EXCEPT ![j] = w], R) = Many(s, R) - One(s[j] = R) + One(w = R)
        BY ManyReplaced
      <4> QED BY <4>1, <4>2
    <3> QED BY <2>1, <3>1, <3>2
  <2>3. count'[o] = count[o] + Many(<<v>>, R) - Many(<<slots[i]>>, R)
    <3>1. count' = Counted(<<v>>, <<slots[i]>>) /\ <<v>> \in Seq(Slot) /\ <<slots[i]>> \in Seq(Slot)
      BY <1>1, <1>2, <1>13, <2>1 DEF ListAssign
    <3> QED BY <3>1, CountedIs
  <2> DEFINE d == One(v = R) - One(slots[i] = R)
  <2>4. d \in Int /\ count'[o] = count[o] + d /\ Many(Elements', R) = Many(Elements, R) + d
    BY <1>5, <1>6, <2>2, <2>3, ManyOfFew
  <2>5. UNCHANGED <<map, held>>
    BY <1>13 DEF ListAssign
  <2> HIDE DEF d
  <2>6. Surplus(o)' = Surplus(o)
    BY <2>4, <2>5, ListBalance
  <2> QED BY <2>6 DEF Balance
<1>14. ASSUME NEW n \in Nat, ListReserve(n) PROVE Balance(o)
  <2>1. Elements' = Elements /\ count' = count /\ UNCHANGED <<map, held>>
    BY <1>14, ReserveBecomes DEF Becomes, ListReserve
  <2>2. Surplus(o)' = Surplus(o)
    BY <1>5, <2>1, ListBalance
  <2> QED BY <2>2 DEF Balance
<1>15. ASSUME NEW n \in Nat, ListResize(n) PROVE Balance(o)
  <2> DEFINE b == SubSeq(slots, n + 1, size)
  <2>1. count' = Counted(<<>>, b) /\ UNCHANGED <<map, held>> /\ n # size
        /\ ~ \E i \in size + 1 .. n : slots'[i] \in Strings \cup {Blank}
    BY <1>15 DEF ListResize
  <2>2. b \in Seq(Slot) /\ (n >= size => b = <<>>)
        /\ (n < size => b = SubSeq(Elements, n + 1, Len(Elements)))
    BY ResizeCounts
  <2> HIDE DEF b
  <2>3. count'[o] = count[o] + Many(<<>>, R) - Many(b, R) /\ Many(b, R) \in Nat
    BY <1>3, <2>1, <2>2, CountedIs, ManyIsNat
  <2>4. count'[o] = count[o] - Many(b, R)
    BY <1>5, <2>3, ManyOfFew
  <2>5. Many(Elements', R) = Many(Elements, R) - Many(b, R)
    <3>1. CASE n < size
      <4>1. Elements' = SubSeq(Elements, 1, n) /\ n \in 0 .. Len(Elements)
        BY <1>1, <1>15, <3>1, ResizeBecomes DEF Becomes
      <4>2. Many(Elements, R)
              = Many(SubSeq(Elements, 1, n), R) + Many(SubSeq(Elements, n + 1, Len(Elements)), R)
        BY <1>1, <4>1, ManyCut
      <4>3. b = SubSeq(Elements, n + 1, Len(Elements))
        BY <2>2, <3>1
      <4>4. Many(Elements, R) = Many(Elements', R) + Many(b, R)
        BY <4>1, <4>2, <4>3
      <4> QED BY <1>5, <2>3, <4>4
    <3>2. CASE n > size
      <4> DEFINE c == SubSeq(slots', size + 1, n)
      <4>1. /\ Elements' = Elements \o c /\ c \in Seq(Slot) /\ Len(c) = n - size
            /\ \A r \in 1 .. n - size : c[r] = slots'[size + r]
        BY <1>15, <3>2, ResizeBecomes DEF Becomes
      <4> HIDE DEF c
      <4>2. \A r \in 1 .. n - size : c[r] # R
        <5> TAKE r \in 1 .. n - size
        <5>1. size + r \in size + 1 .. n
          BY <1>1, <3>2
        <5>2. slots'[size + r] \notin Strings
          BY <2>1, <5>1
        <5> QED BY <4>1, <5>2 DEF Strings
      <4>3. Many(c, R) = 0
        <5>1. {r \in DOMAIN c : c[r] = R} = {}
          BY <4>1, <4>2
        <5> QED BY <5>1, FS_EmptySet DEF Many
      <4>4. Many(Elements \o c, R) = Many(Elements, R) + Many(c, R)
        BY <1>1, <4>1, ManyOfBoth
      <4>5. Many(b, R) = 0
        BY <1>1, <2>2, <3>2, ManyOfFew
      <4> QED BY <1>5, <4>1, <4>3, <4>4, <4>5
    <3> QED BY <1>1, <2>1, <3>1, <3>2
  <2> DEFINE d == - Many(b, R)
  <2>6. d \in Int /\ count'[o] = count[o] + d /\ Many(Elements', R) = Many(Elements, R) + d
    BY <1>5, <2>3, <2>4, <2>5
  <2> HIDE DEF d
  <2>7. Surplus(o)' = Surplus(o)
    BY <2>1, <2>6, ListBalance
  <2> QED BY <2>7 DEF Balance
<1>16. 0 .. MaxCapacity \subseteq Nat
  OBVIOUS
<1> QED
  BY <1>7, <1>8, <1>9, <1>10, <1>11, <1>12, <1>13, <1>14, <1>15, <1>16 DEF List

(* The same for an operation on the map.                                   *)
LEMMA MapBalance ==
  ASSUME TypeOK, TypeOK', NEW o \in Str, UNCHANGED <<list, held>>, NEW d \in Int,
         Many(keys', Ref(o)) + Many(vals', Ref(o))
           = Many(keys, Ref(o)) + Many(vals, Ref(o)) + d
  PROVE  /\ count'[o] = count[o] + d => Surplus(o)' = Surplus(o)
         /\ count'[o] > count[o] + d => Surplus(o)' > Surplus(o)
<1>1. Elements' = Elements /\ held' = held
  BY DEF list, Elements
<1> QED BY <1>1, SurplusIs DEF LeftOver

(* Listing the keys or the values counts every one of them once more.      *)
LEMMA ListingBalances ==
  ASSUME TypeOK, TypeOK', NEW o \in Str, NEW e \in Seq(Slot), MapListed(e)
  PROVE  Surplus(o)' = Surplus(o) \/ Surplus(o)' > Surplus(o)
<1>1. count' = Counted(e, <<>>) /\ UNCHANGED <<list, map, held>>
  BY DEF MapListed
<1>2. <<>> \in Seq(Slot)
  OBVIOUS
<1>3. count'[o] = count[o] + Many(e, Ref(o)) - Many(<<>>, Ref(o))
  BY <1>1, <1>2, CountedIs
<1>4. Many(e, Ref(o)) \in Nat /\ Many(<<>>, Ref(o)) = 0 /\ count[o] \in Int
  BY ManyIsNat, ManyOfFew DEF TypeOK
<1>5. count'[o] = count[o] + 0 \/ count'[o] > count[o] + 0
  BY <1>3, <1>4
<1>6. Many(keys', Ref(o)) + Many(vals', Ref(o))
        = Many(keys, Ref(o)) + Many(vals, Ref(o)) + 0
  <2>1. Many(keys, Ref(o)) \in Nat /\ Many(vals, Ref(o)) \in Nat
    BY SurplusIs
  <2>2. keys' = keys /\ vals' = vals
    BY <1>1 DEF map
  <2> QED BY <2>1, <2>2
<1>7. UNCHANGED <<list, held>> /\ 0 \in Int
  BY <1>1
<1> QED BY <1>5, <1>6, <1>7, MapBalance

(* The operations on the map.                                              *)
LEMMA MapBalances ==
  ASSUME TypeOK, TypeOK', MapInv, Map, NEW o \in Str
  PROVE  Balance(o)
<1> DEFINE R == Ref(o)
<1>1. /\ keys \in Seq(Value) /\ vals \in Seq(Value) /\ Len(keys) = Len(vals)
      /\ keys \in Seq(Slot) /\ vals \in Seq(Slot)
  BY ValuesAreSlots DEF TypeOK
<1>2. <<>> \in Seq(Slot) /\ \A v \in Slot : <<v>> \in Seq(Slot)
  OBVIOUS
<1>3. Argument \subseteq Slot
  BY ValuesAreSlots
<1>4. count[o] \in Int /\ Many(keys, R) \in Nat /\ Many(vals, R) \in Nat
  BY SurplusIs
<1>5. \A b : One(b) \in {0, 1}
  BY DEF One
<1>6. CASE MapKeys \/ MapValues
  BY <1>1, <1>6, ListingBalances DEF MapKeys, MapValues, Balance, Leaves
<1>7. CASE MapRenew
  <2>1. /\ keys' = <<>> /\ vals' = <<>> /\ count' = Counted(<<>>, keys \o vals)
        /\ UNCHANGED <<list, held>>
    BY <1>7 DEF MapRenew
  <2>2. keys \o vals \in Seq(Slot)
    BY <1>1
  <2>3. count'[o] = count[o] + Many(<<>>, R) - Many(keys \o vals, R)
    BY <1>2, <2>1, <2>2, CountedIs
  <2>4. Many(keys \o vals, R) = Many(keys, R) + Many(vals, R)
    BY <1>1, ManyOfBoth
  <2> DEFINE d == - (Many(keys, R) + Many(vals, R))
  <2>5. Many(<<>>, R) = 0
    BY ManyOfFew
  <2>6. d \in Int /\ count'[o] = count[o] + d
    BY <1>4, <2>3, <2>4, <2>5
  <2>7. Many(keys', R) + Many(vals', R) = Many(keys, R) + Many(vals, R) + d
    BY <1>4, <2>1, <2>5
  <2> HIDE DEF d
  <2>8. Surplus(o)' = Surplus(o)
    BY <2>1, <2>6, <2>7, MapBalance
  <2> QED BY <2>8 DEF Balance
<1>8. ASSUME NEW k \in Argument, NEW v \in Argument, MapAssign(k, v)
      PROVE  Balance(o)
  <2>1. k \in Slot /\ v \in Slot /\ <<k>> \in Seq(Slot) /\ <<v>> \in Seq(Slot)
    BY <1>2, <1>3
  <2>2. CASE Found(keys, k) # {}
    <3>1. PICK i \in 1 .. Len(vals) :
            /\ vals' = [vals EXCEPT ![i] = v] /\ count' = Counted(<<v>>, <<vals[i]>>)
            /\ UNCHANGED <<list, keys, held>>
      <4>1. /\ vals' = [vals EXCEPT ![Lowest(Found(keys, k))] = v]
            /\ count' = Counted(<<v>>, <<vals[Lowest(Found(keys, k))]>>)
            /\ UNCHANGED <<list, keys, held>>
        BY <1>8, <2>2 DEF MapAssign
      <4>2. Lowest(Found(keys, k)) \in 1 .. Len(vals)
        BY <1>1, <2>2, FoundIsEntry
      <4> QED BY <4>1, <4>2
    <3>2. vals[i] \in Slot /\ <<vals[i]>> \in Seq(Slot)
      BY <1>1, <1>2, <3>1
    <3>3. count'[o] = count[o] + Many(<<v>>, R) - Many(<<vals[i]>>, R)
      BY <2>1, <3>1, <3>2, CountedIs
    <3>4. Many(<<v>>, R) = One(v = R) /\ Many(<<vals[i]>>, R) = One(vals[i] = R)
      BY ManyOfFew
    <3>5. Many(vals', R) = Many(vals, R) - One(vals[i] = R) + One(v = R)
      <4>1. ASSUME NEW s \in Seq(Slot), NEW j \in 1 .. Len(s), NEW w \in Slot
            PROVE  Many([s EXCEPT ![j] = w], R) = Many(s, R) - One(s[j] = R) + One(w = R)
        BY ManyReplaced
      <4> QED BY <1>1, <2>1, <3>1, <4>1
    <3> DEFINE d == One(v = R) - One(vals[i] = R)
    <3>6. One(v = R) \in Int /\ One(vals[i] = R) \in Int
      BY <1>5
    <3>7. d \in Int /\ count'[o] = count[o] + d
      BY <1>4, <3>3, <3>4, <3>6
    <3>8. Many(keys', R) + Many(vals', R) = Many(keys, R) + Many(vals, R) + d
      BY <1>4, <3>1, <3>5, <3>6
    <3> HIDE DEF d
    <3>9. Surplus(o)' = Surplus(o)
      BY <3>1, <3>7, <3>8, MapBalance
    <3> QED BY <3>9 DEF Balance
  <2>3. CASE Found(keys, k) = {}
    <3>1. /\ keys' = Append(keys, k) /\ vals' = Append(vals, v)
          /\ count' = Counted(<<k, v>>, <<>>) /\ UNCHANGED <<list, held>>
      BY <1>8, <2>3 DEF MapAssign
    <3>2. <<k, v>> = Append(<<k>>, v)
      BY <2>1
    <3>3. Append(<<k>>, v) \in Seq(Slot)
      BY <2>1
    <3>4. Many(Append(<<k>>, v), R) = Many(<<k>>, R) + One(v = R)
      <4>1. \A s \in Seq(Slot), w \in Slot : Many(Append(s, w), R) = Many(s, R) + One(w = R)
        BY ManyAppended
      <4> QED BY <2>1, <4>1, Zenon
    <3>5. Many(<<k>>, R) = One(k = R) /\ Many(<<>>, R) = 0
      BY ManyOfFew
    <3>6. count'[o] = count[o] + Many(Append(<<k>>, v), R) - Many(<<>>, R)
      BY <1>2, <3>1, <3>2, <3>3, CountedIs
    <3>7. Many(keys', R) = Many(keys, R) + One(k = R)
      BY <1>1, <2>1, <3>1, ManyAppended
    <3>8. Many(vals', R) = Many(vals, R) + One(v = R)
      BY <1>1, <2>1, <3>1, ManyAppended
    <3> DEFINE d == One(k = R) + One(v = R)
    <3>9. One(k = R) \in Int /\ One(v = R) \in Int
      BY <1>5
    <3>10. d \in Int /\ count'[o] = count[o] + d
      BY <1>4, <3>4, <3>5, <3>6, <3>9
    <3>11. Many(keys', R) + Many(vals', R) = Many(keys, R) + Many(vals, R) + d
      BY <1>4, <3>7, <3>8, <3>9
    <3> HIDE DEF d
    <3>12. Surplus(o)' = Surplus(o)
      BY <3>1, <3>10, <3>11, MapBalance
    <3> QED BY <3>12 DEF Balance
  <2> QED BY <2>2, <2>3
<1> QED BY <1>6, <1>7, <1>8 DEF Map

(* Every step, as long as nothing undefined has been done.                 *)
LEMMA StepBalances ==
  ASSUME TypeOK, MapInv, NothingFreedInUse, [Next]_vars, ~undefined', NEW o \in Str
  PROVE  Balance(o)
<1>1. TypeOK'
  BY TypeStep
<1>2. CASE Next
  <2>1. ~undefined /\ (Script \/ List \/ Map)
    BY <1>2 DEF Next
  <2> QED BY <1>1, <2>1, ScriptBalances, ListBalances, MapBalances DEF Balance
<1>3. CASE UNCHANGED vars
  <2>1. UNCHANGED <<list, map, held, count>>
    BY <1>3 DEF vars
  <2>2. Elements' = Elements /\ keys' = keys /\ vals' = vals
    BY <2>1, SameCollections
  <2>3. LeftOver(count', Elements', keys', vals', held', o)
          = LeftOver(count, Elements, keys, vals, held, o)
    BY <2>1, <2>2
  <2> QED BY <1>1, <2>3, SurplusIs DEF Balance
<1> QED BY <1>2, <1>3

(* The elements of a literal are values of the language.                   *)
LEMMA LiteralIs ==
  ASSUME NEW s \in Literal(MaxLiteral)
  PROVE  s \in Seq(Value) /\ s \in Seq(Slot) /\ Len(s) \in Nat
<1>1. PICK n \in 0 .. MaxLiteral : s \in [1 .. n -> Plain \cup Strings]
  BY DEF Literal, BoundedSeq, SeqOf
<1>2. MaxLiteral \in Nat
  BY ContainerAssumption
<1>3. s \in Seq(Plain \cup Strings)
  BY <1>1, <1>2
<1> QED BY <1>3, ValuesAreSlots DEF Value

(* At the beginning everything has its type, and exactly the references    *)
(* there are have been counted.                                            *)
LEMMA InitTypeOK == Init => TypeOK /\ NothingFreedInUse
<1> SUFFICES ASSUME Init PROVE TypeOK /\ NothingFreedInUse
  OBVIOUS
<1>1. PICK args \in Literal(MaxLiteral), ks \in Literal(MaxLiteral),
           vs \in Literal(MaxLiteral) :
        /\ Len(vs) = Len(ks)
        /\ slots = InitialSlots(args) /\ size = Len(args)
        /\ keys = ks /\ vals = vs /\ made = Larger(MinCapacity, Len(ks))
        /\ room = made /\ held = Str /\ undefined = FALSE
        /\ count = [o \in Str |-> 1 + Occurrences(args \o ks \o vs, o)]
  BY DEF Init
<1>2. /\ args \in Seq(Slot) /\ Len(args) \in Nat
      /\ ks \in Seq(Value) /\ ks \in Seq(Slot) /\ Len(ks) \in Nat
      /\ vs \in Seq(Value) /\ vs \in Seq(Slot)
  BY LiteralIs
<1> DEFINE c == Larger(MinCapacity, Len(args))
<1>3. c \in Nat /\ Len(args) <= c /\ made \in Nat /\ room \in Nat
  BY <1>1, <1>2, ContainerAssumption DEF Larger
<1>4. InitialSlots(args) = [i \in 1 .. c |-> IF i <= Len(args) THEN args[i] ELSE Blank]
  BY DEF InitialSlots
<1> HIDE DEF c
<1>5. /\ slots \in Seq(Slot) /\ Len(slots) = c
      /\ \A i \in 1 .. Len(args) : slots[i] = args[i]
  <2>1. \A i \in 1 .. c : (IF i <= Len(args) THEN args[i] ELSE Blank) \in Slot
    <3> TAKE i \in 1 .. c
    <3>1. Blank \in Slot
      BY DEF Slot
    <3>2. i <= Len(args) => args[i] \in Slot
      BY <1>2, <1>3
    <3> QED BY <3>1, <3>2
  <2>2. InitialSlots(args) \in [1 .. c -> Slot]
    BY <1>4, <2>1
  <2>3. slots \in Seq(Slot) /\ Len(slots) = c
    BY <1>1, <1>3, <2>2
  <2>4. ASSUME NEW i \in 1 .. Len(args) PROVE slots[i] = args[i]
    BY <1>1, <1>2, <1>3, <1>4
  <2> QED BY <2>3, <2>4
<1>6. \A o \in Str : Occurrences(args \o ks \o vs, o) \in Nat
  <2> TAKE o \in Str
  <2>1. args \o ks \o vs \in Seq(Slot)
    BY <1>2
  <2> QED BY <2>1, ManyIsNat DEF Occurrences, Many
<1>7. TypeOK
  <2>1. count \in [Str -> Int]
    BY <1>1, <1>6
  <2>2. size \in 0 .. Capacity
    BY <1>1, <1>2, <1>3, <1>5 DEF Capacity
  <2> QED BY <1>1, <1>2, <1>3, <1>5, <2>1, <2>2 DEF TypeOK
<1>8. Elements = args
  <2>1. Len(args) \in 0 .. Len(slots)
    BY <1>2, <1>3, <1>5
  <2>2. SubSeq(slots, 1, Len(args)) = args
    BY <1>2, <1>5, <2>1, FrontIsOnly
  <2> QED BY <1>1, <2>2 DEF Elements
<1>9. ASSUME NEW o \in Str PROVE Surplus(o) = 0
  <2>1. count[o] = 1 + Occurrences(args \o ks \o vs, o)
    BY <1>1
  <2>2. References(o) = Occurrences(args \o ks \o vs, o) + 1
    BY <1>1, <1>8 DEF References
  <2> QED BY <1>6, <2>1, <2>2 DEF Surplus
<1> QED BY <1>7, <1>9 DEF NothingFreedInUse

(* No string is freed that is in use, and no reference to it is forgotten. *)
Inv == TypeOK /\ MapInv /\ NothingFreedInUse

(* The surplus of an object never falls, so it stays where it began or     *)
(* above.                                                                  *)
LEMMA InvStep == Inv /\ [Next]_vars => Inv'
<1> SUFFICES ASSUME Inv, [Next]_vars PROVE Inv'
  OBVIOUS
<1>1. TypeOK' /\ MapInv'
  BY TypeStep, StepMapInv DEF Inv
<1>2. NothingFreedInUse'
  <2> SUFFICES ASSUME ~undefined', NEW o \in Str PROVE Surplus(o)' >= 0
    BY DEF NothingFreedInUse
  <2>1. ~undefined
    BY DEF Next, vars
  <2>2. Surplus(o) >= 0
    BY <2>1 DEF NothingFreedInUse, Inv
  <2>3. Surplus(o)' = Surplus(o) \/ Surplus(o)' > Surplus(o)
    BY StepBalances DEF Balance, Inv
  <2>4. Surplus(o) \in Int /\ Surplus(o)' \in Int
    BY <1>1, SurplusIs DEF LeftOver, Inv
  <2> QED BY <2>2, <2>3, <2>4
<1> QED BY <1>1, <1>2 DEF Inv

(* All three hold always.                                                  *)
LEMMA InvAlways == Spec => []Inv
<1>1. Init => Inv
  BY InitTypeOK, InitMapInv DEF Inv
<1> QED BY <1>1, InvStep, PTL DEF Spec

(* The sizes agree with the arrays they count, every slot holds a value or *)
(* nothing, and the counters are counters.                                 *)
THEOREM TypeCorrect == Spec => []TypeOK
<1>1. Inv => TypeOK
  BY DEF Inv
<1> QED BY <1>1, InvAlways, PTL

(* No string is freed while an element, a key, a value or a variable is a  *)
(* reference to it: for any number of strings and any contents, and up to  *)
(* the first step whose behaviour is undefined.                            *)
THEOREM NothingIsFreedInUse == Spec => []NothingFreedInUse
<1>1. Inv => NothingFreedInUse
  BY DEF Inv
<1> QED BY <1>1, InvAlways, PTL

(* Every operation gives back the references it ends and takes those it    *)
(* makes; only an insertion and a listing of the keys or the values take   *)
(* more.                                                                   *)
THEOREM ReferencesAreBalanced == Spec => ReferencesBalance
<1>1. ASSUME Inv, [Next]_vars, ~undefined', NEW o \in Str
      PROVE  \/ Surplus(o)' = Surplus(o)
             \/ /\ Surplus(o)' > Surplus(o)
                /\ \/ MapKeys \/ MapValues
                   \/ \E i \in 1 .. size, v \in Argument : ListInsert(i, v)
  <2>1. Balance(o)
    BY <1>1, StepBalances DEF Inv
  <2> QED BY <2>1 DEF Balance, Leaves
<1>2. Inv /\ [Next]_vars
        => [~undefined' =>
              \A o \in Str :
                \/ Surplus(o)' = Surplus(o)
                \/ /\ Surplus(o)' > Surplus(o)
                   /\ \/ MapKeys \/ MapValues
                      \/ \E i \in 1 .. size, v \in Argument : ListInsert(i, v)]_vars
  BY <1>1
<1> QED BY <1>2, InvAlways, PTL DEF Spec, ReferencesBalance

-----------------------------------------------------------------------------
(* The refinement.  The library's operators are those of the promise.      *)
LEMMA SameOperators ==
  /\ \A S : Collection!Cardinality(S) = Cardinality(S)
  /\ \A s : Collection!Front(s) = Front(s)
  /\ \A s, i : Collection!RemoveAt(s, i) = RemoveAt(s, i)
  /\ \A s, i, v : Collection!InsertAt(s, i, v) = InsertAt(s, i, v)
<1>1. \A S : Collection!Cardinality(S) = Cardinality(S)
  BY DEF Cardinality, Collection!Cardinality
<1>2. \A s : Collection!Front(s) = Front(s)
  BY DEF Front, Collection!Front
<1>3. \A s, i : Collection!RemoveAt(s, i) = RemoveAt(s, i)
  BY DEF RemoveAt, Collection!RemoveAt
<1>4. \A s, i, v : Collection!InsertAt(s, i, v) = InsertAt(s, i, v)
  BY DEF InsertAt, Collection!InsertAt
<1> QED BY <1>1, <1>2, <1>3, <1>4

(* The storage of the list, as a sequence, does one of    *)
(* what the list promises, and leaves the table alone.                                                 *)
LEMMA ListImplements ==
  ASSUME TypeOK, List
  PROVE  Collection!Next \/ UNCHANGED <<Elements, Table>>
<1>1. Elements \in Seq(Slot) /\ Len(Elements) = size /\ size \in Nat
      /\ DOMAIN Elements = 1 .. size
  BY ElementsAre
<1>2. Argument \subseteq Slot
  BY ValuesAreSlots
<1>3. ASSUME UNCHANGED map PROVE Table' = Table
  BY <1>3, TableIs DEF map
<1>4. CASE ListPop
  <2>1. Elements' = Front(Elements) /\ Elements # <<>>
    BY <1>1, <1>4, PopBecomes DEF Becomes
  <2>2. Table' = Table
    BY <1>3, <1>4 DEF ListPop
  <2> QED BY <2>1, <2>2, SameOperators DEF Collection!Next, Collection!Pop
<1>5. CASE ListRenew
  <2>1. Elements' = <<>>
    BY <1>5, RenewBecomes DEF Becomes
  <2>2. Table' = Table
    BY <1>3, <1>5 DEF ListRenew
  <2> QED BY <2>1, <2>2 DEF Collection!Next, Collection!Clear
<1>6. CASE ListSort
  <2>1. Elements' = TimSort(Elements)
    BY <1>6, SortBecomes DEF Becomes
  <2>2. Rearranged(Elements, Elements') /\ Ordered(Elements')
    BY <1>1, <2>1, TimSortSorts
  <2>3. Elements' \in Seq(Slot) /\ Len(Elements') = Len(Elements)
    BY <2>2 DEF Rearranged
  <2>4. ASSUME NEW i \in DOMAIN Elements
        PROVE  Collection!Times(Elements', Elements[i]) = Collection!Times(Elements, Elements[i])
    <3>1. Many(Elements', Elements[i]) = Many(Elements, Elements[i])
      BY <1>1, <2>2, ManyRearranged
    <3> QED BY <3>1, SameOperators DEF Many, Collection!Times
  <2>5. ASSUME NEW i \in DOMAIN Elements' \ {1}
        PROVE  ~After(Elements'[i - 1], Elements'[i])
    <3>1. i - 1 \in 1 .. Len(Elements') - 1 /\ (i - 1) + 1 = i
      BY <2>3
    <3>2. ~After(Elements'[i - 1], Elements'[(i - 1) + 1])
      BY <2>2, <3>1 DEF Ordered
    <3> QED BY <3>1, <3>2
  <2>6. Table' = Table
    BY <1>3, <1>6 DEF ListSort
  <2>7. Collection!Sort
    BY <2>3, <2>4, <2>5 DEF Collection!Sort
  <2> QED BY <2>6, <2>7 DEF Collection!Next
<1>7. ASSUME NEW v \in Argument, ListAppend(v) PROVE Collection!Next
  <2>1. v \in Slot /\ Elements' = Append(Elements, v)
    BY <1>2, <1>7, AppendBecomes DEF Becomes
  <2>2. Table' = Table
    BY <1>3, <1>7 DEF ListAppend
  <2> QED BY <2>1, <2>2 DEF Collection!Next, Collection!Add
<1>8. ASSUME NEW i \in 1 .. size, ListRemove(i) PROVE Collection!Next
  <2>1. Elements' = RemoveAt(Elements, i) /\ i \in DOMAIN Elements
    BY <1>1, <1>8, RemoveBecomes DEF Becomes
  <2>2. Table' = Table
    BY <1>3, <1>8 DEF ListRemove
  <2> QED BY <2>1, <2>2, SameOperators DEF Collection!Next, Collection!Delete
<1>9. ASSUME NEW i \in 1 .. size + 1, NEW v \in Argument, ListInsert(i, v)
      PROVE  Collection!Next
  <2>1. v \in Slot /\ Elements' = InsertAt(Elements, i, v) /\ i \in 1 .. Len(Elements) + 1
    BY <1>1, <1>2, <1>9, InsertBecomes DEF Becomes
  <2>2. Table' = Table
    BY <1>3, <1>9 DEF ListInsert
  <2> QED BY <2>1, <2>2, SameOperators DEF Collection!Next, Collection!Insert
<1>10. ASSUME NEW i \in 1 .. size, NEW v \in Argument, ListAssign(i, v)
       PROVE  Collection!Next
  <2>1. v \in Slot /\ Elements' = [Elements EXCEPT ![i] = v] /\ i \in DOMAIN Elements
    BY <1>1, <1>2, <1>10, PutBecomes DEF Becomes
  <2>2. Table' = Table
    BY <1>3, <1>10 DEF ListAssign
  <2> QED BY <2>1, <2>2 DEF Collection!Next, Collection!Put
<1>11. ASSUME NEW n \in Nat, ListReserve(n) PROVE UNCHANGED <<Elements, Table>>
  <2>1. Elements' = Elements
    BY <1>11, ReserveBecomes DEF Becomes
  <2>2. Table' = Table
    BY <1>3, <1>11 DEF ListReserve
  <2> QED BY <2>1, <2>2
<1>12. ASSUME NEW n \in Nat, ListResize(n) PROVE Collection!Next
  <2>1. n # size
    BY <1>12 DEF ListResize
  <2>2. CASE n < size
    <3>1. Elements' = SubSeq(Elements, 1, n) /\ n \in 0 .. Len(Elements)
      BY <1>1, <1>12, <2>2, ResizeBecomes DEF Becomes
    <3>2. Len(Elements') = n /\ Elements' \in Seq(Slot)
          /\ \A i \in 1 .. n : Elements'[i] = Elements[i]
      BY <1>1, <3>1, FrontIs
    <3>3. \A i \in DOMAIN Elements \cap DOMAIN Elements' : Elements'[i] = Elements[i]
      BY <3>2
    <3>4. Collection!Resize
      BY <1>1, <2>1, <3>2, <3>3 DEF Collection!Resize
    <3> QED BY <1>3, <1>12, <3>4 DEF Collection!Next, ListResize
  <2>3. CASE n > size
    <3> DEFINE c == SubSeq(slots', size + 1, n)
    <3>1. Elements' = Elements \o c /\ c \in Seq(Slot) /\ Len(c) = n - size
      BY <1>12, <2>3, ResizeBecomes DEF Becomes
    <3> HIDE DEF c
    <3>2. Len(Elements') = Len(Elements) + Len(c)
      <4>1. \A s, t \in Seq(Slot) : Len(s \o t) = Len(s) + Len(t)
        OBVIOUS
      <4>2. Len(Elements \o c) = Len(Elements) + Len(c)
        BY <1>1, <3>1, <4>1, Zenon
      <4> QED BY <3>1, <4>2
    <3>3. \A i \in DOMAIN Elements \cap DOMAIN Elements' : Elements'[i] = Elements[i]
      BY <1>1, <3>1
    <3>4. Collection!Resize
      BY <1>1, <2>3, <3>1, <3>2, <3>3 DEF Collection!Resize
    <3> QED BY <1>3, <1>12, <3>4 DEF Collection!Next, ListResize
  <2> QED BY <1>1, <2>1, <2>2, <2>3
<1>13. 0 .. MaxCapacity \subseteq Nat
  OBVIOUS
<1> QED
  BY <1>4, <1>5, <1>6, <1>7, <1>8, <1>9, <1>10, <1>11, <1>12, <1>13 DEF List

(* The arrays of the map, as a table, do what the table promises, and      *)
(* leave the list alone.                                                   *)
LEMMA MapImplements ==
  ASSUME MapInv, Map
  PROVE  Collection!Next \/ UNCHANGED <<Elements, Table>>
<1>1. ASSUME UNCHANGED list PROVE Elements' = Elements
  BY <1>1 DEF list, Elements
<1>2. CASE MapKeys \/ MapValues
  <2>1. UNCHANGED <<list, map>>
    BY <1>2 DEF MapKeys, MapValues, MapListed
  <2>2. Table' = Table
    BY <2>1, TableIs DEF map
  <2> QED BY <1>1, <2>1, <2>2
<1>3. CASE MapRenew
  <2>1. keys' = <<>> /\ UNCHANGED list
    BY <1>3 DEF MapRenew
  <2>2. DOMAIN Table' = {}
    BY <2>1, TableIs DEF TableOf
  <2> QED BY <1>1, <2>1, <2>2 DEF Collection!Next, Collection!ClearTable
<1>4. ASSUME NEW k \in Argument, NEW v \in Argument, MapAssign(k, v)
      PROVE  Collection!Next
  <2>1. k \in Value /\ v \in Slot
    BY ArgumentIsValue DEF MapInv, Slot
  <2>2. Table' = [x \in DOMAIN Table \cup {Same(k)} |-> IF x = Same(k) THEN v ELSE Table[x]]
    <3>1. Table' = With(Table, Same(k), v)
      BY <1>4, AssignIsWith
    <3>2. {Same(k)} \cup DOMAIN Table = DOMAIN Table \cup {Same(k)}
      OBVIOUS
    <3> QED BY <3>1, <3>2 DEF With
  <2>3. Same(k) \in {Same(w) : w \in Value}
    BY <2>1
  <2>4. Collection!Set
    BY <2>1, <2>2, <2>3 DEF Collection!Set
  <2>5. UNCHANGED list
    BY <1>4 DEF MapAssign
  <2> QED BY <1>1, <2>4, <2>5 DEF Collection!Next
<1> QED BY <1>2, <1>3, <1>4 DEF Map

(* The steps of the script change neither.                                 *)
LEMMA StepImplements ==
  ASSUME Inv, [Next]_vars
  PROVE  Collection!Next \/ UNCHANGED <<Elements, Table>>
<1>1. ASSUME UNCHANGED <<list, map>> PROVE UNCHANGED <<Elements, Table>>
  <2>1. Elements' = Elements /\ keys' = keys /\ vals' = vals
    BY <1>1, SameCollections
  <2> QED BY <2>1, TableIs
<1>2. CASE Script
  BY <1>1, <1>2, ScriptType DEF Inv
<1>3. CASE List
  BY <1>3, ListImplements DEF Inv
<1>4. CASE Map
  BY <1>4, MapImplements DEF Inv
<1>5. CASE UNCHANGED vars
  BY <1>1, <1>5 DEF vars
<1> QED BY <1>2, <1>3, <1>4, <1>5 DEF Next

(* The array of slots is a sequence to whoever uses the list, and the two  *)
(* arrays of the map a table, for any contents, hash and order of use.     *)
THEOREM ListAndMapImplement == Spec => ImplementsCollection
<1>1. Init => Collection!Init
  <2> SUFFICES ASSUME Init PROVE Collection!Init
    OBVIOUS
  <2>1. TypeOK
    BY InitTypeOK
  <2>2. Elements \in Seq(Slot)
    BY <2>1, ElementsAre
  <2>3. DOMAIN Table \subseteq {Same(v) : v \in Value}
    <3>1. DOMAIN Table = {Same(keys[i]) : i \in DOMAIN keys}
      BY TableIs DEF TableOf
    <3>2. \A i \in DOMAIN keys : keys[i] \in Value
      BY <2>1 DEF TypeOK
    <3> QED BY <3>1, <3>2
  <2> QED BY <2>2, <2>3 DEF Collection!Init
<1>2. Inv /\ [Next]_vars => [Collection!Next]_<<Elements, Table>>
  BY StepImplements
<1> QED BY <1>1, <1>2, InvAlways, PTL DEF Spec, ImplementsCollection, Collection!Spec
================================================================================
