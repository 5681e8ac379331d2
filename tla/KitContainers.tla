----------------------------- MODULE KitContainers -----------------------------
(***************************************************************************)
(* The storage of the language's lists and maps: src/src/kit.list.c,       *)
(* src/src/kit.list.sort.c, src/src/kit.map.c and the builtins over them.  *)
(*                                                                         *)
(* One list and one map share string objects.  A list is an array of slots *)
(* of which the first `size` are its elements; a map is two arrays filled  *)
(* from the front.  What lies past the size is not forgotten: list::pop    *)
(* leaves it there, and a resize within the capacity makes it an element   *)
(* again.  The reference counters say what that costs.                     *)
(***************************************************************************)
EXTENDS Integers, Sequences, FiniteSets, SequencesExt

CONSTANTS
  Str,            (* the string objects of the pool; bound *)
  Text,           (* the text of each, as its place in the order of strcmp *)
  Plain,          (* the values that are no objects: <<type, content>> *)
  Digest(_),      (* kit_var_hash of a type and a content *)
  MinCapacity,    (* slots a new list or map gets at least: 8 *)
  Run,            (* elements kit_tim_sort sorts by insertion: 32 *)
  MaxCells,       (* bound: slots of the list and entries of the map together *)
  MaxCapacity,    (* bound: slots of the list *)
  MaxLiteral,     (* bound: elements of a literal *)
  MaxSurplus      (* bound: references nobody gives back *)

Null   == <<"null", 0>>
Blank  == <<"none", 0>>         (* zeroed memory: no type at all *)
Ref(o) == <<"string", o>>

Strings == {Ref(o) : o \in Str}
Value   == Plain \cup Strings \cup {Null}
Slot    == Value \cup {Blank}

ASSUME ContainerAssumption ==
  /\ {MinCapacity, Run, MaxCells, MaxCapacity, MaxLiteral, MaxSurplus} \subseteq Nat
  /\ MinCapacity >= 1 /\ Run >= 1
  /\ Text \in [Str -> Nat]
  /\ Plain \subseteq {"int", "float"} \X Int
  /\ \A v, w \in Plain : v[1] # w[1] /\ v[2] = w[2] => Digest(v) # Digest(w)

VARIABLES
  slots,          (* list->vars, all of the capacity *)
  size,           (* list->size *)
  keys, vals,     (* the entries of the map, in the order they came *)
  made,           (* map->capacity: what the map was made with *)
  room,           (* the length of the map's arrays in memory *)
  held,           (* the objects the script holds in a variable *)
  count,          (* the reference counter of each object *)
  undefined       (* a slot that was never set to null became an element, or
                     was released: from here on behaviour is undefined *)

list == <<slots, size>>
map  == <<keys, vals, made, room>>
vars == <<list, map, held, count, undefined>>

Capacity == Len(slots)
Elements == SubSeq(slots, 1, size)

Larger(m, n) == IF m >= n THEN m ELSE n
Lesser(m, n) == IF m <= n THEN m ELSE n

-----------------------------------------------------------------------------
(* Counting.  A release that takes a counter to zero frees the string.     *)
Occurrences(s, o) == Cardinality({i \in DOMAIN s : s[i] = Ref(o)})

Counted(acquired, released) ==
  [o \in Str |-> count[o] + Occurrences(acquired, o) - Occurrences(released, o)]

References(o) ==
  Occurrences(Elements \o keys \o vals, o) + (IF o \in held THEN 1 ELSE 0)

Surplus(o) == count[o] - References(o)

LeftBehind == SumFunction([o \in Str |-> Surplus(o)])

(* A variable that is an argument is held by the script.                   *)
Argument == Plain \cup {Ref(o) : o \in held}

Cells == Capacity + Len(keys)

-----------------------------------------------------------------------------
(* kit_var_hash and kit_var_equal.  A number equals a number of the other  *)
(* type, but its hash includes the type: 1 and 1.0 are two keys.  Two      *)
(* strings of one text are one.                                            *)
Content(v) == IF v \in Strings THEN Text[v[2]] ELSE v[2]
Same(v)    == <<v[1], Content(v)>>
Hash(v)    == Digest(Same(v))

Equal(v, w) ==
  /\ Content(v) = Content(w)
  /\ v[1] = w[1] \/ {v[1], w[1]} = {"int", "float"}

\* Mutant: the hashes are compared, the keys are not.
FoundByHash(ks, k) == {i \in DOMAIN ks : Hash(ks[i]) = Hash(k)}

Found(ks, k) == {i \in DOMAIN ks : Hash(ks[i]) = Hash(k) /\ Equal(k, ks[i])}

Lowest(S) == CHOOSE i \in S : \A j \in S : i <= j

-----------------------------------------------------------------------------
(* kit_list_init and kit_map_init, of the elements of a literal.  The      *)
(* slots past the elements are zeroed memory, not null.  Equal keys are    *)
(* not looked for: the first is the one that is found.                     *)
InitialSlots(args) ==
  [i \in 1 .. Larger(MinCapacity, Len(args)) |->
     IF i <= Len(args) THEN args[i] ELSE Blank]

Literal(n) == BoundedSeq(Plain \cup Strings, n)

Init ==
  \E args \in Literal(MaxLiteral), ks \in Literal(MaxLiteral),
     vs \in Literal(MaxLiteral) :
    /\ Len(vs) = Len(ks) /\ Len(args) + Len(ks) <= MaxLiteral
    /\ slots = InitialSlots(args)
    /\ size = Len(args)
    /\ keys = ks
    /\ vals = vs
    /\ made = Larger(MinCapacity, Len(ks))
    /\ room = made
    /\ held = Str
    /\ count = [o \in Str |-> 1 + Occurrences(args \o ks \o vs, o)]
    /\ undefined = FALSE

-----------------------------------------------------------------------------
(* The script's variables: a new string, a variable that goes out of       *)
(* scope, and one that takes an element or a map's value.                  *)
Make(o) ==
  /\ count[o] = 0
  /\ held' = held \cup {o}
  /\ count' = [count EXCEPT ![o] = 1]
  /\ UNCHANGED <<list, map, undefined>>

Drop(o) ==
  /\ o \in held
  /\ held' = held \ {o}
  /\ count' = [count EXCEPT ![o] = @ - 1]
  /\ UNCHANGED <<list, map, undefined>>

Take(v) ==
  /\ \E o \in Str \ held : v = Ref(o) /\ held' = held \cup {o}
  /\ count' = Counted(<<v>>, <<>>)
  /\ UNCHANGED <<list, map, undefined>>

(* kit_var_index of a list, an index that is in bounds.                    *)
ListIndex(i) == i \in 1 .. size /\ Take(slots[i])

(* kit_var_index of a map: kit_map_find.                                   *)
MapIndex(k) ==
  /\ Found(keys, k) # {}
  /\ Take(vals[Lowest(Found(keys, k))])

-----------------------------------------------------------------------------
(* The list.                                                               *)

(* The array after realloc, null from the size on.                         *)
Reserved(capacity) ==
  [i \in 1 .. capacity |-> IF i <= size THEN slots[i] ELSE Null]

\* Mutant: an array that is just full does not grow.
GrownLate ==
  IF size <= Capacity THEN slots ELSE Reserved(Larger(2 * Capacity, 1))

Grown ==
  IF size < Capacity THEN slots ELSE Reserved(Larger(2 * Capacity, 1))

ListAppend(v) ==
  /\ slots' = [Grown EXCEPT ![size + 1] = v]
  /\ size' = size + 1
  /\ count' = Counted(<<v>>, <<>>)
  /\ UNCHANGED <<map, held, undefined>>

(* The last element is released, and stays in its slot.                    *)
ListPop ==
  /\ size > 0
  /\ size' = size - 1
  /\ count' = Counted(<<>>, <<slots[size]>>)
  /\ UNCHANGED <<slots, map, held, undefined>>

(* What follows moves down; the slot it leaves is set to null.             *)
ListRemove(i) ==
  /\ i \in 1 .. size
  /\ slots' = [j \in DOMAIN slots |-> IF j \in i .. size - 1 THEN slots[j + 1]
                                      ELSE IF j = size THEN Null ELSE slots[j]]
  /\ size' = size - 1
  /\ count' = Counted(<<>>, <<slots[i]>>)
  /\ UNCHANGED <<map, held, undefined>>

(* What follows moves up, from the last on: each slot is released and gets *)
(* a counted copy of the one before it.  The first slot released is the    *)
(* one past the size, whatever is left in it; the last slot copied is      *)
(* overwritten without being released.                                     *)
ListInsert(i, v) ==
  /\ i \in 1 .. size + 1
  /\ LET g == Grown
     IN  /\ slots' = [j \in DOMAIN g |-> IF j = i THEN v
                                         ELSE IF j \in i + 1 .. size + 1 THEN g[j - 1]
                                         ELSE g[j]]
         /\ count' = Counted(Append(SubSeq(g, i, size), v), SubSeq(g, i + 1, size + 1))
         /\ undefined' = (i <= size /\ g[size + 1] \in Strings)
  /\ size' = size + 1
  /\ UNCHANGED <<map, held>>
  /\ undefined' \/ LeftBehind' <= MaxSurplus

\* Mutant: the value put in a slot is not counted.
ListAssignUncounted(i, v) ==
  /\ i \in 1 .. size
  /\ slots' = [slots EXCEPT ![i] = v]
  /\ count' = Counted(<<>>, <<slots[i]>>)
  /\ UNCHANGED <<size, map, held, undefined>>

(* kit_var_index_assign of a list.                                         *)
ListAssign(i, v) ==
  /\ i \in 1 .. size
  /\ slots' = [slots EXCEPT ![i] = v]
  /\ count' = Counted(<<v>>, <<slots[i]>>)
  /\ UNCHANGED <<size, map, held, undefined>>

(* list::reserve adds to the capacity.                                     *)
ListReserve(n) ==
  /\ n \in 1 .. MaxCapacity - Capacity
  /\ slots' = Reserved(Capacity + n)
  /\ UNCHANGED <<size, map, held, count, undefined>>

(* Beyond the capacity the new slots are null.  Within it nothing is set:  *)
(* what a pop or a truncation left is an element again, its reference      *)
(* given back already, or a slot without a type is one.                    *)
ListResize(n) ==
  /\ n # size
  /\ slots' = IF n > Capacity THEN Reserved(Larger(n, 2 * Capacity)) ELSE slots
  /\ size' = n
  /\ count' = Counted(<<>>, SubSeq(slots, n + 1, size))
  /\ undefined' = (\E i \in size + 1 .. n : slots'[i] \in Strings \cup {Blank})
  /\ UNCHANGED <<map, held>>

(* kit_list_free, and an empty list in its place.                          *)
ListRenew ==
  /\ slots' = InitialSlots(<<>>)
  /\ size' = 0
  /\ count' = Counted(<<>>, Elements)
  /\ UNCHANGED <<map, held, undefined>>

-----------------------------------------------------------------------------
(* kit_tim_sort.  Values of different types are ordered by their types.    *)
Rank(v) ==
  CASE v[1] = "none" -> 0 [] v[1] = "null" -> 1 [] v[1] = "int" -> 2
    [] v[1] = "float" -> 3 [] v[1] = "string" -> 4

After(v, w) ==
  \/ Rank(v) > Rank(w)
  \/ Rank(v) = Rank(w) /\ Content(v) > Content(w)

(* insertion_sort: each element goes behind the last one it does not come  *)
(* before.                                                                 *)
Inserted(s, v) ==
  LET i == CHOOSE n \in 0 .. Len(s) :
             /\ n > 0 => ~After(s[n], v)
             /\ \A j \in n + 1 .. Len(s) : After(s[j], v)
  IN  InsertAt(s, i + 1, v)

InsertionSort(s) ==
  LET sorted[i \in 0 .. Len(s)] ==
        IF i = 0 THEN <<>> ELSE Inserted(sorted[i - 1], s[i])
  IN  sorted[Len(s)]

\* Mutant: the operands of var_cmp are swapped.
TakenLeftSwapped(s, t) ==
  LET taken[k \in 0 .. Len(s) + Len(t)] ==
        IF k = 0 THEN 0
        ELSE LET i == taken[k - 1]
                 j == k - 1 - i
             IN  IF i < Len(s) /\ (j = Len(t) \/ After(s[i + 1], t[j + 1])) THEN i + 1 ELSE i
  IN  taken

(* merge: how many of the first k elements are of the left part.  Of two   *)
(* that are equal the right one goes first.                                *)
TakenLeft(s, t) ==
  LET taken[k \in 0 .. Len(s) + Len(t)] ==
        IF k = 0 THEN 0
        ELSE LET i == taken[k - 1]
                 j == k - 1 - i
             IN  IF i < Len(s) /\ (j = Len(t) \/ After(t[j + 1], s[i + 1])) THEN i + 1 ELSE i
  IN  taken

Merge(s, t) ==
  LET taken == TakenLeft(s, t)
  IN  [k \in 1 .. Len(s) + Len(t) |->
         IF taken[k] > taken[k - 1] THEN s[taken[k]] ELSE t[k - taken[k]]]

(* Each part of n elements of s, and what is left, replaced by F of it.    *)
InParts(s, n, F(_)) ==
  [i \in 1 .. Len(s) |->
     LET left == ((i - 1) \div n) * n
     IN  F(SubSeq(s, left + 1, Lesser(left + n, Len(s))))[i - left]]

(* Neighbours of n elements each are merged.                               *)
MergePass(s, n) ==
  LET MergeHalves(part) ==
        LET mid == Lesser(n, Len(part))
        IN  Merge(SubSeq(part, 1, mid), SubSeq(part, mid + 1, Len(part)))
  IN  InParts(s, 2 * n, MergeHalves)

(* Passes over parts of twice the width each, until one part is all.       *)
TimSort(s) ==
  LET pass[k \in 0 .. Len(s)] ==
        IF k = 0 THEN [width |-> Run, seq |-> InParts(s, Run, InsertionSort)]
        ELSE IF pass[k - 1].width >= Len(s) THEN pass[k - 1]
        ELSE [width |-> 2 * pass[k - 1].width,
              seq   |-> MergePass(pass[k - 1].seq, pass[k - 1].width)]
  IN  pass[Len(s)].seq

ListSort ==
  /\ slots' = TimSort(Elements) \o SubSeq(slots, size + 1, Capacity)
  /\ UNCHANGED <<size, map, held, count, undefined>>

-----------------------------------------------------------------------------
(* The map.                                                                *)

\* Mutant: the arrays grow when they are more than full.
GrownRoomLate ==
  IF Len(keys) > made THEN 2 * made ELSE room

(* The arrays become twice as long as the map was made with, each time:    *)
(* map->capacity is not updated.                                           *)
GrownRoom ==
  IF Len(keys) >= made THEN 2 * made ELSE room

(* kit_var_index_assign of a map: kit_map_find_or_insert, then the value   *)
(* that was there is released and the new one counted.  A new entry keeps  *)
(* a counted copy of its key.  An entry past the arrays is undefined.      *)
MapAssign(k, v) ==
  IF Found(keys, k) # {}
    THEN LET i == Lowest(Found(keys, k))
         IN  /\ vals' = [vals EXCEPT ![i] = v]
             /\ count' = Counted(<<v>>, <<vals[i]>>)
             /\ UNCHANGED <<list, keys, made, room, held, undefined>>
    ELSE /\ keys' = Append(keys, k)
         /\ vals' = Append(vals, v)
         /\ room' = GrownRoom
         /\ count' = Counted(<<k, v>>, <<>>)
         /\ undefined' = (Len(keys) >= room')
         /\ UNCHANGED <<list, made, held>>

(* kit_map_keys, kit_map_values: every entry is counted and then appended  *)
(* to a list, which counts it again.  The list is freed.                   *)
MapListed(entries) ==
  /\ count' = Counted(entries, <<>>)
  /\ UNCHANGED <<list, map, held, undefined>>
  /\ LeftBehind' <= MaxSurplus

MapKeys   == MapListed(keys)
MapValues == MapListed(vals)

\* Mutant: the keys are released, the values are not.
MapRenewKeysOnly ==
  /\ keys' = <<>> /\ vals' = <<>>
  /\ made' = MinCapacity /\ room' = MinCapacity
  /\ count' = Counted(<<>>, keys)
  /\ UNCHANGED <<list, held, undefined>>

(* kit_map_free, and an empty map in its place.                            *)
MapRenew ==
  /\ keys' = <<>> /\ vals' = <<>>
  /\ made' = MinCapacity /\ room' = MinCapacity
  /\ count' = Counted(<<>>, keys \o vals)
  /\ UNCHANGED <<list, held, undefined>>

-----------------------------------------------------------------------------
Script ==
  \/ \E o \in Str : Make(o) \/ Drop(o)
  \/ \E i \in 1 .. size : ListIndex(i)
  \/ \E k \in Argument : MapIndex(k)

List ==
  \/ ListPop \/ ListRenew \/ ListSort
  \/ \E v \in Argument : ListAppend(v)
  \/ \E i \in 1 .. size : ListRemove(i)
  \/ \E i \in 1 .. size + 1, v \in Argument : ListInsert(i, v)
  \/ \E i \in 1 .. size, v \in Argument : ListAssign(i, v)
  \/ \E n \in 0 .. MaxCapacity : ListReserve(n) \/ ListResize(n)

Map ==
  \/ MapKeys \/ MapValues \/ MapRenew
  \/ \E k, v \in Argument : MapAssign(k, v)

Bounds ==
  /\ Cells' <= MaxCells /\ Capacity' <= MaxCapacity

(* A release of a slot that was left behind, a slot without a type or a    *)
(* write past the arrays: the model goes no further.                       *)
Next == ~undefined /\ (Script \/ List \/ Map) /\ Bounds

Spec == Init /\ [][Next]_vars

-----------------------------------------------------------------------------
(* What is found under each key: the value of its first entry.             *)
Table ==
  [k \in {Same(keys[i]) : i \in DOMAIN keys} |->
     vals[CHOOSE i \in DOMAIN keys :
            Same(keys[i]) = k /\ \A j \in 1 .. i - 1 : Same(keys[j]) # k]]

(* The sizes agree with the arrays they count.                             *)
TypeOK ==
  /\ slots \in Seq(Slot) /\ size \in 0 .. Capacity
  /\ keys \in Seq(Value) /\ vals \in Seq(Value) /\ Len(keys) = Len(vals)
  /\ made \in Nat /\ room \in Nat
  /\ held \subseteq Str /\ count \in [Str -> Int] /\ undefined \in BOOLEAN

(* A string that an element, a key, a value or the script refers to is not *)
(* freed: its counter is never below the references there are.             *)
NothingFreedInUse == ~undefined => \A o \in Str : Surplus(o) >= 0

(* Whatever is done to the two collections gives back the references it    *)
(* ends and takes those it makes; only inserting, and listing the keys or  *)
(* the values, leave some behind.                                          *)
ReferencesBalance ==
  [][~undefined' =>
       \A o \in Str : \/ Surplus(o)' = Surplus(o)
                      \/ /\ Surplus(o)' > Surplus(o)
                         /\ \/ MapKeys \/ MapValues
                            \/ \E i \in 1 .. size, v \in Argument : ListInsert(i, v)]_vars

(* As long as a map has no more than twice the entries it was made for,    *)
(* they lie in its arrays.                                                 *)
MapFits == Len(keys) <= 2 * made => Len(keys) <= room

(* An assignment through a key changes what is found under that key and    *)
(* nothing else, whichever keys have its hash, and whichever object of its *)
(* text the map keeps.                                                     *)
AssignIsUnderItsKey ==
  [][\A k, v \in Argument :
       MapAssign(k, v) =>
         Table' = [x \in {Same(k)} \cup DOMAIN Table |->
                     IF x = Same(k) THEN v ELSE Table[x]]]_vars

(* The list is a sequence and the map a table, as the language has them,   *)
(* wherever the storage puts and leaves them; a sort loses nothing and     *)
(* leaves nothing out of order.                                            *)
Collection ==
  INSTANCE KitCollection
    WITH Element <- Slot, Identity <- {Same(v) : v \in Value},
         seq <- Elements, table <- Table

ImplementsCollection == Collection!Spec
=============================================================================
