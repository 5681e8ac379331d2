----------------------------- MODULE KitCollection -----------------------------
(***************************************************************************)
(* What the language's two collections promise, without their storage: a   *)
(* list is a sequence, a map is a function from keys to values.            *)
(***************************************************************************)
EXTENDS Naturals, Sequences, FiniteSets, SequencesExt

CONSTANTS
  Element,        (* what a slot can hold *)
  Identity,       (* what tells one key from another *)
  After(_, _)     (* the first comes after the second in a sorted list *)

VARIABLES
  seq,            (* the elements of the list *)
  table           (* the values of the map, by key *)

Init ==
  /\ seq \in Seq(Element)
  /\ DOMAIN table \subseteq Identity

Add    == \E v \in Element : seq' = Append(seq, v)
Pop    == seq # <<>> /\ seq' = Front(seq)
Delete == \E i \in DOMAIN seq : seq' = RemoveAt(seq, i)
Insert == \E i \in 1 .. Len(seq) + 1, v \in Element : seq' = InsertAt(seq, i, v)
Put    == \E i \in DOMAIN seq, v \in Element : seq' = [seq EXCEPT ![i] = v]
Clear  == seq' = <<>>

(* The elements that stay keep their places; what a new one holds is not   *)
(* promised.                                                               *)
Resize ==
  /\ Len(seq') # Len(seq)
  /\ \A i \in DOMAIN seq \cap DOMAIN seq' : seq'[i] = seq[i]

Times(s, v) == Cardinality({i \in DOMAIN s : s[i] = v})

(* The same elements, as often each, and none that comes after the next.   *)
Sort ==
  /\ Len(seq') = Len(seq)
  /\ \A i \in DOMAIN seq : Times(seq', seq[i]) = Times(seq, seq[i])
  /\ \A i \in DOMAIN seq' \ {1} : ~After(seq'[i - 1], seq'[i])

Set ==
  \E k \in Identity, v \in Element :
    table' = [x \in DOMAIN table \cup {k} |-> IF x = k THEN v ELSE table[x]]

ClearTable == DOMAIN table' = {}

Next ==
  \/ /\ Add \/ Pop \/ Delete \/ Insert \/ Put \/ Clear \/ Resize \/ Sort
     /\ table' = table
  \/ /\ Set \/ ClearTable
     /\ seq' = seq

Spec == Init /\ [][Next]_<<seq, table>>
=============================================================================
