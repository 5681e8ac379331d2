---------------------------- MODULE MCKitContainers ----------------------------
(* Two strings of one text, a number of the same content, and a hash under *)
(* which they all collide.                                                 *)
EXTENDS KitContainers
CONSTANTS o1, o2

SameText     == [o \in {o1, o2} |-> 1]
Numbers      == {<<"int", 1>>}
OneDigest(c) == 0
Either       == Permutations({o1, o2})
=============================================================================
