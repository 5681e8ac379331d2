---------------------------- MODULE KitAllocator ----------------------------
(***************************************************************************)
(* What the interpreter needs from its object allocator, whatever the      *)
(* layout of the memory: an object handed out was not in use, it stays in  *)
(* use until it is given back, and a request may be refused.  The slab     *)
(* pool of src/src/kit.pool.c implements it (see KitPool).                 *)
(***************************************************************************)

CONSTANTS
  Address,    (* every address an object can ever have *)
  None        (* the null pointer *)

VARIABLES
  live,       (* the objects in use *)
  last        (* what the last request returned *)

Init == live = {} /\ last = None

Grant ==
  /\ last' \in Address
  /\ last' \notin live
  /\ live' = live \cup {last'}

Refuse == last' = None /\ UNCHANGED live

(* Giving back an object that is not in use changes nothing. *)
Release ==
  /\ \E o \in live : live' = live \ {o}
  /\ UNCHANGED last

Next == Grant \/ Refuse \/ Release

Spec == Init /\ [][Next]_<<live, last>>
=============================================================================
