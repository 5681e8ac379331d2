------------------------------ MODULE MCKitPool ------------------------------
(* A pool of one branch of two leaves that can double twice. *)
EXTENDS KitPool
=============================================================================
