---------------------------- MODULE MCKitRegAlloc ----------------------------
(* Every function of up to MaxIns instructions, two registers to give. *)
EXTENDS KitRegAlloc
=============================================================================
