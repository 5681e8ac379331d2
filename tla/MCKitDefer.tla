----------------------------- MODULE MCKitDefer -----------------------------
(* Every function of up to MaxNodes statements. *)
EXTENDS KitDefer
=============================================================================
