------------------------------- MODULE MCKitVm -------------------------------
EXTENDS KitVm, TLC

Symmetry == Permutations(Obj)
=============================================================================
