------------------------------ MODULE MCAccount ------------------------------
(* The tabs of a browser are alike: TLC explores them up to renaming.      *)
EXTENDS Account, TLC

TabSymmetry == Permutations(Tabs)
==============================================================================
