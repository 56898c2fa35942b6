----------------------------- MODULE MCQuickEntry -----------------------------
(***************************************************************************)
(* Values for TLC. Requests, job slots and forms are interchangeable, so   *)
(* the safety runs take them up to permutation; the liveness runs do not.  *)
(***************************************************************************)
EXTENDS QuickEntry, TLC

Symmetry == Permutations(Admins) \cup Permutations(Workers) \cup Permutations(Forms)
=============================================================================
