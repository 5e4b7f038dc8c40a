------------------------------ MODULE MCWidget ------------------------------
(* Widget for TLC: two tabs and two browsers. *)
EXTENDS Widget, TLC

CONSTANTS t1, t2, k1, k2, e1, e2
Symmetry == Permutations(Editors) \cup Permutations(Pages) \cup Permutations(Keys)
=============================================================================
