---------------------------- MODULE MCAgentRun ----------------------------
(* AgentRun for TLC: sessions as model values, those of a kind alike. *)
EXTENDS AgentRun, TLC
CONSTANTS w1, w2, c1
Symmetry == Permutations(Runners)
=============================================================================
