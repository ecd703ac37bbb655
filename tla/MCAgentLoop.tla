---------------------------- MODULE MCAgentLoop ----------------------------
(* Finite instances of AgentLoop.                                          *)
EXTENDS AgentLoop, TLC

CONSTANTS r1, r2, r3

Symmetry == Permutations({r1, r2, r3})
===========================================================================
