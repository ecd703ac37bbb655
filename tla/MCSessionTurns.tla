-------------------------- MODULE MCSessionTurns --------------------------
(* Finite instances of SessionTurns; the requests are interchangeable.     *)
EXTENDS SessionTurns, TLC

MCSymmetry == Permutations(Requests)
===========================================================================
