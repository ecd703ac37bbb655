---------------------------- MODULE MCApprovals ----------------------------
(* Finite instances of Approvals.                                          *)
EXTENDS Approvals, TLC

MCTurns == {<<"tool", "tool">>, <<"harness", "harness">>, <<"question", "none">>}
===========================================================================
