----------------------------- MODULE MCOutbox -----------------------------
(* Small instances of Outbox for TLC.                                      *)
EXTENDS Outbox, TLC

CONSTANTS slack, lamp

(* The channel may be bound to the other integration between two turns.    *)
MCTargets  == {slack, lamp}
MCBindings == {{slack}, {lamp}}
MCCapable  == {slack}
===========================================================================
