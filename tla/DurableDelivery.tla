------------------------- MODULE DurableDelivery -------------------------
(***************************************************************************)
(* What the outbox promises to the rest of the server, with no drainer, no *)
(* attempts and no crashes in it.  An item (one message for one            *)
(* integration) is accepted once, is then owed, may be shown to the        *)
(* outside world any number of times while it is owed, and ends by being   *)
(* finished, given up, or withdrawn with its channel.  An item is finished *)
(* only if it was shown or can never be shown, and nothing is shown after  *)
(* the item was finished or given up.                                      *)
(***************************************************************************)
EXTENDS Naturals

CONSTANTS
    Items,        \* what may be owed
    Unshowable    \* items whose integration cannot display them at all

VARIABLES
    status,       \* [Items -> Status]
    shown         \* [Items -> Nat]: times the outside world saw the item

vars == <<status, shown>>

Status == {"unknown", "owed", "done", "abandoned", "withdrawn"}

Init ==
    /\ status = [i \in Items |-> "unknown"]
    /\ shown = [i \in Items |-> 0]

(* Items enter together: either a whole accepted set is owed or none is.   *)
Accept(S) ==
    /\ \A i \in S : status[i] = "unknown"
    /\ status' = [i \in Items |-> IF i \in S THEN "owed" ELSE status[i]]
    /\ UNCHANGED shown

(* A withdrawn item may still be on the wire.                              *)
Show(i) ==
    /\ status[i] \in {"owed", "withdrawn"}
    /\ shown' = [shown EXCEPT ![i] = @ + 1]
    /\ UNCHANGED status

Finish(i) ==
    /\ status[i] = "owed"
    /\ shown[i] > 0 \/ i \in Unshowable
    /\ status' = [status EXCEPT ![i] = "done"]
    /\ UNCHANGED shown

Abandon(i) ==
    /\ status[i] = "owed"
    /\ status' = [status EXCEPT ![i] = "abandoned"]
    /\ UNCHANGED shown

Withdraw(S) ==
    /\ \A i \in S : status[i] # "unknown"
    /\ status' = [i \in Items |-> IF i \in S THEN "withdrawn" ELSE status[i]]
    /\ UNCHANGED shown

Next ==
    \/ \E S \in SUBSET Items : Accept(S) \/ Withdraw(S)
    \/ \E i \in Items : Show(i) \/ Finish(i) \/ Abandon(i)

Spec == Init /\ [][Next]_vars
==========================================================================
