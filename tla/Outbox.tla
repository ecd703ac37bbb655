------------------------------ MODULE Outbox ------------------------------
(***************************************************************************)
(* The transactional outbox (app/services/outbox.py) and its drainer       *)
(* (app/services/outbox_drainer.py), together with the publishers that     *)
(* fill it (sessions.persist_turn, the enqueue functions of                *)
(* outbox_publish).                                                        *)
(*                                                                         *)
(* The table is a set of columns, each a function on Rows; the drainer is  *)
(* one asyncio task whose batch and current row live in memory and are     *)
(* lost by a crash.  available_at is a Boolean "due": backoff and the      *)
(* 30 s requeue clear it, time sets it again.                              *)
(***************************************************************************)
EXTENDS Naturals, FiniteSets

CONSTANTS
    Turns,             \* transactions that persist messages
    Records,           \* message positions inside one transaction
    Targets,           \* integrations
    Bindings,          \* sets of them a channel may be bound to
    Capable,           \* targets whose renderer can show NEW_MESSAGE
    NoRow,
    DeadLetterAfter,   \* outbox.DEAD_LETTER_AFTER
    DeferLimit,        \* outbox.DEFER_DEAD_LETTER_AFTER
    FetchLimit,        \* outbox.DEFAULT_FETCH_LIMIT
    MaxCrashes,        \* bound: process crashes or shutdowns
    MaxFaults          \* bound: database or bus errors

Rows == Turns \X Records \X Targets

ASSUME OutboxAssumption ==
    /\ IsFiniteSet(Turns)
    /\ Bindings \subseteq SUBSET Targets
    /\ Capable \subseteq Targets
    /\ NoRow \notin Rows
    /\ DeadLetterAfter \in Nat \ {0}
    /\ DeferLimit \in Nat \ {0}
    /\ FetchLimit \in Nat \ {0}
    /\ MaxCrashes \in Nat
    /\ MaxFaults \in Nat

VARIABLES
    turn,        \* [Turns -> TurnState]: the persisting transaction
    began,       \* [Turns -> Nat]: its transaction timestamp, 0 before BEGIN
    ended,       \* [Turns -> Nat]: when it committed, 0 before (observer)
    state,       \* [Rows -> RowState]: delivery_state, "absent" if no row
    attempts,    \* [Rows -> Nat]
    defers,      \* [Rows -> Nat]: defer_count
    due,         \* [Rows -> BOOLEAN]: available_at <= now
    reason,      \* [Rows -> Reason]: dead_letter_reason
    channel,     \* BOOLEAN: the channel row still exists
    registered,  \* renderers in renderer_registry
    up,          \* the server process is running
    batch,       \* rows returned by _claim_batch, not yet delivered
    cur,         \* the row _deliver_one is working on, or NoRow
    stage,       \* where _deliver_one stands with cur
    outcome,     \* what the renderer answered for cur
    posted,      \* [Rows -> Nat]: times the integration showed the row
    announced,   \* rows for which DELIVERY_FAILED reached the bus
    crashes, faults

table    == <<state, attempts, defers, due, reason>>
drainer  == <<batch, cur, stage, outcome>>
sources  == <<turn, began, ended, channel>>
outside  == <<posted, announced>>
vars == <<sources, table, registered, up, drainer, outside, crashes, faults>>

TurnState == {"new", "open", "committed", "aborted"}
RowState  == {"absent", "pending", "in_flight", "delivered",
              "failed_retryable", "dead_letter", "deleted"}
Fetchable == {"pending", "failed_retryable"}
Owed      == Fetchable \cup {"in_flight"}
Reason    == {"none", "no_renderer", "reconstitution", "raised", "receipt"}
Outcome   == {"none", "ok", "retryable", "permanent", "raised"}

TargetOf(r)  == r[3]
CreatedAt(r) == began[r[1]]     \* server_default now() is the txn timestamp
Clock        == Cardinality({t \in Turns : turn[t] # "new"})
                  + Cardinality({t \in Turns : turn[t] = "committed"})

Init ==
    /\ turn = [t \in Turns |-> "new"] /\ began = [t \in Turns |-> 0]
    /\ ended = [t \in Turns |-> 0]
    /\ state = [r \in Rows |-> "absent"]
    /\ attempts = [r \in Rows |-> 0] /\ defers = [r \in Rows |-> 0]
    /\ due = [r \in Rows |-> FALSE] /\ reason = [r \in Rows |-> "none"]
    /\ channel = TRUE /\ registered \in SUBSET Targets /\ up = TRUE
    /\ batch = {} /\ cur = NoRow /\ stage = "loop" /\ outcome = "none"
    /\ posted = [r \in Rows |-> 0] /\ announced = {}
    /\ crashes = 0 /\ faults = 0

---------------------------------------------------------------------------
(* Publishers: message inserts and outbox rows in one transaction.         *)

BeginTurn(t) ==
    /\ up /\ turn[t] = "new"
    /\ turn' = [turn EXCEPT ![t] = "open"]
    /\ began' = [began EXCEPT ![t] = Clock + 1]
    /\ UNCHANGED <<ended, channel, table, registered, up, drainer, outside, crashes, faults>>

(* One row per record that is not suppressed, per target bound now, all    *)
(* inserted by the commit.  A deleted channel resolves no targets.         *)
CommitTurn(t, recs, bound) ==
    /\ up /\ turn[t] = "open"
    /\ LET new == IF channel THEN {t} \X recs \X bound ELSE {}
       IN  /\ state' = [r \in Rows |-> IF r \in new THEN "pending" ELSE state[r]]
           /\ due' = [r \in Rows |-> r \in new \/ due[r]]
    /\ turn' = [turn EXCEPT ![t] = "committed"]
    /\ ended' = [ended EXCEPT ![t] = Clock + 1]
    /\ UNCHANGED <<began, channel, attempts, defers, reason, registered, up,
                   drainer, outside, crashes, faults>>

(* Any failure before the commit rolls back messages and rows alike.       *)
AbortTurn(t) ==
    /\ up /\ turn[t] = "open" /\ faults < MaxFaults
    /\ faults' = faults + 1
    /\ turn' = [turn EXCEPT ![t] = "aborted"]
    /\ UNCHANGED <<began, ended, channel, table, registered, up, drainer, outside, crashes>>

(* Outbox.channel_id is ON DELETE CASCADE.                                 *)
DeleteChannel ==
    /\ up /\ channel
    /\ channel' = FALSE
    /\ state' = [r \in Rows |-> IF state[r] = "absent" THEN "absent" ELSE "deleted"]
    /\ UNCHANGED <<turn, began, ended, attempts, defers, due, reason, registered, up,
                   drainer, outside, crashes, faults>>

(* An integration loaded at run time.                                      *)
RegisterRenderer(g) ==
    /\ up /\ g \notin registered
    /\ registered' = registered \cup {g}
    /\ UNCHANGED <<sources, table, up, drainer, outside, crashes, faults>>

(* Time passes a row's available_at.                                       *)
BecomeDue(r) ==
    /\ state[r] \in Fetchable /\ ~due[r]
    /\ due' = [due EXCEPT ![r] = TRUE]
    /\ UNCHANGED <<sources, state, attempts, defers, reason, registered, up,
                   drainer, outside, crashes, faults>>

---------------------------------------------------------------------------
(* The drainer.                                                            *)

PendingOnly == {r \in Rows : state[r] = "pending" /\ due[r]}   \* mutant

Eligible == {r \in Rows : state[r] \in Fetchable /\ due[r]}

AnyBatch(C) ==                                              \* mutant
    C # {} /\ Cardinality(C) <= FetchLimit

(* fetch_pending: the FetchLimit oldest eligible rows; ORDER BY created_at *)
(* leaves rows of one transaction in any order.                            *)
OldestFirst(C) ==
    /\ C # {} /\ Cardinality(C) <= FetchLimit
    /\ C = Eligible \/ Cardinality(C) = FetchLimit
    /\ \A r \in C, s \in Eligible \ C : CreatedAt(r) <= CreatedAt(s)

MarkInFlight(C) ==
    state' = [r \in Rows |-> IF r \in C THEN "in_flight" ELSE state[r]]

ClaimBatch ==
    /\ up /\ batch = {} /\ cur = NoRow
    /\ \E C \in SUBSET Eligible :
          /\ OldestFirst(C)
          /\ batch' = C
          /\ MarkInFlight(C)
    /\ UNCHANGED <<sources, attempts, defers, due, reason, registered, up,
                   cur, stage, outcome, outside, crashes, faults>>

(* The loop takes the batch in order: r is an oldest row still in it.      *)
Turning(r) ==
    /\ up /\ cur = NoRow /\ r \in batch
    /\ \A s \in batch : CreatedAt(r) <= CreatedAt(s)
    /\ batch' = batch \ {r}

UncountedFailure(r, retryable, why) ==                      \* mutant
    /\ state' = [state EXCEPT ![r] = IF retryable THEN "failed_retryable"
                                                  ELSE "dead_letter"]
    /\ reason' = [reason EXCEPT ![r] = IF retryable THEN "none" ELSE why]
    /\ UNCHANGED <<attempts, due, defers>>

(* The columns mark_failed writes; a vanished row is left alone.           *)
MarkFailed(r, retryable, why) ==
    IF state[r] = "deleted" THEN UNCHANGED table
    ELSE LET dead == ~retryable \/ attempts[r] + 1 >= DeadLetterAfter
         IN  /\ state' = [state EXCEPT ![r] = IF dead THEN "dead_letter"
                                                      ELSE "failed_retryable"]
             /\ attempts' = [attempts EXCEPT ![r] = @ + 1]
             /\ due' = [due EXCEPT ![r] = dead]
             /\ reason' = [reason EXCEPT ![r] = IF dead THEN why ELSE "none"]
             /\ UNCHANGED defers

Upsert(r) ==                                                \* mutant
    /\ state' = [state EXCEPT ![r] = "delivered"]
    /\ UNCHANGED <<attempts, defers, due, reason>>

MarkDelivered(r) ==
    /\ state' = [state EXCEPT ![r] = IF @ = "deleted" THEN @ ELSE "delivered"]
    /\ UNCHANGED <<attempts, defers, due, reason>>

BackToLoop == cur' = NoRow /\ stage' = "loop" /\ outcome' = "none"

NeverPublish(r) == r \in Rows /\ BackToLoop                 \* mutant

(* Hand r to _publish_delivery_failed when it was just dead-lettered.      *)
ThenPublish(r) ==
    IF state'[r] = "dead_letter"
    THEN cur' = r /\ stage' = "publish" /\ outcome' = "none"
    ELSE BackToLoop

(* No renderer for the target: requeue, or dead-letter at the limit.       *)
DeferNoRenderer(r) ==
    /\ Turning(r) /\ TargetOf(r) \notin registered
    /\ IF state[r] = "deleted" THEN UNCHANGED table
       ELSE LET dead == defers[r] + 1 >= DeferLimit
            IN  /\ state' = [state EXCEPT ![r] = IF dead THEN "dead_letter" ELSE "pending"]
                /\ defers' = [defers EXCEPT ![r] = @ + 1]
                /\ due' = [due EXCEPT ![r] = dead /\ @]
                /\ reason' = [reason EXCEPT ![r] = IF dead THEN "no_renderer" ELSE @]
                /\ UNCHANGED attempts
    /\ ThenPublish(r)
    /\ UNCHANGED <<sources, registered, up, outside, crashes, faults>>

(* The stored payload or target no longer parses: permanent, unannounced.  *)
FailReconstitution(r) ==
    /\ Turning(r) /\ TargetOf(r) \in registered
    /\ MarkFailed(r, FALSE, "reconstitution")
    /\ BackToLoop
    /\ UNCHANGED <<sources, registered, up, outside, crashes, faults>>

(* Capability gate: counted as delivered without a render.                 *)
SkipIncapable(r) ==
    /\ Turning(r) /\ TargetOf(r) \in registered \ Capable
    /\ MarkDelivered(r)
    /\ BackToLoop
    /\ UNCHANGED <<sources, registered, up, outside, crashes, faults>>

(* renderer.render: the answer is only held in memory.  A failure may come *)
(* after the integration accepted the post.                                *)
Render(r, answer, visible) ==
    /\ Turning(r) /\ TargetOf(r) \in registered \cap Capable
    /\ answer = "ok" => visible
    /\ posted' = [posted EXCEPT ![r] = IF visible THEN @ + 1 ELSE @]
    /\ cur' = r /\ stage' = "mark" /\ outcome' = answer
    /\ UNCHANGED <<sources, table, registered, up, announced, crashes, faults>>

MarkOutcome ==
    /\ up /\ stage = "mark"
    /\ \/ outcome = "ok" /\ MarkDelivered(cur) /\ BackToLoop
       \/ outcome = "raised" /\ MarkFailed(cur, TRUE, "raised") /\ BackToLoop
       \/ outcome = "retryable" /\ MarkFailed(cur, TRUE, "receipt") /\ ThenPublish(cur)
       \/ outcome = "permanent" /\ MarkFailed(cur, FALSE, "receipt") /\ ThenPublish(cur)
    /\ UNCHANGED <<sources, batch, registered, up, outside, crashes, faults>>

(* A database error in the marking transaction propagates to the worker    *)
(* loop, which logs it and goes on; the row stays in_flight.               *)
MarkError ==
    /\ up /\ faults < MaxFaults
    /\ faults' = faults + 1
    /\ \/ stage = "mark" /\ UNCHANGED batch
       \/ \E r \in batch : Turning(r)
    /\ BackToLoop
    /\ UNCHANGED <<sources, table, registered, up, outside, crashes>>

(* A bus error is swallowed and the announcement is lost.                  *)
PublishDeliveryFailed(ok) ==
    /\ up /\ stage = "publish"
    /\ ok \/ faults < MaxFaults
    /\ faults' = IF ok THEN faults ELSE faults + 1
    /\ announced' = IF ok THEN announced \cup {cur} ELSE announced
    /\ BackToLoop
    /\ UNCHANGED <<sources, table, batch, registered, up, posted, crashes>>

---------------------------------------------------------------------------
(* Process failure and startup.                                            *)

Crash ==
    /\ up /\ crashes < MaxCrashes
    /\ up' = FALSE /\ crashes' = crashes + 1
    /\ turn' = [t \in Turns |-> IF turn[t] = "open" THEN "aborted" ELSE turn[t]]
    /\ batch' = {} /\ BackToLoop
    /\ UNCHANGED <<began, ended, channel, table, registered, outside, faults>>

UntriedInFlight == {r \in Rows : state[r] = "in_flight" /\ attempts[r] = 0}   \* mutant

StaleInFlight == {r \in Rows : state[r] = "in_flight"}

(* Renderers load, reset_stale_in_flight runs, then the drainer starts;    *)
(* a failed reset is logged and the drainer starts all the same.           *)
Startup(loaded, reset) ==
    /\ ~up
    /\ reset \/ faults < MaxFaults
    /\ faults' = IF reset THEN faults ELSE faults + 1
    /\ LET stale == IF reset THEN StaleInFlight ELSE {}
       IN  /\ state' = [r \in Rows |-> IF r \in stale THEN "pending" ELSE state[r]]
           /\ due' = [r \in Rows |-> r \in stale \/ due[r]]
    /\ up' = TRUE /\ registered' = loaded
    /\ UNCHANGED <<sources, attempts, defers, reason, drainer, outside, crashes>>

---------------------------------------------------------------------------
DeliverStep ==
    \/ \E r \in Rows :
          \/ DeferNoRenderer(r) \/ FailReconstitution(r) \/ SkipIncapable(r)
          \/ \E answer \in Outcome \ {"none"}, visible \in BOOLEAN :
                Render(r, answer, visible)
    \/ MarkOutcome
    \/ MarkError
    \/ \E ok \in BOOLEAN : PublishDeliveryFailed(ok)

Restart == \E loaded \in SUBSET Targets, reset \in BOOLEAN : Startup(loaded, reset)

Next ==
    \/ \E t \in Turns :
          \/ BeginTurn(t) \/ AbortTurn(t)
          \/ \E recs \in SUBSET Records, bound \in Bindings :
                CommitTurn(t, recs, bound)
    \/ DeleteChannel
    \/ \E g \in Targets : RegisterRenderer(g)
    \/ \E r \in Rows : BecomeDue(r)
    \/ ClaimBatch
    \/ DeliverStep
    \/ Crash
    \/ Restart

Spec == Init /\ [][Next]_vars

(* The worker loop keeps polling, time passes, and the container restarts  *)
(* (docker-compose "restart: unless-stopped").                             *)
Fairness ==
    /\ WF_vars(ClaimBatch)
    /\ WF_vars(DeliverStep)
    /\ WF_vars(Restart)
    /\ \A r \in Rows : WF_vars(BecomeDue(r))

FairSpec == Spec /\ Fairness
---------------------------------------------------------------------------
(* The refinement mapping: what the outbox promises its publishers.        *)
Meaning == [absent |-> "unknown", pending |-> "owed", in_flight |-> "owed",
            failed_retryable |-> "owed", delivered |-> "done",
            dead_letter |-> "abandoned", deleted |-> "withdrawn"]

Promise == INSTANCE DurableDelivery WITH
    Items      <- Rows,
    Unshowable <- {r \in Rows : TargetOf(r) \notin Capable},
    shown      <- posted,
    status     <- [r \in Rows |-> Meaning[state[r]]]

---------------------------------------------------------------------------
(* Properties.                                                             *)

(* Every variable keeps its type.                                          *)
TypeOK ==
    /\ turn \in [Turns -> TurnState] /\ began \in [Turns -> Nat]
    /\ ended \in [Turns -> Nat]
    /\ state \in [Rows -> RowState]
    /\ attempts \in [Rows -> Nat] /\ defers \in [Rows -> Nat]
    /\ due \in [Rows -> BOOLEAN] /\ reason \in [Rows -> Reason]
    /\ channel \in BOOLEAN /\ registered \in SUBSET Targets /\ up \in BOOLEAN
    /\ batch \in SUBSET Rows /\ cur \in Rows \cup {NoRow}
    /\ stage \in {"loop", "mark", "publish"} /\ outcome \in Outcome
    /\ posted \in [Rows -> Nat] /\ announced \in SUBSET Rows
    /\ crashes \in Nat /\ faults \in Nat

(* What the drainer holds in memory (the rest of its batch and the row it  *)
(* is rendering) is in_flight in the table: no other code takes the row,   *)
(* settles it or hands it out again meanwhile; only a channel delete may   *)
(* remove it.  outbox_drainer.py _claim_batch, _deliver_one.               *)
Held == batch \cup (IF stage = "mark" THEN {cur} ELSE {})
HeldIsInFlight == \A r \in Held : state[r] \in {"in_flight", "deleted"}

(* As long as no database call failed, a running server has no in_flight   *)
(* row but those its drainer holds, whatever crashes came before:          *)
(* reset_stale_in_flight strands nothing.                                  *)
NothingStranded ==
    (up /\ faults = 0) => \A r \in Rows : state[r] = "in_flight" => r \in Held

(* The two together: in_flight means held by the drainer.                  *)
InFlightIsHeld == HeldIsInFlight /\ NothingStranded

(* An integration shows a row at most once more than the failed attempts   *)
(* recorded for it plus the crashes so far: every duplicate is paid for by *)
(* a recorded failure or a crash between render and mark.                  *)
RepostsAccounted == \A r \in Rows : posted[r] <= attempts[r] + crashes + 1

(* A row the drainer still works on has budget left on both counters, so   *)
(* neither recovery nor alternating defers and failures retry for ever.    *)
BudgetLeft ==
    \A r \in Rows : state[r] \in Owed =>
        attempts[r] < DeadLetterAfter /\ defers[r] < DeferLimit

(* Duplicates and retries, both bounded.                                   *)
RetriesBounded == RepostsAccounted /\ BudgetLeft

(* DELIVERY_FAILED is only ever published for a row that is dead-lettered  *)
(* (or was, before its channel was deleted), and, crashes and bus errors   *)
(* aside, every dead letter from a failed receipt or a missing renderer is *)
(* announced before the drainer turns to another row.                      *)
AnnouncedIsDead == \A r \in announced : state[r] \in {"dead_letter", "deleted"}
FailedReceiptsAnnounced ==
    (crashes = 0 /\ faults = 0) =>
        \A r \in Rows :
            state[r] = "dead_letter" /\ reason[r] \in {"receipt", "no_renderer"}
                => r \in announced \/ (stage = "publish" /\ cur = r)

(* No announcement without a dead letter, none missing after a receipt.    *)
DeadLettersTold == AnnouncedIsDead /\ FailedReceiptsAnnounced

(* Turns that ran one after the other reach an integration in that order   *)
(* on their first try: a message is shown only when every message of an    *)
(* earlier turn for the same target was shown, settled, or had its own     *)
(* failed or deferred attempt.  fetch_pending ORDER BY created_at.         *)
Earlier(r, s) ==
    /\ TargetOf(r) = TargetOf(s)
    /\ turn[r[1]] = "committed" /\ began[s[1]] > ended[r[1]]
FirstTriesInOrder ==
    faults = 0 =>
        \A r, s \in Rows :
            Earlier(r, s) /\ posted[s] > 0 /\ state[r] \in Owed
                => posted[r] > 0 \/ attempts[r] > 0 \/ defers[r] > 0

(* The outbox implements durable delivery: accepted rows stay owed until   *)
(* shown or given up, and nothing is shown or changed after that.          *)
DeliveryPromise == Promise!Spec

(* The drainer catches up again and again: every row is settled, or its    *)
(* marking failed and it waits in_flight for the next restart.             *)
EveryRowSettles ==
    []<>(\A r \in Rows :
            state[r] \in Owed => state[r] = "in_flight" /\ r \notin Held /\ faults > 0)
===========================================================================
