--------------------------- MODULE DeliveryProofs ---------------------------
(***************************************************************************)
(* Proofs about the two ways an event leaves the server.  Outbox, for      *)
(* every set of turns, records and targets and every value of the limits:  *)
(* type correctness, the safety invariants of the drainer, and that it     *)
(* implements DurableDelivery.  ChannelBus, for every set of channels and  *)
(* subscribers and every size of queue and ring: OverflowTold,             *)
(* ContextsFollowTurns and NeverGoesBack.                                  *)
(***************************************************************************)
EXTENDS Outbox, ChannelBus, Integers, FiniteSetTheorems, SequenceTheorems, TLAPS

---------------------------------------------------------------------------
(* Types.                                                                  *)

(* A row is a triple, so its target is one of Targets.                     *)
LEMMA RowTarget == ASSUME NEW r \in Rows PROVE TargetOf(r) \in Targets /\ r[1] \in Turns
BY DEF Rows, TargetOf

(* Time, counted in begun and committed turns, is a natural number.        *)
LEMMA ClockType == Clock \in Nat
<1>1. IsFiniteSet({t \in Turns : turn[t] # "new"})
      /\ IsFiniteSet({t \in Turns : turn[t] = "committed"})
  BY OutboxAssumption, FS_Subset DEF OutboxAssumption
<1>2. QED
  BY <1>1, FS_CardinalityType DEF Clock

(* The drainer's column writes keep the table's types.                     *)
TableOK == state \in [Rows -> RowState] /\ attempts \in [Rows -> Nat]
           /\ defers \in [Rows -> Nat] /\ due \in [Rows -> BOOLEAN]
           /\ reason \in [Rows -> Reason]

(* mark_failed.                                                            *)
LEMMA MarkFailedType ==
  ASSUME TableOK, NEW r \in Rows, NEW retryable \in BOOLEAN, NEW why \in Reason,
         MarkFailed(r, retryable, why)
  PROVE  TableOK'
<1>1. CASE state[r] = "deleted"
  BY <1>1 DEF TableOK, MarkFailed, table
<1>2. CASE state[r] # "deleted"
  <2> DEFINE dead == ~retryable \/ attempts[r] + 1 >= DeadLetterAfter
  <2>1. /\ state' = [state EXCEPT ![r] = IF dead THEN "dead_letter" ELSE "failed_retryable"]
        /\ attempts' = [attempts EXCEPT ![r] = @ + 1]
        /\ due' = [due EXCEPT ![r] = dead]
        /\ reason' = [reason EXCEPT ![r] = IF dead THEN why ELSE "none"]
        /\ defers' = defers
    BY <1>2 DEF MarkFailed
  <2>2. dead \in BOOLEAN
    OBVIOUS
  <2> HIDE DEF dead
  <2>3. due' \in [Rows -> BOOLEAN]
    BY <2>1, <2>2 DEF TableOK
  <2>4. QED
    BY <2>1, <2>3 DEF TableOK, RowState, Reason
<1>3. QED
  BY <1>1, <1>2

(* defer_no_renderer.                                                      *)
LEMMA DeferType ==
  ASSUME TableOK, NEW r \in Rows, DeferNoRenderer(r)
  PROVE  TableOK'
<1>1. CASE state[r] = "deleted"
  BY <1>1 DEF TableOK, DeferNoRenderer, table
<1>2. CASE state[r] # "deleted"
  <2> DEFINE dead == defers[r] + 1 >= DeferLimit
  <2>1. /\ state' = [state EXCEPT ![r] = IF dead THEN "dead_letter" ELSE "pending"]
        /\ defers' = [defers EXCEPT ![r] = @ + 1]
        /\ due' = [due EXCEPT ![r] = dead /\ @]
        /\ reason' = [reason EXCEPT ![r] = IF dead THEN "no_renderer" ELSE @]
        /\ attempts' = attempts
    BY <1>2 DEF DeferNoRenderer
  <2>2. (dead /\ due[r]) \in BOOLEAN
    OBVIOUS
  <2> HIDE DEF dead
  <2>3. due' \in [Rows -> BOOLEAN]
    BY <2>1, <2>2 DEF TableOK
  <2>4. QED
    BY <2>1, <2>3 DEF TableOK, RowState, Reason
<1>3. QED
  BY <1>1, <1>2

(* mark_delivered.                                                         *)
LEMMA MarkDeliveredType ==
  ASSUME TableOK, NEW r \in Rows, MarkDelivered(r)
  PROVE  TableOK'
BY DEF TableOK, MarkDelivered, RowState

(* Where the drainer stands: the parts of its state agree.  TypeOK alone   *)
(* is not inductive, since MarkOutcome indexes the table with cur.         *)
DrainerShape ==
    /\ stage = "loop" => cur = NoRow /\ outcome = "none"
    /\ stage # "loop" => cur \in Rows
    /\ stage = "mark" <=> outcome # "none"
    /\ ~up => batch = {} /\ stage = "loop"
    /\ cur \notin batch

TypeInv == TypeOK /\ DrainerShape

(* The initial table and drainer are well typed.                           *)
LEMMA InitType == Init => TypeInv
BY DEF Init, TypeInv, TypeOK, DrainerShape, TurnState, RowState, Reason, Outcome

(* One case per action of Next.                                            *)
LEMMA NextType == TypeInv /\ [Next]_vars => TypeInv'
<1> SUFFICES ASSUME TypeInv, [Next]_vars PROVE TypeInv'
  OBVIOUS
<1> USE DEF TypeInv, TypeOK
<1>0. TableOK
  BY DEF TableOK
<1>1. ASSUME NEW t \in Turns, BeginTurn(t) PROVE TypeInv'
  BY <1>1, ClockType DEF BeginTurn, table, drainer, outside, TurnState, DrainerShape
<1>2. ASSUME NEW t \in Turns, AbortTurn(t) PROVE TypeInv'
  BY <1>2 DEF AbortTurn, table, drainer, outside, TurnState, DrainerShape
<1>3. ASSUME NEW t \in Turns, NEW recs \in SUBSET Records, NEW bound \in Bindings,
             CommitTurn(t, recs, bound)
      PROVE  TypeInv'
  <2>1. due' \in [Rows -> BOOLEAN]
    BY <1>3 DEF CommitTurn
  <2>2. QED
    BY <1>3, <2>1, ClockType DEF CommitTurn, drainer, outside, TurnState, RowState,
                                 DrainerShape
<1>4. CASE DeleteChannel
  BY <1>4 DEF DeleteChannel, drainer, outside, RowState, DrainerShape
<1>5. ASSUME NEW g \in Targets, RegisterRenderer(g) PROVE TypeInv'
  BY <1>5 DEF RegisterRenderer, sources, table, drainer, outside, DrainerShape
<1>6. ASSUME NEW r \in Rows, BecomeDue(r) PROVE TypeInv'
  BY <1>6 DEF BecomeDue, sources, drainer, outside, DrainerShape
<1>7. CASE ClaimBatch
  <2>1. PICK C \in SUBSET Eligible : batch' = C /\ MarkInFlight(C)
    BY <1>7 DEF ClaimBatch
  <2>2. C \in SUBSET Rows
    BY DEF Eligible
  <2>3. NoRow \notin C
    BY <2>2, OutboxAssumption DEF OutboxAssumption
  <2>4. QED
    BY <1>7, <2>1, <2>2, <2>3 DEF ClaimBatch, MarkInFlight, sources, outside,
                                  RowState, DrainerShape
<1>8. ASSUME NEW r \in Rows, DeferNoRenderer(r) PROVE TypeInv'
  <2>1. TableOK'
    BY <1>8, <1>0, DeferType
  <2>2. QED
    BY <1>8, <2>1, OutboxAssumption
    DEF DeferNoRenderer, Turning, ThenPublish, BackToLoop, TableOK, sources,
        outside, Outcome, DrainerShape, OutboxAssumption
<1>9. ASSUME NEW r \in Rows, FailReconstitution(r) PROVE TypeInv'
  <2>1. TableOK'
    BY <1>9, <1>0, MarkFailedType DEF FailReconstitution, Reason
  <2>2. QED
    BY <1>9, <2>1, OutboxAssumption
    DEF FailReconstitution, Turning, BackToLoop, TableOK, sources, outside,
        Outcome, DrainerShape, OutboxAssumption
<1>10. ASSUME NEW r \in Rows, SkipIncapable(r) PROVE TypeInv'
  <2>1. TableOK'
    BY <1>10, <1>0, MarkDeliveredType DEF SkipIncapable
  <2>2. QED
    BY <1>10, <2>1, OutboxAssumption
    DEF SkipIncapable, Turning, BackToLoop, TableOK, sources, outside, Outcome,
        DrainerShape, OutboxAssumption
<1>11. ASSUME NEW r \in Rows, NEW answer \in Outcome \ {"none"},
              NEW visible \in BOOLEAN, Render(r, answer, visible)
       PROVE  TypeInv'
  BY <1>11 DEF Render, Turning, sources, table, DrainerShape
<1>12. CASE MarkOutcome
  <2>1. cur \in Rows /\ outcome \in Outcome \ {"none"}
    BY <1>12 DEF MarkOutcome, DrainerShape
  <2>2. TableOK'
    <3>1. \/ MarkDelivered(cur)
          \/ \E retryable \in BOOLEAN, why \in Reason : MarkFailed(cur, retryable, why)
      BY <1>12 DEF MarkOutcome, Reason
    <3>2. QED
      BY <1>0, <2>1, <3>1, MarkFailedType, MarkDeliveredType
  <2>3. cur' \in Rows \cup {NoRow} /\ stage' \in {"loop", "publish"} /\ outcome' = "none"
        /\ (stage' = "loop" => cur' = NoRow) /\ (stage' = "publish" => cur' = cur)
    BY <1>12, <2>1 DEF MarkOutcome, ThenPublish, BackToLoop, Outcome
  <2>4. QED
    BY <1>12, <2>1, <2>2, <2>3, OutboxAssumption
    DEF MarkOutcome, TableOK, sources, outside, Outcome, DrainerShape, OutboxAssumption
<1>13. CASE MarkError
  BY <1>13, OutboxAssumption
  DEF MarkError, Turning, BackToLoop, sources, table, outside, Outcome,
      DrainerShape, OutboxAssumption
<1>14. ASSUME NEW ok \in BOOLEAN, PublishDeliveryFailed(ok) PROVE TypeInv'
  BY <1>14, OutboxAssumption
  DEF PublishDeliveryFailed, BackToLoop, sources, table, outside, Outcome,
      DrainerShape, OutboxAssumption
<1>15. CASE Crash
  <2>1. turn' \in [Turns -> TurnState]
    BY <1>15 DEF Crash, TurnState
  <2>2. up' = FALSE /\ batch' = {} /\ BackToLoop /\ crashes' = crashes + 1
        /\ UNCHANGED <<began, ended, channel, table, registered, outside, faults>>
    BY <1>15 DEF Crash
  <2>3. DrainerShape'
    BY <2>2 DEF BackToLoop, DrainerShape
  <2>4. TypeOK'
    <3>1. turn' \in [Turns -> TurnState] /\ began' \in [Turns -> Nat] /\ ended' \in [Turns -> Nat]
      BY <2>1, <2>2
    <3>2. TableOK'
      BY <2>2, <1>0 DEF table, TableOK
    <3>3. channel' \in BOOLEAN /\ registered' \in SUBSET Targets /\ up' \in BOOLEAN
      BY <2>2
    <3>4. batch' \in SUBSET Rows /\ cur' \in Rows \cup {NoRow}
      BY <2>2 DEF BackToLoop
    <3>5. stage' \in {"loop", "mark", "publish"} /\ outcome' \in Outcome
      BY <2>2 DEF BackToLoop, Outcome
    <3>6. posted' \in [Rows -> Nat] /\ announced' \in SUBSET Rows /\ crashes' \in Nat /\ faults' \in Nat
      BY <2>2 DEF outside
    <3>7. QED BY <3>1, <3>2, <3>3, <3>4, <3>5, <3>6 DEF TableOK
  <2>5. QED
    BY <2>3, <2>4
<1>16. ASSUME NEW loaded \in SUBSET Targets, NEW reset \in BOOLEAN,
              Startup(loaded, reset)
       PROVE  TypeInv'
  <2>1. due' \in [Rows -> BOOLEAN]
    BY <1>16 DEF Startup
  <2>2. QED
    BY <1>16, <2>1 DEF Startup, sources, drainer, outside, RowState, DrainerShape
<1>17. CASE UNCHANGED vars
  BY <1>17 DEF vars, sources, table, drainer, outside, DrainerShape
<1>18. QED
  BY <1>1, <1>2, <1>3, <1>4, <1>5, <1>6, <1>7, <1>8, <1>9, <1>10, <1>11, <1>12,
     <1>13, <1>14, <1>15, <1>16, <1>17 DEF Next, DeliverStep, Restart

(* Every reachable state is well typed.                                    *)
THEOREM TypeCorrect == Spec => []TypeOK
<1>1. Spec => []TypeInv
  BY InitType, NextType, PTL DEF Spec
<1>2. QED
  BY <1>1, PTL DEF TypeInv
---------------------------------------------------------------------------
(* The safety invariants of the drainer.                                   *)

(* Rows exist only for committed turns, so a commit inserts fresh rows.    *)
RowsOfCommitted == \A r \in Rows : state[r] # "absent" => turn[r[1]] = "committed"

(* A row with no failure or crash outstanding has no unaccounted post.     *)
Accounted(r) ==
    \/ r \in batch
    \/ state[r] \in Fetchable \cup {"absent"}
    \/ ~up /\ state[r] = "in_flight"
RepostSlack ==
    \A r \in Rows :
        posted[r] <= attempts[r] + crashes + (IF Accounted(r) THEN 0 ELSE 1)

(* BudgetLeft, extended to rows that do not exist yet.                     *)
Budget ==
    \A r \in Rows : state[r] \in Owed \cup {"absent"} =>
        attempts[r] < DeadLetterAfter /\ defers[r] < DeferLimit

(* A positive receipt in the drainer's hands was shown outside, and what   *)
(* it is about to announce is dead.                                        *)
OutcomeTrue ==
    /\ stage = "mark" /\ outcome = "ok" => posted[cur] > 0
    /\ stage = "publish" => state[cur] \in {"dead_letter", "deleted"}

SafetyInv ==
    /\ RowsOfCommitted
    /\ HeldIsInFlight
    /\ NothingStranded
    /\ RepostSlack
    /\ Budget
    /\ OutcomeTrue
    /\ AnnouncedIsDead

(* Every part of SafetyInv holds before any row exists.                    *)
LEMMA InitSafety == Init => SafetyInv
BY OutboxAssumption
DEF Init, SafetyInv, RowsOfCommitted, HeldIsInFlight, Held, NothingStranded, RepostSlack,
    Budget, OutcomeTrue, AnnouncedIsDead, OutboxAssumption, Owed, Fetchable, Accounted

(* One case per action: the drainer only settles rows it holds, the        *)
(* claim only takes rows it marks, and a restart hands back all it         *)
(* finds.                                                                  *)
LEMMA NextSafety == TypeInv /\ SafetyInv /\ [Next]_vars => SafetyInv'
<1> SUFFICES ASSUME TypeInv, SafetyInv, [Next]_vars PROVE SafetyInv'
  OBVIOUS
<1> USE OutboxAssumption
    DEF TypeInv, TypeOK, DrainerShape, SafetyInv, RowsOfCommitted, HeldIsInFlight, Held,
        NothingStranded, RepostSlack, Budget, OutcomeTrue, AnnouncedIsDead,
        OutboxAssumption, Owed, Fetchable, RowState, Accounted
<1>1. ASSUME NEW t \in Turns, BeginTurn(t) PROVE SafetyInv'
  BY <1>1 DEF BeginTurn, table, drainer, outside
<1>2. ASSUME NEW t \in Turns, AbortTurn(t) PROVE SafetyInv'
  BY <1>2 DEF AbortTurn, table, drainer, outside
<1>3. ASSUME NEW t \in Turns, NEW recs \in SUBSET Records, NEW bound \in Bindings,
             CommitTurn(t, recs, bound)
      PROVE  SafetyInv'
  BY <1>3, RowTarget DEF CommitTurn, drainer, outside
<1>4. CASE DeleteChannel
  BY <1>4 DEF DeleteChannel, drainer, outside
<1>5. ASSUME NEW g \in Targets, RegisterRenderer(g) PROVE SafetyInv'
  BY <1>5 DEF RegisterRenderer, sources, table, drainer, outside
<1>6. ASSUME NEW r \in Rows, BecomeDue(r) PROVE SafetyInv'
  BY <1>6 DEF BecomeDue, sources, drainer, outside
<1>7. CASE ClaimBatch
  BY <1>7 DEF ClaimBatch, MarkInFlight, Eligible, sources, outside
<1>8. ASSUME NEW r \in Rows, DeferNoRenderer(r) PROVE SafetyInv'
  BY <1>8 DEF DeferNoRenderer, Turning, ThenPublish, BackToLoop, sources, outside, table
<1>9. ASSUME NEW r \in Rows, FailReconstitution(r) PROVE SafetyInv'
  BY <1>9 DEF FailReconstitution, MarkFailed, Turning, BackToLoop, sources, outside, table
<1>10. ASSUME NEW r \in Rows, SkipIncapable(r) PROVE SafetyInv'
  BY <1>10 DEF SkipIncapable, MarkDelivered, Turning, BackToLoop, sources, outside
<1>11. ASSUME NEW r \in Rows, NEW answer \in Outcome \ {"none"},
              NEW visible \in BOOLEAN, Render(r, answer, visible)
       PROVE  SafetyInv'
  BY <1>11 DEF Render, Turning, sources, table
<1>12. CASE MarkOutcome
  BY <1>12 DEF MarkOutcome, MarkFailed, MarkDelivered, ThenPublish, BackToLoop, sources,
               outside, table
<1>13. CASE MarkError
  BY <1>13 DEF MarkError, Turning, BackToLoop, sources, table, outside
<1>14. ASSUME NEW ok \in BOOLEAN, PublishDeliveryFailed(ok) PROVE SafetyInv'
  BY <1>14 DEF PublishDeliveryFailed, BackToLoop, sources, table, outside
<1>15. CASE Crash
  <2>1. up' = FALSE /\ batch' = {} /\ stage' = "loop" /\ crashes' = crashes + 1
        /\ UNCHANGED <<state, attempts, defers, posted, announced>>
    BY <1>15 DEF Crash, BackToLoop, table, outside
  <2>2. RowsOfCommitted'
    BY <1>15, <2>1, RowTarget DEF Crash
  <2>3. RepostSlack'
    BY <2>1
  <2>4. HeldIsInFlight' /\ NothingStranded' /\ Budget' /\ OutcomeTrue' /\ AnnouncedIsDead'
    BY <2>1
  <2>5. QED
    BY <2>2, <2>3, <2>4
<1>16. ASSUME NEW loaded \in SUBSET Targets, NEW reset \in BOOLEAN,
              Startup(loaded, reset)
       PROVE  SafetyInv'
  BY <1>16 DEF Startup, StaleInFlight, sources, drainer, outside
<1>17. CASE UNCHANGED vars
  BY <1>17 DEF vars, sources, table, drainer, outside
<1>18. QED
  BY <1>1, <1>2, <1>3, <1>4, <1>5, <1>6, <1>7, <1>8, <1>9, <1>10, <1>11, <1>12,
     <1>13, <1>14, <1>15, <1>16, <1>17 DEF Next, DeliverStep, Restart
(* The inductive invariant of the outbox.                                  *)
IInv == TypeInv /\ SafetyInv

(* The inductive invariant holds in every reachable state.                 *)
LEMMA Inductive == Spec => []IInv
<1>1. Init => IInv
  BY InitType, InitSafety DEF IInv
<1>2. IInv /\ [Next]_vars => IInv'
  BY NextType, NextSafety DEF IInv
<1>3. QED
  BY <1>1, <1>2, PTL DEF Spec

(* Nothing the drainer holds is taken, settled or handed out behind its    *)
(* back, and without database errors nothing is left behind in_flight.     *)
THEOREM DrainerOwnsInFlight == Spec => []InFlightIsHeld
<1>1. IInv => InFlightIsHeld
  BY DEF IInv, SafetyInv, InFlightIsHeld
<1>2. QED
  BY <1>1, Inductive, PTL

(* Every duplicate post is paid for by a recorded attempt or a crash, and  *)
(* rows still being worked on keep budget on both counters.                *)
THEOREM RepostsAndRetriesBounded == Spec => []RetriesBounded
<1>1. IInv => RepostsAccounted
  BY DEF IInv, TypeInv, TypeOK, SafetyInv, RepostSlack, RepostsAccounted
<1>2. IInv => BudgetLeft
  BY DEF IInv, SafetyInv, Budget, BudgetLeft
<1>3. IInv => RetriesBounded
  BY <1>1, <1>2 DEF RetriesBounded
<1>4. QED
  BY <1>3, Inductive, PTL

(* Only dead rows are ever announced.                                      *)
THEOREM OnlyDeadAnnounced == Spec => []AnnouncedIsDead
<1>1. IInv => AnnouncedIsDead
  BY DEF IInv, SafetyInv
<1>2. QED
  BY <1>1, Inductive, PTL
---------------------------------------------------------------------------
(* Announcements.                                                          *)

(* A dead letter that is to be told keeps the drainer until it is: what    *)
(* settles a row meets no dead letter, and what takes up another row finds *)
(* no announcement pending.                                                *)
LEMMA NextTold == IInv /\ FailedReceiptsAnnounced /\ [Next]_vars => FailedReceiptsAnnounced'
<1> SUFFICES ASSUME IInv, FailedReceiptsAnnounced, [Next]_vars
             PROVE  FailedReceiptsAnnounced'
  OBVIOUS
<1> USE OutboxAssumption
    DEF IInv, TypeInv, TypeOK, DrainerShape, SafetyInv, HeldIsInFlight, Held,
        FailedReceiptsAnnounced, OutboxAssumption, RowState, Fetchable
<1>1. ASSUME NEW t \in Turns, BeginTurn(t) \/ AbortTurn(t) PROVE FailedReceiptsAnnounced'
  BY <1>1 DEF BeginTurn, AbortTurn, table, drainer, outside
<1>2. ASSUME NEW t \in Turns, NEW recs \in SUBSET Records, NEW bound \in Bindings,
             CommitTurn(t, recs, bound)
      PROVE  FailedReceiptsAnnounced'
  BY <1>2 DEF CommitTurn, drainer, outside
<1>3. CASE DeleteChannel
  BY <1>3 DEF DeleteChannel, drainer, outside
<1>4. ASSUME NEW g \in Targets, RegisterRenderer(g) PROVE FailedReceiptsAnnounced'
  BY <1>4 DEF RegisterRenderer, table, drainer, outside
<1>5. ASSUME NEW r \in Rows, BecomeDue(r) PROVE FailedReceiptsAnnounced'
  BY <1>5 DEF BecomeDue, drainer, outside
<1>6. CASE ClaimBatch
  BY <1>6 DEF ClaimBatch, MarkInFlight, Eligible, outside
<1>7. ASSUME NEW r \in Rows, DeferNoRenderer(r) PROVE FailedReceiptsAnnounced'
  BY <1>7 DEF DeferNoRenderer, Turning, ThenPublish, BackToLoop, outside, table
<1>8. ASSUME NEW r \in Rows, FailReconstitution(r) PROVE FailedReceiptsAnnounced'
  BY <1>8 DEF FailReconstitution, MarkFailed, Turning, BackToLoop, outside, table
<1>9. ASSUME NEW r \in Rows, SkipIncapable(r) PROVE FailedReceiptsAnnounced'
  BY <1>9 DEF SkipIncapable, MarkDelivered, Turning, BackToLoop, outside
<1>10. ASSUME NEW r \in Rows, NEW answer \in Outcome \ {"none"},
              NEW visible \in BOOLEAN, Render(r, answer, visible)
       PROVE  FailedReceiptsAnnounced'
  BY <1>10 DEF Render, Turning, table
<1>11. CASE MarkOutcome
  BY <1>11 DEF MarkOutcome, MarkFailed, MarkDelivered, ThenPublish, BackToLoop, outside, table
<1>12. CASE MarkError \/ Crash
  <2>1. crashes' # 0 \/ faults' # 0
    BY <1>12 DEF MarkError, Crash
  <2> QED
    BY <2>1
<1>13. ASSUME NEW ok \in BOOLEAN, PublishDeliveryFailed(ok) PROVE FailedReceiptsAnnounced'
  BY <1>13 DEF PublishDeliveryFailed, BackToLoop, table
<1>14. ASSUME NEW loaded \in SUBSET Targets, NEW reset \in BOOLEAN, Startup(loaded, reset)
       PROVE  FailedReceiptsAnnounced'
  BY <1>14 DEF Startup, StaleInFlight, drainer, outside
<1>15. CASE UNCHANGED vars
  BY <1>15 DEF vars, table, drainer, outside
<1> QED
  BY <1>1, <1>2, <1>3, <1>4, <1>5, <1>6, <1>7, <1>8, <1>9, <1>10, <1>11, <1>12, <1>13,
     <1>14, <1>15 DEF Next, DeliverStep, Restart

(* Only dead rows are announced, and crashes and errors aside every dead   *)
(* letter of a failed receipt or a missing renderer is, before the drainer *)
(* turns to another row.                                                   *)
THEOREM DeadLettersAnnounced == Spec => []DeadLettersTold
<1>1. Init => FailedReceiptsAnnounced
  BY DEF Init, FailedReceiptsAnnounced
<1>2. IInv /\ FailedReceiptsAnnounced => DeadLettersTold
  BY DEF IInv, SafetyInv, DeadLettersTold
<1> QED
  BY <1>1, <1>2, Inductive, NextTold, PTL DEF Spec

---------------------------------------------------------------------------
(* Order of first tries.                                                   *)

(* Time goes on with every begin and every commit.                         *)
LEMMA ClockAdvances ==
  ASSUME TypeOK, NEW t \in Turns,
         \/ turn[t] = "new" /\ turn' = [turn EXCEPT ![t] = "open"]
         \/ turn[t] = "open" /\ turn' = [turn EXCEPT ![t] = "committed"]
  PROVE  Clock' = Clock + 1
<1> DEFINE B == {u \in Turns : turn[u] # "new"}
           C == {u \in Turns : turn[u] = "committed"}
<1>1. IsFiniteSet(B) /\ IsFiniteSet(C)
  BY OutboxAssumption, FS_Subset DEF OutboxAssumption
<1>2. Cardinality(B) \in Nat /\ Cardinality(C) \in Nat
  BY <1>1, FS_CardinalityType
<1>5. Clock = Cardinality(B) + Cardinality(C) /\ Clock' = Cardinality(B') + Cardinality(C')
  BY DEF Clock
<1> HIDE DEF B, C
<1>3. CASE turn[t] = "new" /\ turn' = [turn EXCEPT ![t] = "open"]
  <2>1. B' = B \cup {t} /\ t \notin B /\ C' = C
    BY <1>3 DEF TypeOK, B, C
  <2>2. Cardinality(B') = Cardinality(B) + 1
    BY <1>1, <2>1, FS_AddElement
  <2> QED
    BY <1>2, <1>5, <2>1, <2>2
<1>4. CASE turn[t] = "open" /\ turn' = [turn EXCEPT ![t] = "committed"]
  <2>1. C' = C \cup {t} /\ t \notin C /\ B' = B
    BY <1>4 DEF TypeOK, B, C
  <2>2. Cardinality(C') = Cardinality(C) + 1
    BY <1>1, <2>1, FS_AddElement
  <2> QED
    BY <1>2, <1>5, <2>1, <2>2
<1> QED
  BY <1>3, <1>4

LEMMA ClockStands ==
  ASSUME \A t \in Turns : /\ turn'[t] = "new" <=> turn[t] = "new"
                          /\ turn'[t] = "committed" <=> turn[t] = "committed"
  PROVE  Clock' = Clock
<1>1. /\ {t \in Turns : turn'[t] # "new"} = {t \in Turns : turn[t] # "new"}
      /\ {t \in Turns : turn'[t] = "committed"} = {t \in Turns : turn[t] = "committed"}
  OBVIOUS
<1> QED
  BY <1>1 DEF Clock

(* Begins and commits are stamped with the time.                           *)
Stamped ==
    /\ \A t \in Turns : began[t] <= Clock
    /\ \A t \in Turns : turn[t] = "committed" => began[t] <= ended[t]

(* A row that was not tried is due, and is claimed before any row of a     *)
(* later turn.                                                             *)
Untried(r) == state[r] \in Owed /\ posted[r] = 0 /\ attempts[r] = 0 /\ defers[r] = 0
UntriedDue == \A r \in Rows : Untried(r) /\ state[r] # "in_flight" => due[r]
NoneBefore == \A r \in Rows : state[r] = "absent" => posted[r] = 0
AtHand(r)  == r \in batch \/ (stage = "mark" /\ cur = r)
ClaimedFirst ==
    faults = 0 =>
        \A r, s \in Rows : Earlier(r, s) /\ Untried(r) =>
            posted[s] = 0 /\ (s \in batch => AtHand(r))

OrderInv == Stamped /\ UntriedDue /\ NoneBefore /\ ClaimedFirst

LEMMA NextStamped == TypeOK /\ Stamped /\ [Next]_vars => Stamped'
<1> SUFFICES ASSUME TypeOK, Stamped, [Next]_vars PROVE Stamped'
  OBVIOUS
<1>0. Clock \in Nat
  BY ClockType
<1>1. ASSUME NEW t \in Turns, BeginTurn(t) PROVE Stamped'
  <2>1. Clock' = Clock + 1
    BY <1>1, ClockAdvances DEF BeginTurn
  <2> QED
    BY <1>0, <1>1, <2>1 DEF BeginTurn, Stamped, TypeOK
<1>2. ASSUME NEW t \in Turns, NEW recs \in SUBSET Records, NEW bound \in Bindings,
             CommitTurn(t, recs, bound)
      PROVE  Stamped'
  <2>1. Clock' = Clock + 1
    BY <1>2, ClockAdvances DEF CommitTurn
  <2> QED
    BY <1>0, <1>2, <2>1 DEF CommitTurn, Stamped, TypeOK
<1>3. CASE Crash \/ \E t \in Turns : AbortTurn(t)
  <2>1. Clock' = Clock
    BY <1>3, ClockStands DEF Crash, AbortTurn, TypeOK
  <2> QED
    BY <1>3, <2>1 DEF Crash, AbortTurn, Stamped, TypeOK
<1>4. CASE UNCHANGED <<turn, began, ended>>
  BY <1>4 DEF Stamped, Clock
<1> QED
  BY <1>1, <1>2, <1>3, <1>4
  DEF Next, DeliverStep, Restart, DeleteChannel, RegisterRenderer, BecomeDue, ClaimBatch,
      DeferNoRenderer, FailReconstitution, SkipIncapable, Render, MarkOutcome, MarkError,
      PublishDeliveryFailed, Startup, sources, vars

LEMMA NextOrder == IInv /\ OrderInv /\ [Next]_vars => OrderInv'
<1> SUFFICES ASSUME IInv, OrderInv, [Next]_vars PROVE OrderInv'
  OBVIOUS
<1>0. TypeInv /\ SafetyInv /\ Stamped /\ Stamped' /\ TypeInv'
  BY NextStamped, NextType DEF IInv, OrderInv, TypeInv
<1> SUFFICES UntriedDue' /\ NoneBefore' /\ ClaimedFirst'
  BY <1>0 DEF OrderInv
<1>a. ASSUME NEW r \in Rows, NEW s \in Rows, Earlier(r, s), s \in batch, r \in batch
      PROVE  ~Turning(s)
  <2>1. CreatedAt(r) < CreatedAt(s)
    BY <1>0, <1>a, RowTarget DEF Earlier, CreatedAt, Stamped, TypeInv, TypeOK
  <2> QED
    BY <1>0, <1>a, <2>1, RowTarget DEF Turning, CreatedAt, TypeInv, TypeOK
<1> USE OutboxAssumption
    DEF TypeInv, TypeOK, DrainerShape, SafetyInv, HeldIsInFlight, Held, OutboxAssumption,
        RowState, Fetchable, Owed, Untried, AtHand
<1>1. ASSUME NEW t \in Turns, BeginTurn(t) PROVE OrderInv'
  <2>1. \A s \in Rows : s[1] = t => posted[s] = 0 /\ s \notin batch
    BY <1>0, <1>1 DEF BeginTurn, RowsOfCommitted, OrderInv, NoneBefore
  <2>2. \A r, s \in Rows : Earlier(r, s)' => Earlier(r, s) \/ s[1] = t
    BY <1>0, <1>1, RowTarget DEF BeginTurn, Earlier
  <2> QED
    BY <1>0, <1>1, <2>1, <2>2
    DEF BeginTurn, OrderInv, UntriedDue, NoneBefore, ClaimedFirst, table, drainer, outside
<1>2. ASSUME NEW t \in Turns, AbortTurn(t) PROVE OrderInv'
  BY <1>0, <1>2
  DEF AbortTurn, OrderInv, UntriedDue, NoneBefore, ClaimedFirst, table, drainer, outside
<1>3. ASSUME NEW t \in Turns, NEW recs \in SUBSET Records, NEW bound \in Bindings,
             CommitTurn(t, recs, bound)
      PROVE  OrderInv'
  <2>1. \A r, s \in Rows : Earlier(r, s)' => Earlier(r, s) /\ r[1] # t
    BY <1>0, <1>3, RowTarget, ClockType DEF CommitTurn, Earlier, Stamped
  <2>2. \A r \in Rows : r[1] # t => state'[r] = state[r]
    BY <1>3 DEF CommitTurn
  <2>3. UntriedDue' /\ NoneBefore'
    BY <1>3 DEF CommitTurn, OrderInv, UntriedDue, NoneBefore, outside
  <2> QED
    BY <1>0, <1>3, <2>1, <2>2, <2>3 DEF CommitTurn, OrderInv, ClaimedFirst, drainer, outside
<1>4. CASE DeleteChannel
  BY <1>0, <1>4
  DEF DeleteChannel, OrderInv, UntriedDue, NoneBefore, ClaimedFirst, Earlier, drainer, outside
<1>5. ASSUME NEW g \in Targets, RegisterRenderer(g) PROVE OrderInv'
  BY <1>0, <1>5
  DEF RegisterRenderer, OrderInv, UntriedDue, NoneBefore, ClaimedFirst, Earlier, sources,
      table, drainer, outside
<1>6. ASSUME NEW r \in Rows, BecomeDue(r) PROVE OrderInv'
  BY <1>0, <1>6
  DEF BecomeDue, OrderInv, UntriedDue, NoneBefore, ClaimedFirst, Earlier, sources, drainer,
      outside
<1>7. CASE ClaimBatch
  <2>1. PICK C \in SUBSET Eligible : OldestFirst(C) /\ batch' = C /\ MarkInFlight(C)
    BY <1>7 DEF ClaimBatch
  <2>2. UntriedDue' /\ NoneBefore'
    BY <1>7, <2>1 DEF ClaimBatch, MarkInFlight, Eligible, OrderInv, UntriedDue, NoneBefore,
                      outside
  <2>3. ASSUME NEW r \in Rows, NEW s \in Rows, faults = 0, Earlier(r, s), Untried(r), s \in C
        PROVE  r \in C
    <3>1. state[r] # "in_flight"
      BY <1>0, <1>7, <2>3 DEF ClaimBatch, NothingStranded
    <3>2. r \in Eligible
      BY <2>3, <3>1 DEF OrderInv, UntriedDue, Eligible
    <3>3. CreatedAt(r) < CreatedAt(s)
      BY <1>0, <2>3, RowTarget DEF Earlier, CreatedAt, Stamped
    <3> QED
      BY <1>0, <2>1, <2>3, <3>2, <3>3, RowTarget DEF OldestFirst, CreatedAt
  <2>4. UNCHANGED <<turn, began, ended, posted, attempts, defers, faults>>
    BY <1>7, <2>1 DEF ClaimBatch, MarkInFlight, sources, outside
  <2>5. \A r \in Rows : Untried(r)' => Untried(r)
    BY <2>1, <2>4 DEF MarkInFlight, Eligible
  <2>6. ASSUME NEW r \in Rows, NEW s \in Rows, faults' = 0, Earlier(r, s)', Untried(r)'
        PROVE  posted'[s] = 0 /\ (s \in batch' => r \in batch')
    <3>1. faults = 0 /\ Earlier(r, s) /\ Untried(r)
      BY <2>4, <2>5, <2>6 DEF Earlier
    <3>2. posted[s] = 0
      BY <3>1 DEF OrderInv, ClaimedFirst
    <3> QED
      BY <2>1, <2>3, <2>4, <3>1, <3>2
  <2>7. ClaimedFirst'
    BY <2>6 DEF ClaimedFirst, Earlier
  <2> QED
    BY <1>0, <2>2, <2>7 DEF OrderInv
<1>8. ASSUME NEW r \in Rows, DeferNoRenderer(r) PROVE OrderInv'
  BY <1>0, <1>8
  DEF DeferNoRenderer, Turning, ThenPublish, BackToLoop, OrderInv, UntriedDue, NoneBefore,
      ClaimedFirst, Earlier, sources, outside, table
<1>9. ASSUME NEW r \in Rows, FailReconstitution(r) PROVE OrderInv'
  BY <1>0, <1>9
  DEF FailReconstitution, MarkFailed, Turning, BackToLoop, OrderInv, UntriedDue, NoneBefore,
      ClaimedFirst, Earlier, sources, outside, table
<1>10. ASSUME NEW r \in Rows, SkipIncapable(r) PROVE OrderInv'
  BY <1>0, <1>10
  DEF SkipIncapable, MarkDelivered, Turning, BackToLoop, OrderInv, UntriedDue, NoneBefore,
      ClaimedFirst, Earlier, sources, outside
<1>11. ASSUME NEW r \in Rows, NEW answer \in Outcome \ {"none"},
              NEW visible \in BOOLEAN, Render(r, answer, visible)
       PROVE  OrderInv'
  <2>1. /\ Turning(r)
        /\ stage' = "mark" /\ cur' = r /\ batch' = batch \ {r}
        /\ UNCHANGED <<turn, began, ended, table, faults>>
        /\ \A q \in Rows : q # r => posted'[q] = posted[q]
        /\ posted'[r] \in {posted[r], posted[r] + 1}
    BY <1>11 DEF Render, Turning, sources
  <2>2. UntriedDue' /\ NoneBefore'
    BY <1>0, <2>1 DEF Turning, OrderInv, UntriedDue, NoneBefore, table
  <2>3. ASSUME NEW q \in Rows, NEW s \in Rows, faults = 0, Earlier(q, s), Untried(q)'
        PROVE  posted'[s] = 0 /\ (s \in batch' => q \in batch' \/ cur' = q)
    <3>1. Untried(q)
      <4>1. posted'[q] = 0 /\ posted[q] \in Nat
        BY <1>0, <2>3
      <4>2. posted[q] = 0
        BY <2>1, <4>1
      <4> QED
        BY <2>1, <2>3, <4>2 DEF table
    <3>2. posted[s] = 0 /\ (s \in batch => q \in batch)
      BY <2>1, <2>3, <3>1 DEF OrderInv, ClaimedFirst, Turning
    <3>3. s # r
      BY <1>a, <2>1, <2>3, <3>2 DEF Turning
    <3> QED
      BY <2>1, <3>2, <3>3
  <2>4. ASSUME NEW q \in Rows, NEW s \in Rows, faults' = 0, Earlier(q, s)', Untried(q)'
        PROVE  posted'[s] = 0 /\ (s \in batch' => AtHand(q)')
    <3>1. faults = 0 /\ Earlier(q, s)
      BY <2>1, <2>4 DEF Earlier
    <3> QED
      BY <2>1, <2>3, <2>4, <3>1
  <2>5. ClaimedFirst'
    BY <2>4 DEF ClaimedFirst, Earlier
  <2> QED
    BY <1>0, <2>2, <2>5 DEF OrderInv
<1>12. CASE MarkOutcome
  BY <1>0, <1>12
  DEF MarkOutcome, MarkFailed, MarkDelivered, ThenPublish, BackToLoop, OutcomeTrue, OrderInv,
      UntriedDue, NoneBefore, ClaimedFirst, Earlier, sources, outside, table
<1>13. CASE MarkError
  BY <1>0, <1>13
  DEF MarkError, Turning, BackToLoop, OrderInv, UntriedDue, NoneBefore, ClaimedFirst,
      sources, table, outside
<1>14. ASSUME NEW ok \in BOOLEAN, PublishDeliveryFailed(ok) PROVE OrderInv'
  BY <1>0, <1>14
  DEF PublishDeliveryFailed, BackToLoop, OrderInv, UntriedDue, NoneBefore, ClaimedFirst,
      Earlier, sources, table, outside
<1>15. CASE Crash
  <2>1. \A r, s \in Rows : Earlier(r, s)' => Earlier(r, s)
    BY <1>0, <1>15, RowTarget DEF Crash, Earlier
  <2> QED
    BY <1>0, <1>15, <2>1
    DEF Crash, BackToLoop, OrderInv, UntriedDue, NoneBefore, ClaimedFirst, table, outside
<1>16. ASSUME NEW loaded \in SUBSET Targets, NEW reset \in BOOLEAN, Startup(loaded, reset)
       PROVE  OrderInv'
  BY <1>0, <1>16
  DEF Startup, StaleInFlight, OrderInv, UntriedDue, NoneBefore, ClaimedFirst, Earlier,
      sources, drainer, outside
<1>17. CASE UNCHANGED vars
  BY <1>0, <1>17
  DEF vars, OrderInv, UntriedDue, NoneBefore, ClaimedFirst, Earlier, sources, table, drainer,
      outside
<1> QED
  BY <1>1, <1>2, <1>3, <1>4, <1>5, <1>6, <1>7, <1>8, <1>9, <1>10, <1>11, <1>12, <1>13,
     <1>14, <1>15, <1>16, <1>17 DEF Next, DeliverStep, Restart, OrderInv

(* Messages of turns that ran one after the other reach an integration in  *)
(* that order on their first try, unless a database call failed.           *)
THEOREM FirstTriesOrdered == Spec => []FirstTriesInOrder
<1>1. Init => OrderInv
  <2> SUFFICES ASSUME Init PROVE OrderInv
    OBVIOUS
  <2>1. Stamped
    BY ClockType DEF Init, Stamped
  <2> QED
    BY <2>1 DEF Init, OrderInv, UntriedDue, NoneBefore, ClaimedFirst, Untried, Owed,
                Fetchable
<1>2. IInv /\ OrderInv => FirstTriesInOrder
  <2> SUFFICES ASSUME IInv, OrderInv, faults = 0, NEW r \in Rows, NEW s \in Rows,
                      Earlier(r, s), posted[s] > 0, state[r] \in Owed
               PROVE  posted[r] > 0 \/ attempts[r] > 0 \/ defers[r] > 0
    BY DEF FirstTriesInOrder
  <2>1. ~Untried(r)
    BY DEF OrderInv, ClaimedFirst, IInv, TypeInv, TypeOK
  <2> QED
    BY <2>1 DEF Untried, IInv, TypeInv, TypeOK
<1> QED
  BY <1>1, <1>2, Inductive, NextOrder, PTL DEF Spec
---------------------------------------------------------------------------
(* The outbox implements DurableDelivery under the mapping Promise.        *)

Status == [r \in Rows |-> Meaning[state[r]]]

(* A step that changes neither what the states mean nor what was posted    *)
(* is a stutter of the abstract specification.                             *)
LEMMA Stutter ==
  ASSUME Status' = Status, posted' = posted
  PROVE  UNCHANGED Promise!vars
BY DEF Status, Promise!vars

(* Moving one owed row to a settled state is Finish or Abandon.            *)
LEMMA AbandonStep ==
  ASSUME TypeInv, NEW r \in Rows, state[r] \in Owed, posted' = posted,
         state' = [state EXCEPT ![r] = "dead_letter"]
  PROVE  Promise!Abandon(r)
<1>0. Meaning[state[r]] = "owed" /\ Meaning["dead_letter"] = "abandoned"
  BY DEF Owed, Fetchable, Meaning
<1>1. Status[r] = "owed" /\ Status' = [Status EXCEPT ![r] = "abandoned"]
  BY <1>0 DEF TypeInv, TypeOK, Status
<1>2. QED
  BY <1>1 DEF Promise!Abandon, Status

(* Marking a shown (or never showable) row delivered is Finish.            *)
LEMMA FinishStep ==
  ASSUME TypeInv, NEW r \in Rows, state[r] \in Owed, posted' = posted,
         posted[r] > 0 \/ TargetOf(r) \notin Capable,
         state' = [state EXCEPT ![r] = "delivered"]
  PROVE  Promise!Finish(r)
<1>0. Meaning[state[r]] = "owed" /\ Meaning["delivered"] = "done"
  BY DEF Owed, Fetchable, Meaning
<1>1. Status[r] = "owed" /\ Status' = [Status EXCEPT ![r] = "done"]
  BY <1>0 DEF TypeInv, TypeOK, Status
<1>2. QED
  BY <1>1 DEF Promise!Finish, Status

(* Moving an owed row to another owed state is a stutter.                  *)
LEMMA RequeueStep ==
  ASSUME TypeInv, NEW r \in Rows, state[r] \in Owed, posted' = posted,
         NEW s \in Owed, state' = [state EXCEPT ![r] = s]
  PROVE  UNCHANGED Promise!vars
<1>1. Status' = Status
  BY DEF TypeInv, TypeOK, RowState, Owed, Fetchable, Meaning, Status
<1>2. QED
  BY <1>1, Stutter

(* Marking a held row failed either requeues it or abandons it.            *)
LEMMA MarkFailedStep ==
  ASSUME TypeInv, NEW r \in Rows, state[r] \in {"in_flight", "deleted"},
         NEW retryable \in BOOLEAN, NEW why \in Reason,
         MarkFailed(r, retryable, why), posted' = posted
  PROVE  [Promise!Next]_Promise!vars
<1>1. CASE state[r] = "deleted"
  BY <1>1, Stutter DEF MarkFailed, table, Status
<1>2. CASE state[r] = "in_flight"
  <2>1. \/ state' = [state EXCEPT ![r] = "dead_letter"]
        \/ state' = [state EXCEPT ![r] = "failed_retryable"]
    BY <1>2 DEF MarkFailed
  <2>2. state[r] \in Owed
    BY <1>2 DEF Owed
  <2>3. CASE state' = [state EXCEPT ![r] = "dead_letter"]
    BY <2>2, <2>3, AbandonStep DEF Promise!Next
  <2>4. CASE state' = [state EXCEPT ![r] = "failed_retryable"]
    BY <2>2, <2>4, RequeueStep DEF Owed, Fetchable
  <2>5. QED
    BY <2>1, <2>3, <2>4
<1>3. QED
  BY <1>1, <1>2

(* Marking a held row delivered finishes it, or stutters if it is          *)
(* deleted.                                                                *)
LEMMA MarkDeliveredStep ==
  ASSUME TypeInv, NEW r \in Rows, state[r] \in {"in_flight", "deleted"},
         posted[r] > 0 \/ TargetOf(r) \notin Capable,
         MarkDelivered(r), posted' = posted
  PROVE  [Promise!Next]_Promise!vars
<1>1. CASE state[r] = "deleted"
  <2>1. Status' = Status
    BY <1>1 DEF MarkDelivered, Status, TypeInv, TypeOK
  <2>2. QED
    BY <2>1, Stutter
<1>2. CASE state[r] = "in_flight"
  <2>1. state' = [state EXCEPT ![r] = "delivered"] /\ state[r] \in Owed
    BY <1>2 DEF MarkDelivered, Owed, TypeInv, TypeOK
  <2>2. QED
    BY <2>1, FinishStep DEF Promise!Next
<1>3. QED
  BY <1>1, <1>2

(* An empty table means that nothing is known to the service.              *)
LEMMA InitRefines == Init => Promise!Init
BY DEF Init, Promise!Init, Meaning

(* One case per action: commits are Accept, channel deletes Withdraw,      *)
(* renders Show, marks Finish or Abandon, the rest stutters.               *)
LEMMA NextRefines == IInv /\ [Next]_vars => [Promise!Next]_Promise!vars
<1> SUFFICES ASSUME IInv, [Next]_vars PROVE [Promise!Next]_Promise!vars
  OBVIOUS
<1>0. TypeInv /\ RowsOfCommitted /\ HeldIsInFlight /\ OutcomeTrue
  BY DEF IInv, SafetyInv
<1>1. ASSUME UNCHANGED state, UNCHANGED posted PROVE UNCHANGED Promise!vars
  BY <1>1, Stutter DEF Status
<1>2. ASSUME NEW t \in Turns, NEW recs \in SUBSET Records, NEW bound \in Bindings,
             CommitTurn(t, recs, bound)
      PROVE  [Promise!Next]_Promise!vars
  <2> DEFINE new == IF channel THEN {t} \X recs \X bound ELSE {}
  <2>1. new \in SUBSET Rows /\ posted' = posted
        /\ state' = [r \in Rows |-> IF r \in new THEN "pending" ELSE state[r]]
    BY <1>2, OutboxAssumption DEF CommitTurn, outside, Rows
  <2>2. \A r \in new : state[r] = "absent"
    <3>1. \A r \in new : r \in Rows /\ r[1] = t
      BY <2>1
    <3>2. turn[t] = "open"
      BY <1>2 DEF CommitTurn
    <3>3. QED
      BY <1>0, <3>1, <3>2 DEF RowsOfCommitted
  <2> HIDE DEF new
  <2>3. PICK S \in SUBSET Rows : S = new
    BY <2>1
  <2>4. Promise!Accept(S)
    BY <1>0, <2>1, <2>2, <2>3 DEF Promise!Accept, Meaning, TypeInv, TypeOK, RowState
  <2>5. QED
    BY <2>4, Zenon DEF Promise!Next
<1>3. CASE DeleteChannel
  <2>1. PICK S \in SUBSET Rows : S = {r \in Rows : state[r] # "absent"}
    OBVIOUS
  <2>2. Promise!Withdraw(S)
    BY <1>0, <1>3, <2>1 DEF DeleteChannel, outside, Promise!Withdraw, Meaning, TypeInv,
                            TypeOK, RowState
  <2>3. QED
    BY <2>2, Zenon DEF Promise!Next
<1>4. CASE ClaimBatch
  <2>1. PICK C \in SUBSET Eligible : MarkInFlight(C)
    BY <1>4 DEF ClaimBatch
  <2>2. Status' = Status
    BY <1>0, <2>1 DEF MarkInFlight, Eligible, Fetchable, Status, Meaning, TypeInv,
                      TypeOK, RowState
  <2>3. QED
    BY <1>4, <2>2, Stutter DEF ClaimBatch, outside
<1>5. ASSUME NEW r \in Rows, DeferNoRenderer(r) PROVE [Promise!Next]_Promise!vars
  <2>1. state[r] \in {"in_flight", "deleted"} /\ posted' = posted
    BY <1>0, <1>5 DEF DeferNoRenderer, Turning, HeldIsInFlight, Held, outside
  <2>2. CASE state[r] = "deleted"
    BY <1>1, <1>5, <2>1, <2>2 DEF DeferNoRenderer, table
  <2>3. CASE state[r] = "in_flight"
    <3>1. state[r] \in Owed
      BY <2>3 DEF Owed
    <3>2. \/ state' = [state EXCEPT ![r] = "dead_letter"]
          \/ state' = [state EXCEPT ![r] = "pending"]
      BY <1>5, <2>3 DEF DeferNoRenderer
    <3>3. CASE state' = [state EXCEPT ![r] = "dead_letter"]
      BY <1>0, <2>1, <3>1, <3>3, AbandonStep DEF Promise!Next
    <3>4. CASE state' = [state EXCEPT ![r] = "pending"]
      BY <1>0, <2>1, <3>1, <3>4, RequeueStep DEF Owed, Fetchable
    <3>5. QED
      BY <3>2, <3>3, <3>4
  <2>4. QED
    BY <2>1, <2>2, <2>3
<1>6. ASSUME NEW r \in Rows, FailReconstitution(r) PROVE [Promise!Next]_Promise!vars
  <2>1. state[r] \in {"in_flight", "deleted"} /\ posted' = posted
    BY <1>0, <1>6 DEF FailReconstitution, Turning, HeldIsInFlight, Held, outside
  <2>2. MarkFailed(r, FALSE, "reconstitution")
    BY <1>6 DEF FailReconstitution
  <2>3. QED
    BY <1>0, <2>1, <2>2, MarkFailedStep DEF Reason
<1>7. ASSUME NEW r \in Rows, SkipIncapable(r) PROVE [Promise!Next]_Promise!vars
  <2>1. state[r] \in {"in_flight", "deleted"} /\ posted' = posted
        /\ TargetOf(r) \notin Capable /\ MarkDelivered(r)
    BY <1>0, <1>7 DEF SkipIncapable, Turning, HeldIsInFlight, Held, outside
  <2>2. QED
    BY <1>0, <2>1, MarkDeliveredStep
<1>8. ASSUME NEW r \in Rows, NEW answer \in Outcome \ {"none"},
             NEW visible \in BOOLEAN, Render(r, answer, visible)
      PROVE  [Promise!Next]_Promise!vars
  <2>1. state[r] \in {"in_flight", "deleted"} /\ state' = state
    BY <1>0, <1>8 DEF Render, Turning, HeldIsInFlight, Held, table
  <2>2. CASE visible
    <3>1. posted' = [posted EXCEPT ![r] = @ + 1]
      BY <1>8, <2>2 DEF Render
    <3>2. Promise!Show(r)
      BY <1>0, <2>1, <3>1 DEF Promise!Show, Meaning, TypeInv, TypeOK
    <3>3. QED
      BY <3>2 DEF Promise!Next
  <2>3. CASE ~visible
    <3>1. posted' = posted
      BY <1>0, <1>8, <2>3 DEF Render, TypeInv, TypeOK
    <3>2. QED
      BY <1>1, <2>1, <3>1
  <2>4. QED
    BY <2>2, <2>3
<1>9. CASE MarkOutcome
  <2>1. cur \in Rows /\ state[cur] \in {"in_flight", "deleted"} /\ posted' = posted
    BY <1>0, <1>9 DEF MarkOutcome, HeldIsInFlight, Held, outside, TypeInv, DrainerShape
  <2>2. CASE outcome = "ok"
    <3>1. MarkDelivered(cur) /\ posted[cur] > 0
      BY <1>0, <1>9, <2>2 DEF MarkOutcome, OutcomeTrue
    <3>2. QED
      BY <1>0, <2>1, <3>1, MarkDeliveredStep
  <2>3. CASE outcome # "ok"
    <3>1. PICK retryable \in BOOLEAN, why \in Reason : MarkFailed(cur, retryable, why)
      BY <1>9, <2>3 DEF MarkOutcome, Reason
    <3>2. QED
      BY <1>0, <2>1, <3>1, MarkFailedStep
  <2>4. QED
    BY <2>2, <2>3
<1>10. ASSUME NEW loaded \in SUBSET Targets, NEW reset \in BOOLEAN,
              Startup(loaded, reset)
       PROVE  [Promise!Next]_Promise!vars
  <2>1. Status' = Status
    BY <1>0, <1>10 DEF Startup, StaleInFlight, Status, Meaning, TypeInv, TypeOK, RowState
  <2>2. QED
    BY <1>10, <2>1, Stutter DEF Startup, outside
<1>11. ASSUME \/ \E t \in Turns : BeginTurn(t) \/ AbortTurn(t)
              \/ \E g \in Targets : RegisterRenderer(g)
              \/ \E r \in Rows : BecomeDue(r)
              \/ MarkError \/ (\E ok \in BOOLEAN : PublishDeliveryFailed(ok))
              \/ Crash \/ UNCHANGED vars
       PROVE  [Promise!Next]_Promise!vars
  <2>1. UNCHANGED <<state, posted>>
    BY <1>11 DEF BeginTurn, AbortTurn, RegisterRenderer, BecomeDue, MarkError,
                 PublishDeliveryFailed, Crash, vars, table, outside
  <2>2. QED
    BY <1>1, <2>1
<1>12. QED
  BY <1>2, <1>3, <1>4, <1>5, <1>6, <1>7, <1>8, <1>9, <1>10, <1>11
  DEF Next, DeliverStep, Restart

(* Every behaviour of the table and its drainer is one of the abstract     *)
(* delivery service: nothing accepted is lost while owed, nothing is       *)
(* finished unseen, and nothing settled is shown or changed again.         *)
THEOREM OutboxDelivers == Spec => DeliveryPromise
<1>1. Spec => []IInv /\ [][Next]_vars
  BY Inductive, PTL DEF Spec
<1>2. QED
  BY <1>1, InitRefines, NextRefines, PTL DEF Spec, DeliveryPromise, Promise!Spec

---------------------------------------------------------------------------
(* Frames.                                                                 *)

LEMMA Frames ==
    ASSUME NEW ch \in Channels, NEW n \in Nat, NEW k \in Kinds \cup {Lapsed, Shutdown}
    PROVE  /\ Frame(ch, n, k) \in Item /\ Frame(ch, n, k).channel = ch
           /\ Frame(ch, n, k).seq = n /\ Frame(ch, n, k).kind = k
BY DEF Frame, Item

LEMMA FrameFields ==
    ASSUME NEW f \in Item
    PROVE  /\ f.channel \in Channels /\ f.seq \in Nat
           /\ IsEvent(f) \/ f.kind = Lapsed \/ f.kind = Shutdown
           /\ IsEvent(f) => f.kind # Lapsed /\ f.kind # Shutdown
           /\ Lapsed # Shutdown
BY BusAssumption DEF BusAssumption, Item, IsEvent

(* The events of a channel in q are those past lo up to hi, in order.      *)
Runs(q, ch, lo, hi) ==
    LET own == {i \in DOMAIN q : q[i].channel = ch /\ IsEvent(q[i])}
    IN  /\ lo <= hi
        /\ \A i \in own : lo < q[i].seq /\ q[i].seq <= hi
        /\ \A n \in (lo + 1)..hi : \E i \in own : q[i].seq = n
        /\ \A i, j \in own : i < j => q[i].seq < q[j].seq

LEMMA RunsOut == ASSUME NEW ch, NEW n \in Nat PROVE Runs(<<>>, ch, n, n)
<1>1. \A m \in (n + 1)..n : FALSE
  OBVIOUS
<1>2. DOMAIN <<>> = {}
  OBVIOUS
<1> QED
  BY <1>1, <1>2 DEF Runs

LEMMA Appended ==
    ASSUME NEW q \in Seq(Item), NEW e \in Item
    PROVE  /\ Append(q, e) \in Seq(Item) /\ Append(q, e) # <<>> /\ Len(Append(q, e)) = Len(q) + 1
           /\ DOMAIN Append(q, e) = DOMAIN q \cup {Len(q) + 1} /\ Len(q) + 1 \notin DOMAIN q
           /\ DOMAIN q = 1..Len(q) /\ Len(q) \in Nat
           /\ \A i \in DOMAIN q : i < Len(q) + 1 /\ Append(q, e)[i] = q[i]
           /\ Append(q, e)[Len(q) + 1] = e
OBVIOUS

(* The next event of the channel comes in.                                 *)
LEMMA RunsOn ==
    ASSUME NEW q \in Seq(Item), NEW e \in Item, NEW ch, NEW lo \in Nat, NEW hi \in Nat,
           Runs(q, ch, lo, hi), IsEvent(e), e.channel = ch, e.seq = hi + 1
    PROVE  Runs(Append(q, e), ch, lo, hi + 1)
<1> DEFINE u == Append(q, e)
           own(s) == {i \in DOMAIN s : s[i].channel = ch /\ IsEvent(s[i])}
           new == Len(q) + 1
<1>1. /\ DOMAIN u = DOMAIN q \cup {new} /\ new \notin DOMAIN q /\ u[new] = e
      /\ \A i \in DOMAIN q : i < new /\ u[i] = q[i] /\ i \in Nat
      /\ new \in Nat
  BY Appended
<1> HIDE DEF u, new
<1>2. own(u) = own(q) \cup {new}
  BY <1>1
<1>3. /\ lo <= hi /\ \A i \in own(q) : lo < q[i].seq /\ q[i].seq <= hi
      /\ \A n \in (lo + 1)..hi : \E i \in own(q) : q[i].seq = n
      /\ \A i, j \in own(q) : i < j => q[i].seq < q[j].seq
  BY DEF Runs
<1>4. \A i \in own(q) : u[i] = q[i] /\ i < new /\ i \in Nat /\ q[i].seq \in Nat
  BY <1>1, FrameFields
<1> HIDE DEF own
<1>5. \A i \in own(u) : lo < u[i].seq /\ u[i].seq <= hi + 1
  BY <1>1, <1>2, <1>3, <1>4
<1>6. ASSUME NEW n \in (lo + 1)..(hi + 1) PROVE \E i \in own(u) : u[i].seq = n
  <2>1. CASE n = hi + 1
    BY <1>1, <1>2, <2>1
  <2>2. CASE n # hi + 1
    BY <1>2, <1>3, <1>4, <2>2
  <2> QED
    BY <2>1, <2>2
<1>7. \A i, j \in own(u) : i < j => u[i].seq < u[j].seq
  BY <1>1, <1>2, <1>3, <1>4
<1> QED
  BY <1>3, <1>5, <1>6, <1>7 DEF Runs, own, u

(* A frame that is none of the channel's events comes in.                  *)
LEMMA RunsBy ==
    ASSUME NEW q \in Seq(Item), NEW e \in Item, NEW ch, NEW lo, NEW hi,
           Runs(q, ch, lo, hi), ~(IsEvent(e) /\ e.channel = ch)
    PROVE  Runs(Append(q, e), ch, lo, hi)
<1> DEFINE u == Append(q, e)
           own(s) == {i \in DOMAIN s : s[i].channel = ch /\ IsEvent(s[i])}
<1>1. own(u) = own(q) /\ \A i \in own(q) : u[i] = q[i]
  BY Appended
<1> HIDE DEF u
<1> QED
  BY <1>1 DEF Runs

LEMMA Taken ==
    ASSUME NEW q \in Seq(Item), q # <<>>
    PROVE  /\ Tail(q) \in Seq(Item) /\ Len(q) \in Nat /\ Len(q) > 0 /\ Len(Tail(q)) = Len(q) - 1
           /\ DOMAIN q = 1..Len(q) /\ DOMAIN Tail(q) = 1..(Len(q) - 1)
           /\ Head(q) \in Item /\ Head(q) = q[1]
           /\ \A i \in DOMAIN Tail(q) : i + 1 \in DOMAIN q /\ Tail(q)[i] = q[i + 1]
OBVIOUS

(* The first event of the channel is taken: it is the next one.            *)
LEMMA RunsNext ==
    ASSUME NEW q \in Seq(Item), q # <<>>, NEW ch, NEW lo \in Nat, NEW hi \in Nat,
           Runs(q, ch, lo, hi), IsEvent(Head(q)), Head(q).channel = ch
    PROVE  Head(q).seq = lo + 1 /\ Runs(Tail(q), ch, lo + 1, hi)
<1> DEFINE u == Tail(q)
           own(s) == {i \in DOMAIN s : s[i].channel = ch /\ IsEvent(s[i])}
<1>1. /\ \A i \in DOMAIN u : u[i] = q[i + 1] /\ i + 1 \in DOMAIN q /\ i \in 1..(Len(q) - 1)
      /\ DOMAIN q = 1..Len(q) /\ DOMAIN u = 1..(Len(q) - 1) /\ Len(q) \in Nat /\ Len(q) > 0
      /\ q[1] = Head(q) /\ 1 \in DOMAIN q
  BY Taken
<1> HIDE DEF u
<1>2. /\ \A i \in own(u) : i + 1 \in own(q) /\ u[i] = q[i + 1] /\ i \in Nat /\ i > 0
      /\ \A i \in own(q) : i # 1 => i - 1 \in own(u) /\ u[i - 1] = q[i] /\ i \in Nat /\ i > 1
      /\ 1 \in own(q)
  BY <1>1
<1>3. /\ lo <= hi /\ \A i \in own(q) : lo < q[i].seq /\ q[i].seq <= hi
      /\ \A n \in (lo + 1)..hi : \E i \in own(q) : q[i].seq = n
      /\ \A i, j \in own(q) : i < j => q[i].seq < q[j].seq
  BY DEF Runs
<1>4. \A i \in own(q) : q[i].seq \in Nat
  BY FrameFields
<1> HIDE DEF own
<1>5. q[1].seq = lo + 1
  <2>1. q[1].seq \in Nat /\ lo < q[1].seq /\ q[1].seq <= hi
    BY <1>2, <1>3, <1>4
  <2>2. PICK i \in own(q) : q[i].seq = lo + 1
    BY <1>3, <2>1
  <2>3. i # 1 => q[1].seq < q[i].seq
    BY <1>2, <1>3
  <2> QED
    BY <2>1, <2>2, <2>3
<1>6. ASSUME NEW i \in own(u) PROVE lo + 1 < u[i].seq /\ u[i].seq <= hi
  <2>1. i + 1 \in own(q) /\ 1 < i + 1 /\ u[i] = q[i + 1]
    BY <1>2
  <2> QED
    BY <1>2, <1>3, <1>5, <2>1
<1>7. ASSUME NEW n \in (lo + 2)..hi PROVE \E i \in own(u) : u[i].seq = n
  <2>1. PICK i \in own(q) : q[i].seq = n
    BY <1>3
  <2> QED
    BY <1>2, <1>5, <2>1
<1>8. ASSUME NEW i \in own(u), NEW j \in own(u), i < j PROVE u[i].seq < u[j].seq
  <2>1. i + 1 \in own(q) /\ j + 1 \in own(q) /\ i + 1 < j + 1
    BY <1>2, <1>8
  <2> QED
    BY <1>2, <1>3, <2>1
<1>9. lo + 1 <= hi
  BY <1>2, <1>3, <1>4, <1>5
<1>10. Runs(u, ch, lo + 1, hi)
  <2>1. (lo + 1) + 1 = lo + 2
    OBVIOUS
  <2> QED
    BY <1>6, <1>7, <1>8, <1>9, <2>1 DEF Runs, own
<1>11. Head(q).seq = lo + 1
  BY <1>1, <1>5
<1> QED
  BY <1>10, <1>11 DEF u

(* A frame that is none of the channel's events is taken.                  *)
LEMMA RunsPast ==
    ASSUME NEW q \in Seq(Item), q # <<>>, NEW ch, NEW lo \in Nat, NEW hi \in Nat,
           Runs(q, ch, lo, hi), ~(IsEvent(Head(q)) /\ Head(q).channel = ch)
    PROVE  Runs(Tail(q), ch, lo, hi)
<1> DEFINE u == Tail(q)
           own(s) == {i \in DOMAIN s : s[i].channel = ch /\ IsEvent(s[i])}
<1>1. /\ \A i \in DOMAIN u : u[i] = q[i + 1] /\ i + 1 \in DOMAIN q /\ i \in 1..(Len(q) - 1)
      /\ DOMAIN q = 1..Len(q) /\ DOMAIN u = 1..(Len(q) - 1) /\ Len(q) \in Nat /\ Len(q) > 0
      /\ q[1] = Head(q)
  BY Taken
<1> HIDE DEF u
<1>2. /\ \A i \in own(u) : i + 1 \in own(q) /\ u[i] = q[i + 1] /\ i \in Nat
      /\ \A i \in own(q) : i - 1 \in own(u) /\ u[i - 1] = q[i] /\ i \in Nat
  BY <1>1
<1>3. /\ lo <= hi /\ \A i \in own(q) : lo < q[i].seq /\ q[i].seq <= hi
      /\ \A n \in (lo + 1)..hi : \E i \in own(q) : q[i].seq = n
      /\ \A i, j \in own(q) : i < j => q[i].seq < q[j].seq
  BY DEF Runs
<1> HIDE DEF own
<1>6. \A i \in own(u) : lo < u[i].seq /\ u[i].seq <= hi
  BY <1>2, <1>3
<1>7. ASSUME NEW n \in (lo + 1)..hi PROVE \E i \in own(u) : u[i].seq = n
  <2>1. PICK i \in own(q) : q[i].seq = n
    BY <1>3
  <2> QED
    BY <1>2, <2>1
<1>8. ASSUME NEW i \in own(u), NEW j \in own(u), i < j PROVE u[i].seq < u[j].seq
  <2>1. i + 1 \in own(q) /\ j + 1 \in own(q) /\ i + 1 < j + 1
    BY <1>2, <1>8
  <2> QED
    BY <1>2, <1>3, <2>1
<1> QED
  BY <1>3, <1>6, <1>7, <1>8 DEF Runs, own, u

---------------------------------------------------------------------------
(* The invariant of the bus: BusInv.                                       *)

Shapes ==
    /\ seq \in [Channels -> Nat] /\ buffer \in [Channels -> Seq(Item)] /\ stopping \in BOOLEAN
    /\ phase \in [Subscribers -> Phase] /\ queue \in [Subscribers -> Seq(Item)]
    /\ replay \in [Clients -> Seq(Item)] /\ replayed \in [Clients -> SUBSET Nat]
    /\ cursor \in [Clients -> Nat \cup {NoCursor}]
    /\ retired \in SUBSET Widgets
    /\ contexts \in [Dispatchers -> SUBSET Channels]
    /\ leaked \in [Dispatchers -> SUBSET Channels]
    /\ at \in [Subscribers -> [Channels -> Nat]]
    /\ have \in [Clients -> SUBSET Nat] /\ base \in [Clients -> Nat]
    /\ missed \in SUBSET Dispatchers
    /\ restarts \in Nat /\ breaks \in Nat

(* The ring holds the last events of its channel.                          *)
RingHolds(ch) ==
    LET b == buffer[ch]
    IN  /\ Len(b) <= ReplayMax /\ Len(b) <= seq[ch] /\ (seq[ch] > 0 => Len(b) > 0)
        /\ \A i \in 1..Len(b) :
              IsEvent(b[i]) /\ b[i].channel = ch /\ b[i].seq + Len(b) = seq[ch] + i

(* A sentinel is first in its queue; who does not listen has an empty one. *)
QueueHolds(s) ==
    /\ Len(queue[s]) <= QueueMax
    /\ \A i \in 1..Len(queue[s]) : queue[s][i].kind = Lapsed => i = 1
    /\ phase[s] \in {"off", "backoff"} => queue[s] = <<>>

Overflown(s)   == queue[s] # <<>> /\ Head(queue[s]).kind = Lapsed
Gap(c)         == replay[c] # <<>> /\ replay[c][1].kind = Lapsed
Skips(c)       == IF Gap(c) THEN 1 ELSE 0
Floor(c)       == IF Gap(c) THEN replay[c][2].seq - 1 ELSE at[c][Watches[c]]
Reached(s, ch) == IF s \in Clients THEN Floor(s) + Len(replay[s]) - Skips(s) ELSE at[s][ch]

(* A client is sent a sentinel if there is a gap, then events of the ring. *)
ReplayHolds(c) ==
    /\ phase[c] \in {"off", "on"} /\ (phase[c] = "off" => replay[c] = <<>>)
    /\ \A i \in 1..Len(queue[c]) :
          queue[c][i].kind # Shutdown => queue[c][i].channel = Watches[c]
    /\ Gap(c) => Len(replay[c]) > 1
    /\ \A i \in 1..Len(replay[c]) : i > Skips(c) =>
          IsEvent(replay[c][i]) /\ replay[c][i].channel = Watches[c] /\ replay[c][i].seq > 0

(* What is queued follows what is replayed, up to the last event, and an   *)
(* overflow happened behind it.                                            *)
QueueFlows(s, ch) ==
    /\ ~Overflown(s) => Runs(queue[s], ch, Reached(s, ch), seq[ch])
    /\ Overflown(s) /\ Head(queue[s]).channel = ch =>
          Reached(s, ch) < Head(queue[s]).seq /\ Head(queue[s]).seq <= seq[ch]

(* What is replayed follows where the client is, or the gap.               *)
ReplayFlows(c, ch) ==
    /\ \A i \in 1..Len(replay[c]) : i > Skips(c) => replay[c][i].seq + Skips(c) = Floor(c) + i
    /\ \A n \in replayed[c] : n <= at[c][ch]
    /\ Reached(c, ch) <= seq[ch]
    /\ Gap(c) => /\ at[c][ch] < replay[c][2].seq /\ replay[c][1].seq + 1 < replay[c][2].seq
                 /\ buffer[ch] # <<>> /\ replay[c][2].seq <= buffer[ch][1].seq

(* A cursor is where its client is, but for one that read of a gap only.   *)
CursorFlows(c, ch) ==
    cursor[c] # NoCursor /\ cursor[c] # at[c][ch] =>
        /\ cursor[c] < at[c][ch] /\ NeedsSentinel(ch, cursor[c])
        /\ at[c][ch] < buffer[ch][1].seq

ClientFlows(c) ==
    /\ \A ch \in Channels : at[c][ch] <= seq[ch]
    /\ CursorFlows(c, Watches[c])
    /\ phase[c] = "on" => ReplayFlows(c, Watches[c]) /\ QueueFlows(c, Watches[c])

(* A widget has what it is past, or was told that it may not.              *)
WidgetHas(c) == (base[c] + 1)..at[c][Watches[c]] \subseteq have[c]

DispatcherFlows(d) ==
    \A ch \in Channels : at[d][ch] <= seq[ch] /\ (phase[d] = "on" => QueueFlows(d, ch))

(* What a dispatcher handled left the turn open; what it will is the ring's*)
Opens(d, ch) ==
    LET b == buffer[ch]
        live == {i \in DOMAIN b : b[i].seq <= at[d][ch] /\ b[i].kind \notin Durable}
    IN  \A i \in live : b[i].kind = Closing => \E j \in live : i < j /\ b[j].kind # Closing
Agrees(d, ch) ==
    \A i \in DOMAIN queue[d], j \in DOMAIN buffer[ch] :
        IsEvent(queue[d][i]) /\ queue[d][i].channel = ch /\ queue[d][i].seq = buffer[ch][j].seq
            => queue[d][i].kind = buffer[ch][j].kind
DispatcherHolds(d) ==
    /\ phase[d] = "off" => contexts[d] = {}
    /\ d \notin missed =>
          /\ phase[d] \in {"off", "on"} /\ ~Overflown(d)
          /\ \A ch \in Channels : Agrees(d, ch) /\ (ch \in contexts[d] \ leaked[d] => Opens(d, ch))

Holds(s) ==
    /\ QueueHolds(s)
    /\ s \in Clients =>
          ReplayHolds(s) /\ (restarts = 0 => ClientFlows(s) /\ (s \in Widgets => WidgetHas(s)))
    /\ s \in Dispatchers => DispatcherFlows(s) /\ DispatcherHolds(s)

BusInv ==
    /\ Shapes
    /\ \A ch \in Channels : RingHolds(ch)
    /\ \A s \in Subscribers : Holds(s)

(* A step that is another subscriber's leaves what holds of this one.      *)
LEMMA HoldsStays ==
    ASSUME NEW s \in Subscribers, Holds(s),
           UNCHANGED <<seq, buffer>>, restarts' = restarts,
           queue'[s] = queue[s], phase'[s] = phase[s], at'[s] = at[s],
           s \in Clients => /\ replay'[s] = replay[s] /\ replayed'[s] = replayed[s]
                            /\ cursor'[s] = cursor[s]
                            /\ have'[s] = have[s] /\ base'[s] = base[s],
           s \in Dispatchers => /\ contexts'[s] = contexts[s] /\ leaked'[s] = leaked[s]
                                /\ s \in missed => s \in missed'
    PROVE  Holds(s)'
<1>1. QueueHolds(s)'
  BY DEF Holds, QueueHolds
<1>2. Overflown(s)' = Overflown(s)
  BY DEF Overflown
<1>3. ASSUME s \in Clients
      PROVE  ReplayHolds(s)' /\ (restarts = 0 => ClientFlows(s)' /\ (s \in Widgets => WidgetHas(s)'))
  <2>1. Gap(s)' = Gap(s) /\ Skips(s)' = Skips(s) /\ Floor(s)' = Floor(s)
    BY <1>3 DEF Gap, Skips, Floor
  <2>2. \A ch : Reached(s, ch)' = Reached(s, ch)
    BY <1>3, <2>1 DEF Reached
  <2>3. ReplayHolds(s)'
    BY <1>3, <2>1 DEF Holds, ReplayHolds
  <2>4. ASSUME restarts = 0 PROVE ClientFlows(s)'
    <3>1. ClientFlows(s)
      BY <1>3, <2>4 DEF Holds
    <3>2. CursorFlows(s, Watches[s])'
      BY <1>3, <3>1 DEF ClientFlows, CursorFlows, NeedsSentinel
    <3>3. ReplayFlows(s, Watches[s]) => ReplayFlows(s, Watches[s])'
      BY <1>3, <2>1, <2>2 DEF ReplayFlows
    <3>4. QueueFlows(s, Watches[s]) => QueueFlows(s, Watches[s])'
      BY <1>2, <2>2 DEF QueueFlows, Runs
    <3> QED
      BY <3>1, <3>2, <3>3, <3>4 DEF ClientFlows
  <2>5. s \in Widgets /\ restarts = 0 => WidgetHas(s)'
    BY <1>3 DEF Holds, WidgetHas
  <2> QED
    BY <2>3, <2>4, <2>5
<1>4. ASSUME s \in Dispatchers PROVE DispatcherFlows(s)' /\ DispatcherHolds(s)'
  <2>1. DispatcherFlows(s) /\ DispatcherHolds(s)
    BY <1>4 DEF Holds
  <2>2. s \notin Clients
    BY <1>4, BusAssumption DEF BusAssumption
  <2>3. \A ch : Reached(s, ch)' = Reached(s, ch)
    BY <2>2 DEF Reached
  <2>4. \A ch \in Channels : QueueFlows(s, ch) => QueueFlows(s, ch)'
    BY <1>2, <2>3 DEF QueueFlows, Runs
  <2>5. \A ch \in Channels : (Agrees(s, ch) => Agrees(s, ch)') /\ (Opens(s, ch) => Opens(s, ch)')
    BY DEF Agrees, Opens
  <2> QED
    BY <1>2, <1>4, <2>1, <2>4, <2>5 DEF DispatcherFlows, DispatcherHolds
<1> QED
  BY <1>1, <1>3, <1>4 DEF Holds

(* A step of one subscriber.                                               *)
LEMMA OneSteps ==
    ASSUME BusInv, Shapes', NEW s \in Subscribers, UNCHANGED <<seq, buffer, restarts>>, Holds(s)',
           \A x \in Subscribers \ {s} :
              /\ queue'[x] = queue[x] /\ phase'[x] = phase[x] /\ at'[x] = at[x]
              /\ x \in Clients => /\ replay'[x] = replay[x] /\ replayed'[x] = replayed[x]
                                  /\ cursor'[x] = cursor[x]
                                  /\ have'[x] = have[x] /\ base'[x] = base[x]
              /\ x \in Dispatchers => /\ contexts'[x] = contexts[x] /\ leaked'[x] = leaked[x]
                                      /\ x \in missed => x \in missed'
    PROVE  BusInv'
<1>1. \A ch \in Channels : RingHolds(ch)'
  BY DEF BusInv, RingHolds
<1>2. ASSUME NEW x \in Subscribers \ {s} PROVE Holds(x)'
  <2>1. x \in Subscribers /\ Holds(x)
    BY DEF BusInv
  <2> QED
    BY <2>1, HoldsStays
<1> QED
  BY <1>1, <1>2 DEF BusInv

LEMMA BusParts ==
    /\ Subscribers = Clients \cup Dispatchers /\ Clients \cap Dispatchers = {}
    /\ \A c \in Clients : Watches[c] \in Channels
    /\ Widgets \subseteq Clients /\ Browsers \subseteq Clients
    /\ Lapsed \notin Kinds /\ Shutdown \notin Kinds /\ Lapsed # Shutdown
    /\ QueueMax \in Nat /\ QueueMax > 0 /\ ReplayMax \in Nat /\ ReplayMax > 0
    /\ NoCursor \notin Nat /\ Durable \subseteq Kinds
BY BusAssumption DEF BusAssumption, Subscribers, Clients

LEMMA Emptied == <<>> \in Seq(Item) /\ Len(<<>>) = 0 /\ 1..0 = {}
OBVIOUS

(* What overflows leaves a sentinel.                                       *)
LEMMA Delivered ==
    ASSUME NEW q \in Seq(Item), Len(q) <= QueueMax, NEW e \in Item
    PROVE  LET u == Deliver(q, e)
               f == Frame(e.channel, e.seq, Lapsed)
           IN  /\ u \in Seq(Item) /\ Len(u) <= QueueMax
               /\ Len(q) # QueueMax => u = Append(q, e) /\ Len(q) < QueueMax
               /\ Len(q) = QueueMax =>
                     /\ u = <<f>> /\ Len(u) = 1 /\ u[1] = f /\ Head(u) = f /\ u # <<>>
                     /\ f \in Item /\ f.kind = Lapsed /\ f.channel = e.channel /\ f.seq = e.seq
<1>1. Len(q) \in Nat /\ e.channel \in Channels /\ e.seq \in Nat
  BY FrameFields
<1>2. CASE Len(q) < QueueMax
  BY <1>1, <1>2, BusParts, Appended DEF Deliver
<1>3. CASE Len(q) = QueueMax
  <2> DEFINE f == Frame(e.channel, e.seq, Lapsed)
  <2>1. f \in Item /\ f.kind = Lapsed /\ f.channel = e.channel /\ f.seq = e.seq
    BY <1>1, Frames
  <2> HIDE DEF f
  <2>2. Deliver(q, e) = <<f>>
    BY <1>1, <1>3, BusParts DEF Deliver, f
  <2> QED
    BY <1>1, <1>3, <2>1, <2>2, BusParts DEF f
<1> QED
  BY <1>1, <1>2, <1>3, BusParts

LEMMA InitBus == BusInit => BusInv
<1> SUFFICES ASSUME BusInit PROVE BusInv
  OBVIOUS
<1> USE DEF BusInit
<1>1. Shapes
  BY Emptied DEF Shapes, Phase
<1>2. \A ch \in Channels : RingHolds(ch)
  BY Emptied, BusParts DEF RingHolds
<1>3. ASSUME NEW s \in Subscribers PROVE Holds(s)
  <2>1. QueueHolds(s)
    BY Emptied, BusParts DEF QueueHolds
  <2>2. ~Overflown(s)
    BY DEF Overflown
  <2>3. ASSUME s \in Clients PROVE ReplayHolds(s) /\ ClientFlows(s) /\ WidgetHas(s)
    <3>1. ReplayHolds(s)
      BY <2>3, Emptied DEF ReplayHolds, Gap
    <3>2. ClientFlows(s)
      BY <2>3, BusParts DEF ClientFlows, CursorFlows
    <3>3. WidgetHas(s)
      BY <2>3, BusParts, Emptied DEF WidgetHas
    <3> QED
      BY <3>1, <3>2, <3>3
  <2>4. ASSUME s \in Dispatchers PROVE DispatcherFlows(s) /\ DispatcherHolds(s)
    BY <2>2, <2>4, Emptied DEF DispatcherFlows, DispatcherHolds, Agrees
  <2> QED
    BY <2>1, <2>3, <2>4 DEF Holds
<1> QED
  BY <1>1, <1>2, <1>3 DEF BusInv

---------------------------------------------------------------------------
(* Clients.                                                                *)

(* The end of a sequence.                                                  *)
LEMMA EndOf ==
    ASSUME NEW S, NEW s \in Seq(S), NEW k \in 0..Len(s)
    PROVE  LET t == SubSeq(s, k + 1, Len(s))
           IN  /\ t \in Seq(S) /\ Len(t) = Len(s) - k
               /\ \A i \in 1..Len(t) : t[i] = s[k + i] /\ k + i \in 1..Len(s)
<1>1. Len(s) \in Nat /\ k \in Nat /\ k <= Len(s)
  OBVIOUS
<1>2. \A i \in (k + 1)..Len(s) : s[i] \in S
  BY <1>1
<1>3. /\ SubSeq(s, k + 1, Len(s)) \in Seq(S)
      /\ Len(SubSeq(s, k + 1, Len(s))) = IF k + 1 <= Len(s) THEN Len(s) - (k + 1) + 1 ELSE 0
      /\ \A i \in 1..(Len(s) - (k + 1) + 1) : SubSeq(s, k + 1, Len(s))[i] = s[k + 1 + i - 1]
  BY <1>1, <1>2, SubSeqProperties
<1> QED
  BY <1>1, <1>3

(* The ring past n is its end, from some place on.                         *)
LEMMA NewerIs ==
    ASSUME Shapes, NEW ch \in Channels, RingHolds(ch), NEW n \in Nat
    PROVE  LET b == buffer[ch]
               r == Newer(ch, n)
           IN  \E k \in 0..Len(b) :
                  /\ r \in Seq(Item) /\ Len(r) = Len(b) - k
                  /\ \A i \in 1..Len(r) : r[i] = b[k + i] /\ k + i \in 1..Len(b)
                  /\ n + Len(b) <= seq[ch] => k = 0
                  /\ n <= seq[ch] /\ seq[ch] <= n + Len(b) => k + seq[ch] = n + Len(b)
<1> DEFINE b == buffer[ch]
           old == {i \in DOMAIN b : b[i].seq <= n}
           k == IF n + Len(b) <= seq[ch] THEN 0
                ELSE IF n >= seq[ch] THEN Len(b) ELSE n + Len(b) - seq[ch]
<1>1. /\ b \in Seq(Item) /\ Len(b) \in Nat /\ DOMAIN b = 1..Len(b)
      /\ seq[ch] \in Nat /\ Len(b) <= seq[ch]
      /\ \A i \in 1..Len(b) : b[i].seq \in Nat /\ b[i].seq + Len(b) = seq[ch] + i
  BY FrameFields DEF Shapes, RingHolds
<1> HIDE DEF b
<1>l. PICK l \in Nat : l = Len(b)
  BY <1>1
<1>m. PICK m \in Nat : m = seq[ch]
  BY <1>1
<1>k. k = IF n + l <= m THEN 0 ELSE IF n >= m THEN l ELSE n + l - m
  BY <1>l, <1>m
<1> HIDE DEF k
<1>2. /\ k \in 0..Len(b) /\ k \in Nat /\ k <= l /\ l <= m
      /\ n + l <= m => k = 0
      /\ n + l > m /\ n >= m => k = l
      /\ n + l > m /\ n < m => k + m = n + l
  <2>1. l <= m
    BY <1>1, <1>l, <1>m
  <2>2. /\ k \in Nat /\ k <= l
        /\ n + l <= m => k = 0
        /\ n + l > m /\ n >= m => k = l
        /\ n + l > m /\ n < m => k + m = n + l
    BY <1>k, <2>1
  <2>3. k \in 0..Len(b)
    BY <1>l, <2>2
  <2> QED
    BY <2>1, <2>2, <2>3
<1>3. old = 1..k
  <2>1. ASSUME NEW i \in 1..l PROVE b[i].seq <= n <=> i <= k
    <3>1. b[i].seq \in Nat /\ b[i].seq + l = m + i
      BY <1>1, <1>l, <1>m
    <3>2. PICK x \in Nat : x = b[i].seq
      BY <3>1
    <3>3. x + l = m + i /\ i \in Nat /\ i > 0 /\ i <= l
      BY <3>1, <3>2
    <3>4. x <= n <=> i <= k
      BY <1>2, <3>3
    <3> QED
      BY <3>2, <3>4
  <2>2. old \subseteq 1..l /\ \A i \in 1..l : i \in old <=> i <= k
    BY <1>1, <1>l, <2>1
  <2>3. k \in Nat /\ k <= l
    BY <1>2
  <2> HIDE DEF old
  <2>4. ASSUME NEW i PROVE i \in old <=> i \in 1..k
    <3>1. i \in 1..k <=> i \in 1..l /\ i <= k
      BY <2>3
    <3> QED
      BY <2>2, <3>1
  <2> QED
    BY <2>4
<1>4. Cardinality(old) = k
  <2> HIDE DEF k, old
  <2>1. 0 \in Int /\ 1 \in Int /\ k \in Int /\ k - 1 + 1 = k
    BY <1>1, <1>2
  <2>2. Cardinality(1..k) = IF 1 > k THEN 0 ELSE k - 1 + 1
    BY <2>1, FS_Interval
  <2> QED
    BY <1>1, <1>2, <1>3, <2>2
<1>5. Newer(ch, n) = SubSeq(b, k + 1, Len(b))
  BY <1>4 DEF Newer, b
<1> DEFINE r == SubSeq(b, k + 1, Len(b))
<1>6. /\ r \in Seq(Item) /\ Len(r) = Len(b) - k
      /\ \A i \in 1..Len(r) : r[i] = b[k + i] /\ k + i \in 1..Len(b)
  BY <1>1, <1>2, EndOf
<1>8. n + Len(b) <= seq[ch] => k = 0
  BY <1>2, <1>l, <1>m
<1>9. n <= seq[ch] /\ seq[ch] <= n + Len(b) => k + seq[ch] = n + Len(b)
  <2>1. n <= m /\ m <= n + l => k + m = n + l
    BY <1>2
  <2> QED
    BY <1>l, <1>m, <2>1
<1> HIDE DEF r, k
<1> QED
  BY <1>2, <1>5, <1>6, <1>8, <1>9 DEF r, b

(* Without a sentinel a client is sent what the ring has past n.           *)
LEMMA ReplayEvents ==
    ASSUME Shapes, NEW ch \in Channels, RingHolds(ch), NEW n \in Nat, ~NeedsSentinel(ch, n)
    PROVE  LET r == Replay(ch, n)
           IN  /\ r \in Seq(Item) /\ Len(r) \in Nat
               /\ \A i \in 1..Len(r) : IsEvent(r[i]) /\ r[i].channel = ch /\ r[i].seq > 0
               /\ n <= seq[ch] => n + Len(r) = seq[ch] /\ \A i \in 1..Len(r) : r[i].seq = n + i
<1> DEFINE b == buffer[ch]
           r == Newer(ch, n)
<1>1. /\ b \in Seq(Item) /\ Len(b) \in Nat /\ seq[ch] \in Nat /\ Len(b) <= seq[ch]
      /\ seq[ch] > 0 => Len(b) > 0
      /\ \A i \in 1..Len(b) : /\ b[i].seq \in Nat /\ b[i].seq + Len(b) = seq[ch] + i
                              /\ IsEvent(b[i]) /\ b[i].channel = ch
  BY FrameFields DEF Shapes, RingHolds
<1>2. b = <<>> \/ b[1].seq <= n + 1
  BY <1>1 DEF NeedsSentinel
<1>3. n <= seq[ch] => seq[ch] <= n + Len(b)
  BY <1>1, <1>2
<1>4. PICK k \in 0..Len(b) :
          /\ r \in Seq(Item) /\ Len(r) = Len(b) - k
          /\ \A i \in 1..Len(r) : r[i] = b[k + i] /\ k + i \in 1..Len(b)
          /\ n <= seq[ch] /\ seq[ch] <= n + Len(b) => k + seq[ch] = n + Len(b)
  BY NewerIs
<1>5. Replay(ch, n) = r
  BY <1>4 DEF Replay
<1> HIDE DEF r, b
<1>6. k \in Nat /\ Len(r) \in Nat /\ Len(r) + k = Len(b)
  BY <1>1, <1>4
<1>0. Len(b) \in Nat /\ seq[ch] \in Nat /\ Len(b) <= seq[ch]
  BY <1>1
<1>7. ASSUME n <= seq[ch] PROVE n + Len(r) = seq[ch] /\ k + seq[ch] = n + Len(b)
  <2>1. k + seq[ch] = n + Len(b)
    BY <1>3, <1>4, <1>7
  <2> QED
    BY <1>0, <1>6, <2>1
<1>8. ASSUME NEW i \in 1..Len(r)
      PROVE  /\ IsEvent(r[i]) /\ r[i].channel = ch /\ r[i].seq > 0
             /\ n <= seq[ch] => r[i].seq = n + i
  <2>1. r[i] = b[k + i] /\ k + i \in 1..Len(b) /\ i \in Nat
    BY <1>4
  <2>2. /\ IsEvent(r[i]) /\ r[i].channel = ch /\ r[i].seq \in Nat
        /\ r[i].seq + Len(b) = seq[ch] + (k + i)
    BY <1>1, <2>1
  <2>3. r[i].seq > 0
    BY <1>0, <1>6, <2>1, <2>2
  <2>4. n <= seq[ch] => r[i].seq = n + i
    <3>1. i \in Nat
      BY <2>1
    <3>2. PICK l \in Nat : l = Len(b)
      BY <1>0
    <3>3. n <= seq[ch] => k + seq[ch] = n + l
      BY <1>7, <3>2
    <3>4. r[i].seq + l = seq[ch] + (k + i)
      BY <2>2, <3>2
    <3>5. PICK x \in Nat : x = r[i].seq
      BY <2>2
    <3>6. PICK m \in Nat : m = seq[ch]
      BY <1>0
    <3>7. x + l = m + (k + i) /\ (n <= m => k + m = n + l)
      BY <3>3, <3>4, <3>5, <3>6
    <3>8. n <= m => x = n + i
      BY <1>6, <3>1, <3>7
    <3> QED
      BY <3>5, <3>6, <3>8
  <2> QED
    BY <2>2, <2>3, <2>4
<1> QED
  BY <1>4, <1>5, <1>6, <1>7, <1>8

(* With one it is sent the sentinel and the whole ring.                    *)
LEMMA ReplayGap ==
    ASSUME Shapes, NEW ch \in Channels, RingHolds(ch), NEW n \in Nat, NeedsSentinel(ch, n)
    PROVE  LET b == buffer[ch]
               r == Replay(ch, n)
           IN  /\ r \in Seq(Item) /\ Len(r) = Len(b) + 1 /\ Len(b) \in Nat /\ Len(b) > 0
               /\ r[1].kind = Lapsed /\ r[1].seq = n /\ b # <<>> /\ r[2] = b[1]
               /\ n + 1 < r[2].seq /\ r[2].seq \in Nat /\ r[2].seq + Len(b) = seq[ch] + 1
               /\ \A i \in 1..Len(r) : i > 1 =>
                     /\ IsEvent(r[i]) /\ r[i].channel = ch /\ r[i].seq > 0
                     /\ r[i].seq + 2 = r[2].seq + i
<1> DEFINE b == buffer[ch]
           u == Newer(ch, n)
           f == Frame(ch, n, Lapsed)
<1>1. /\ b \in Seq(Item) /\ Len(b) \in Nat /\ seq[ch] \in Nat /\ Len(b) <= seq[ch]
      /\ \A i \in 1..Len(b) : /\ b[i].seq \in Nat /\ b[i].seq + Len(b) = seq[ch] + i
                              /\ IsEvent(b[i]) /\ b[i].channel = ch
  BY FrameFields DEF Shapes, RingHolds
<1>2. b # <<>> /\ Len(b) > 0 /\ b[1].seq > n + 1
  BY <1>1 DEF NeedsSentinel
<1>3. n + Len(b) <= seq[ch]
  BY <1>1, <1>2
<1>4. u \in Seq(Item) /\ Len(u) = Len(b) /\ \A i \in 1..Len(b) : u[i] = b[i]
  <2>1. PICK k \in 0..Len(b) :
            /\ u \in Seq(Item) /\ Len(u) = Len(b) - k
            /\ \A i \in 1..Len(u) : u[i] = b[k + i]
            /\ n + Len(b) <= seq[ch] => k = 0
    BY NewerIs
  <2> HIDE DEF u, b
  <2>2. k = 0
    BY <1>3, <2>1
  <2>3. Len(u) = Len(b) - 0 /\ \A i \in 1..Len(u) : u[i] = b[0 + i]
    BY <2>1, <2>2
  <2> QED
    BY <1>1, <2>1, <2>3
<1>5. f \in Item /\ f.kind = Lapsed /\ f.seq = n
  BY Frames
<1> DEFINE r == <<f>> \o u
<1>6. Replay(ch, n) = r
  BY DEF Replay
<1> HIDE DEF f, u, b
<1>7. /\ r \in Seq(Item) /\ Len(r) = Len(b) + 1 /\ r[1] = f
      /\ \A i \in 1..Len(r) : i > 1 => r[i] = b[i - 1] /\ i - 1 \in 1..Len(b)
  <2>1. <<f>> \in Seq(Item) /\ Len(<<f>>) = 1 /\ <<f>>[1] = f
    BY <1>5
  <2>2. /\ r \in Seq(Item) /\ Len(r) = 1 + Len(u)
        /\ \A i \in 1..(1 + Len(u)) : r[i] = IF i <= 1 THEN <<f>>[i] ELSE u[i - 1]
    BY <1>4, <2>1
  <2> HIDE DEF r
  <2>3. ASSUME NEW i \in 1..Len(r), i > 1 PROVE r[i] = b[i - 1] /\ i - 1 \in 1..Len(b)
    <3>1. i - 1 \in 1..Len(b) /\ ~(i <= 1) /\ i \in 1..(1 + Len(u))
      BY <1>1, <1>4, <2>2, <2>3
    <3> QED
      BY <1>4, <2>2, <3>1
  <2>4. r[1] = f
    BY <1>1, <1>4, <2>1, <2>2
  <2> QED
    BY <1>1, <1>4, <2>2, <2>3, <2>4
<1> HIDE DEF r
<1>8. 2 \in 1..Len(r) /\ r[2] = b[1]
  BY <1>1, <1>2, <1>7
<1>9. ASSUME NEW i \in 1..Len(r), i > 1
      PROVE  IsEvent(r[i]) /\ r[i].channel = ch /\ r[i].seq > 0 /\ r[i].seq + 2 = r[2].seq + i
  <2>1. r[i] = b[i - 1] /\ i - 1 \in 1..Len(b) /\ i \in Nat
    BY <1>7, <1>9
  <2>2. /\ IsEvent(r[i]) /\ r[i].channel = ch /\ r[i].seq \in Nat
        /\ r[i].seq + Len(b) = seq[ch] + (i - 1)
    BY <1>1, <2>1
  <2>3. r[2].seq \in Nat /\ r[2].seq + Len(b) = seq[ch] + 1
    BY <1>1, <1>2, <1>8
  <2>4. Len(b) \in Nat /\ seq[ch] \in Nat /\ Len(b) <= seq[ch]
    BY <1>1
  <2>5. r[i].seq > 0
    BY <1>9, <2>1, <2>2, <2>4
  <2>6. i \in Nat
    BY <2>1
  <2>7. r[i].seq + 2 = r[2].seq + i
    <3>1. PICK l \in Nat : l = Len(b)
      BY <2>4
    <3>2. PICK x \in Nat : x = r[i].seq
      BY <2>2
    <3>3. PICK y \in Nat : y = r[2].seq
      BY <2>3
    <3>4. PICK z \in Nat : z = seq[ch]
      BY <2>4
    <3>5. x + l = z + (i - 1) /\ y + l = z + 1
      BY <2>2, <2>3, <3>1, <3>2, <3>3, <3>4
    <3>6. x + 2 = y + i
      BY <2>6, <3>5
    <3> QED
      BY <3>2, <3>3, <3>6
  <2> QED
    BY <2>2, <2>5, <2>7
<1> QED
  BY <1>1, <1>2, <1>5, <1>6, <1>7, <1>8, <1>9 DEF b

LEMMA ClientParts ==
    ASSUME BusInv, NEW c \in Clients
    PROVE  /\ c \in Subscribers /\ c \notin Dispatchers /\ Watches[c] \in Channels
           /\ QueueHolds(c) /\ ReplayHolds(c) /\ RingHolds(Watches[c])
           /\ queue[c] \in Seq(Item) /\ replay[c] \in Seq(Item)
           /\ seq[Watches[c]] \in Nat /\ at[c][Watches[c]] \in Nat
           /\ cursor[c] \in Nat \cup {NoCursor} /\ base[c] \in Nat
           /\ restarts = 0 => ClientFlows(c) /\ (c \in Widgets => WidgetHas(c))
<1>1. c \in Subscribers /\ c \notin Dispatchers /\ Watches[c] \in Channels
  BY BusParts
<1> QED
  BY <1>1 DEF BusInv, Shapes, Holds

LEMMA ConnectStep ==
    ASSUME BusInv, NEW c \in Clients, Connect(c)
    PROVE  BusInv'
<1> DEFINE ch == Watches[c]
           n == cursor[c]
           r == IF n = NoCursor THEN <<>> ELSE Replay(ch, n)
<1>0. /\ c \in Subscribers /\ c \notin Dispatchers /\ ch \in Channels
      /\ QueueHolds(c) /\ ReplayHolds(c) /\ RingHolds(ch)
      /\ seq[ch] \in Nat /\ at[c][ch] \in Nat /\ n \in Nat \cup {NoCursor} /\ base[c] \in Nat
      /\ restarts = 0 => ClientFlows(c) /\ (c \in Widgets => WidgetHas(c))
  BY ClientParts
<1>s. Shapes
  BY DEF BusInv
<1>r. r \in Seq(Item)
  BY <1>0, <1>s, ReplayEvents, ReplayGap, Emptied
<1>1. /\ replay' = [replay EXCEPT ![c] = r] /\ replayed' = [replayed EXCEPT ![c] = {}]
      /\ queue' = [queue EXCEPT ![c] = <<>>]
      /\ at' = [at EXCEPT ![c][ch] = IF n = NoCursor THEN seq[ch] ELSE @]
      /\ base' = [base EXCEPT ![c] =
                    IF n = NoCursor THEN seq[ch] ELSE @]
      /\ phase' = [phase EXCEPT ![c] = "on"]
      /\ UNCHANGED <<seq, buffer, stopping, cursor, retired, contexts, leaked, have, missed,
                     restarts, breaks>>
  BY DEF Connect, server, client, cards
<1> HIDE DEF r
<1>2. Shapes'
  BY <1>0, <1>1, <1>r, <1>s, Emptied DEF Shapes, Phase
<1>3. /\ replay'[c] = r /\ replayed'[c] = {} /\ queue'[c] = <<>> /\ phase'[c] = "on"
      /\ at'[c] = [at[c] EXCEPT ![ch] = IF n = NoCursor THEN seq[ch] ELSE @]
      /\ at'[c][ch] = IF n = NoCursor THEN seq[ch] ELSE at[c][ch]
      /\ \A x \in Channels \ {ch} : at'[c][x] = at[c][x]
      /\ base'[c] = IF n = NoCursor THEN seq[ch] ELSE base[c]
      /\ seq' = seq /\ buffer' = buffer /\ cursor'[c] = n
      /\ have'[c] = have[c] /\ restarts' = restarts
  BY <1>0, <1>1, <1>s DEF Shapes
<1>4. QueueHolds(c)'
  BY <1>3, Emptied, BusParts DEF QueueHolds
<1>5. ReplayHolds(c)' /\ (Gap(c)' <=> n # NoCursor /\ NeedsSentinel(ch, n))
  <2>1. CASE n = NoCursor
    <3>1. r = <<>>
      BY <2>1 DEF r
    <3> QED
      BY <1>3, <2>1, <3>1, Emptied DEF ReplayHolds, Gap
  <2>2. CASE n # NoCursor /\ NeedsSentinel(ch, n)
    <3>1. /\ Len(r) \in Nat /\ Len(r) > 1 /\ r # <<>> /\ r[1].kind = Lapsed
          /\ \A i \in 1..Len(r) : i > 1 => IsEvent(r[i]) /\ r[i].channel = ch /\ r[i].seq > 0
      <4>1. r = Replay(ch, n) /\ n \in Nat
        BY <1>0, <2>2 DEF r
      <4>2. /\ Len(r) = Len(buffer[ch]) + 1 /\ Len(buffer[ch]) \in Nat /\ Len(buffer[ch]) > 0
            /\ r[1].kind = Lapsed
            /\ \A i \in 1..Len(r) : i > 1 => IsEvent(r[i]) /\ r[i].channel = ch /\ r[i].seq > 0
        BY <1>0, <1>s, <2>2, <4>1, ReplayGap
      <4>3. Len(r) > 1 /\ Len(r) \in Nat
        BY <4>2
      <4> QED
        BY <4>2, <4>3, Emptied
    <3>2. Gap(c)' /\ Skips(c)' = 1
      BY <1>3, <3>1 DEF Gap, Skips
    <3> QED
      BY <1>3, <2>2, <3>1, <3>2, Emptied DEF ReplayHolds
  <2>3. CASE n # NoCursor /\ ~NeedsSentinel(ch, n)
    <3>1. \A i \in 1..Len(r) : IsEvent(r[i]) /\ r[i].channel = ch /\ r[i].seq > 0
      BY <1>0, <1>s, <2>3, ReplayEvents DEF r
    <3>2. r # <<>> => 1 \in 1..Len(r) /\ r[1] \in Item
      BY <1>r
    <3>3. ~Gap(c)'
      BY <1>3, <3>1, <3>2, FrameFields DEF Gap
    <3> QED
      BY <1>3, <2>3, <3>1, <3>3, Emptied DEF ReplayHolds
  <2> QED
    BY <2>1, <2>2, <2>3
<1>6. ASSUME restarts = 0 PROVE ClientFlows(c)'
  <2>0. /\ \A x \in Channels : at[c][x] <= seq[x]
        /\ CursorFlows(c, ch) /\ at[c][ch] <= seq[ch]
    BY <1>0, <1>6 DEF ClientFlows
  <2>1. \A x \in Channels : at'[c][x] <= seq'[x]
    BY <1>0, <1>3, <2>0
  <2>2. CursorFlows(c, ch)'
    BY <1>3, <2>0 DEF CursorFlows, NeedsSentinel
  <2>e. ~Overflown(c)'
    BY <1>3 DEF Overflown
  <2>3. CASE n = NoCursor
    <3>1. r = <<>> /\ ~Gap(c)'
      BY <1>5, <2>3 DEF r
    <3>2. Skips(c)' = 0 /\ Floor(c)' = seq[ch] /\ Reached(c, ch)' = seq[ch]
      BY <1>0, <1>3, <2>3, <3>1, Emptied DEF Skips, Floor, Reached
    <3>3. ReplayFlows(c, ch)'
      BY <1>0, <1>3, <3>1, <3>2, Emptied DEF ReplayFlows
    <3> QED
      BY <1>0, <1>3, <2>1, <2>2, <2>e, <3>2, <3>3, RunsOut DEF ClientFlows, QueueFlows
  <2>4. CASE n # NoCursor /\ NeedsSentinel(ch, n)
    <3> DEFINE b == buffer[ch]
    <3>1. /\ Len(r) = Len(b) + 1 /\ Len(b) \in Nat /\ Len(b) > 0
          /\ r[1].kind = Lapsed /\ r[1].seq = n /\ b # <<>> /\ r[2] = b[1]
          /\ n + 1 < r[2].seq /\ r[2].seq \in Nat /\ r[2].seq + Len(b) = seq[ch] + 1
          /\ \A i \in 1..Len(r) : i > 1 => r[i].seq + 2 = r[2].seq + i
      <4>1. r = Replay(ch, n) /\ n \in Nat
        BY <1>0, <2>4 DEF r
      <4> HIDE DEF b, ch, n
      <4>2. Shapes /\ RingHolds(ch) /\ NeedsSentinel(ch, n) /\ ch \in Channels
        BY <1>0, <1>s, <2>4 DEF ch, n
      <4>3. /\ Len(r) = Len(buffer[ch]) + 1 /\ Len(buffer[ch]) \in Nat /\ Len(buffer[ch]) > 0
            /\ r[1].kind = Lapsed /\ r[1].seq = n /\ buffer[ch] # <<>> /\ r[2] = buffer[ch][1]
            /\ n + 1 < r[2].seq /\ r[2].seq \in Nat
            /\ r[2].seq + Len(buffer[ch]) = seq[ch] + 1
        BY <4>1, <4>2, ReplayGap
      <4>4. \A i \in 1..Len(r) : i > 1 => r[i].seq + 2 = r[2].seq + i
        BY <4>1, <4>2, ReplayGap
      <4> QED
        BY <4>3, <4>4 DEF b
    <3>2. Gap(c)' /\ Skips(c)' = 1 /\ Floor(c)' = r[2].seq - 1
      BY <1>3, <1>5, <2>4 DEF Skips, Floor
    <3>3. Reached(c, ch)' = r[2].seq - 1 + Len(r) - 1
      BY <1>0, <1>3, <3>2 DEF Reached
    <3> HIDE DEF b
    <3>4. Reached(c, ch)' = seq[ch]
      <4>1. PICK l \in Nat : l = Len(b)
        BY <3>1
      <4>2. PICK y \in Nat : y = r[2].seq
        BY <3>1
      <4>3. y + l = seq[ch] + 1 /\ Len(r) = l + 1
        BY <3>1, <4>1, <4>2
      <4> QED
        BY <1>0, <3>3, <4>2, <4>3
    <3>5. at[c][ch] < r[2].seq
      BY <1>0, <2>0, <2>4, <3>1 DEF CursorFlows, b
    <3>6. \A i \in 1..Len(r) : i > 1 => r[i].seq + 1 = (r[2].seq - 1) + i
      <4>1. PICK y \in Nat : y = r[2].seq
        BY <3>1
      <4>2. ASSUME NEW i \in 1..Len(r), i > 1 PROVE r[i].seq + 1 = (y - 1) + i
        <5>1. r[i] \in Item /\ i \in Nat
          BY <1>r
        <5>2. PICK x \in Nat : x = r[i].seq
          BY <5>1, FrameFields
        <5>3. x + 2 = y + i
          BY <3>1, <4>1, <4>2, <5>2
        <5> QED
          BY <5>1, <5>2, <5>3
      <4> QED
        BY <4>1, <4>2
    <3>7. ReplayFlows(c, ch)'
      <4>1. \A i \in 1..Len(r) : i > 1 => r[i].seq + Skips(c)' = Floor(c)' + i
        BY <3>2, <3>6
      <4>2. Reached(c, ch)' <= seq[ch]
        BY <1>0, <3>4
      <4>3. /\ at[c][ch] < r[2].seq /\ r[1].seq + 1 < r[2].seq
            /\ b # <<>> /\ r[2].seq <= b[1].seq
        BY <3>1, <3>5
      <4>4. at'[c][ch] = at[c][ch] /\ replayed'[c] = {}
        BY <1>3, <2>4
      <4> QED
        BY <1>3, <3>2, <4>1, <4>2, <4>3, <4>4 DEF ReplayFlows, b
    <3> QED
      BY <1>0, <1>3, <2>1, <2>2, <2>e, <3>4, <3>7, RunsOut DEF ClientFlows, QueueFlows
  <2>5. CASE n # NoCursor /\ ~NeedsSentinel(ch, n)
    <3>1. n = at[c][ch] /\ n <= seq[ch] /\ n \in Nat
      BY <1>0, <2>0, <2>5 DEF CursorFlows
    <3>2. Len(r) \in Nat /\ n + Len(r) = seq[ch] /\ \A i \in 1..Len(r) : r[i].seq = n + i
      BY <1>0, <1>s, <2>5, <3>1, ReplayEvents DEF r
    <3>3. ~Gap(c)' /\ Skips(c)' = 0 /\ Floor(c)' = n
      BY <1>3, <1>5, <2>5, <3>1 DEF Skips, Floor
    <3>4. Reached(c, ch)' = seq[ch]
      BY <1>0, <1>3, <3>1, <3>2, <3>3 DEF Reached
    <3>5. \A i \in 1..Len(r) : r[i].seq + 0 = n + i
      BY <3>1, <3>2
    <3>6. ReplayFlows(c, ch)'
      BY <1>0, <1>3, <3>1, <3>3, <3>4, <3>5 DEF ReplayFlows
    <3> QED
      BY <1>0, <1>3, <2>1, <2>2, <2>e, <3>4, <3>6, RunsOut DEF ClientFlows, QueueFlows
  <2> QED
    BY <2>3, <2>4, <2>5
<1>7. ASSUME restarts = 0, c \in Widgets PROVE WidgetHas(c)'
  <2>1. WidgetHas(c)
    BY <1>0, <1>7
  <2>2. (seq[ch] + 1)..seq[ch] = {}
    BY <1>0
  <2> QED
    BY <1>3, <2>1, <2>2 DEF WidgetHas
<1>8. Holds(c)'
  BY <1>0, <1>3, <1>4, <1>5, <1>6, <1>7 DEF Holds
<1> QED
  BY <1>0, <1>1, <1>2, <1>3, <1>8, <1>s, OneSteps DEF Shapes

LEMMA ReadReplayStep ==
    ASSUME BusInv, NEW c \in Clients, ReadReplay(c)
    PROVE  BusInv'
<1> DEFINE ch == Watches[c]
           r == replay[c]
           f == Head(r)
           t == Tail(r)
           p == IF Gap(c) THEN r[2].seq - 1 ELSE f.seq
<1>0. /\ c \in Subscribers /\ c \notin Dispatchers /\ ch \in Channels
      /\ QueueHolds(c) /\ ReplayHolds(c) /\ RingHolds(ch) /\ r \in Seq(Item) /\ r # <<>>
      /\ seq[ch] \in Nat /\ at[c][ch] \in Nat /\ base[c] \in Nat /\ phase[c] = "on"
      /\ restarts = 0 => ClientFlows(c) /\ (c \in Widgets => WidgetHas(c))
  BY ClientParts DEF ReadReplay
<1>s. Shapes
  BY DEF BusInv
<1>1. /\ t \in Seq(Item) /\ Len(r) \in Nat /\ Len(r) > 0 /\ Len(t) = Len(r) - 1
      /\ f \in Item /\ f = r[1] /\ (Gap(c) <=> f.kind = Lapsed)
      /\ \A i \in 1..Len(t) : t[i] = r[i + 1] /\ i + 1 \in 1..Len(r) /\ i \in Nat /\ i > 0
  <2>1. /\ t \in Seq(Item) /\ Len(r) \in Nat /\ Len(r) > 0 /\ Len(t) = Len(r) - 1
        /\ f \in Item /\ f = r[1] /\ DOMAIN r = 1..Len(r) /\ DOMAIN t = 1..(Len(r) - 1)
        /\ \A i \in DOMAIN t : i + 1 \in DOMAIN r /\ t[i] = r[i + 1]
    BY <1>0, Taken
  <2> HIDE DEF t, f
  <2>2. Gap(c) <=> f.kind = Lapsed
    BY <1>0, <2>1 DEF Gap
  <2> QED
    BY <2>1, <2>2
<1>2. /\ Gap(c) => Len(r) > 1 /\ 2 \in 1..Len(r)
      /\ \A i \in 1..Len(r) : i > 1 => IsEvent(r[i]) /\ r[i].channel = ch /\ r[i].seq > 0
      /\ ~Gap(c) => IsEvent(f) /\ f.seq > 0
      /\ Skips(c) = IF Gap(c) THEN 1 ELSE 0
  BY <1>0, <1>1 DEF ReplayHolds, Skips
<1>p. p \in Nat /\ f.seq \in Nat
  <2>1. CASE Gap(c)
    <3>1. r[2] \in Item /\ r[2].seq > 0
      BY <1>0, <1>2, <2>1
    <3> QED
      BY <1>1, <2>1, <3>1, FrameFields
  <2>2. CASE ~Gap(c)
    BY <1>1, <2>2, FrameFields
  <2> QED
    BY <2>1, <2>2
<1>4. /\ cursor' = [cursor EXCEPT ![c] =
                       IF c \in Browsers /\ f.kind = Lapsed THEN NoCursor ELSE f.seq]
      /\ have' = [have EXCEPT ![c] = @ \cup IF IsEvent(f) THEN {f.seq} ELSE (at[c][ch] + 1)..p]
      /\ at' = [at EXCEPT ![c][ch] = p]
      /\ replay' = [replay EXCEPT ![c] = t]
      /\ replayed' = [replayed EXCEPT ![c] = IF IsEvent(f) THEN @ \cup {f.seq} ELSE @]
      /\ UNCHANGED <<seq, buffer, stopping, phase, queue, retired, contexts, leaked, base, missed,
                     restarts, breaks>>
  BY <1>1 DEF ReadReplay, Receive, server, cards
<1> HIDE DEF t, p
<1>5. Shapes'
  <2>1. at' \in [Subscribers -> [Channels -> Nat]]
    BY <1>0, <1>4, <1>p, <1>s DEF Shapes
  <2>2. cursor' \in [Clients -> Nat \cup {NoCursor}]
    BY <1>0, <1>4, <1>p, <1>s DEF Shapes
  <2>3. /\ have' \in [Clients -> SUBSET Nat] /\ replayed' \in [Clients -> SUBSET Nat]
        /\ replay' \in [Clients -> Seq(Item)]
    BY SMTT(30), <1>0, <1>1, <1>4, <1>p, <1>s DEF Shapes
  <2> QED
    BY <1>4, <1>s, <2>1, <2>2, <2>3 DEF Shapes
<1>6. /\ cursor'[c] = IF c \in Browsers /\ Gap(c) THEN NoCursor ELSE f.seq
      /\ have'[c] = have[c] \cup IF Gap(c) THEN (at[c][ch] + 1)..p ELSE {f.seq}
      /\ at'[c][ch] = p /\ \A x \in Channels \ {ch} : at'[c][x] = at[c][x]
      /\ replay'[c] = t
      /\ replayed'[c] = IF Gap(c) THEN replayed[c] ELSE replayed[c] \cup {f.seq}
      /\ seq' = seq /\ buffer' = buffer /\ phase'[c] = phase[c] /\ queue'[c] = queue[c]
      /\ base'[c] = base[c] /\ restarts' = restarts
  BY <1>0, <1>1, <1>2, <1>4, <1>s, FrameFields DEF Shapes
<1>7. ~Gap(c)' /\ Skips(c)' = 0 /\ Floor(c)' = p
  <2>1. t # <<>> => 1 \in 1..Len(t) /\ Len(t) > 0
    BY <1>1
  <2>2. t # <<>> => t[1] = r[2] /\ 2 \in 1..Len(r)
    BY <1>1, <2>1
  <2>3. t # <<>> => t[1].kind # Lapsed
    BY <1>0, <1>2, <2>2, FrameFields
  <2> QED
    BY <1>6, <2>3 DEF Gap, Skips, Floor
<1>8. QueueHolds(c)' /\ ReplayHolds(c)'
  <2>1. ASSUME NEW i \in 1..Len(t) PROVE IsEvent(t[i]) /\ t[i].channel = ch /\ t[i].seq > 0
    <3>1. t[i] = r[i + 1] /\ i + 1 \in 1..Len(r) /\ i + 1 > 1
      BY SMTT(30), <1>1
    <3> QED
      BY <1>2, <3>1
  <2> QED
    BY SMTT(30), <1>0, <1>6, <1>7, <2>1 DEF QueueHolds, ReplayHolds
<1>9. ASSUME restarts = 0 PROVE ClientFlows(c)' /\ (c \in Widgets => WidgetHas(c)')
  <2> DEFINE a == at[c][ch]
  <2>0. /\ \A x \in Channels : at[c][x] <= seq[x]
        /\ ReplayFlows(c, ch) /\ QueueFlows(c, ch)
        /\ c \in Widgets => WidgetHas(c)
    BY <1>0, <1>9 DEF ClientFlows
  <2>1. /\ Gap(c) => p + 1 = r[2].seq /\ Floor(c) = p /\ a <= p /\ r[1].seq < p
                     /\ buffer[ch] # <<>> /\ r[2].seq <= buffer[ch][1].seq
        /\ ~Gap(c) => p = a + 1 /\ p = f.seq /\ Floor(c) = a
    <3>1. CASE Gap(c)
      <4>1. /\ r[2] \in Item /\ r[2].seq \in Nat /\ a < r[2].seq /\ r[1].seq + 1 < r[2].seq
            /\ buffer[ch] # <<>> /\ r[2].seq <= buffer[ch][1].seq /\ r[1].seq \in Nat
        BY <1>0, <1>1, <1>2, <1>p, <2>0, <3>1, FrameFields DEF ReplayFlows
      <4>2. PICK y \in Nat : y = r[2].seq
        BY <4>1
      <4>3. p = y - 1 /\ Floor(c) = y - 1
        BY <3>1, <4>2 DEF p, Floor
      <4>4. PICK x \in Nat : x = r[1].seq
        BY <4>1
      <4>5. a < y /\ x + 1 < y /\ a \in Nat
        BY <1>0, <4>1, <4>2, <4>4
      <4>6. p + 1 = y /\ Floor(c) = p /\ a <= p /\ x < p
        BY <4>3, <4>5
      <4> QED
        BY <3>1, <4>1, <4>2, <4>4, <4>6
    <3>2. CASE ~Gap(c)
      <4>1. Floor(c) = a /\ p = f.seq
        BY <3>2 DEF p, Floor
      <4>2. r[1].seq + 0 = a + 1
        BY <1>1, <1>2, <2>0, <3>2, <4>1 DEF ReplayFlows
      <4> QED
        BY <1>0, <1>1, <1>p, <3>2, <4>1, <4>2
    <3> QED
      BY <3>1, <3>2
  <2>2. a <= p /\ (Gap(c) => Floor(c) = p) /\ (~Gap(c) => Floor(c) + 1 = p) /\ a \in Nat
    BY <1>0, <1>p, <2>1
  <2>3. Reached(c, ch)' = Reached(c, ch) /\ p <= seq[ch]
    <3>1. Reached(c, ch)' = p + Len(t) - 0
      BY <1>6, <1>7 DEF Reached
    <3>2. Reached(c, ch) = Floor(c) + Len(r) - Skips(c) /\ Reached(c, ch) <= seq[ch]
      BY <2>0 DEF Reached, ReplayFlows
    <3>3. CASE Gap(c)
      BY <1>0, <1>1, <1>2, <1>p, <2>2, <3>1, <3>2, <3>3
    <3>4. CASE ~Gap(c)
      <4>1. PICK y \in Nat : y = Floor(c)
        BY <2>1, <2>2, <3>4
      <4>2. Skips(c) = 0 /\ p = y + 1
        BY <1>2, <2>2, <3>4, <4>1
      <4>3. PICK l \in Nat : l = Len(r) /\ Len(t) = l - 1 /\ l > 0
        BY <1>1
      <4>4. Reached(c, ch)' = p + (l - 1) - 0 /\ Reached(c, ch) = y + l - 0
        BY <3>1, <3>2, <4>1, <4>2, <4>3
      <4>n. y \in Nat /\ l \in Nat /\ l > 0 /\ p = y + 1
        BY <4>1, <4>2, <4>3
      <4>5. p + (l - 1) - 0 = y + l - 0 /\ p <= y + l - 0
        BY ONLY <4>n
      <4>6. y + l - 0 <= seq[ch]
        BY <3>2, <4>4
      <4>7. p <= seq[ch]
        BY <1>0, <4>2, <4>3, <4>6
      <4> QED
        BY <4>4, <4>5, <4>7
    <3> QED
      BY <3>3, <3>4
  <2>4. \A x \in Channels : at'[c][x] <= seq'[x]
    BY <1>6, <2>0, <2>3
  <2>5. CursorFlows(c, ch)'
    <3>1. CASE Gap(c) /\ c \in Browsers
      BY <1>6, <3>1 DEF CursorFlows
    <3>2. CASE Gap(c) /\ c \notin Browsers
      <4>1. cursor'[c] = r[1].seq /\ r[1].seq < p /\ r[1].seq \in Nat /\ buffer[ch] # <<>>
        BY <1>1, <1>6, <1>p, <2>1, <3>2
      <4>2. buffer[ch][1] \in Item /\ buffer[ch][1].seq \in Nat
        BY <1>0, <1>s, <4>1, FrameFields DEF Shapes
      <4>3. PICK z \in Nat : z = buffer[ch][1].seq
        BY <4>2
      <4>4. p + 1 <= z
        BY <1>p, <2>1, <3>2, <4>3
      <4>5. NeedsSentinel(ch, r[1].seq) /\ p < z
        BY SMTT(30), <1>p, <4>1, <4>3, <4>4 DEF NeedsSentinel
      <4> QED
        BY <1>6, <4>1, <4>3, <4>5 DEF CursorFlows, NeedsSentinel
    <3>3. CASE ~Gap(c)
      BY <1>6, <2>1, <3>3 DEF CursorFlows
    <3> QED
      BY <3>1, <3>2, <3>3
  <2>6. ReplayFlows(c, ch)'
    <3>1. ASSUME NEW i \in 1..Len(t) PROVE t[i].seq + 0 = p + i
      <4>1. t[i] = r[i + 1] /\ i + 1 \in 1..Len(r) /\ i \in Nat /\ i > 0 /\ t[i] \in Item
        BY SMTT(30), <1>1
      <4>2. t[i].seq + Skips(c) = Floor(c) + (i + 1) /\ t[i].seq \in Nat
        BY <1>2, <2>0, <4>1, FrameFields DEF ReplayFlows
      <4>3. PICK x \in Nat : x = t[i].seq
        BY <4>2
      <4>4. CASE Gap(c)
        <5>1. x + 1 = p + (i + 1)
          BY <1>2, <2>2, <4>2, <4>3, <4>4
        <5> QED
          BY SMTT(30), <1>p, <4>1, <4>3, <5>1
      <4>5. CASE ~Gap(c)
        <5>1. PICK y \in Nat : y = a
          BY <2>2
        <5>2. x + 0 = y + (i + 1) /\ p = y + 1
          BY <1>2, <2>1, <4>2, <4>3, <4>5, <5>1
        <5> QED
          BY <4>1, <4>3, <5>2
      <4> QED
        BY <4>4, <4>5
    <3>2. \A n \in replayed'[c] : n <= p
      <4>1. \A n \in replayed[c] : n \in Nat /\ n <= a
        BY <1>s, <2>0 DEF ReplayFlows, Shapes
      <4> QED
        BY <1>6, <1>p, <2>1, <2>2, <4>1
    <3>3. Reached(c, ch)' <= seq[ch]
      BY <2>0, <2>3 DEF ReplayFlows
    <3> QED
      BY <1>6, <1>7, <3>1, <3>2, <3>3 DEF ReplayFlows
  <2>7. QueueFlows(c, ch)'
    BY <1>6, <2>0, <2>3 DEF QueueFlows, Overflown, Runs
  <2>8. ASSUME c \in Widgets PROVE WidgetHas(c)'
    <3>1. WidgetHas(c)
      BY <2>0, <2>8
    <3>2. (base[c] + 1)..p \subseteq (base[c] + 1)..a \cup (a + 1)..p
      BY <1>0, <1>p, <2>2
    <3>3. ~Gap(c) => (a + 1)..p = {f.seq}
      BY <1>0, <1>p, <2>1
    <3> QED
      BY <1>6, <3>1, <3>2, <3>3 DEF WidgetHas
  <2> QED
    BY <2>4, <2>5, <2>6, <2>7, <2>8 DEF ClientFlows
<1>10. Holds(c)'
  BY <1>0, <1>6, <1>8, <1>9 DEF Holds
<1> QED
  BY <1>0, <1>4, <1>5, <1>10, <1>s, OneSteps DEF Shapes

(* A client that has no stream.                                            *)
LEMMA OffHolds ==
    ASSUME NEW c \in Clients, phase'[c] = "off", queue'[c] = <<>>, replay'[c] = <<>>,
           restarts' = 0 => /\ \A x \in Channels : at'[c][x] <= seq'[x]
                            /\ CursorFlows(c, Watches[c])' /\ (c \in Widgets => WidgetHas(c)')
    PROVE  Holds(c)'
<1>1. c \notin Dispatchers
  BY BusParts
<1>2. QueueHolds(c)'
  BY Emptied, BusParts DEF QueueHolds
<1>3. ReplayHolds(c)'
  BY Emptied DEF ReplayHolds, Gap
<1>4. restarts' = 0 => ClientFlows(c)' /\ (c \in Widgets => WidgetHas(c)')
  BY DEF ClientFlows
<1> QED
  BY <1>1, <1>2, <1>3, <1>4 DEF Holds

(* Its stream is closed and it is where it was.                            *)
LEMMA ClosesHolds ==
    ASSUME BusInv, NEW c \in Clients, phase'[c] = "off", queue'[c] = <<>>, replay'[c] = <<>>,
           UNCHANGED <<seq, buffer, restarts>>, at'[c] = at[c], cursor'[c] = cursor[c],
           have'[c] = have[c], base'[c] = base[c]
    PROVE  Holds(c)'
<1>1. restarts = 0 => ClientFlows(c) /\ (c \in Widgets => WidgetHas(c))
  BY ClientParts
<1>2. restarts = 0 => CursorFlows(c, Watches[c])'
  BY <1>1 DEF ClientFlows, CursorFlows, NeedsSentinel
<1>3. restarts = 0 => (c \in Widgets => WidgetHas(c)')
  BY <1>1 DEF WidgetHas
<1>4. restarts = 0 => \A x \in Channels : at'[c][x] <= seq'[x]
  BY <1>1 DEF ClientFlows
<1> QED
  BY <1>2, <1>3, <1>4, OffHolds

LEMMA CloseStep ==
    ASSUME BusInv, NEW c \in Clients, CloseStream(c), retired' \in SUBSET Widgets, breaks' \in Nat,
           UNCHANGED <<seq, buffer, stopping, cursor, contexts, leaked, at, have, base, missed,
                       restarts>>
    PROVE  BusInv'
<1>1. Shapes /\ c \in Subscribers /\ c \notin Dispatchers
  BY BusParts DEF BusInv
<1>2. /\ phase' = [phase EXCEPT ![c] = "off"] /\ queue' = [queue EXCEPT ![c] = <<>>]
      /\ replay' = [replay EXCEPT ![c] = <<>>] /\ replayed' = [replayed EXCEPT ![c] = {}]
  BY DEF CloseStream, Close
<1>3. Shapes'
  BY <1>1, <1>2, Emptied DEF Shapes, Phase
<1>4. Holds(c)'
  BY <1>1, <1>2, ClosesHolds DEF Shapes
<1> QED
  BY <1>1, <1>2, <1>3, <1>4, OneSteps DEF Shapes

(* What a client with nothing left to replay takes from its queue.         *)
LEMMA LiveHead ==
    ASSUME BusInv, NEW c \in Clients, phase[c] = "on", replay[c] = <<>>, queue[c] # <<>>
    PROVE  LET ch == Watches[c]
               f == Head(queue[c])
               t == Tail(queue[c])
               a == at[c][ch]
           IN  /\ t \in Seq(Item) /\ f \in Item /\ f.seq \in Nat
               /\ \A i \in 1..Len(t) : t[i].kind # Lapsed
               /\ \A i \in 1..Len(t) : t[i].kind # Shutdown => t[i].channel = ch
               /\ Len(t) <= QueueMax
               /\ f.kind # Shutdown => f.channel = ch
               /\ restarts = 0 =>
                     /\ \A n \in replayed[c] : n <= a
                     /\ IsEvent(f) => f.seq = a + 1 /\ Runs(t, ch, a + 1, seq[ch])
                     /\ f.kind = Lapsed => a < f.seq /\ f.seq <= seq[ch]
                     /\ f.kind = Shutdown => Runs(t, ch, a, seq[ch])
<1> DEFINE ch == Watches[c]
           q == queue[c]
           f == Head(q)
           t == Tail(q)
           a == at[c][ch]
<1>0. /\ c \in Subscribers /\ c \notin Dispatchers /\ ch \in Channels
      /\ QueueHolds(c) /\ ReplayHolds(c) /\ q \in Seq(Item) /\ q # <<>>
      /\ seq[ch] \in Nat /\ a \in Nat
      /\ restarts = 0 => ClientFlows(c)
  BY ClientParts
<1>1. /\ t \in Seq(Item) /\ Len(q) \in Nat /\ Len(q) > 0 /\ Len(t) = Len(q) - 1
      /\ f \in Item /\ f = q[1]
      /\ \A i \in 1..Len(t) : i + 1 \in 1..Len(q) /\ i + 1 # 1 /\ t[i] = q[i + 1]
      /\ 1 \in 1..Len(q)
  <2>1. /\ t \in Seq(Item) /\ Len(q) \in Nat /\ Len(q) > 0 /\ Len(t) = Len(q) - 1
        /\ DOMAIN q = 1..Len(q) /\ DOMAIN t = 1..(Len(q) - 1) /\ f \in Item /\ f = q[1]
        /\ \A i \in DOMAIN t : i + 1 \in DOMAIN q /\ t[i] = q[i + 1]
    BY <1>0, Taken
  <2> HIDE DEF t, f, q
  <2> QED
    BY <2>1
<1> HIDE DEF t, f
<1>2. /\ \A i \in 1..Len(t) : t[i].kind # Lapsed
      /\ \A i \in 1..Len(t) : t[i].kind # Shutdown => t[i].channel = ch
      /\ Len(q) <= QueueMax
      /\ f.kind # Shutdown => f.channel = ch
  <2>1. /\ \A i \in 1..Len(q) : q[i].kind = Lapsed => i = 1
        /\ \A i \in 1..Len(q) : q[i].kind # Shutdown => q[i].channel = ch
        /\ Len(q) <= QueueMax
    BY <1>0 DEF QueueHolds, ReplayHolds
  <2> HIDE DEF q, ch
  <2> QED
    BY <1>1, <2>1
<1>3. Len(t) <= QueueMax
  BY <1>1, <1>2, BusParts
<1>4. ASSUME restarts = 0
      PROVE  /\ \A n \in replayed[c] : n <= a
             /\ IsEvent(f) => f.seq = a + 1 /\ Runs(t, ch, a + 1, seq[ch])
             /\ f.kind = Lapsed => a < f.seq /\ f.seq <= seq[ch]
             /\ f.kind = Shutdown => Runs(t, ch, a, seq[ch])
  <2>1. ReplayFlows(c, ch) /\ QueueFlows(c, ch)
    BY <1>0, <1>4 DEF ClientFlows
  <2>2. ~Gap(c) /\ Skips(c) = 0 /\ Floor(c) = a /\ Reached(c, ch) = a + 0 - 0
    BY Emptied DEF Gap, Skips, Floor, Reached
  <2>3. Reached(c, ch) = a
    BY <1>0, <2>2
  <2>4. Overflown(c) <=> f.kind = Lapsed
    BY DEF Overflown, f
  <2>5. \A n \in replayed[c] : n <= a
    BY <2>1 DEF ReplayFlows
  <2>6. f.kind = Lapsed => a < f.seq /\ f.seq <= seq[ch]
    BY <1>2, <2>1, <2>3, <2>4, BusParts DEF QueueFlows, f
  <2>7. f.kind # Lapsed => Runs(q, ch, a, seq[ch])
    BY <2>1, <2>3, <2>4 DEF QueueFlows
  <2>8. IsEvent(f) => f.seq = a + 1 /\ Runs(t, ch, a + 1, seq[ch])
    BY <1>0, <1>1, <1>2, <2>7, RunsNext, FrameFields DEF f, t
  <2>9. f.kind = Shutdown => Runs(t, ch, a, seq[ch])
    BY <1>0, <1>1, <2>7, RunsPast, FrameFields DEF f, t
  <2> QED
    BY <2>5, <2>6, <2>8, <2>9
<1> QED
  BY <1>1, <1>2, <1>3, <1>4, FrameFields DEF t, f

(* It stays connected and has nothing to replay: its queue goes on from    *)
(* where it is.                                                            *)
LEMMA LiveHolds ==
    ASSUME NEW c \in Clients, phase'[c] = "on", replay'[c] = <<>>, Len(queue'[c]) <= QueueMax,
           \A i \in 1..Len(queue'[c]) : queue'[c][i].kind # Lapsed,
           \A i \in 1..Len(queue'[c]) :
              queue'[c][i].kind # Shutdown => queue'[c][i].channel = Watches[c],
           queue'[c] \in Seq(Item), at'[c][Watches[c]] \in Nat,
           restarts' = 0 =>
              /\ \A x \in Channels : at'[c][x] <= seq'[x]
              /\ CursorFlows(c, Watches[c])' /\ (c \in Widgets => WidgetHas(c)')
              /\ \A n \in replayed'[c] : n <= at'[c][Watches[c]]
              /\ Runs(queue'[c], Watches[c], at'[c][Watches[c]], seq'[Watches[c]])
    PROVE  Holds(c)'
<1> DEFINE ch == Watches[c]
<1>1. c \notin Dispatchers /\ ch \in Channels
  BY BusParts
<1>2. QueueHolds(c)'
  BY DEF QueueHolds
<1>3. ~Gap(c)' /\ Skips(c)' = 0 /\ Floor(c)' = at'[c][ch]
  BY DEF Gap, Skips, Floor
<1>4. ReplayHolds(c)'
  BY <1>3, Emptied DEF ReplayHolds
<1>5. Reached(c, ch)' = at'[c][ch]
  <2>1. Reached(c, ch)' = at'[c][ch] + 0 - 0
    BY <1>3, Emptied DEF Reached
  <2> QED
    BY <2>1
<1>6. ~Overflown(c)'
  <2>1. queue'[c] # <<>> => 1 \in 1..Len(queue'[c]) /\ Head(queue'[c]) = queue'[c][1]
    OBVIOUS
  <2> QED
    BY <2>1 DEF Overflown
<1>7. ASSUME restarts' = 0 PROVE ClientFlows(c)'
  <2>1. ReplayFlows(c, ch)'
    BY <1>1, <1>3, <1>5, <1>7, Emptied DEF ReplayFlows
  <2>2. QueueFlows(c, ch)'
    BY <1>5, <1>6, <1>7 DEF QueueFlows
  <2> QED
    BY <1>7, <2>1, <2>2 DEF ClientFlows
<1> QED
  BY <1>1, <1>2, <1>4, <1>7 DEF Holds

LEMMA ReadLiveStep ==
    ASSUME BusInv, NEW c \in Clients, ReadLive(c)
    PROVE  BusInv'
<1> DEFINE ch == Watches[c]
           f == Head(queue[c])
           t == Tail(queue[c])
           a == at[c][ch]
<1>0. /\ c \in Subscribers /\ c \notin Dispatchers /\ ch \in Channels
      /\ seq[ch] \in Nat /\ a \in Nat /\ base[c] \in Nat
      /\ phase[c] = "on" /\ replay[c] = <<>> /\ queue[c] # <<>>
      /\ restarts = 0 => ClientFlows(c) /\ (c \in Widgets => WidgetHas(c))
  BY ClientParts DEF ReadLive
<1>s. Shapes
  BY DEF BusInv
<1>1. /\ t \in Seq(Item) /\ f \in Item /\ f.seq \in Nat
      /\ \A i \in 1..Len(t) : t[i].kind # Lapsed
      /\ \A i \in 1..Len(t) : t[i].kind # Shutdown => t[i].channel = ch
      /\ Len(t) <= QueueMax
      /\ f.kind # Shutdown => f.channel = ch
      /\ restarts = 0 =>
            /\ \A n \in replayed[c] : n <= a
            /\ IsEvent(f) => f.seq = a + 1 /\ Runs(t, ch, a + 1, seq[ch])
            /\ f.kind = Lapsed => a < f.seq /\ f.seq <= seq[ch]
            /\ f.kind = Shutdown => Runs(t, ch, a, seq[ch])
  BY <1>0, LiveHead
<1>2. UNCHANGED <<seq, buffer, stopping, contexts, leaked, base, missed, restarts, breaks>>
  BY DEF ReadLive, server, cards
<1>f. restarts = 0 => /\ \A x \in Channels : at[c][x] <= seq[x]
                      /\ CursorFlows(c, ch) /\ a <= seq[ch]
  BY <1>0 DEF ClientFlows
<1> HIDE DEF f, t
<1>3. CASE /\ f.seq \in replayed[c]
           /\ queue' = [queue EXCEPT ![c] = t]
           /\ UNCHANGED <<phase, replay, replayed, client, at, have>>
  <2>1. Shapes' /\ UNCHANGED <<cursor, retired>>
    BY <1>0, <1>1, <1>2, <1>3, <1>s DEF Shapes, client
  <2>2. queue'[c] = t /\ UNCHANGED <<phase, replay, replayed, at, have, cursor, base>>
    BY <1>0, <1>2, <1>3, <1>s, <2>1 DEF Shapes
  <2>3. restarts = 0 => Runs(t, ch, a, seq[ch])
    <3>1. restarts = 0 => f.seq <= a
      BY <1>1, <1>3
    <3> QED
      BY <1>0, <1>1, <3>1, FrameFields
  <2>4. restarts = 0 => CursorFlows(c, ch)' /\ (c \in Widgets => WidgetHas(c)')
    BY <1>0, <1>2, <1>f, <2>2 DEF CursorFlows, NeedsSentinel, WidgetHas
  <2>5. Holds(c)'
    BY <1>0, <1>1, <1>2, <1>f, <2>2, <2>3, <2>4, LiveHolds
  <2> QED
    BY <1>0, <1>2, <1>3, <1>s, <2>1, <2>5, OneSteps DEF Shapes
<1>4. CASE /\ f.seq \notin replayed[c] /\ IsEvent(f) /\ Receive(c, f, f.seq)
           /\ queue' = [queue EXCEPT ![c] = t]
           /\ UNCHANGED <<phase, replay, replayed, retired>>
  <2>1. /\ cursor' = [cursor EXCEPT ![c] = f.seq]
        /\ have' = [have EXCEPT ![c] = @ \cup {f.seq}]
        /\ at' = [at EXCEPT ![c][ch] = f.seq]
        /\ f.kind # Lapsed
    BY <1>1, <1>4, FrameFields DEF Receive
  <2>2. Shapes'
    <3>1. at' \in [Subscribers -> [Channels -> Nat]]
      BY <1>0, <1>1, <1>s, <2>1 DEF Shapes
    <3>2. /\ have' \in [Clients -> SUBSET Nat] /\ cursor' \in [Clients -> Nat \cup {NoCursor}]
          /\ queue' \in [Subscribers -> Seq(Item)]
      BY <1>0, <1>1, <1>4, <1>s, <2>1 DEF Shapes
    <3> QED
      BY <1>2, <1>4, <1>s, <3>1, <3>2 DEF Shapes
  <2>3. /\ queue'[c] = t /\ cursor'[c] = f.seq
        /\ have'[c] = have[c] \cup {f.seq} /\ at'[c][ch] = f.seq
        /\ \A x \in Channels \ {ch} : at'[c][x] = at[c][x]
        /\ UNCHANGED <<phase, replay, replayed, base>>
    BY <1>0, <1>2, <1>4, <1>s, <2>1 DEF Shapes
  <2>4. ASSUME restarts = 0
        PROVE  /\ \A x \in Channels : at'[c][x] <= seq'[x]
               /\ CursorFlows(c, ch)' /\ (c \in Widgets => WidgetHas(c)')
               /\ \A n \in replayed'[c] : n <= at'[c][ch]
               /\ Runs(queue'[c], ch, at'[c][ch], seq'[ch])
    <3>1. f.seq = a + 1 /\ Runs(t, ch, a + 1, seq[ch]) /\ a + 1 <= seq[ch]
      BY <1>1, <1>4, <2>4 DEF Runs
    <3>2. \A x \in Channels : at'[c][x] <= seq'[x]
      BY <1>0, <1>2, <1>f, <2>3, <2>4, <3>1
    <3>3. CursorFlows(c, ch)'
      BY <2>3 DEF CursorFlows
    <3>4. ASSUME c \in Widgets PROVE WidgetHas(c)'
      <4>1. (base[c] + 1)..(a + 1) \subseteq ((base[c] + 1)..a) \cup {a + 1}
        BY <1>0
      <4> QED
        BY <1>0, <2>3, <2>4, <3>1, <3>4, <4>1 DEF WidgetHas
    <3>5. \A n \in replayed[c] : n \in Nat /\ n <= a
      BY <1>1, <1>s, <2>4 DEF Shapes
    <3>6. \A n \in replayed'[c] : n <= at'[c][ch]
      BY <1>0, <2>3, <3>1, <3>5
    <3> QED
      BY <1>2, <2>3, <3>1, <3>2, <3>3, <3>4, <3>6
  <2>5. Holds(c)'
    BY <1>0, <1>1, <1>2, <2>3, <2>4, LiveHolds
  <2> QED
    BY <1>0, <1>2, <1>4, <1>s, <2>1, <2>2, <2>5, OneSteps DEF Shapes
<1>5. CASE /\ f.kind = Lapsed /\ Receive(c, f, f.seq) /\ CloseStream(c) /\ UNCHANGED retired
  <2>1. /\ cursor' = [cursor EXCEPT ![c] = IF c \in Browsers THEN NoCursor ELSE f.seq]
        /\ have' = [have EXCEPT ![c] = @ \cup (a + 1)..f.seq]
        /\ at' = [at EXCEPT ![c][ch] = f.seq]
        /\ phase' = [phase EXCEPT ![c] = "off"] /\ queue' = [queue EXCEPT ![c] = <<>>]
        /\ replay' = [replay EXCEPT ![c] = <<>>] /\ replayed' = [replayed EXCEPT ![c] = {}]
    BY <1>1, <1>5, <1>s, FrameFields DEF Receive, CloseStream, Close, Shapes
  <2>2. Shapes'
    <3>1. at' \in [Subscribers -> [Channels -> Nat]]
      BY <1>0, <1>1, <1>s, <2>1 DEF Shapes
    <3>2. /\ cursor' \in [Clients -> Nat \cup {NoCursor}]
          /\ queue' \in [Subscribers -> Seq(Item)] /\ phase' \in [Subscribers -> Phase]
      BY <1>0, <1>1, <1>s, <2>1, Emptied DEF Shapes, Phase
    <3>3. replay' \in [Clients -> Seq(Item)] /\ replayed' \in [Clients -> SUBSET Nat]
      BY <1>0, <1>s, <2>1, Emptied DEF Shapes
    <3>4. have' \in [Clients -> SUBSET Nat]
      BY <1>0, <1>1, <1>s, <2>1 DEF Shapes
    <3> QED
      BY <1>2, <1>5, <1>s, <2>1, <3>1, <3>2, <3>3, <3>4 DEF Shapes
  <2>3. /\ cursor'[c] = (IF c \in Browsers THEN NoCursor ELSE f.seq)
        /\ have'[c] = have[c] \cup (a + 1)..f.seq
        /\ at'[c][ch] = f.seq /\ \A x \in Channels \ {ch} : at'[c][x] = at[c][x]
        /\ phase'[c] = "off" /\ queue'[c] = <<>> /\ replay'[c] = <<>>
    BY <1>0, <1>s, <2>1 DEF Shapes
  <2>4. ASSUME restarts = 0
        PROVE  /\ \A x \in Channels : at'[c][x] <= seq'[x]
               /\ CursorFlows(c, ch)' /\ (c \in Widgets => WidgetHas(c)')
    <3>1. \A x \in Channels : at'[c][x] <= seq'[x]
      BY <1>0, <1>1, <1>2, <1>5, <1>f, <2>3, <2>4
    <3>2. CursorFlows(c, ch)'
      BY <2>3 DEF CursorFlows
    <3>3. ASSUME c \in Widgets PROVE WidgetHas(c)'
      <4>1. (base[c] + 1)..f.seq \subseteq (base[c] + 1)..a \cup (a + 1)..f.seq
        BY <1>0, <1>1
      <4> QED
        BY <1>0, <1>2, <2>3, <2>4, <3>3, <4>1 DEF WidgetHas
    <3> QED
      BY <3>1, <3>2, <3>3
  <2>5. Holds(c)'
    BY <1>2, <2>3, <2>4, OffHolds
  <2> QED
    BY <1>0, <1>2, <1>s, <2>1, <2>2, <2>5, OneSteps DEF Shapes
<1>6. CASE /\ retired' = IF c \in Widgets THEN retired \cup {c} ELSE retired
           /\ CloseStream(c) /\ UNCHANGED <<cursor, at, have>>
  <2>1. retired' \in SUBSET Widgets /\ breaks' \in Nat
    BY <1>2, <1>6, <1>s DEF Shapes
  <2> QED
    BY <1>2, <1>6, <2>1, CloseStep
<1> QED
  BY <1>3, <1>4, <1>5, <1>6 DEF ReadLive, f, t

LEMMA ClientStays ==
    ASSUME BusInv, NEW c \in Clients, Disconnect(c) \/ EndStream(c)
    PROVE  BusInv'
<1>1. /\ CloseStream(c) /\ breaks' \in Nat /\ retired' \in SUBSET Widgets
      /\ UNCHANGED <<seq, buffer, stopping, cursor, contexts, leaked, at, have, base, missed,
                     restarts>>
  BY DEF Disconnect, EndStream, server, client, cards, observed, BusInv, Shapes
<1> QED
  BY <1>1, CloseStep

---------------------------------------------------------------------------
(* Dispatchers.                                                            *)

LEMMA DispatcherParts ==
    ASSUME BusInv, NEW d \in Dispatchers
    PROVE  /\ d \in Subscribers /\ d \notin Clients
           /\ QueueHolds(d) /\ DispatcherFlows(d) /\ DispatcherHolds(d)
           /\ queue[d] \in Seq(Item) /\ phase[d] \in Phase /\ contexts[d] \in SUBSET Channels
           /\ leaked[d] \in SUBSET Channels
           /\ seq \in [Channels -> Nat] /\ at[d] \in [Channels -> Nat]
<1>1. d \in Subscribers /\ d \notin Clients
  BY BusParts
<1> QED
  BY <1>1 DEF BusInv, Shapes, Holds

(* A dispatcher whose queue is empty.                                      *)
LEMMA EmptyHolds ==
    ASSUME NEW d \in Dispatchers, queue'[d] = <<>>, seq' \in [Channels -> Nat],
           \A ch \in Channels : at'[d][ch] <= seq'[ch],
           phase'[d] = "on" => \A ch \in Channels : at'[d][ch] = seq'[ch],
           phase'[d] = "off" => contexts'[d] = {},
           d \notin missed' => phase'[d] \in {"off", "on"} /\ contexts'[d] = {}
    PROVE  Holds(d)'
<1>1. d \notin Clients
  BY BusParts
<1>2. QueueHolds(d)'
  BY Emptied, BusParts DEF QueueHolds
<1>3. ~Overflown(d)' /\ \A ch : Reached(d, ch)' = at'[d][ch]
  BY <1>1 DEF Overflown, Reached
<1>4. DispatcherFlows(d)'
  BY <1>3, RunsOut DEF DispatcherFlows, QueueFlows
<1>5. DispatcherHolds(d)'
  BY <1>3, Emptied DEF DispatcherHolds, Agrees
<1> QED
  BY <1>1, <1>2, <1>4, <1>5 DEF Holds

LEMMA SubscribeStep ==
    ASSUME BusInv, NEW d \in Dispatchers, StartDispatcher(d) \/ Resubscribe(d)
    PROVE  BusInv'
<1>0. /\ d \in Subscribers /\ d \notin Clients
      /\ DispatcherHolds(d) /\ seq \in [Channels -> Nat]
  BY DispatcherParts
<1>s. Shapes
  BY DEF BusInv
<1>1. /\ queue' = [queue EXCEPT ![d] = <<>>] /\ at' = [at EXCEPT ![d] = seq]
      /\ phase' = [phase EXCEPT ![d] = "on"] /\ missed' = missed \cup Unread(d)
      /\ UNCHANGED <<seq, buffer, stopping, replay, replayed, cursor, retired, contexts, leaked,
                     have, base, restarts, breaks>>
      /\ phase[d] \in {"off", "backoff", "lapsed"}
  BY DEF StartDispatcher, Resubscribe, Subscribe, server, client, cards
<1>2. Shapes'
  <2>1. Unread(d) \subseteq Dispatchers
    BY DEF Unread
  <2> QED
    BY <1>0, <1>1, <1>s, <2>1, Emptied DEF Shapes, Phase
<1>3. /\ queue'[d] = <<>> /\ at'[d] = seq /\ phase'[d] = "on" /\ contexts'[d] = contexts[d]
      /\ d \notin missed' => d \notin missed
  BY <1>0, <1>1, <1>s DEF Shapes
<1>4. d \notin missed' => contexts'[d] = {}
  BY <1>0, <1>1, <1>3 DEF DispatcherHolds
<1>5. \A ch \in Channels : seq[ch] \in Nat
  BY <1>0
<1>6. Holds(d)'
  BY <1>0, <1>1, <1>3, <1>4, <1>5, EmptyHolds
<1> QED
  BY <1>0, <1>1, <1>2, <1>6, <1>s, OneSteps DEF Shapes

LEMMA RaisesStep ==
    ASSUME BusInv, NEW d \in Dispatchers, DispatchRaises(d)
    PROVE  BusInv'
<1>0. /\ d \in Subscribers /\ d \notin Clients
      /\ DispatcherHolds(d) /\ DispatcherFlows(d) /\ seq \in [Channels -> Nat]
  BY DispatcherParts
<1>s. Shapes
  BY DEF BusInv
<1>1. /\ queue' = [queue EXCEPT ![d] = <<>>] /\ phase' = [phase EXCEPT ![d] = "backoff"]
      /\ missed' = missed \cup Unread(d) /\ breaks' = breaks + 1
      /\ UNCHANGED <<seq, buffer, stopping, replay, replayed, cursor, retired, contexts, leaked,
                     at, have, base, restarts>>
      /\ phase[d] = "lapsed" \/ (phase[d] = "on" /\ queue[d] # <<>>)
  BY DEF DispatchRaises, server, client, cards
<1>2. Shapes'
  <2>1. Unread(d) \subseteq Dispatchers
    BY DEF Unread
  <2> QED
    BY <1>0, <1>1, <1>s, <2>1, Emptied DEF Shapes, Phase
<1>3. queue'[d] = <<>> /\ phase'[d] = "backoff"
  BY <1>0, <1>1, <1>s DEF Shapes
<1>4. d \in missed'
  BY <1>0, <1>1 DEF DispatcherHolds, Unread
<1>5. Holds(d)'
  BY <1>0, <1>1, <1>3, <1>4, EmptyHolds DEF DispatcherFlows
<1> QED
  BY <1>0, <1>1, <1>2, <1>5, <1>s, OneSteps DEF Shapes

LEMMA StopStep ==
    ASSUME BusInv, NEW d \in Dispatchers, StopDispatcher(d)
    PROVE  BusInv'
<1>0. /\ d \in Subscribers /\ d \notin Clients
      /\ DispatcherFlows(d) /\ seq \in [Channels -> Nat]
  BY DispatcherParts
<1>s. Shapes
  BY DEF BusInv
<1>1. /\ queue' = [queue EXCEPT ![d] = <<>>] /\ phase' = [phase EXCEPT ![d] = "off"]
      /\ contexts' = [contexts EXCEPT ![d] = {}] /\ leaked' = [leaked EXCEPT ![d] = {}]
      /\ UNCHANGED <<seq, buffer, stopping, replay, replayed, cursor, retired,
                     at, have, base, missed, restarts, breaks>>
  BY DEF StopDispatcher, Close, server, client, observed
<1>2. Shapes'
  BY <1>0, <1>1, <1>s, Emptied DEF Shapes, Phase
<1>3. queue'[d] = <<>> /\ phase'[d] = "off" /\ contexts'[d] = {}
  BY <1>0, <1>1, <1>s DEF Shapes
<1>4. Holds(d)'
  BY <1>0, <1>1, <1>3, EmptyHolds DEF DispatcherFlows
<1> QED
  BY <1>0, <1>1, <1>2, <1>4, <1>s, OneSteps DEF Shapes

(* An event that keeps the turn open is handled: the context is in order.  *)
LEMMA OpensOn ==
    ASSUME Shapes, NEW d \in Dispatchers, NEW ch \in Channels, RingHolds(ch), Agrees(d, ch),
           queue[d] # <<>>, queue[d] \in Seq(Item), IsEvent(Head(queue[d])),
           Head(queue[d]).channel = ch, Head(queue[d]).seq = at[d][ch] + 1,
           at[d][ch] + 1 <= seq[ch], at[d][ch] \in Nat,
           buffer' = buffer, at'[d][ch] = at[d][ch] + 1,
           Head(queue[d]).kind \in Durable => Opens(d, ch),
           Head(queue[d]).kind # Closing \/ Head(queue[d]).kind \in Durable
    PROVE  Opens(d, ch)'
<1> DEFINE b == buffer[ch]
           f == Head(queue[d])
           a == at[d][ch]
           live == {i \in DOMAIN b : b[i].seq <= a /\ b[i].kind \notin Durable}
           more == {i \in DOMAIN b : b[i].seq <= a + 1 /\ b[i].kind \notin Durable}
<1>1. /\ b \in Seq(Item) /\ Len(b) \in Nat /\ DOMAIN b = 1..Len(b) /\ seq[ch] \in Nat
      /\ \A i \in 1..Len(b) : b[i].seq \in Nat /\ b[i].seq + Len(b) = seq[ch] + i
  BY FrameFields DEF Shapes, RingHolds
<1>2. \A j \in DOMAIN b : b[j].seq = a + 1 => b[j].kind = f.kind
  <2>1. 1 \in DOMAIN queue[d] /\ queue[d][1] = f
    BY Taken
  <2> QED
    BY <2>1 DEF Agrees
<1>3. SUFFICES ASSUME NEW i \in more, b[i].kind = Closing
               PROVE  \E j \in more : i < j /\ b[j].kind # Closing
  BY DEF Opens
<1> HIDE DEF b, f
<1>4. i \in 1..Len(b) /\ i \in Nat /\ b[i].seq \in Nat /\ b[i].seq <= a + 1 /\ b[i].kind \notin Durable
  BY <1>1
<1>5. b[i].seq # a + 1
  BY <1>2, <1>3, <1>4 DEF f
<1>6. b[i].seq <= a
  BY <1>4, <1>5
<1>7. CASE f.kind \in Durable
  <2>1. i \in live /\ \A j \in live : j \in more
    <3>1. i \in live
      BY <1>1, <1>4, <1>6
    <3>2. ASSUME NEW j \in live PROVE b[j].seq <= a + 1
      <4>1. b[j].seq \in Nat /\ b[j].seq <= a
        BY <1>1
      <4> QED
        BY <4>1
    <3> QED
      BY <3>1, <3>2
  <2>2. \A x \in live : b[x].kind = Closing => \E j \in live : x < j /\ b[j].kind # Closing
    BY <1>7 DEF Opens, f, b
  <2> HIDE DEF live, more
  <2> QED
    BY <1>3, <2>1, <2>2
<1>8. CASE f.kind \notin Durable
  <2>1. PICK l \in Nat : l = Len(b)
    BY <1>1
  <2>2. PICK x \in Nat : x = b[i].seq
    BY <1>4
  <2>3. PICK n \in Nat : n = seq[ch]
    BY <1>1
  <2>m. PICK m \in Nat : m = a
    OBVIOUS
  <2>4. x + l = n + i /\ x <= m /\ m + 1 <= n /\ i <= l /\ i > 0
    BY <1>1, <1>4, <1>6, <2>1, <2>2, <2>3, <2>m
  <2> DEFINE j == i + (m + 1 - x)
  <2>n. i \in Nat /\ l \in Nat /\ x \in Nat /\ n \in Nat /\ m \in Nat
    BY <1>4, <2>1, <2>2, <2>3, <2>m
  <2>5. j \in Nat /\ i < j /\ j <= l /\ j > 0 /\ m + 1 + l = n + j
    BY ONLY <2>4, <2>n
  <2> HIDE DEF j
  <2>6. j \in 1..Len(b) /\ b[j].seq \in Nat /\ b[j].seq + l = n + j
    <3>1. j \in 1..Len(b)
      BY <2>1, <2>5
    <3> QED
      BY <1>1, <2>1, <2>3, <3>1
  <2>7. b[j].seq = a + 1
    <3>1. PICK y \in Nat : y = b[j].seq
      BY <2>6
    <3>2. y \in Nat /\ j \in Nat /\ y + l = n + j /\ m + 1 + l = n + j
      BY <2>5, <2>6, <3>1
    <3>3. y = m + 1
      BY ONLY <2>n, <3>2
    <3> QED
      BY <2>m, <3>1, <3>3
  <2>8. b[j].kind = f.kind
    BY <1>1, <1>2, <2>6, <2>7
  <2>9. j \in more /\ b[j].kind # Closing
    <3>1. f.kind # Closing
      BY <1>8 DEF f
    <3>2. j \in DOMAIN b /\ b[j].seq <= a + 1 /\ b[j].kind \notin Durable
      BY <1>1, <1>8, <2>6, <2>7, <2>8
    <3> QED
      BY <2>8, <3>1, <3>2
  <2> HIDE DEF more
  <2> QED
    BY <2>5, <2>9
<1> QED
  BY <1>7, <1>8

LEMMA DispatchStep ==
    ASSUME BusInv, NEW d \in Dispatchers, NEW target \in BOOLEAN, DispatchNext(d, target)
    PROVE  BusInv'
<1> DEFINE q == queue[d]
           f == Head(q)
           t == Tail(q)
           x == f.channel
<1>0. /\ d \in Subscribers /\ d \notin Clients
      /\ QueueHolds(d) /\ DispatcherFlows(d) /\ DispatcherHolds(d)
      /\ q \in Seq(Item) /\ q # <<>> /\ phase[d] = "on"
      /\ seq \in [Channels -> Nat] /\ at[d] \in [Channels -> Nat]
  BY DispatcherParts DEF DispatchNext
<1>s. Shapes /\ \A ch \in Channels : RingHolds(ch)
  BY DEF BusInv
<1>1. /\ t \in Seq(Item) /\ Len(q) \in Nat /\ Len(q) > 0 /\ Len(t) = Len(q) - 1
      /\ DOMAIN q = 1..Len(q) /\ DOMAIN t = 1..Len(t) /\ f \in Item /\ f = q[1]
      /\ \A i \in 1..Len(t) : i + 1 \in 1..Len(q) /\ i + 1 # 1 /\ t[i] = q[i + 1]
      /\ x \in Channels /\ f.seq \in Nat
  <2>1. /\ t \in Seq(Item) /\ Len(q) \in Nat /\ Len(q) > 0 /\ Len(t) = Len(q) - 1
        /\ DOMAIN q = 1..Len(q) /\ DOMAIN t = 1..(Len(q) - 1) /\ f \in Item /\ f = q[1]
        /\ \A i \in DOMAIN t : i + 1 \in DOMAIN q /\ t[i] = q[i + 1]
    BY <1>0, Taken
  <2>2. x \in Channels /\ f.seq \in Nat
    BY <2>1, FrameFields
  <2> HIDE DEF t, f, q, x
  <2> QED
    BY <2>1, <2>2
<1>2. /\ queue' = [queue EXCEPT ![d] = t]
      /\ UNCHANGED <<seq, buffer, stopping, replay, replayed, cursor, retired, have, base,
                     missed, restarts, breaks>>
      /\ \/ f.kind = Shutdown /\ UNCHANGED <<contexts, leaked, at, phase>>
         \/ /\ f.kind # Shutdown /\ Handle(d, f, target)
            /\ at' = [at EXCEPT ![d][x] = f.seq]
            /\ phase' = [phase EXCEPT ![d] = IF f.kind = Lapsed THEN "lapsed" ELSE "on"]
  BY DEF DispatchNext, server, client, cards
<1> HIDE DEF f, t
<1>3. f.kind # Shutdown =>
        /\ contexts' \in [Dispatchers -> SUBSET Channels] /\ leaked' \in [Dispatchers -> SUBSET Channels]
        /\ \A y \in Dispatchers \ {d} : contexts'[y] = contexts[y] /\ leaked'[y] = leaked[y]
        /\ \A ch \in Channels \ {x} :
              ch \in contexts'[d] \ leaked'[d] => ch \in contexts[d] \ leaked[d]
        /\ x \in contexts'[d] \ leaked'[d] =>
              \/ f.kind \in Durable /\ x \in contexts[d] \ leaked[d]
              \/ f.kind # Closing /\ (f.kind \in Durable => x \in contexts[d] \ leaked[d])
  <2>1. /\ contexts \in [Dispatchers -> SUBSET Channels] /\ leaked \in [Dispatchers -> SUBSET Channels]
        /\ x \in Channels
    BY <1>1, <1>s DEF Shapes
  <2>2. ASSUME f.kind # Shutdown, Passed(d, f, target)
        PROVE  /\ contexts' = contexts
               /\ leaked' = [leaked EXCEPT ![d] =
                     IF f.kind = Closing THEN @ \cup (contexts[d] \cap {x}) ELSE @]
    BY <1>2, <2>2 DEF Handle
  <2>3. ASSUME f.kind # Shutdown, ~Passed(d, f, target), f.kind = Closing
        PROVE  /\ contexts' = [contexts EXCEPT ![d] = @ \ {x}]
               /\ leaked' = [leaked EXCEPT ![d] = @ \ {x}]
    BY <1>2, <2>3 DEF Handle
  <2>4. ASSUME f.kind # Shutdown, ~Passed(d, f, target), f.kind # Closing
        PROVE  /\ contexts' = [contexts EXCEPT ![d] = @ \cup {x}] /\ leaked' = leaked
               /\ f.kind \notin Durable
    BY <1>2, <2>4 DEF Handle, Passed
  <2> HIDE DEF x
  <2> QED
    BY <2>1, <2>2, <2>3, <2>4
<1>4. Shapes'
  <2>1. queue' \in [Subscribers -> Seq(Item)]
    BY <1>0, <1>1, <1>2, <1>s DEF Shapes
  <2>2. phase' \in [Subscribers -> Phase]
    BY <1>0, <1>2, <1>s DEF Shapes, Phase
  <2>a. at' \in [Subscribers -> [Channels -> Nat]]
    <3>1. at \in [Subscribers -> [Channels -> Nat]] /\ [at[d] EXCEPT ![x] = f.seq] \in [Channels -> Nat]
      BY <1>0, <1>1, <1>s DEF Shapes
    <3>2. at' = at \/ at' = [at EXCEPT ![d] = [at[d] EXCEPT ![x] = f.seq]]
      BY <1>2, <3>1
    <3> QED
      BY <3>1, <3>2
  <2>3. contexts' \in [Dispatchers -> SUBSET Channels] /\ leaked' \in [Dispatchers -> SUBSET Channels]
    BY <1>2, <1>3, <1>s DEF Shapes
  <2> QED
    BY <1>2, <1>s, <2>1, <2>2, <2>3, <2>a DEF Shapes
<1>5. queue'[d] = t
  BY <1>0, <1>2, <1>s DEF Shapes
<1>6. QueueHolds(d)' /\ ~Overflown(d)'
  <2>1. \A i \in 1..Len(t) : t[i].kind # Lapsed
    BY <1>0, <1>1 DEF QueueHolds
  <2>2. t # <<>> => 1 \in 1..Len(t) /\ Head(t) = t[1]
    BY <1>1
  <2>3. Len(t) <= QueueMax
    BY <1>0, <1>1, BusParts DEF QueueHolds
  <2>4. phase'[d] \in {"on", "lapsed"}
    BY <1>0, <1>2, <1>s DEF Shapes
  <2> QED
    BY <1>5, <2>1, <2>2, <2>3, <2>4 DEF QueueHolds, Overflown
<1>7. \A ch : Reached(d, ch) = at[d][ch] /\ Reached(d, ch)' = at'[d][ch]
  BY <1>0 DEF Reached
<1>8. \A ch \in Channels : Agrees(d, ch) => Agrees(d, ch)'
  <2>1. buffer' = buffer /\ DOMAIN t = 1..Len(t)
    BY <1>1, <1>2
  <2>2. \A i \in DOMAIN t : i + 1 \in DOMAIN q /\ t[i] = q[i + 1]
    BY <1>1
  <2> QED
    BY <1>5, <2>1, <2>2 DEF Agrees
<1>9. Overflown(d) <=> f.kind = Lapsed
  BY <1>0 DEF Overflown, f
<1>a. \A ch \in Channels : at[d][ch] <= seq[ch] /\ at[d][ch] \in Nat /\ seq[ch] \in Nat
  BY <1>0 DEF DispatcherFlows
<1>r. f.kind # Lapsed => \A ch \in Channels : Runs(q, ch, at[d][ch], seq[ch])
  BY <1>0, <1>7, <1>9 DEF DispatcherFlows, QueueFlows
<1>10. CASE f.kind = Shutdown
  <2>1. UNCHANGED <<contexts, leaked, at, phase>>
    BY <1>2, <1>10
  <2>2. \A ch \in Channels : Runs(t, ch, at[d][ch], seq[ch])
    BY <1>0, <1>1, <1>10, <1>a, <1>r, RunsPast, FrameFields DEF f, t
  <2>3. DispatcherFlows(d)'
    BY <1>0, <1>2, <1>5, <1>6, <1>7, <2>1, <2>2 DEF DispatcherFlows, QueueFlows
  <2>4. DispatcherHolds(d)'
    BY <1>0, <1>2, <1>6, <1>8, <2>1 DEF DispatcherHolds, Opens
  <2>5. Holds(d)'
    BY <1>0, <1>6, <2>3, <2>4 DEF Holds
  <2> QED
    BY <1>0, <1>2, <1>4, <1>s, <2>1, <2>5, OneSteps DEF Shapes
<1>11. CASE f.kind = Lapsed
  <2>1. /\ phase'[d] = "lapsed" /\ at'[d][x] = f.seq
        /\ \A ch \in Channels \ {x} : at'[d][ch] = at[d][ch]
    BY <1>0, <1>1, <1>2, <1>11, <1>s, BusParts DEF Shapes
  <2>2. f.seq <= seq[x]
    BY <1>0, <1>1, <1>9, <1>11 DEF DispatcherFlows, QueueFlows, f
  <2>3. DispatcherFlows(d)'
    BY <1>2, <1>a, <2>1, <2>2 DEF DispatcherFlows
  <2>4. DispatcherHolds(d)'
    BY <1>0, <1>2, <1>9, <1>11, <2>1 DEF DispatcherHolds
  <2>5. Holds(d)'
    BY <1>0, <1>6, <2>3, <2>4 DEF Holds
  <2> QED
    BY <1>0, <1>2, <1>3, <1>4, <1>11, <1>s, <2>5, BusParts, OneSteps DEF Shapes
<1>12. CASE IsEvent(f)
  <2>0. f.kind # Lapsed /\ f.kind # Shutdown
    BY <1>1, <1>12, FrameFields
  <2>1. f.seq = at[d][x] + 1 /\ Runs(t, x, at[d][x] + 1, seq[x]) /\ at[d][x] + 1 <= seq[x]
    <3>1. f.seq = at[d][x] + 1 /\ Runs(t, x, at[d][x] + 1, seq[x])
      BY <1>0, <1>1, <1>12, <1>a, <1>r, <2>0, RunsNext DEF f, t
    <3> QED
      BY <3>1 DEF Runs
  <2>2. /\ phase'[d] = "on" /\ at'[d][x] = at[d][x] + 1
        /\ \A ch \in Channels \ {x} : at'[d][ch] = at[d][ch]
    <3>1. phase'[d] = "on"
      BY <1>0, <1>2, <1>s, <2>0 DEF Shapes
    <3>2. at'[d] = [at[d] EXCEPT ![x] = f.seq]
      BY <1>0, <1>2, <1>s, <2>0 DEF Shapes
    <3> QED
      BY <1>0, <1>1, <2>1, <3>1, <3>2
  <2>3. \A ch \in Channels \ {x} : Runs(t, ch, at[d][ch], seq[ch])
    BY <1>0, <1>1, <1>a, <1>r, <2>0, RunsPast DEF f, t
  <2>4. \A ch \in Channels : Runs(t, ch, at'[d][ch], seq[ch])
    BY <2>1, <2>2, <2>3
  <2>5. DispatcherFlows(d)'
    BY <1>2, <1>5, <1>6, <1>7, <1>a, <2>1, <2>2, <2>4 DEF DispatcherFlows, QueueFlows
  <2>6. ASSUME d \notin missed, NEW ch \in Channels, ch \in contexts'[d] \ leaked'[d]
        PROVE  Opens(d, ch)'
    <3>1. Agrees(d, ch) /\ (ch \in contexts[d] \ leaked[d] => Opens(d, ch))
      BY <1>0, <2>6 DEF DispatcherHolds
    <3>2. CASE ch # x
      <4>1. ch \in contexts[d] \ leaked[d] /\ at'[d][ch] = at[d][ch]
        BY <1>3, <2>0, <2>2, <2>6, <3>2
      <4> QED
        BY <1>2, <3>1, <4>1 DEF Opens
    <3>3. CASE ch = x
      <4>1. /\ f.kind \in Durable => Opens(d, ch)
            /\ f.kind # Closing \/ f.kind \in Durable
        BY <1>3, <2>0, <2>6, <3>1, <3>3
      <4> QED
        BY <1>0, <1>2, <1>12, <1>a, <1>s, <2>1, <2>2, <3>1, <3>3, <4>1, OpensOn DEF f
    <3> QED
      BY <3>2, <3>3
  <2>7. DispatcherHolds(d)'
    BY <1>0, <1>2, <1>6, <1>8, <2>2, <2>6 DEF DispatcherHolds
  <2>8. Holds(d)'
    BY <1>0, <1>6, <2>5, <2>7 DEF Holds
  <2> QED
    BY <1>0, <1>2, <1>3, <1>4, <1>s, <2>0, <2>8, OneSteps DEF Shapes
<1> QED
  BY <1>1, <1>10, <1>11, <1>12, FrameFields

---------------------------------------------------------------------------
(* Publishing.                                                             *)

(* The ring after an event: the k oldest are gone.                         *)
LEMMA Remembered ==
    ASSUME NEW b \in Seq(Item), Len(b) <= ReplayMax, NEW e \in Item
    PROVE  LET u == Remember(b, e)
           IN  \E k \in 0..1 :
                  /\ u \in Seq(Item) /\ Len(u) = Len(b) + 1 - k /\ Len(u) <= ReplayMax
                  /\ Len(u) \in Nat /\ Len(u) > 0 /\ Len(b) \in Nat
                  /\ u[Len(u)] = e
                  /\ \A i \in 1..Len(u) : i # Len(u) => i + k \in 1..Len(b) /\ u[i] = b[i + k]
                  /\ \A i \in 1..Len(b) : i > k => i - k \in 1..Len(u) /\ i - k # Len(u)
<1> DEFINE k == IF Len(b) < ReplayMax THEN 0 ELSE 1
           w == IF Len(b) < ReplayMax THEN b ELSE Tail(b)
<1>1. Len(b) \in Nat /\ ReplayMax \in Nat /\ ReplayMax > 0
  BY BusParts
<1>2. k \in 0..1 /\ w \in Seq(Item) /\ Len(w) = Len(b) - k /\ \A i \in 1..Len(w) : w[i] = b[i + k]
  <2>1. CASE Len(b) < ReplayMax
    BY <1>1, <2>1
  <2>2. CASE Len(b) >= ReplayMax
    <3>1. b # <<>>
      BY <1>1, <2>2, Emptied
    <3>2. /\ Tail(b) \in Seq(Item) /\ Len(Tail(b)) = Len(b) - 1 /\ DOMAIN Tail(b) = 1..(Len(b) - 1)
          /\ \A i \in DOMAIN Tail(b) : Tail(b)[i] = b[i + 1]
      BY <3>1, Taken
    <3> QED
      BY <1>1, <2>2, <3>2
  <2> QED
    BY <1>1, <2>1, <2>2
<1> DEFINE u == Append(w, e)
<1>3. Remember(b, e) = u
  BY DEF Remember
<1>k. Len(b) - k + 1 <= ReplayMax /\ (k = 0 \/ k = 1) /\ k <= Len(b)
  BY <1>1
<1> HIDE DEF k, w
<1>4. /\ u \in Seq(Item) /\ Len(u) = Len(w) + 1 /\ Len(w) \in Nat /\ u[Len(w) + 1] = e
      /\ DOMAIN w = 1..Len(w) /\ \A i \in DOMAIN w : u[i] = w[i]
  BY <1>2, Appended
<1> HIDE DEF u
<1>5. Len(u) = Len(b) + 1 - k /\ Len(u) <= ReplayMax /\ Len(u) \in Nat /\ Len(u) > 0
  BY <1>1, <1>2, <1>4, <1>k
<1>6. ASSUME NEW i \in 1..Len(u), i # Len(u) PROVE i + k \in 1..Len(b) /\ u[i] = b[i + k]
  <2>1. i \in 1..Len(w)
    BY <1>4, <1>5, <1>6
  <2>2. u[i] = b[i + k]
    BY <1>2, <1>4, <2>1
  <2> QED
    BY <1>1, <1>2, <1>5, <1>6, <1>k, <2>2
<1>7. \A i \in 1..Len(b) : i > k => i - k \in 1..Len(u) /\ i - k # Len(u)
  BY <1>1, <1>5, <1>k
<1> QED
  BY <1>1, <1>2, <1>3, <1>4, <1>5, <1>6, <1>7

(* A queue that gets an event of ch: it goes on, or holds a sentinel.      *)
LEMMA DeliverHolds ==
    ASSUME NEW s \in Subscribers, queue[s] \in Seq(Item), QueueHolds(s), NEW e \in Item, IsEvent(e),
           queue'[s] = Deliver(queue[s], e), phase'[s] \notin {"off", "backoff"}
    PROVE  /\ QueueHolds(s)' /\ queue'[s] \in Seq(Item)
           /\ \A i \in 1..Len(queue'[s]) : \/ i \in 1..Len(queue[s]) /\ queue'[s][i] = queue[s][i]
                                           \/ queue'[s][i].channel = e.channel
           /\ Len(queue[s]) # QueueMax =>
                 /\ Overflown(s)' <=> Overflown(s)
                 /\ Overflown(s) => Head(queue'[s]) = Head(queue[s])
                 /\ queue'[s] = Append(queue[s], e)
           /\ Len(queue[s]) = QueueMax =>
                 /\ Overflown(s)' /\ Head(queue'[s]).channel = e.channel
                 /\ Head(queue'[s]).seq = e.seq
<1> DEFINE q == queue[s]
           u == queue'[s]
<1>1. /\ Len(q) <= QueueMax /\ Len(q) \in Nat
      /\ \A i \in 1..Len(q) : q[i].kind = Lapsed => i = 1
      /\ e.kind # Lapsed /\ e.kind # Shutdown
  BY FrameFields DEF QueueHolds
<1>2. CASE Len(q) = QueueMax
  <2>1. /\ u \in Seq(Item) /\ Len(u) <= QueueMax /\ Len(u) = 1 /\ u[1] = Head(u) /\ u # <<>>
        /\ Head(u).kind = Lapsed /\ Head(u).channel = e.channel /\ Head(u).seq = e.seq
    <3> DEFINE v == Deliver(q, e)
               f == Frame(e.channel, e.seq, Lapsed)
    <3>1. /\ v \in Seq(Item) /\ Len(v) <= QueueMax /\ Len(v) = 1 /\ v[1] = f /\ Head(v) = f
          /\ v # <<>> /\ f.kind = Lapsed /\ f.channel = e.channel /\ f.seq = e.seq
      BY <1>1, <1>2, Delivered
    <3>2. u = v
      OBVIOUS
    <3> HIDE DEF v, f, u, q
    <3> QED
      BY <3>1, <3>2
  <2> HIDE DEF u, q
  <2>2. \A i \in 1..Len(u) : i = 1
    BY <2>1
  <2> QED
    BY <1>2, <2>1, <2>2 DEF QueueHolds, Overflown, u, q
<1>3. CASE Len(q) # QueueMax
  <2>1. u = Append(q, e) /\ u \in Seq(Item) /\ Len(u) <= QueueMax
    BY <1>1, <1>3, Delivered
  <2>2. /\ Len(u) = Len(q) + 1 /\ \A i \in 1..Len(q) : u[i] = q[i]
        /\ u[Len(q) + 1] = e
    BY <2>1, Appended
  <2>3. q # <<>> => Head(u) = Head(q)
    BY <2>1
  <2>4. q = <<>> => Head(u) = e
    BY <2>1
  <2>5. u # <<>>
    BY <1>1, <2>2, Emptied
  <2>6. \A i \in 1..Len(u) : i \in 1..Len(q) \/ i = Len(q) + 1
    BY <1>1, <2>2
  <2> HIDE DEF u, q
  <2>7. \A i \in 1..Len(u) : u[i].kind = Lapsed => i = 1
    BY <1>1, <2>2, <2>6
  <2> QED
    BY <1>1, <1>3, <2>1, <2>2, <2>3, <2>4, <2>5, <2>6, <2>7 DEF QueueHolds, Overflown, u, q
<1> QED
  BY <1>2, <1>3

LEMMA DeliverFlows ==
    ASSUME NEW s \in Subscribers, queue[s] \in Seq(Item), QueueHolds(s),
           NEW ch \in Channels, NEW e \in Item, IsEvent(e), e.channel = ch, e.seq = seq[ch] + 1,
           seq'[ch] = seq[ch] + 1, \A y \in Channels \ {ch} : seq'[y] = seq[y],
           queue'[s] = Deliver(queue[s], e), phase'[s] \notin {"off", "backoff"},
           NEW x \in Channels, seq[x] \in Nat, NEW lo \in Nat,
           Reached(s, x) = lo, Reached(s, x)' = lo, lo <= seq[x], QueueFlows(s, x)
    PROVE  QueueFlows(s, x)'
<1>1. /\ Len(queue[s]) # QueueMax =>
            /\ Overflown(s)' <=> Overflown(s)
            /\ Overflown(s) => Head(queue'[s]) = Head(queue[s])
            /\ queue'[s] = Append(queue[s], e)
      /\ Len(queue[s]) = QueueMax =>
            /\ Overflown(s)' /\ Head(queue'[s]).channel = ch
            /\ Head(queue'[s]).seq = seq[ch] + 1
  BY DeliverHolds
<1>2. CASE Len(queue[s]) = QueueMax
  <2>1. x = ch => lo < seq[ch] + 1 /\ seq[ch] + 1 <= seq'[x]
    OBVIOUS
  <2> QED
    BY <1>1, <1>2, <2>1 DEF QueueFlows
<1>3. CASE Len(queue[s]) # QueueMax /\ Overflown(s)
  <2>1. Head(queue[s]) \in Item
    BY <1>3, Taken DEF Overflown
  <2>2. Head(queue[s]).seq \in Nat
    BY <2>1, FrameFields
  <2>3. seq'[x] >= seq[x]
    BY DEF Overflown
  <2> QED
    BY <1>1, <1>3, <2>2, <2>3 DEF QueueFlows
<1>4. CASE Len(queue[s]) # QueueMax /\ ~Overflown(s)
  <2>1. Runs(queue[s], x, lo, seq[x])
    BY <1>4 DEF QueueFlows
  <2>2. CASE x = ch
    <3>1. Runs(Append(queue[s], e), x, lo, seq[x] + 1)
      BY <2>1, <2>2, RunsOn
    <3> QED
      BY <1>1, <1>4, <2>2, <3>1 DEF QueueFlows
  <2>3. CASE x # ch
    <3>1. Runs(Append(queue[s], e), x, lo, seq[x])
      BY <2>1, <2>3, RunsBy
    <3> QED
      BY <1>1, <1>4, <2>3, <3>1 DEF QueueFlows
  <2> QED
    BY <2>2, <2>3
<1> QED
  BY <1>2, <1>3, <1>4

(* What the rest of the step has to know of a publication.                 *)
Published(ch, e) ==
    LET b == buffer[ch]
        u == buffer'[ch]
    IN  /\ IsEvent(e) /\ e.channel = ch /\ e.seq = seq[ch] + 1
        /\ seq'[ch] = seq[ch] + 1
        /\ \A x \in Channels \ {ch} : seq'[x] = seq[x] /\ buffer'[x] = buffer[x]
        /\ \A x \in Channels : seq[x] \in Nat /\ seq[x] <= seq'[x]
        /\ \A s \in Subscribers : /\ queue[s] \in Seq(Item)
                                  /\ Listens(s, ch) => queue'[s] = Deliver(queue[s], e)
                                  /\ ~Listens(s, ch) => queue'[s] = queue[s]
        /\ missed' = missed \cup {d \in Dispatchers : Loses(d, ch)}
        /\ UNCHANGED <<stopping, phase, replay, replayed, cursor, retired, contexts, leaked,
                       at, have, base, restarts, breaks>>
        /\ b # <<>> => /\ u # <<>> /\ b[1].seq \in Nat /\ u[1].seq \in Nat
                       /\ b[1].seq <= u[1].seq
        /\ \E j \in 0..1 :
              /\ Len(u) \in Nat /\ Len(b) \in Nat /\ u[Len(u)] = e
              /\ \A i \in 1..Len(u) : i # Len(u) => i + j \in 1..Len(b) /\ u[i] = b[i + j]
              /\ \A i \in 1..Len(b) : i > j => i - j \in 1..Len(u) /\ i - j # Len(u)

LEMMA PublishRing ==
    ASSUME BusInv, NEW ch \in Channels, NEW k \in Kinds, Publish(ch, k)
    PROVE  /\ Shapes' /\ \A x \in Channels : RingHolds(x)'
           /\ \E e \in Item : Published(ch, e)
<1> DEFINE n == seq[ch]
           e == Frame(ch, n + 1, k)
           b == buffer[ch]
           u == buffer'[ch]
<1>s. Shapes /\ \A x \in Channels : RingHolds(x)
  BY DEF BusInv
<1>0. n \in Nat /\ b \in Seq(Item) /\ Len(b) \in Nat
  BY <1>s DEF Shapes
<1>1. e \in Item /\ IsEvent(e) /\ e.channel = ch /\ e.seq = n + 1
  BY <1>0, Frames DEF IsEvent
<1>2. /\ seq' = [seq EXCEPT ![ch] = e.seq]
      /\ buffer' = [buffer EXCEPT ![ch] = Remember(b, e)]
      /\ queue' = [s \in Subscribers |->
                      IF Listens(s, ch) THEN Deliver(queue[s], e) ELSE queue[s]]
      /\ missed' = missed \cup {d \in Dispatchers : Loses(d, ch)}
      /\ UNCHANGED <<stopping, phase, replay, replayed, cursor, retired, contexts, leaked,
                     at, have, base, restarts, breaks>>
  BY DEF Publish, client, cards
<1> HIDE DEF e
<1>3. /\ seq'[ch] = n + 1 /\ u = Remember(b, e)
      /\ \A x \in Channels \ {ch} : seq'[x] = seq[x] /\ buffer'[x] = buffer[x]
  BY <1>0, <1>1, <1>2, <1>s DEF Shapes
<1>4. \A s \in Subscribers : /\ queue[s] \in Seq(Item)
                             /\ Listens(s, ch) => queue'[s] = Deliver(queue[s], e)
                             /\ ~Listens(s, ch) => queue'[s] = queue[s]
  BY <1>2, <1>s DEF Shapes
<1>5. PICK j \in 0..1 :
          /\ u \in Seq(Item) /\ Len(u) = Len(b) + 1 - j /\ Len(u) <= ReplayMax
          /\ Len(u) \in Nat /\ Len(u) > 0 /\ u[Len(u)] = e
          /\ \A i \in 1..Len(u) : i # Len(u) => i + j \in 1..Len(b) /\ u[i] = b[i + j]
          /\ \A i \in 1..Len(b) : i > j => i - j \in 1..Len(u) /\ i - j # Len(u)
  <2>1. Len(b) <= ReplayMax
    BY <1>s DEF RingHolds
  <2> HIDE DEF b, u
  <2> QED
    BY <1>0, <1>1, <1>3, <2>1, Remembered
<1>6. Shapes'
  <2>1. \A s \in Subscribers : queue'[s] \in Seq(Item)
    BY <1>1, <1>4, Delivered DEF BusInv, Holds, QueueHolds
  <2>2. queue' \in [Subscribers -> Seq(Item)]
    BY <1>2, <2>1
  <2>3. buffer' \in [Channels -> Seq(Item)]
    BY <1>2, <1>3, <1>5, <1>s DEF Shapes
  <2>4. seq' \in [Channels -> Nat] /\ missed' \in SUBSET Dispatchers
    BY <1>0, <1>1, <1>2, <1>s DEF Shapes
  <2> QED
    BY <1>2, <1>s, <2>2, <2>3, <2>4 DEF Shapes
<1>7. /\ Len(b) <= n /\ Len(b) <= ReplayMax
      /\ \A i \in 1..Len(b) :
            IsEvent(b[i]) /\ b[i].channel = ch /\ b[i].seq \in Nat /\ b[i].seq + Len(b) = n + i
  <2>1. \A i \in 1..Len(b) : b[i].seq \in Nat
    BY <1>0, FrameFields
  <2> QED
    BY <1>s, <2>1 DEF RingHolds
<1> HIDE DEF u, b, n
<1>8. PICK l \in Nat : l = Len(b)
  BY <1>0
<1>9. PICK m \in Nat : m = Len(u)
  BY <1>5
<1>c. m = l + 1 - j /\ m > 0 /\ (j = 0 \/ j = 1) /\ j \in Nat /\ l <= n
  BY <1>5, <1>7, <1>8, <1>9
<1>10. ASSUME NEW i \in 1..m
       PROVE  IsEvent(u[i]) /\ u[i].channel = ch /\ u[i].seq \in Nat /\ u[i].seq + m = (n + 1) + i
  <2>1. CASE i = m
    <3>1. u[i] = e /\ e.seq = n + 1 /\ n + 1 \in Nat
      BY <1>0, <1>1, <1>5, <1>9, <2>1
    <3>2. (n + 1) + m = (n + 1) + i
      BY <2>1
    <3> QED
      BY <1>1, <3>1, <3>2, <2>1
  <2>2. CASE i # m
    <3>1. i + j \in 1..l /\ u[i] = b[i + j]
      BY <1>5, <1>8, <1>9, <2>2
    <3>2. /\ IsEvent(u[i]) /\ u[i].channel = ch /\ u[i].seq \in Nat
          /\ u[i].seq + l = n + (i + j)
      BY <1>7, <1>8, <3>1
    <3>3. PICK y \in Nat : y = u[i].seq
      BY <3>2
    <3>4. y + l = n + (i + j) /\ i \in Nat
      BY <3>2, <3>3
    <3>5. y + m = (n + 1) + i
      BY <1>0, <1>c, <3>4
    <3> QED
      BY <3>2, <3>3, <3>5
  <2> QED
    BY <2>1, <2>2
<1>11. ASSUME NEW x \in Channels PROVE RingHolds(x)'
  <2>1. CASE x = ch
    <3>1. Len(u) <= ReplayMax /\ Len(u) <= n + 1 /\ Len(u) > 0
      BY <1>0, <1>5, <1>9, <1>c
    <3>2. \A i \in 1..Len(u) : IsEvent(u[i]) /\ u[i].channel = ch /\ u[i].seq + Len(u) = (n + 1) + i
      BY <1>9, <1>10
    <3>3. u = buffer'[x] /\ seq'[x] = n + 1
      BY <1>3, <2>1 DEF u
    <3> QED
      BY <2>1, <3>1, <3>2, <3>3 DEF RingHolds
  <2>2. CASE x # ch
    BY <1>3, <1>s, <2>2 DEF RingHolds
  <2> QED
    BY <2>1, <2>2
<1>12. ASSUME b # <<>>
       PROVE  u # <<>> /\ b[1].seq \in Nat /\ u[1].seq \in Nat /\ b[1].seq <= u[1].seq
  <2>1. 1 \in 1..l /\ 1 \in 1..m
    BY <1>0, <1>8, <1>12, <1>c
  <2>2. b[1].seq \in Nat /\ b[1].seq + l = n + 1
    BY <1>7, <1>8, <2>1
  <2>3. u[1].seq \in Nat /\ u[1].seq + m = (n + 1) + 1
    BY <1>10, <2>1
  <2>4. PICK y \in Nat : y = b[1].seq
    BY <2>2
  <2>5. PICK z \in Nat : z = u[1].seq
    BY <2>3
  <2>6. y + l = n + 1 /\ z + m = (n + 1) + 1
    BY <2>2, <2>3, <2>4, <2>5
  <2>7. y <= z
    BY <1>0, <1>c, <2>6
  <2>8. u # <<>>
    <3>1. Len(u) # 0
      BY <1>5
    <3> QED
      BY <3>1, Emptied
  <2> QED
    BY <2>2, <2>3, <2>4, <2>5, <2>7, <2>8
<1>13. \A x \in Channels : seq[x] \in Nat /\ seq[x] <= seq'[x]
  <2>1. \A x \in Channels : seq[x] \in Nat
    BY <1>s DEF Shapes
  <2> QED
    BY <1>3, <2>1 DEF n
<1>14. Published(ch, e)
  BY <1>0, <1>1, <1>2, <1>3, <1>4, <1>5, <1>12, <1>13 DEF Published, n, u, b
<1> QED
  BY <1>1, <1>6, <1>11, <1>14

LEMMA PublishClient ==
    ASSUME BusInv, NEW ch \in Channels, NEW e \in Item, Published(ch, e), NEW c \in Clients
    PROVE  Holds(c)'
<1> DEFINE x == Watches[c]
<1>0. /\ c \in Subscribers /\ c \notin Dispatchers /\ x \in Channels
      /\ QueueHolds(c) /\ ReplayHolds(c) /\ queue[c] \in Seq(Item) /\ replay[c] \in Seq(Item)
      /\ at[c][x] \in Nat /\ cursor[c] \in Nat \cup {NoCursor}
      /\ restarts = 0 => ClientFlows(c) /\ (c \in Widgets => WidgetHas(c))
  BY ClientParts
<1>a. at[c] \in [Channels -> Nat]
  BY <1>0 DEF BusInv, Shapes
<1>1. /\ IsEvent(e) /\ e.channel = ch /\ e.seq = seq[ch] + 1 /\ seq'[ch] = seq[ch] + 1
      /\ \A y \in Channels \ {ch} : seq'[y] = seq[y] /\ buffer'[y] = buffer[y]
      /\ \A y \in Channels : seq[y] \in Nat /\ seq'[y] \in Nat /\ seq[y] <= seq'[y]
      /\ Listens(c, ch) => queue'[c] = Deliver(queue[c], e)
      /\ ~Listens(c, ch) => queue'[c] = queue[c]
      /\ UNCHANGED <<phase, replay, replayed, cursor, at, have, base, restarts>>
      /\ buffer[ch] # <<>> =>
            /\ buffer'[ch] # <<>> /\ buffer[ch][1].seq \in Nat /\ buffer'[ch][1].seq \in Nat
            /\ buffer[ch][1].seq <= buffer'[ch][1].seq
  <2>1. \A y \in Channels : seq'[y] \in Nat
    BY DEF Published
  <2> QED
    BY <1>0, <2>1 DEF Published
<1>l. Listens(c, ch) <=> phase[c] = "on" /\ x = ch
  BY <1>0 DEF Listens, ReplayHolds
<1>2. UNCHANGED <<Gap(c), Skips(c), Floor(c), Reached(c, x)>>
  BY <1>1 DEF Gap, Skips, Floor, Reached
<1>3. QueueHolds(c)' /\ ReplayHolds(c)'
  <2>1. CASE Listens(c, ch)
    <3>1. /\ QueueHolds(c)'
          /\ \A i \in 1..Len(queue'[c]) : \/ i \in 1..Len(queue[c]) /\ queue'[c][i] = queue[c][i]
                                          \/ queue'[c][i].channel = ch
      BY <1>0, <1>1, <1>l, <2>1, DeliverHolds
    <3>2. \A i \in 1..Len(queue'[c]) :
              queue'[c][i].kind # Shutdown => queue'[c][i].channel = x
      BY <1>0, <1>l, <2>1, <3>1 DEF ReplayHolds
    <3> QED
      BY <1>0, <1>1, <1>2, <3>1, <3>2 DEF ReplayHolds
  <2>2. CASE ~Listens(c, ch)
    BY <1>0, <1>1, <1>2, <2>2 DEF QueueHolds, ReplayHolds
  <2> QED
    BY <2>1, <2>2
<1>4. c \in Widgets /\ restarts = 0 => WidgetHas(c)'
  BY <1>0, <1>1 DEF WidgetHas
<1>5. ASSUME restarts = 0 PROVE ClientFlows(c)'
  <2>0. /\ \A y \in Channels : at[c][y] <= seq[y]
        /\ CursorFlows(c, x)
        /\ phase[c] = "on" => ReplayFlows(c, x) /\ QueueFlows(c, x)
    BY <1>0, <1>5 DEF ClientFlows
  <2>1. \A y \in Channels : at'[c][y] <= seq'[y]
    <3>1. \A y \in Channels : at[c][y] \in Nat
      BY <1>a
    <3> QED
      BY <1>1, <2>0, <3>1
  <2>2. buffer[x] # <<>> =>
            /\ buffer'[x] # <<>>
            /\ \A n \in Nat : /\ buffer[x][1].seq > n => buffer'[x][1].seq > n
                              /\ n <= buffer[x][1].seq => n <= buffer'[x][1].seq
    <3>1. CASE x = ch
      BY <1>1, <3>1
    <3>2. CASE x # ch
      BY <1>0, <1>1, <3>2
    <3> QED
      BY <3>1, <3>2
  <2>3. CursorFlows(c, x)'
    <3>1. CASE cursor[c] = NoCursor \/ cursor[c] = at[c][x]
      BY <1>1, <3>1 DEF CursorFlows
    <3>2. CASE cursor[c] # NoCursor /\ cursor[c] # at[c][x]
      <4>1. /\ cursor[c] \in Nat /\ cursor[c] + 1 \in Nat /\ cursor[c] < at[c][x]
            /\ buffer[x] # <<>> /\ buffer[x][1].seq > cursor[c] + 1
            /\ at[c][x] < buffer[x][1].seq
        BY <1>0, <2>0, <3>2 DEF CursorFlows, NeedsSentinel
      <4>2. buffer[x][1].seq > at[c][x]
        BY <4>1
      <4>3. /\ buffer'[x] # <<>> /\ buffer'[x][1].seq > cursor[c] + 1
            /\ buffer'[x][1].seq > at[c][x]
        BY <1>0, <2>2, <4>1, <4>2
      <4>4. at[c][x] < buffer'[x][1].seq
        BY <4>3
      <4> QED
        BY <1>1, <4>1, <4>3, <4>4 DEF CursorFlows, NeedsSentinel
    <3> QED
      BY <3>1, <3>2
  <2>4. ASSUME phase[c] = "on" PROVE ReplayFlows(c, x)' /\ QueueFlows(c, x)'
    <3>1. ReplayFlows(c, x) /\ QueueFlows(c, x)
      BY <2>0, <2>4
    <3>2. Reached(c, x) \in Nat /\ (Gap(c) => replay[c][2].seq \in Nat)
      <4>1. CASE Gap(c)
        <5>1. /\ Len(replay[c]) > 1 /\ Len(replay[c]) \in Nat /\ 2 \in 1..Len(replay[c])
          BY <1>0, <4>1 DEF ReplayHolds
        <5>2. replay[c][2].seq > 0 /\ replay[c][2].seq \in Nat
          <6>1. Skips(c) = 1 /\ replay[c][2] \in Item
            BY <1>0, <4>1, <5>1 DEF Skips
          <6> QED
            BY <1>0, <5>1, <6>1, FrameFields DEF ReplayHolds
        <5>3. PICK y \in Nat : y = replay[c][2].seq
          BY <5>2
        <5>4. PICK l \in Nat : l = Len(replay[c])
          BY <5>1
        <5>5. Reached(c, x) = (y - 1) + l - 1 /\ l > 1 /\ y > 0
          BY <1>0, <4>1, <5>1, <5>2, <5>3, <5>4 DEF Reached, Floor, Skips
        <5>6. (y - 1) + l - 1 \in Nat
          BY <5>5
        <5> QED
          BY <5>2, <5>5, <5>6
      <4>2. CASE ~Gap(c)
        <5>1. PICK l \in Nat : l = Len(replay[c])
          BY <1>0
        <5>2. Reached(c, x) = at[c][x] + l - 0
          BY <1>0, <4>2, <5>1 DEF Reached, Floor, Skips
        <5> QED
          BY <1>0, <4>2, <5>1, <5>2
      <4> QED
        BY <4>1, <4>2
    <3>3. Reached(c, x) <= seq[x] /\ Reached(c, x)' <= seq'[x]
      BY <1>0, <1>1, <1>2, <3>1, <3>2 DEF ReplayFlows
    <3>4. ReplayFlows(c, x)'
      <4>1. Gap(c) => /\ buffer'[x] # <<>> /\ replay[c][2].seq <= buffer'[x][1].seq
        BY <2>2, <3>1, <3>2 DEF ReplayFlows
      <4> QED
        BY <1>1, <1>2, <3>1, <3>3, <4>1 DEF ReplayFlows
    <3>5. QueueFlows(c, x)'
      <4>1. CASE x = ch
        <5>1. queue'[c] = Deliver(queue[c], e) /\ phase'[c] = "on"
          BY <1>1, <1>l, <2>4, <4>1
        <5>2. Reached(c, x)' = Reached(c, x) /\ phase'[c] \notin {"off", "backoff"}
          BY <1>2, <5>1
        <5> DEFINE lo == Reached(c, x)
        <5>3. lo \in Nat /\ Reached(c, x)' = lo /\ Reached(c, x) = lo /\ lo <= seq[x]
          BY <3>2, <3>3, <5>2
        <5> HIDE DEF lo
        <5> QED
          BY <1>0, <1>1, <3>1, <5>1, <5>2, <5>3, DeliverFlows
      <4>2. CASE x # ch
        <5>1. queue'[c] = queue[c] /\ seq'[x] = seq[x] /\ Reached(c, x)' = Reached(c, x)
          BY <1>0, <1>1, <1>2, <1>l, <4>2
        <5> HIDE DEF x
        <5> QED
          BY <3>1, <5>1 DEF QueueFlows, Overflown, Runs
      <4> QED
        BY <4>1, <4>2
    <3> QED
      BY <3>4, <3>5
  <2> QED
    BY <1>1, <2>1, <2>3, <2>4 DEF ClientFlows
<1> QED
  BY <1>0, <1>1, <1>3, <1>4, <1>5 DEF Holds

(* The ring still has what made a context right.                           *)
LEMMA OpensKept ==
    ASSUME Shapes, Shapes', NEW ch \in Channels, NEW e \in Item, Published(ch, e),
           NEW d \in Dispatchers, at[d][ch] \in Nat, at[d][ch] <= seq[ch], Opens(d, ch)
    PROVE  Opens(d, ch)'
<1> DEFINE a == at[d][ch]
           b == buffer[ch]
           u == buffer'[ch]
           live == {i \in DOMAIN b : b[i].seq <= a /\ b[i].kind \notin Durable}
           kept == {i \in DOMAIN u : u[i].seq <= a /\ u[i].kind \notin Durable}
<1>1. PICK j \in 0..1 :
          /\ Len(u) \in Nat /\ Len(b) \in Nat /\ u[Len(u)] = e
          /\ \A i \in 1..Len(u) : i # Len(u) => i + j \in 1..Len(b) /\ u[i] = b[i + j]
          /\ \A i \in 1..Len(b) : i > j => i - j \in 1..Len(u) /\ i - j # Len(u)
  BY DEF Published
<1>2. e.seq = seq[ch] + 1 /\ seq[ch] \in Nat /\ at' = at
  BY DEF Published
<1>3. DOMAIN b = 1..Len(b) /\ DOMAIN u = 1..Len(u)
  BY DEF Shapes
<1>4. \A x \in live : b[x].kind = Closing => \E y \in live : x < y /\ b[y].kind # Closing
  BY DEF Opens
<1>5. SUFFICES ASSUME NEW i \in kept, u[i].kind = Closing
               PROVE  \E y \in kept : i < y /\ u[y].kind # Closing
  BY <1>2 DEF Opens
<1> HIDE DEF b, u
<1>6. i \in 1..Len(u) /\ i # Len(u) /\ i \in Nat
  <2>1. u[i].seq # seq[ch] + 1
    <3>1. u[i].seq <= a
      OBVIOUS
    <3>2. ~(seq[ch] + 1 <= a)
      BY <1>2
    <3> QED
      BY <3>1, <3>2
  <2>2. i \in 1..Len(u)
    BY <1>3
  <2>3. u[Len(u)].seq = seq[ch] + 1
    BY <1>1, <1>2
  <2> QED
    BY <2>1, <2>2, <2>3
<1>7. i + j \in live /\ u[i] = b[i + j]
  BY <1>1, <1>3, <1>6
<1>8. PICK y \in live : i + j < y /\ b[y].kind # Closing
  BY <1>4, <1>5, <1>7
<1>9. y \in 1..Len(b) /\ y > j /\ y - j > i /\ y \in Nat
  <2>1. y \in 1..Len(b) /\ y \in Nat
    BY <1>3
  <2>2. j \in Nat /\ i + j < y /\ i \in Nat
    BY <1>1, <1>6, <1>8
  <2>3. y > j /\ y - j > i
    BY <2>1, <2>2
  <2> QED
    BY <2>1, <2>3
<1>10. y - j \in 1..Len(u) /\ u[y - j] = b[y]
  <2>1. y - j \in 1..Len(u) /\ y - j # Len(u)
    BY <1>1, <1>9
  <2>2. u[y - j] = b[(y - j) + j]
    BY <1>1, <2>1
  <2>3. (y - j) + j = y
    BY <1>9
  <2> QED
    BY <2>1, <2>2, <2>3
<1>11. y - j \in kept
  BY <1>3, <1>10
<1> HIDE DEF kept
<1> QED
  BY <1>8, <1>9, <1>10, <1>11

(* What is queued is what the ring has, the new event too.                 *)
LEMMA AgreesKept ==
    ASSUME Shapes, Shapes', NEW ch \in Channels, RingHolds(ch), NEW e \in Item, Published(ch, e),
           NEW d \in Dispatchers, d \in Subscribers, Agrees(d, ch), NEW lo,
           Runs(queue[d], ch, lo, seq[ch]), queue'[d] = Append(queue[d], e)
    PROVE  Agrees(d, ch)'
<1> DEFINE q == queue[d]
           b == buffer[ch]
           u == buffer'[ch]
<1>1. PICK j \in 0..1 :
          /\ Len(u) \in Nat /\ Len(b) \in Nat /\ u[Len(u)] = e
          /\ \A i \in 1..Len(u) : i # Len(u) => i + j \in 1..Len(b) /\ u[i] = b[i + j]
  BY DEF Published
<1>2. e.seq = seq[ch] + 1 /\ seq[ch] \in Nat
  BY DEF Published
<1>3. DOMAIN b = 1..Len(b) /\ DOMAIN u = 1..Len(u) /\ q \in Seq(Item) /\ b \in Seq(Item)
  BY DEF Shapes
<1>4. SUFFICES ASSUME NEW i \in DOMAIN queue'[d], NEW m \in DOMAIN u, IsEvent(queue'[d][i]),
                      queue'[d][i].channel = ch, queue'[d][i].seq = u[m].seq
               PROVE  queue'[d][i].kind = u[m].kind
  BY DEF Agrees
<1>5. (i \in DOMAIN q /\ queue'[d][i] = q[i]) \/ queue'[d][i] = e
  BY <1>3, Appended
<1>6. u[m] = e \/ \E y \in 1..Len(b) : u[m] = b[y]
  BY <1>1, <1>3
<1>7. \A y \in 1..Len(b) : b[y].seq # seq[ch] + 1
  <2>1. ASSUME NEW y \in 1..Len(b) PROVE b[y].seq # seq[ch] + 1
    <3>1. b[y].seq \in Nat /\ b[y].seq + Len(b) = seq[ch] + y
      BY <1>3, FrameFields DEF RingHolds
    <3>2. PICK l \in Nat : l = Len(b)
      BY <1>1
    <3>3. PICK z \in Nat : z = b[y].seq
      BY <3>1
    <3>4. z + l = seq[ch] + y /\ y \in Nat /\ y <= l
      BY <3>1, <3>2, <3>3
    <3>5. z # seq[ch] + 1
      BY <1>2, <3>4
    <3> QED
      BY <3>3, <3>5
  <2> QED
    BY <2>1
<1> HIDE DEF q, b, u
<1>8. ASSUME i \in DOMAIN q, queue'[d][i] = q[i] PROVE q[i].seq # seq[ch] + 1
  <2>1. q[i].seq <= seq[ch] /\ q[i].seq \in Nat
    <3>1. IsEvent(q[i]) /\ q[i].channel = ch /\ q[i] \in Item
      BY <1>3, <1>4, <1>8
    <3>2. \A x \in DOMAIN q : q[x].channel = ch /\ IsEvent(q[x]) => q[x].seq <= seq[ch]
      BY DEF Runs, q
    <3> QED
      BY <1>8, <3>1, <3>2, FrameFields
  <2> QED
    BY <1>2, <2>1
<1>9. CASE queue'[d][i] = e /\ u[m] = e
  BY <1>9
<1>10. CASE queue'[d][i] = e /\ u[m] # e
  BY <1>2, <1>4, <1>6, <1>7, <1>10
<1>11. CASE queue'[d][i] # e /\ u[m] = e
  BY <1>2, <1>4, <1>5, <1>8, <1>11
<1>12. CASE queue'[d][i] # e /\ u[m] # e
  <2>1. PICK y \in 1..Len(b) : u[m] = b[y]
    BY <1>6, <1>12
  <2>2. i \in DOMAIN q /\ queue'[d][i] = q[i]
    BY <1>5, <1>12
  <2> QED
    BY <1>3, <1>4, <2>1, <2>2 DEF Agrees, q, b
<1> QED
  BY <1>9, <1>10, <1>11, <1>12

LEMMA PublishDispatcher ==
    ASSUME BusInv, Shapes', NEW ch \in Channels, NEW e \in Item, Published(ch, e),
           NEW d \in Dispatchers
    PROVE  Holds(d)'
<1>0. /\ d \in Subscribers /\ d \notin Clients
      /\ QueueHolds(d) /\ DispatcherFlows(d) /\ DispatcherHolds(d)
      /\ queue[d] \in Seq(Item) /\ phase[d] \in Phase /\ at[d] \in [Channels -> Nat]
  BY DispatcherParts
<1>s. Shapes /\ \A y \in Channels : RingHolds(y)
  BY DEF BusInv
<1>1. /\ IsEvent(e) /\ e.channel = ch /\ e.seq = seq[ch] + 1 /\ seq'[ch] = seq[ch] + 1
      /\ \A y \in Channels \ {ch} : seq'[y] = seq[y] /\ buffer'[y] = buffer[y]
      /\ \A y \in Channels : seq[y] \in Nat /\ seq'[y] \in Nat /\ seq[y] <= seq'[y]
      /\ Listens(d, ch) => queue'[d] = Deliver(queue[d], e)
      /\ ~Listens(d, ch) => queue'[d] = queue[d]
      /\ missed' = missed \cup {y \in Dispatchers : Loses(y, ch)}
      /\ UNCHANGED <<phase, contexts, leaked, at, restarts>>
  <2>1. \A y \in Channels : seq'[y] \in Nat
    BY DEF Published
  <2> QED
    BY <1>0, <2>1 DEF Published
<1>2. \A y \in Channels : at[d][y] \in Nat /\ at[d][y] <= seq[y] /\ at'[d][y] <= seq'[y]
  <2>1. \A y \in Channels : at[d][y] \in Nat /\ at[d][y] <= seq[y]
    BY <1>0 DEF DispatcherFlows
  <2> QED
    BY <1>1, <2>1
<1>l. Listens(d, ch) <=> phase[d] \in {"on", "lapsed"}
  BY DEF Listens
<1>3. CASE phase[d] \in {"off", "backoff"}
  <2>1. queue'[d] = <<>>
    BY <1>0, <1>1, <1>3, <1>l DEF QueueHolds
  <2>2. d \notin missed' => d \notin missed /\ phase[d] # "backoff"
    BY <1>1 DEF Loses
  <2>3. phase[d] = "off" => contexts[d] = {}
    BY <1>0 DEF DispatcherHolds
  <2>4. seq' \in [Channels -> Nat]
    BY DEF Shapes
  <2> QED
    BY <1>1, <1>2, <1>3, <2>1, <2>2, <2>3, <2>4, EmptyHolds
<1>4. CASE phase[d] \in {"on", "lapsed"}
  <2>1. queue'[d] = Deliver(queue[d], e) /\ phase'[d] \notin {"off", "backoff"}
    BY <1>1, <1>4, <1>l
  <2>2. /\ QueueHolds(d)'
        /\ Len(queue[d]) # QueueMax =>
              (Overflown(d)' <=> Overflown(d)) /\ queue'[d] = Append(queue[d], e)
    BY <1>0, <1>1, <2>1, DeliverHolds
  <2>3. DispatcherFlows(d)'
    <3>1. ASSUME phase[d] = "on", NEW y \in Channels PROVE QueueFlows(d, y)'
      <4>1. QueueFlows(d, y)
        BY <1>0, <3>1 DEF DispatcherFlows
      <4> DEFINE lo == at[d][y]
      <4>2. Reached(d, y) = lo /\ Reached(d, y)' = lo
        BY <1>0, <1>1 DEF Reached
      <4>3. lo \in Nat /\ lo <= seq[y] /\ seq[y] \in Nat
        BY <1>1, <1>2
      <4> HIDE DEF lo
      <4> QED
        BY <1>0, <1>1, <2>1, <4>1, <4>2, <4>3, DeliverFlows
    <3> QED
      BY <1>1, <1>2, <3>1 DEF DispatcherFlows
  <2>4. ASSUME d \notin missed'
        PROVE  /\ phase[d] = "on" /\ ~Overflown(d)'
               /\ \A y \in Channels : Agrees(d, y)' /\ (y \in contexts[d] \ leaked[d] => Opens(d, y)')
    <3>1. d \notin missed /\ ~Loses(d, ch)
      BY <1>1, <2>4
    <3>2. Len(queue[d]) # QueueMax
      BY <1>4, <1>l, <3>1 DEF Loses
    <3>3. /\ phase[d] = "on" /\ ~Overflown(d)
          /\ \A y \in Channels : Agrees(d, y) /\ (y \in contexts[d] \ leaked[d] => Opens(d, y))
      BY <1>0, <1>4, <3>1 DEF DispatcherHolds
    <3>4. queue'[d] = Append(queue[d], e) /\ ~Overflown(d)'
      BY <2>2, <3>2, <3>3
    <3>5. Agrees(d, ch)' /\ (ch \in contexts[d] \ leaked[d] => Opens(d, ch)')
      <4>1. Runs(queue[d], ch, Reached(d, ch), seq[ch])
        BY <1>0, <3>3 DEF DispatcherFlows, QueueFlows
      <4>2. Agrees(d, ch)'
        BY <1>0, <1>s, <3>3, <3>4, <4>1, AgreesKept
      <4>3. ch \in contexts[d] \ leaked[d] => Opens(d, ch)'
        BY <1>2, <1>s, <3>3, OpensKept
      <4> QED
        BY <4>2, <4>3
    <3>6. ASSUME NEW y \in Channels \ {ch}
          PROVE  Agrees(d, y)' /\ (y \in contexts[d] \ leaked[d] => Opens(d, y)')
      <4>1. buffer'[y] = buffer[y] /\ y \in Channels
        BY <1>1
      <4>2. Agrees(d, y)'
        <5>1. \A i \in DOMAIN queue'[d] : \/ i \in DOMAIN queue[d] /\ queue'[d][i] = queue[d][i]
                                          \/ queue'[d][i].channel = ch
          BY <1>0, <1>1, <3>4, Appended
        <5> QED
          BY <3>3, <3>6, <4>1, <5>1 DEF Agrees
      <4>3. y \in contexts[d] \ leaked[d] => Opens(d, y)'
        BY <1>1, <3>3, <4>1 DEF Opens
      <4> QED
        BY <4>2, <4>3
    <3> QED
      BY <3>3, <3>4, <3>5, <3>6
  <2>5. DispatcherHolds(d)'
    BY <1>1, <1>4, <2>4 DEF DispatcherHolds
  <2> QED
    BY <1>0, <2>2, <2>3, <2>5 DEF Holds
<1> QED
  BY <1>0, <1>3, <1>4 DEF Phase

LEMMA PublishStep ==
    ASSUME BusInv, NEW ch \in Channels, NEW k \in Kinds, Publish(ch, k)
    PROVE  BusInv'
<1>1. Shapes' /\ \A x \in Channels : RingHolds(x)'
  BY PublishRing
<1>2. PICK e \in Item : Published(ch, e)
  BY PublishRing
<1>3. ASSUME NEW s \in Subscribers PROVE Holds(s)'
  BY <1>1, <1>2, PublishClient, PublishDispatcher, BusParts
<1> QED
  BY <1>1, <1>3 DEF BusInv

---------------------------------------------------------------------------
(* The process.                                                            *)

(* A shutdown frame comes in behind what is queued.                        *)
LEMMA SignalHolds ==
    ASSUME BusInv, NEW s \in Subscribers, NEW f \in Item, f.kind = Shutdown,
           phase[s] \in {"on", "lapsed"}, Len(queue[s]) < QueueMax,
           queue'[s] = Append(queue[s], f),
           UNCHANGED <<seq, buffer, phase, replay, replayed, cursor, contexts, leaked, at, have,
                       base, missed, restarts>>
    PROVE  Holds(s)'
<1> DEFINE q == queue[s]
           u == queue'[s]
<1>0. Holds(s) /\ QueueHolds(s) /\ q \in Seq(Item) /\ Len(q) \in Nat
  BY DEF BusInv, Shapes, Holds
<1>1. /\ u # <<>> /\ Len(u) = Len(q) + 1 /\ u[Len(q) + 1] = f
      /\ \A i \in 1..Len(q) : u[i] = q[i]
      /\ DOMAIN u = 1..Len(u) /\ DOMAIN q = 1..Len(q)
  BY <1>0, Appended
<1>2. (q = <<>> => Head(u) = f) /\ (q # <<>> => Head(u) = Head(q))
  BY <1>0
<1>3. ~IsEvent(f) /\ f.kind # Lapsed
  BY BusParts DEF IsEvent
<1> HIDE DEF u, q
<1>4. \A i \in 1..Len(u) : (i \in 1..Len(q) /\ u[i] = q[i]) \/ u[i] = f
  BY <1>0, <1>1
<1>5. QueueHolds(s)'
  <2>1. Len(u) <= QueueMax
    BY <1>0, <1>1, BusParts DEF q
  <2>2. \A i \in 1..Len(u) : u[i].kind = Lapsed => i = 1
    BY <1>0, <1>3, <1>4 DEF QueueHolds, q
  <2> QED
    BY <2>1, <2>2 DEF QueueHolds, u
<1>6. /\ Overflown(s)' <=> Overflown(s)
      /\ Overflown(s) => Head(queue'[s]) = Head(queue[s])
  BY <1>1, <1>2, <1>3 DEF Overflown, u, q
<1>7. UNCHANGED <<Gap(s), Skips(s), Floor(s)>> /\ \A x : Reached(s, x)' = Reached(s, x)
  BY DEF Gap, Skips, Floor, Reached
<1>8. \A x \in Channels : QueueFlows(s, x) => QueueFlows(s, x)'
  <2>1. ASSUME NEW x \in Channels, QueueFlows(s, x) PROVE QueueFlows(s, x)'
    <3>1. ~Overflown(s) => Runs(u, x, Reached(s, x), seq[x])
      BY <1>0, <1>3, <2>1, RunsBy DEF QueueFlows, u, q
    <3> QED
      BY <1>6, <1>7, <2>1, <3>1 DEF QueueFlows, u
  <2> QED
    BY <2>1
<1>9. ASSUME s \in Clients
      PROVE  ReplayHolds(s)' /\ (restarts = 0 => ClientFlows(s)' /\ (s \in Widgets => WidgetHas(s)'))
  <2>1. ReplayHolds(s) /\ (restarts = 0 => ClientFlows(s) /\ (s \in Widgets => WidgetHas(s)))
    BY <1>0, <1>9 DEF Holds
  <2>2. ReplayHolds(s)'
    <3>1. \A i \in 1..Len(u) : u[i].kind # Shutdown => u[i].channel = Watches[s]
      BY <1>4, <2>1 DEF ReplayHolds, q
    <3> QED
      BY <1>7, <2>1, <3>1 DEF ReplayHolds, u
  <2>3. ReplayFlows(s, Watches[s]) => ReplayFlows(s, Watches[s])'
    BY <1>7 DEF ReplayFlows
  <2>4. restarts = 0 => ClientFlows(s)'
    BY <1>8, <1>9, <2>1, <2>3, BusParts DEF ClientFlows, CursorFlows, NeedsSentinel
  <2>5. restarts = 0 /\ s \in Widgets => WidgetHas(s)'
    BY <2>1 DEF WidgetHas
  <2> QED
    BY <2>2, <2>4, <2>5
<1>10. ASSUME s \in Dispatchers PROVE DispatcherFlows(s)' /\ DispatcherHolds(s)'
  <2>1. DispatcherFlows(s) /\ DispatcherHolds(s)
    BY <1>0, <1>10 DEF Holds
  <2>2. DispatcherFlows(s)'
    BY <1>8, <2>1 DEF DispatcherFlows
  <2>3. \A x \in Channels : (Agrees(s, x) => Agrees(s, x)') /\ (Opens(s, x) => Opens(s, x)')
    <3>1. \A i \in DOMAIN u : (i \in DOMAIN q /\ u[i] = q[i]) \/ ~IsEvent(u[i])
      BY <1>1, <1>3, <1>4
    <3> QED
      BY <3>1 DEF Agrees, Opens, u, q
  <2> QED
    BY <1>6, <2>1, <2>2, <2>3 DEF DispatcherHolds
<1> QED
  BY <1>5, <1>9, <1>10 DEF Holds

LEMMA SignalStep ==
    ASSUME BusInv, SignalShutdown
    PROVE  BusInv'
<1> DEFINE ch == CHOOSE ch \in Channels : TRUE
           f == Frame(ch, 0, Shutdown)
           hears(s) == phase[s] \in {"on", "lapsed"} /\ Len(queue[s]) < QueueMax
<1>1. f \in Item /\ f.kind = Shutdown
  <2>1. ch \in Channels
    BY BusAssumption DEF BusAssumption
  <2> HIDE DEF ch
  <2> QED
    BY <2>1, Frames
<1>2. /\ stopping' = TRUE
      /\ queue' = [s \in Subscribers |-> IF hears(s) THEN Append(queue[s], f) ELSE queue[s]]
      /\ UNCHANGED <<seq, buffer, phase, replay, replayed, cursor, retired, contexts, leaked, at,
                     have, base, missed, restarts, breaks>>
  BY DEF SignalShutdown, client, cards, observed
<1>s. Shapes /\ \A x \in Channels : RingHolds(x)
  BY DEF BusInv
<1> HIDE DEF f
<1>3. Shapes'
  <2>1. \A s \in Subscribers : queue'[s] \in Seq(Item)
    BY <1>1, <1>2, <1>s, Appended DEF Shapes
  <2>2. queue' \in [Subscribers -> Seq(Item)]
    BY <1>2, <2>1
  <2> QED
    BY <1>2, <1>s, <2>2 DEF Shapes
<1>4. \A x \in Channels : RingHolds(x)'
  BY <1>2, <1>s DEF RingHolds
<1>5. ASSUME NEW s \in Subscribers PROVE Holds(s)'
  <2>1. CASE hears(s)
    BY <1>1, <1>2, <2>1, SignalHolds
  <2>2. CASE ~hears(s)
    <3>1. Holds(s) /\ queue'[s] = queue[s]
      BY <1>2, <2>2 DEF BusInv
    <3> QED
      BY <1>2, <3>1, HoldsStays
  <2> QED
    BY <2>1, <2>2
<1> QED
  BY <1>3, <1>4, <1>5 DEF BusInv

LEMMA ProcessStep ==
    ASSUME BusInv, NewProcess
    PROVE  BusInv'
<1>s. Shapes
  BY DEF BusInv
<1>1. restarts' = restarts + 1 /\ restarts' \in Nat /\ restarts' # 0
  BY <1>s DEF NewProcess, Shapes
<1>2. Shapes'
  BY <1>1, <1>s, Emptied DEF NewProcess, Shapes, Phase, client
<1>3. \A ch \in Channels : RingHolds(ch)'
  BY Emptied, BusParts DEF NewProcess, RingHolds
<1>4. ASSUME NEW s \in Subscribers PROVE Holds(s)'
  <2>1. phase'[s] = "off" /\ queue'[s] = <<>>
    BY DEF NewProcess
  <2>2. CASE s \in Clients
    <3>1. replay'[s] = <<>>
      BY <2>2 DEF NewProcess
    <3> QED
      BY <1>1, <2>1, <2>2, <3>1, OffHolds
  <2>3. CASE s \in Dispatchers
    <3>1. contexts'[s] = {} /\ seq' \in [Channels -> Nat]
      BY <2>3 DEF NewProcess
    <3>2. \A ch \in Channels : at'[s][ch] <= seq'[ch]
      BY DEF NewProcess
    <3> QED
      BY <2>1, <2>3, <3>1, <3>2, EmptyHolds
  <2> QED
    BY <2>2, <2>3, BusParts
<1> QED
  BY <1>2, <1>3, <1>4 DEF BusInv

LEMMA StepBus == BusInv /\ [BusNext]_busVars => BusInv'
<1> SUFFICES ASSUME BusInv, [BusNext]_busVars PROVE BusInv'
  OBVIOUS
<1>1. ASSUME NEW ch \in Channels, NEW k \in Kinds, Publish(ch, k) PROVE BusInv'
  BY <1>1, PublishStep
<1>2. ASSUME NEW c \in Clients, ClientStep(c) PROVE BusInv'
  BY <1>2, ConnectStep, ReadReplayStep, ReadLiveStep DEF ClientStep
<1>3. ASSUME NEW c \in Clients, Disconnect(c) \/ EndStream(c) PROVE BusInv'
  BY <1>3, ClientStays
<1>4. ASSUME NEW d \in Dispatchers, StartDispatcher(d) \/ Resubscribe(d) PROVE BusInv'
  BY <1>4, SubscribeStep
<1>5. ASSUME NEW d \in Dispatchers, NEW target \in BOOLEAN, DispatchNext(d, target) PROVE BusInv'
  BY <1>5, DispatchStep
<1>6. ASSUME NEW d \in Dispatchers, DispatchRaises(d) PROVE BusInv'
  BY <1>6, RaisesStep
<1>7. ASSUME NEW d \in Dispatchers, StopDispatcher(d) PROVE BusInv'
  BY <1>7, StopStep
<1>8. CASE SignalShutdown
  BY <1>8, SignalStep
<1>9. CASE NewProcess
  BY <1>9, ProcessStep
<1>10. CASE UNCHANGED busVars
  <2>1. /\ UNCHANGED <<seq, buffer, stopping, phase, queue, replay, replayed, cursor,
                       retired, contexts, leaked, at, have, base, missed, restarts, breaks>>
    BY <1>10 DEF busVars, server, streams, client, cards, observed
  <2>2. Shapes' /\ \A x \in Channels : RingHolds(x)'
    BY <2>1 DEF BusInv, Shapes, RingHolds
  <2>3. \A s \in Subscribers : Holds(s)'
    BY <2>1, HoldsStays DEF BusInv
  <2> QED
    BY <2>2, <2>3 DEF BusInv
<1> QED
  BY <1>1, <1>2, <1>3, <1>4, <1>5, <1>6, <1>7, <1>8, <1>9, <1>10 DEF BusNext

---------------------------------------------------------------------------
(* What the invariant shows.                                               *)

(* What is replayed and what is queued are one run.                        *)
LEMMA RunsJoin ==
    ASSUME NEW r \in Seq(Item), NEW q \in Seq(Item), NEW ch, NEW a \in Nat, NEW hi \in Nat,
           \A i \in 1..Len(r) : IsEvent(r[i]) /\ r[i].channel = ch /\ r[i].seq = a + i,
           Runs(q, ch, a + Len(r), hi)
    PROVE  Runs(r \o q, ch, a, hi)
<1> DEFINE u == r \o q
           own(s) == {i \in DOMAIN s : s[i].channel = ch /\ IsEvent(s[i])}
<1>1. PICK l \in Nat : l = Len(r)
  OBVIOUS
<1>2. /\ DOMAIN r = 1..l /\ DOMAIN u = 1..(l + Len(q)) /\ DOMAIN q = 1..Len(q) /\ Len(q) \in Nat
      /\ \A i \in 1..l : u[i] = r[i]
      /\ \A i \in 1..Len(q) : u[l + i] = q[i]
  BY <1>1
<1>3. /\ a + l <= hi /\ \A i \in own(q) : a + l < q[i].seq /\ q[i].seq <= hi
      /\ \A n \in (a + l + 1)..hi : \E i \in own(q) : q[i].seq = n
      /\ \A i, j \in own(q) : i < j => q[i].seq < q[j].seq
  BY <1>1 DEF Runs
<1>4. \A i \in own(q) : i \in 1..Len(q) /\ q[i].seq \in Nat
  BY <1>2, FrameFields
<1> HIDE DEF u
<1>5. /\ \A i \in 1..l : i \in own(u) /\ u[i].seq = a + i
      /\ \A i \in own(q) : l + i \in own(u) /\ u[l + i] = q[i]
  <2>1. \A i \in 1..l : i \in own(u) /\ u[i].seq = a + i
    BY <1>1, <1>2
  <2>2. \A i \in own(q) : l + i \in own(u) /\ u[l + i] = q[i]
    BY <1>2
  <2> QED
    BY <2>1, <2>2
<1>6. ASSUME NEW i \in own(u), i \notin 1..l PROVE i - l \in own(q) /\ u[i] = q[i - l] /\ i > l /\ i \in Nat
  <2>1. i - l \in 1..Len(q) /\ l + (i - l) = i /\ i > l /\ i \in Nat
    BY <1>2, <1>6
  <2>2. u[i] = q[i - l]
    BY <1>2, <2>1
  <2> QED
    BY <1>2, <2>1, <2>2
<1> HIDE DEF own
<1>7. ASSUME NEW i \in own(u) PROVE a < u[i].seq /\ u[i].seq <= hi
  <2>1. CASE i \in 1..l
    BY <1>3, <1>5, <2>1
  <2>2. CASE i \notin 1..l
    <3>1. /\ u[i].seq \in Nat /\ a + l < u[i].seq /\ u[i].seq <= hi
      BY <1>3, <1>4, <1>6, <2>2
    <3> QED
      BY <3>1
  <2> QED
    BY <2>1, <2>2
<1>8. ASSUME NEW n \in (a + 1)..hi PROVE \E i \in own(u) : u[i].seq = n
  <2>1. CASE n <= a + l
    <3>1. n - a \in 1..l /\ a + (n - a) = n
      BY <2>1
    <3> QED
      BY <1>5, <3>1
  <2>2. CASE n > a + l
    <3>1. n \in (a + l + 1)..hi
      BY <2>2
    <3>2. PICK i \in own(q) : q[i].seq = n
      BY <1>3, <3>1
    <3> QED
      BY <1>5, <3>2
  <2> QED
    BY <2>1, <2>2
<1>9. ASSUME NEW i \in own(u), NEW j \in own(u), i < j PROVE u[i].seq < u[j].seq
  <2>1. CASE i \in 1..l /\ j \in 1..l
    BY <1>5, <1>9, <2>1
  <2>2. CASE i \in 1..l /\ j \notin 1..l
    <3>1. u[i].seq = a + i /\ i <= l /\ i \in Nat
      BY <1>5, <2>2
    <3>2. u[j].seq \in Nat /\ a + l < u[j].seq
      BY <1>3, <1>4, <1>6, <2>2
    <3> QED
      BY <3>1, <3>2
  <2>3. CASE i \notin 1..l
    <3>1. i > l /\ i \in Nat /\ i - l \in own(q) /\ u[i] = q[i - l]
      BY <1>6, <2>3
    <3>2. j \notin 1..l
      BY <1>9, <3>1
    <3>3. j \in Nat /\ j - l \in own(q) /\ u[j] = q[j - l]
      BY <1>6, <3>2
    <3>4. i - l < j - l
      BY <1>9, <3>1, <3>3
    <3> QED
      BY <1>3, <3>1, <3>3, <3>4
  <2> QED
    BY <2>1, <2>2, <2>3
<1>10. a <= hi
  BY <1>3
<1> QED
  BY <1>7, <1>8, <1>9, <1>10 DEF Runs, own, u

(* All that a subscriber without a sentinel still has to take is one run.  *)
LEMMA AheadRuns ==
    ASSUME BusInv, NEW s \in Subscribers, NEW ch \in Channels, Listens(s, ch), phase[s] = "on",
           ~HasLapse(s), s \in Dispatchers \/ restarts = 0
    PROVE  Ahead(s) \in Seq(Item) /\ Runs(Ahead(s), ch, at[s][ch], seq[ch])
<1>1. CASE s \in Dispatchers
  <2>1. /\ s \notin Clients /\ DispatcherFlows(s) /\ queue[s] \in Seq(Item)
    BY <1>1, DispatcherParts
  <2>2. Ahead(s) = queue[s]
    BY <2>1 DEF Ahead
  <2>3. ~Overflown(s)
    BY <2>1, <2>2, Taken DEF HasLapse, Overflown
  <2>4. Reached(s, ch) = at[s][ch]
    BY <2>1 DEF Reached
  <2> QED
    BY <2>1, <2>2, <2>3, <2>4 DEF DispatcherFlows, QueueFlows
<1>2. CASE s \in Clients
  <2> DEFINE r == replay[s]
             q == queue[s]
             a == at[s][ch]
  <2>1. /\ s \notin Dispatchers /\ r \in Seq(Item) /\ q \in Seq(Item)
        /\ QueueHolds(s) /\ ReplayHolds(s) /\ ClientFlows(s)
        /\ seq[Watches[s]] \in Nat /\ at[s][Watches[s]] \in Nat
    BY <1>2, ClientParts
  <2>2. ch = Watches[s] /\ a \in Nat /\ seq[ch] \in Nat
    BY <2>1 DEF Listens
  <2>3. Ahead(s) = r \o q
    BY <1>2 DEF Ahead
  <2>4. /\ \A i \in 1..Len(r) : r[i].kind # Lapsed
        /\ q # <<>> => Head(q).kind # Lapsed
    <3>1. /\ \A i \in 1..Len(r) : i \in DOMAIN (r \o q) /\ (r \o q)[i] = r[i]
          /\ q # <<>> => Len(r) + 1 \in DOMAIN (r \o q) /\ (r \o q)[Len(r) + 1] = Head(q)
      <4> HIDE DEF r, q
      <4>1. \A i \in 1..Len(r) : i \in DOMAIN (r \o q) /\ (r \o q)[i] = r[i]
        BY <2>1
      <4>2. ASSUME q # <<>>
            PROVE  Len(r) + 1 \in DOMAIN (r \o q) /\ (r \o q)[Len(r) + 1] = Head(q)
        <5>1. Len(q) \in Nat /\ Len(q) > 0 /\ Head(q) = q[1]
          BY <2>1, <4>2, Taken
        <5>2. Len(r) \in Nat /\ DOMAIN (r \o q) = 1..(Len(r) + Len(q))
          BY <2>1
        <5>3. Len(r) + 1 \in 1..(Len(r) + Len(q))
          BY <5>1, <5>2
        <5>4. (r \o q)[Len(r) + 1] = q[1]
          BY <2>1, <5>1, <5>2, <5>3
        <5> QED
          BY <5>1, <5>2, <5>3, <5>4
      <4> QED
        BY <4>1, <4>2
    <3> QED
      BY <2>3, <3>1 DEF HasLapse
  <2>5. ~Gap(s) /\ ~Overflown(s)
    <3>1. r # <<>> => 1 \in 1..Len(r)
      BY <2>1
    <3> QED
      BY <2>4, <3>1 DEF Gap, Overflown
  <2>6. Skips(s) = 0 /\ Floor(s) = a /\ Reached(s, ch) = a + Len(r) - 0
    BY <1>2, <2>2, <2>5 DEF Skips, Floor, Reached
  <2>7. ReplayFlows(s, ch) /\ QueueFlows(s, ch)
    BY <2>1, <2>2 DEF ClientFlows
  <2>8. ASSUME NEW i \in 1..Len(r)
        PROVE  IsEvent(r[i]) /\ r[i].channel = ch /\ r[i].seq = a + i
    <3>1. IsEvent(r[i]) /\ r[i].channel = ch /\ r[i] \in Item /\ r[i].seq + 0 = a + i
      BY <2>1, <2>2, <2>6, <2>7 DEF ReplayHolds, ReplayFlows
    <3>2. r[i].seq \in Nat
      BY <3>1, FrameFields
    <3> QED
      BY <3>1, <3>2
  <2>9. Runs(q, ch, a + Len(r), seq[ch])
    <3>1. a + Len(r) - 0 = a + Len(r)
      BY <2>1, <2>2
    <3> QED
      BY <2>5, <2>6, <2>7, <3>1 DEF QueueFlows
  <2>10. Runs(r \o q, ch, a, seq[ch])
    BY <2>1, <2>2, <2>8, <2>9, RunsJoin
  <2>11. r \o q \in Seq(Item)
    BY <2>1
  <2> QED
    BY <2>3, <2>10, <2>11
<1> QED
  BY <1>1, <1>2, BusParts

LEMMA BusShows == BusInv => OverflowTold /\ ContextsFollowTurns
<1> SUFFICES ASSUME BusInv PROVE OverflowTold /\ ContextsFollowTurns
  OBVIOUS
<1>s. Shapes /\ (\A ch \in Channels : RingHolds(ch)) /\ (\A s \in Subscribers : QueueHolds(s))
  BY DEF BusInv, Holds
<1>1. BusTypeOK
  BY <1>s DEF BusTypeOK, Shapes, RingHolds, QueueHolds
<1>2. NoSilentDrop
  <2>1. SUFFICES ASSUME NEW s \in Subscribers, NEW ch \in Channels, Listens(s, ch),
                        phase[s] = "on", ~HasLapse(s), s \in Dispatchers \/ restarts = 0
                 PROVE  /\ {Ahead(s)[i].seq : i \in Due(s, ch)} = (at[s][ch] + 1)..seq[ch]
                        /\ \A i, j \in Due(s, ch) : i < j => Ahead(s)[i].seq < Ahead(s)[j].seq
    BY DEF NoSilentDrop
  <2> DEFINE q == Ahead(s)
             own == Due(s, ch)
  <2>2. q \in Seq(Item) /\ Runs(q, ch, at[s][ch], seq[ch])
    BY <2>1, AheadRuns
  <2>3. own = {i \in DOMAIN q : q[i].channel = ch /\ IsEvent(q[i])}
    BY DEF Due
  <2> HIDE DEF q, own
  <2>4. at[s][ch] \in Nat /\ seq[ch] \in Nat /\ \A i \in own : q[i].seq \in Nat
    BY <1>s, <2>2, <2>3, FrameFields DEF Shapes
  <2>5. /\ \A i \in own : at[s][ch] < q[i].seq /\ q[i].seq <= seq[ch]
        /\ \A n \in (at[s][ch] + 1)..seq[ch] : \E i \in own : q[i].seq = n
        /\ \A i, j \in own : i < j => q[i].seq < q[j].seq
    BY <2>2, <2>3 DEF Runs
  <2>6. {q[i].seq : i \in own} = (at[s][ch] + 1)..seq[ch]
    BY <2>4, <2>5
  <2> QED
    BY <2>5, <2>6 DEF q, own
<1>3. SentinelNext
  <2>1. \A s \in Subscribers : DOMAIN queue[s] = 1..Len(queue[s])
    BY <1>s DEF Shapes
  <2> QED
    BY <1>s, <2>1 DEF SentinelNext, QueueHolds
<1>4. WidgetsWhole
  <2>1. SUFFICES ASSUME restarts = 0, NEW c \in Widgets, phase[c] = "on", ~HasLapse(c),
                        NEW n \in (base[c] + 1)..seq[Watches[c]]
                 PROVE  n \in have[c] \/ \E i \in DOMAIN Ahead(c) : Ahead(c)[i].seq = n
    BY DEF WidgetsWhole, Whole
  <2> DEFINE ch == Watches[c]
             a == at[c][ch]
  <2>2. /\ c \in Clients /\ c \in Subscribers /\ ch \in Channels /\ WidgetHas(c)
        /\ a \in Nat /\ seq[ch] \in Nat /\ base[c] \in Nat
    BY <2>1, BusParts, ClientParts
  <2>3. CASE n <= a
    <3>1. n \in (base[c] + 1)..a
      BY <2>2, <2>3
    <3> QED
      BY <2>1, <2>2, <3>1 DEF WidgetHas
  <2>4. CASE n > a
    <3>1. Listens(c, ch)
      BY <2>1 DEF Listens
    <3>2. Runs(Ahead(c), ch, a, seq[ch])
      BY <2>1, <2>2, <3>1, AheadRuns
    <3>3. n \in (a + 1)..seq[ch]
      BY <2>2, <2>4
    <3> QED
      BY <3>2, <3>3 DEF Runs
  <2> QED
    BY <2>2, <2>3, <2>4
<1>5. ContextsFollowTurns
  <2>1. SUFFICES ASSUME NEW d \in Dispatchers, NEW ch \in Channels, d \notin missed,
                        ch \in contexts[d] \ leaked[d], at[d][ch] = seq[ch],
                        NEW i \in {m \in DOMAIN buffer[ch] : buffer[ch][m].kind \notin Durable},
                        \A j \in {m \in DOMAIN buffer[ch] : buffer[ch][m].kind \notin Durable} :
                            j <= i
                 PROVE  buffer[ch][i].kind # Closing
    BY DEF ContextsFollowTurns
  <2> DEFINE b == buffer[ch]
  <2>2. Opens(d, ch)
    BY <2>1, DispatcherParts DEF DispatcherHolds
  <2>3. /\ b \in Seq(Item) /\ DOMAIN b = 1..Len(b) /\ Len(b) \in Nat /\ seq[ch] \in Nat
        /\ \A m \in 1..Len(b) : b[m].seq \in Nat /\ b[m].seq + Len(b) = seq[ch] + m
    BY <1>s, FrameFields DEF Shapes, RingHolds
  <2> HIDE DEF b
  <2>4. b[i].seq <= seq[ch]
    <3>1. i \in 1..Len(b) /\ b[i].seq \in Nat /\ b[i].seq + Len(b) = seq[ch] + i
      BY <2>3 DEF b
    <3>2. PICK l \in Nat : l = Len(b)
      BY <2>3
    <3>3. PICK x \in Nat : x = b[i].seq
      BY <3>1
    <3>4. x + l = seq[ch] + i /\ i \in Nat /\ i <= l
      BY <3>1, <3>2, <3>3
    <3>5. x <= seq[ch]
      BY <2>3, <3>4
    <3> QED
      BY <3>3, <3>5
  <2>5. ASSUME b[i].kind = Closing PROVE FALSE
    <3>1. PICK j \in DOMAIN b : b[j].kind \notin Durable /\ i < j
      BY <2>1, <2>2, <2>4, <2>5 DEF Opens, b
    <3>2. j <= i /\ i \in Nat /\ j \in Nat
      BY <2>1, <2>3, <3>1 DEF b
    <3> QED
      BY <3>1, <3>2
  <2> QED
    BY <2>5 DEF b
<1> QED
  BY <1>1, <1>2, <1>3, <1>4, <1>5 DEF OverflowTold

(* A step never takes anybody back.                                        *)
LEMMA ReadReplayOn ==
    ASSUME BusInv, NEW c \in Clients, ReadReplay(c), restarts = 0
    PROVE  at[c][Watches[c]] <= at'[c][Watches[c]]
<1> DEFINE ch == Watches[c]
           r == replay[c]
           a == at[c][ch]
<1>0. /\ c \in Subscribers /\ ch \in Channels /\ r \in Seq(Item) /\ r # <<>> /\ phase[c] = "on"
      /\ a \in Nat /\ ReplayHolds(c) /\ ReplayFlows(c, ch)
  <2>1. r # <<>> /\ phase[c] = "on"
    BY DEF ReadReplay
  <2> QED
    BY <2>1, ClientParts DEF ClientFlows
<1>1. Head(r) = r[1] /\ Head(r) \in Item /\ Head(r).seq \in Nat /\ 1 \in 1..Len(r)
  <2>1. Head(r) = r[1] /\ Head(r) \in Item /\ Len(r) \in Nat /\ Len(r) > 0
    BY <1>0, Taken
  <2> QED
    BY <2>1, FrameFields
<1>2. at'[c][ch] = IF Gap(c) THEN r[2].seq - 1 ELSE Head(r).seq
  <2>1. Gap(c) <=> Head(r).kind = Lapsed
    BY <1>0, <1>1 DEF Gap
  <2> QED
    BY <1>0, <2>1 DEF ReadReplay, Receive, BusInv, Shapes
<1>3. CASE Gap(c)
  <2>1. r[2] \in Item
    BY <1>0, <1>3 DEF ReplayHolds
  <2>2. r[2].seq \in Nat /\ a < r[2].seq
    BY <1>0, <1>3, <2>1, FrameFields DEF ReplayFlows
  <2> QED
    BY <1>0, <1>2, <1>3, <2>2
<1>4. CASE ~Gap(c)
  <2>1. Head(r).seq + 0 = a + 1
    BY <1>0, <1>1, <1>4 DEF ReplayFlows, Skips, Floor
  <2> QED
    BY <1>0, <1>1, <1>2, <1>4, <2>1
<1> QED
  BY <1>3, <1>4

LEMMA DispatchOn ==
    ASSUME BusInv, NEW d \in Dispatchers, NEW target \in BOOLEAN, DispatchNext(d, target),
           NEW ch \in Channels
    PROVE  at[d][ch] <= at'[d][ch]
<1> DEFINE q == queue[d]
           f == Head(q)
           x == f.channel
<1>0. /\ d \in Subscribers /\ d \notin Clients /\ DispatcherFlows(d)
      /\ q \in Seq(Item) /\ q # <<>> /\ phase[d] = "on"
      /\ seq \in [Channels -> Nat] /\ at[d] \in [Channels -> Nat]
  BY DispatcherParts DEF DispatchNext
<1>1. f \in Item /\ x \in Channels /\ f.seq \in Nat
  <2>1. f \in Item
    BY <1>0, Taken
  <2> QED
    BY <2>1, FrameFields
<1>2. \/ at' = at
      \/ f.kind # Shutdown /\ at' = [at EXCEPT ![d][x] = f.seq]
  BY DEF DispatchNext
<1>3. \A y \in Channels : at[d][y] \in Nat /\ seq[y] \in Nat
  BY <1>0
<1> HIDE DEF f
<1>4. ASSUME f.kind # Shutdown PROVE at[d][x] <= f.seq
  <2>1. QueueFlows(d, x) /\ Reached(d, x) = at[d][x] /\ (Overflown(d) <=> f.kind = Lapsed)
    BY <1>0, <1>1 DEF DispatcherFlows, Reached, Overflown, f
  <2>2. CASE f.kind = Lapsed
    <3>1. at[d][x] < f.seq
      BY <2>1, <2>2 DEF QueueFlows, f
    <3> QED
      BY <1>1, <1>3, <3>1
  <2>3. CASE IsEvent(f)
    <3>1. Runs(q, x, at[d][x], seq[x])
      BY <1>1, <2>1, <2>3, FrameFields DEF QueueFlows
    <3>2. f.seq = at[d][x] + 1
      <4>1. at[d][x] \in Nat /\ seq[x] \in Nat /\ f.channel = x
        BY <1>1, <1>3
      <4> HIDE DEF x
      <4>2. Head(q).channel = x /\ IsEvent(Head(q))
        BY <2>3, <4>1 DEF f
      <4>3. Head(q).seq = at[d][x] + 1
        BY <1>0, <3>1, <4>1, <4>2, RunsNext
      <4> QED
        BY <4>3 DEF f
    <3> QED
      BY <1>1, <1>3, <3>2
  <2> QED
    BY <1>1, <1>4, <2>2, <2>3, FrameFields
<1>5. CASE at' = at
  BY <1>3, <1>5
<1>6. CASE f.kind # Shutdown /\ at' = [at EXCEPT ![d][x] = f.seq]
  <2>1. at'[d] = [at[d] EXCEPT ![x] = f.seq]
    BY <1>0, <1>6 DEF BusInv, Shapes
  <2> QED
    BY <1>0, <1>1, <1>3, <1>4, <1>6, <2>1
<1> QED
  BY <1>2, <1>5, <1>6

LEMMA NeverBackStep ==
    BusInv /\ [BusNext]_busVars =>
        (restarts' = 0 => \A s \in Subscribers, ch \in Channels : at'[s][ch] >= at[s][ch])
<1> SUFFICES ASSUME BusInv, [BusNext]_busVars, restarts' = 0, NEW s \in Subscribers, NEW ch \in Channels
             PROVE  at[s][ch] <= at'[s][ch]
  <2>1. \A m, n : m >= n <=> n <= m
    OBVIOUS
  <2> QED
    BY <2>1
<1>s. Shapes
  BY DEF BusInv
<1>0. at[s][ch] \in Nat /\ seq[ch] \in Nat /\ at \in [Subscribers -> [Channels -> Nat]]
  BY <1>s DEF Shapes
<1>u. at'[s][ch] = at[s][ch] => at[s][ch] <= at'[s][ch]
  BY <1>0
<1>1. ASSUME NEW c \in Channels, NEW k \in Kinds, Publish(c, k) PROVE at[s][ch] <= at'[s][ch]
  BY <1>1, <1>u DEF Publish
<1>2. ASSUME NEW c \in Clients, Connect(c) PROVE at[s][ch] <= at'[s][ch]
  <2>1. /\ restarts = 0
        /\ \/ at' = at
           \/ at' = [at EXCEPT ![c][Watches[c]] = seq[Watches[c]]]
    <3>1. restarts' = restarts /\ c \in Subscribers /\ Watches[c] \in Channels
      BY <1>2, BusParts DEF Connect
    <3> QED
      BY <1>0, <1>2, <3>1 DEF Connect
  <2>2. c \in Subscribers /\ \A y \in Channels : at[c][y] <= seq[y]
    BY <2>1, ClientParts DEF ClientFlows
  <2> QED
    BY <1>0, <1>u, <2>1, <2>2
<1>3. ASSUME NEW c \in Clients, ReadReplay(c) PROVE at[s][ch] <= at'[s][ch]
  <2>1. /\ restarts = 0 /\ c \in Subscribers /\ Watches[c] \in Channels
        /\ \E p : at' = [at EXCEPT ![c][Watches[c]] = p]
    BY <1>3, BusParts DEF ReadReplay, Receive
  <2>2. at[c][Watches[c]] <= at'[c][Watches[c]]
    BY <1>3, <2>1, ReadReplayOn
  <2>3. ~(s = c /\ ch = Watches[c]) => at'[s][ch] = at[s][ch]
    BY <1>0, <2>1
  <2> QED
    BY <1>u, <2>2, <2>3
<1>4. ASSUME NEW c \in Clients, ReadLive(c) PROVE at[s][ch] <= at'[s][ch]
  <2> DEFINE f == Head(queue[c])
             w == Watches[c]
  <2>1. /\ restarts = 0 /\ c \in Subscribers /\ w \in Channels
        /\ phase[c] = "on" /\ replay[c] = <<>> /\ queue[c] # <<>>
        /\ \/ at' = at
           \/ (IsEvent(f) \/ f.kind = Lapsed) /\ at' = [at EXCEPT ![c][w] = f.seq]
    BY <1>4, BusParts DEF ReadLive, Receive
  <2>2. /\ f.seq \in Nat
        /\ IsEvent(f) => f.seq = at[c][w] + 1
        /\ f.kind = Lapsed => at[c][w] < f.seq
    BY <2>1, LiveHead
  <2> HIDE DEF f, w
  <2>3. at[c][w] \in Nat
    BY <1>0, <2>1
  <2>4. IsEvent(f) \/ f.kind = Lapsed => at[c][w] <= f.seq
    BY <2>2, <2>3
  <2> QED
    BY <1>0, <1>u, <2>1, <2>4
<1>5. ASSUME NEW c \in Clients, Disconnect(c) \/ EndStream(c)
      PROVE  at[s][ch] <= at'[s][ch]
  BY <1>5, <1>u DEF Disconnect, EndStream, observed
<1>6. ASSUME NEW d \in Dispatchers, StartDispatcher(d) \/ Resubscribe(d)
      PROVE  at[s][ch] <= at'[s][ch]
  <2>1. at' = [at EXCEPT ![d] = seq]
    BY <1>6 DEF StartDispatcher, Resubscribe, Subscribe
  <2>2. d \in Subscribers /\ \A y \in Channels : at[d][y] <= seq[y]
    BY DispatcherParts DEF DispatcherFlows
  <2> QED
    BY <1>0, <1>u, <2>1, <2>2
<1>7. ASSUME NEW d \in Dispatchers, NEW target \in BOOLEAN, DispatchNext(d, target)
      PROVE  at[s][ch] <= at'[s][ch]
  <2>1. /\ d \in Subscribers
        /\ at' = at \/ \E x, n : at' = [at EXCEPT ![d][x] = n]
    BY <1>7, BusParts DEF DispatchNext
  <2>2. CASE s = d
    BY <1>7, <2>2, DispatchOn
  <2>3. CASE s # d
    BY <1>0, <1>u, <2>1, <2>3
  <2> QED
    BY <2>2, <2>3
<1>8. ASSUME NEW d \in Dispatchers, DispatchRaises(d) \/ StopDispatcher(d)
      PROVE  at[s][ch] <= at'[s][ch]
  BY <1>8, <1>u DEF DispatchRaises, StopDispatcher, observed
<1>9. CASE SignalShutdown
  BY <1>9, <1>u DEF SignalShutdown, observed
<1>10. ~NewProcess
  BY <1>s DEF NewProcess, Shapes
<1>11. CASE UNCHANGED busVars
  BY <1>11, <1>u DEF busVars, observed
<1> QED
  BY <1>1, <1>2, <1>3, <1>4, <1>5, <1>6, <1>7, <1>8, <1>9, <1>10, <1>11 DEF BusNext, ClientStep

---------------------------------------------------------------------------
(* The theorems of the bus.                                                *)

(* In every state rings, queues, replays, cursors and contexts are as      *)
(* BusInv says (channel_events.publish_typed, subscribe, _deliver_to_queue *)
(* and their three kinds of subscriber).                                   *)
THEOREM BusHolds == BusSpec => []BusInv
<1>1. BusInv /\ [BusNext]_busVars => BusInv'
  BY StepBus
<1> QED
  BY InitBus, <1>1, PTL DEF BusSpec

(* What an overflowing queue or ring drops is told, and told first:        *)
(* whoever has no sentinel coming still gets every event it lacks, in      *)
(* order, and a widget that has read a frame lacks nothing it was not told *)
(* of, whatever the queue and ring sizes.                                  *)
THEOREM OverflowIsTold == BusSpec => []OverflowTold
BY BusHolds, BusShows, PTL

(* A dispatcher that lost nothing holds a renderer context only while the  *)
(* last event it took left the turn open (_dispatch drops it at            *)
(* TURN_ENDED), unless it passed over the turn's end: whatever targets are *)
(* resolved and whatever capabilities its renderer declares.               *)
THEOREM ContextsFollow == BusSpec => []ContextsFollowTurns
BY BusHolds, BusShows, PTL

(* No reconnection, replay or lapse takes a subscriber back to an event it *)
(* is past (replayed_seqs, the cursor and the sentinel of subscribe()).    *)
THEOREM NeverBack == BusSpec => NeverGoesBack
<1>1. BusInv /\ [BusNext]_busVars =>
          [restarts' = 0 =>
              \A s \in Subscribers, ch \in Channels : at'[s][ch] >= at[s][ch]]_busVars
  BY NeverBackStep
<1> QED
  BY <1>1, BusHolds, PTL DEF BusSpec, NeverGoesBack

=============================================================================
