-------------------------- MODULE SchedulesProofs --------------------------
(***************************************************************************)
(* Proofs about Schedules for any clock and any number of fires, edits and *)
(* mishaps: types, who owns a running row, one run at a time, each slot    *)
(* once, and no slot of a schedule left out.                               *)
(***************************************************************************)
EXTENDS Schedules, TLAPS

---------------------------------------------------------------------------
(* Types.  A schedule that a poll has found due can be moved, but only to  *)
(* a time of the clock; only a heartbeat has coroutines.                   *)

Bounded == kind = "schedule" => /\ worker = "read" => due <= MaxTime
                                /\ worker = "spawn" => seen.slot <= MaxTime
OfHeartbeat == \A f \in Fires : Alive(f) => kind = "heartbeat"
TypeInv == TypeOK /\ Bounded /\ OfHeartbeat

LEMMA InitTyped == Init => TypeInv
<1> SUFFICES ASSUME Init PROVE TypeInv
  OBVIOUS
<1>1. fire \in [Fires -> Fire]
  BY ScheduleAssumption DEF Init, Fire, NoFire, Slots, Never
<1>2. seen \in Slot
  BY ScheduleAssumption DEF Init, Slot, NoSlot, Slots, Never
<1>3. booting \in BOOLEAN
  BY DEF Init, HasRuns
<1>4. /\ enabled \in BOOLEAN /\ marked \in BOOLEAN /\ setback \in BOOLEAN
      /\ overrode \in BOOLEAN
      /\ cleared \subseteq Fires /\ early \subseteq Fires /\ stranded \subseteq Fires
  BY DEF Init
<1>5. /\ kind \in Kinds /\ now \in 0..MaxTime /\ due \in Slots /\ first \in Slots
      /\ worker = "idle" /\ made \in 0..MaxFires
      /\ edits \in 0..MaxEdits /\ mishaps \in 0..MaxMishaps
      /\ lost \in Nat
  BY ScheduleAssumption DEF Init, Slots, Never
<1>7. \A f \in Fires : ~Alive(f)
  BY DEF Init, Alive, NoFire
<1>8. QED
  BY <1>1, <1>2, <1>3, <1>4, <1>5, <1>7 DEF TypeInv, TypeOK, Bounded, OfHeartbeat

(* What the steps of a fire leave of it.                                   *)
LEMMA FireTyped ==
  ASSUME TypeOK, NEW f \in Fires,
         \/ FireStep(f) \/ PollHeartbeat \/ SpawnSchedule \/ SpawnChild
         \/ FireByHand \/ FireByFlush \/ Restart \/ ResetRuns
  PROVE  fire' \in [Fires -> Fire]
<1> USE ScheduleAssumption
<1>1. fire \in [Fires -> Fire] /\ now \in 0..MaxTime /\ seen \in Slot
      /\ due \in Slots /\ edits \in 0..MaxEdits
  BY DEF TypeOK
<1>2. \A g \in Fires : fire[g] \in Fire
  BY <1>1
<1>3. ASSUME NEW by \in {"worker", "hand", "flush"}, NEW slot \in Slot,
             NEW pc \in {"wait", "begin", "done"}, NEW row \in {"none", "pending"},
             Start(by, slot, pc, row)
      PROVE  fire' \in [Fires -> Fire]
  <2>1. [by |-> by, slot |-> slot.slot, edit |-> slot.edit, stale |-> slot.stale,
         pc |-> pc, row |-> row, at |-> IF pc = "begin" THEN now ELSE 0] \in Fire
    BY <1>1 DEF Fire, Slot
  <2>2. QED
    BY <1>1, <1>3, <2>1 DEF Start
<1>4. NoSlot \in Slot
  BY DEF NoSlot, Slot, Slots, Never
<1>6. CASE PollHeartbeat
  BY <1>1, <1>3, <1>6 DEF PollHeartbeat
<1>7. CASE SpawnSchedule
  BY <1>1, <1>3, <1>7 DEF SpawnSchedule
<1>8. CASE SpawnChild
  BY <1>1, <1>3, <1>8 DEF SpawnChild
<1>9. CASE FireByHand
  BY <1>3, <1>4, <1>9 DEF FireByHand
<1>10. CASE FireByFlush
  BY <1>3, <1>4, <1>10 DEF FireByFlush
<1>11. 0 \in 0..MaxTime
  OBVIOUS
<1>12. ASSUME NEW g \in Fires
       PROVE  /\ fire[g].row \in {"none", "running", "finished", "cancelled", "pending"}
              /\ fire[g].at \in 0..MaxTime
              /\ [fire[g] EXCEPT !.row = fire[g].row] = fire[g]
              /\ [fire[g] EXCEPT !.at = fire[g].at] = fire[g]
  BY <1>2 DEF Fire
<1>13. CASE FireStep(f)
  <2>1. CASE Enter(f)
    <3>1. [fire[f] EXCEPT !.pc = "begin", !.at = now] \in Fire
      BY <1>1, <1>2 DEF Fire
    <3>2. QED
      BY <1>1, <2>1, <3>1 DEF Enter
  <2>2. ASSUME NEW row \in {"none", "running", "finished", "cancelled", "pending"}, Over(f, row)
        PROVE  fire' \in [Fires -> Fire]
    <3>1. [fire[f] EXCEPT !.pc = "done", !.row = row, !.at = 0] \in Fire
      BY <1>2, <1>11, <2>2 DEF Fire
    <3>2. QED
      BY <1>1, <2>2, <3>1 DEF Over
  <2>3. CASE Insert(f)
    <3>1. [fire[f] EXCEPT !.pc = "run", !.row = "running", !.at = 0] \in Fire
      BY <1>2, <1>11 DEF Fire
    <3>2. QED
      BY <1>1, <2>3, <3>1 DEF Insert
  <2>4. QED
    BY <1>12, <1>13, <2>1, <2>2, <2>3 DEF FireStep, GiveUp, Finish, FinishFails
<1>14. CASE Restart
  <2>1. \A g \in Fires : [fire[g] EXCEPT !.pc = "dead", !.at = 0] \in Fire
    BY <1>2, <1>11 DEF Fire
  <2>2. QED
    BY <1>2, <1>14, <2>1 DEF Restart
<1>15. CASE ResetRuns
  BY <1>2, <1>15 DEF ResetRuns, Fire
<1>16. QED
  BY <1>6, <1>7, <1>8, <1>9, <1>10, <1>13, <1>14, <1>15

LEMMA StepTypedOnly == TypeInv /\ [Next]_vars => TypeOK' /\ Bounded'
<1> SUFFICES ASSUME TypeInv, [Next]_vars PROVE TypeOK' /\ Bounded'
  OBVIOUS
<1> USE ScheduleAssumption DEF TypeInv, TypeOK, Bounded, Kinds, Slots, Never,
        clock, plan, poll, budget, seenBy
<1>0. NoSlot \in Slot
  BY DEF NoSlot, Slot
<1>1. CASE Tick
  BY <1>1 DEF Tick
<1>0a. ASSUME NEW on \in BOOLEAN, NEW d \in Slots, Edit(on, d),
              kind = "schedule" => d <= MaxTime
       PROVE  TypeOK' /\ Bounded'
  <2>1. overrode' \in BOOLEAN /\ enabled' \in BOOLEAN
    BY <1>0a DEF Edit
  <2>2. /\ UNCHANGED <<clock, booting, poll, marked, made, fire, mishaps, cleared, early,
                       stranded, lost, setback>>
        /\ edits' \in 0..MaxEdits /\ due' = d /\ first' = d
    BY <1>0a DEF Edit
  <2>3. QED
    BY <1>0a, <2>1, <2>2
<1>2. CASE Toggle
  <2>1. (~enabled) \in BOOLEAN
    OBVIOUS
  <2>2. (IF enabled THEN Never ELSE IF due = Never THEN now + 1 ELSE due) \in Slots
    OBVIOUS
  <2>3. kind = "heartbeat" /\ Edit(~enabled, IF enabled THEN Never
                                            ELSE IF due = Never THEN now + 1 ELSE due)
    BY <1>2 DEF Toggle
  <2>4. QED
    BY <1>0a, <2>1, <2>2, <2>3
<1>3. CASE PatchSubscription
  <2>1. PICK on \in BOOLEAN : Edit(on, IF on THEN now + 1 ELSE Never)
    BY <1>3 DEF PatchSubscription
  <2>2. (IF on THEN now + 1 ELSE Never) \in Slots /\ kind = "subscription"
    BY <1>3 DEF PatchSubscription
  <2>3. QED
    BY <1>0a, <2>1, <2>2
<1>4. CASE PatchTask
  <2>1. PICK on \in BOOLEAN, d \in now..MaxTime : Edit(on, d)
    BY <1>4 DEF PatchTask
  <2>2. d \in Slots /\ d <= MaxTime
    OBVIOUS
  <2>3. QED
    BY <1>0a, <2>1, <2>2
<1>5. CASE PollRead
  BY <1>5 DEF PollRead, Due, Slot
<1>6. CASE PollHeartbeat
  <2>1. ASSUME NEW f \in Fires PROVE fire' \in [Fires -> Fire]
    BY <1>6, FireTyped
  <2>2. made' \in 0..MaxFires /\ fire' \in [Fires -> Fire]
    BY <1>6, <2>1 DEF PollHeartbeat, Start, Fires
  <2>3. QED
    BY <1>0, <1>6, <2>2 DEF PollHeartbeat, PollDone
<1>7a. CASE ReadSchedule
  <2>1. [slot |-> due, edit |-> edits, stale |-> FALSE] \in Slot
    BY DEF Slot
  <2>2. UNCHANGED <<clock, plan, booting, marked, made, fire, budget, seenBy>>
    BY <1>7a DEF ReadSchedule
  <2>3. seen' \in Slot /\ worker' \in {"idle", "spawn"}
    BY <1>0, <1>7a, <2>1 DEF ReadSchedule, PollDone
  <2>4. worker' = "spawn" => seen'.slot <= MaxTime
    BY <1>7a DEF ReadSchedule, PollDone
  <2>5. QED
    BY <2>2, <2>3, <2>4
<1>7. CASE SpawnSchedule
  <2>1. ASSUME NEW f \in Fires PROVE fire' \in [Fires -> Fire]
    BY <1>7, FireTyped
  <2>2. made' \in 0..MaxFires /\ fire' \in [Fires -> Fire]
    BY <1>7, <2>1, SMTT(30) DEF SpawnSchedule, Start, Fires
  <2>3. seen.slot \in Slots /\ seen.slot <= MaxTime
    BY <1>7 DEF SpawnSchedule, Slot
  <2>4. due' \in Slots
    BY <1>7, <2>3 DEF SpawnSchedule
  <2>5. overrode' \in BOOLEAN
    BY <1>7 DEF SpawnSchedule
  <2>6. QED
    BY <1>0, <1>7, <2>2, <2>4, <2>5 DEF SpawnSchedule, PollDone
<1>8. CASE SpawnFails
  BY <1>0, <1>8 DEF SpawnFails, PollDone, Mishap
<1>9. CASE AdvanceSubscription
  BY <1>0, <1>9 DEF AdvanceSubscription, PollDone
<1>10. CASE SpawnChild
  <2>1. ASSUME NEW f \in Fires PROVE fire' \in [Fires -> Fire]
    BY <1>10, FireTyped
  <2>2. made' \in 0..MaxFires /\ fire' \in [Fires -> Fire]
    BY <1>10, <2>1 DEF SpawnChild, Start, Fires
  <2>3. QED
    BY <1>0, <1>10, <2>2 DEF SpawnChild, PollDone, Mishap
<1>11. CASE FireByHand
  <2>1. ASSUME NEW f \in Fires PROVE fire' \in [Fires -> Fire]
    BY <1>11, FireTyped
  <2>2. made' \in 0..MaxFires /\ fire' \in [Fires -> Fire]
    BY <1>11, <2>1 DEF FireByHand, Start, Fires
  <2>3. QED
    BY <1>11, <2>2 DEF FireByHand
<1>12. CASE FireByFlush
  <2>1. ASSUME NEW f \in Fires PROVE fire' \in [Fires -> Fire]
    BY <1>12, FireTyped
  <2>2. made' \in 0..MaxFires /\ fire' \in [Fires -> Fire]
    BY <1>12, <2>1 DEF FireByFlush, Start, Fires
  <2>3. QED
    BY <1>12, <2>2 DEF FireByFlush
<1>13. ASSUME NEW f \in Fires, FireStep(f) PROVE TypeOK' /\ Bounded'
  <2>0. fire' \in [Fires -> Fire]
    BY <1>13, FireTyped
  <2>1. CASE Enter(f)
    BY <2>0, <2>1 DEF Enter
  <2>2. ASSUME NEW row, Over(f, row)
        PROVE  marked' \in BOOLEAN /\ cleared' \subseteq Fires
    BY <2>2 DEF Over
  <2>8. CASE GiveUp(f)
    BY <2>0, <2>2, <2>8 DEF GiveUp, Mishap
  <2>3. CASE Insert(f)
    <3>1. due' \in Slots /\ early' \subseteq Fires
      BY <2>3 DEF Insert, Fire
    <3>2. setback' \in BOOLEAN
      BY <2>3 DEF Insert
    <3>3. UNCHANGED <<clock, enabled, first, booting, poll, marked, made, budget,
                      cleared, stranded, lost, overrode>>
      BY <2>3 DEF Insert
    <3>4. kind = "heartbeat"
      BY <2>3 DEF Insert, OfHeartbeat, Alive
    <3>5. QED
      BY <2>0, <3>1, <3>2, <3>3, <3>4
  <2>5. CASE Finish(f)
    BY <2>0, <2>2, <2>5 DEF Finish
  <2>6. CASE FinishFails(f)
    BY <2>0, <2>2, <2>6 DEF FinishFails, Mishap
  <2>7. QED
    BY <1>13, <2>1, <2>3, <2>5, <2>6, <2>8 DEF FireStep
<1>14. CASE Restart
  <2>1. ASSUME NEW f \in Fires PROVE fire' \in [Fires -> Fire]
    BY <1>14, FireTyped
  <2>2. fire' \in [Fires -> Fire]
    BY <1>14, <2>1 DEF Restart
  <2>3. booting' \in BOOLEAN
    BY <1>14 DEF Restart, HasRuns
  <2>4. /\ Mishap /\ PollDone /\ marked' = FALSE /\ stranded' = {} /\ early' = {}
        /\ lost' = IF kind = "subscription" /\ worker = "spawn" THEN lost + 1 ELSE lost
        /\ UNCHANGED <<clock, plan, made, edits, cleared, setback, overrode>>
    BY <1>14 DEF Restart
  <2>5. mishaps' \in 0..MaxMishaps
    BY <2>4 DEF Mishap
  <2>6. lost' \in Nat
    BY <2>4
  <2>7. worker' = "idle" /\ seen' \in Slot
    BY <1>0, <2>4 DEF PollDone
  <2>8. QED
    BY <2>2, <2>3, <2>4, <2>5, <2>6, <2>7
<1>15. CASE ResetRuns
  <2>1. ASSUME NEW f \in Fires PROVE fire' \in [Fires -> Fire]
    BY <1>15, FireTyped
  <2>2. fire' \in [Fires -> Fire]
    BY <1>15, <2>1 DEF ResetRuns
  <2>3. QED
    BY <1>15, <2>2 DEF ResetRuns
<1>16. CASE ResetFails
  <2>1. stranded' \subseteq Fires
    BY <1>16 DEF ResetFails
  <2>2. Mishap /\ booting' = FALSE
    BY <1>16 DEF ResetFails
  <2>3. UNCHANGED <<clock, plan, poll, marked, made, fire, edits, cleared, early,
                    lost, setback, overrode>>
    BY <1>16 DEF ResetFails
  <2>4. mishaps' \in 0..MaxMishaps
    BY <2>2 DEF Mishap
  <2>5. QED
    BY <2>1, <2>2, <2>3, <2>4
<1>17. CASE UNCHANGED vars
  BY <1>17 DEF vars
<1>18. QED
  BY <1>1, <1>2, <1>3, <1>4, <1>5, <1>6, <1>7a, <1>7, <1>8, <1>9, <1>10, <1>11, <1>12, <1>13,
     <1>14, <1>15, <1>16, <1>17 DEF Next, PollStep

(* What each step does to the coroutines that are alive.                   *)
LEMMA StepOfHeartbeat == TypeInv /\ [Next]_vars => OfHeartbeat'
<1> SUFFICES ASSUME TypeInv, [Next]_vars, NEW g \in Fires, Alive(g)' PROVE (kind = "heartbeat")'
  BY DEF OfHeartbeat
<1>0. /\ fire \in [Fires -> Fire] /\ made \in 0..MaxFires
      /\ Alive(g) => kind = "heartbeat"
  BY DEF TypeInv, TypeOK, OfHeartbeat
<1>1. ASSUME NEW by, NEW slot, NEW row, Start(by, slot, "done", row) PROVE Alive(g)
  BY <1>0, <1>1 DEF Start, Alive
<1>2. kind' = kind
  BY DEF Next, PollStep, FireStep, Tick, Toggle, PatchSubscription, PatchTask, Edit, PollRead,
     PollHeartbeat, ReadSchedule, SpawnSchedule, SpawnFails, AdvanceSubscription, SpawnChild, FireByHand,
     FireByFlush, Enter, GiveUp, Insert, Finish, FinishFails, Restart,
     ResetRuns, ResetFails, clock, vars
<1>3. kind = "heartbeat" \/ Alive(g)
  <2>1. CASE PollHeartbeat \/ FireByHand \/ FireByFlush
    BY <2>1 DEF PollHeartbeat, FireByHand, FireByFlush
  <2>2. CASE SpawnSchedule
    BY <1>1, <2>2 DEF SpawnSchedule, Alive
  <2>3. CASE SpawnChild
    BY <1>1, <2>3 DEF SpawnChild, Alive
  <2>4. ASSUME NEW f \in Fires, FireStep(f) PROVE kind = "heartbeat"
    BY <2>4 DEF FireStep, Enter, GiveUp, Insert, Finish, FinishFails, Alive,
       TypeInv, OfHeartbeat
  <2>5. CASE Restart
    BY <1>0, <2>5 DEF Restart, Alive
  <2>8. CASE ResetRuns
    BY <1>0, <2>8 DEF ResetRuns, Alive
  <2>6. CASE UNCHANGED fire
    BY <2>6 DEF Alive
  <2>7. QED
    BY <2>1, <2>2, <2>3, <2>4, <2>5, <2>6, <2>8 DEF Next, PollStep, Tick, Toggle, PatchSubscription,
       PatchTask, Edit, PollRead, ReadSchedule, SpawnFails, AdvanceSubscription, ResetFails, vars
<1>4. QED
  BY <1>0, <1>2, <1>3

LEMMA StepTyped == TypeInv /\ [Next]_vars => TypeInv'
  BY StepTypedOnly, StepOfHeartbeat DEF TypeInv

LEMMA AlwaysTyped == Spec => []TypeInv
  BY InitTyped, StepTyped, PTL DEF Spec

(* The types of Schedules hold whatever the bounds.                        *)
THEOREM SchedulesTypeCorrect == Spec => []TypeOK
  BY AlwaysTyped, PTL DEF TypeInv

---------------------------------------------------------------------------
(* Who owns a row.                                                         *)

Fresh == \A f \in Fires : f > made => fire[f].pc = "none" /\ fire[f].by = "none"

OwnedOne(f) ==
    /\ fire[f].pc \in {"none", "wait", "begin"} => fire[f].row = "none"
    /\ fire[f].row = "running" =>
          /\ kind = "heartbeat"
          /\ fire[f].pc = "run" \/ f \in stranded \/ booting
    /\ fire[f].row = "running" /\ booting /\ fire[f].pc = "run" => f \in early
    /\ fire[f].row = "cancelled" => fire[f].pc \in {"dead", "done"} \/ f \in early
    /\ Polled(f) /\ Alive(f) => marked \/ f \in cleared

Owned == Fresh /\ (\A f \in Fires : OwnedOne(f)) /\ NoOverlap

(* Starting a fire: the others stay as they are.                           *)
LEMMA StartFacts ==
  ASSUME TypeInv, Fresh, NEW by, NEW slot, NEW pc, NEW row, Start(by, slot, pc, row)
  PROVE  /\ made + 1 \in Fires /\ made' = made + 1
         /\ fire'[made + 1].by = by /\ fire'[made + 1].pc = pc /\ fire'[made + 1].row = row
         /\ \A g \in Fires : g # made + 1 => fire'[g] = fire[g]
         /\ fire[made + 1].pc = "none"
<1>1. made + 1 \in Fires /\ fire \in [Fires -> Fire]
  BY ScheduleAssumption DEF Start, TypeInv, TypeOK, Fires
<1>2. QED
  BY <1>1, ScheduleAssumption DEF Start, Fresh, TypeInv, TypeOK, Fires

(* One fire's part of the invariant, over every step.                      *)
LEMMA StepOwnedOne ==
  ASSUME TypeInv, Owned, [Next]_vars, NEW g \in Fires
  PROVE  OwnedOne(g)'
<1>0. /\ OwnedOne(g) /\ Fresh /\ fire \in [Fires -> Fire]
      /\ \A f \in Fires : Alive(f) => kind = "heartbeat"
  BY DEF Owned, TypeInv, TypeOK, OfHeartbeat
<1>00. fire[g] \in Fire
  BY <1>0
<1> USE DEF OwnedOne, Polled, Alive, clock, plan, poll, budget, seenBy
<1>1. CASE Tick \/ PollRead
  BY <1>0, <1>1 DEF Tick, PollRead
<1>2. CASE Toggle \/ PatchSubscription \/ PatchTask
  BY <1>0, <1>2 DEF Toggle, PatchSubscription, PatchTask, Edit
<1>3. CASE PollHeartbeat
  <2>1. CASE marked
    BY <1>0, <1>3, <2>1 DEF PollHeartbeat
  <2>2. CASE ~marked
    <3>1. marked' = TRUE /\ Start("worker", seen, "wait", "none")
          /\ UNCHANGED <<kind, booting, cleared, early, stranded>>
      BY <1>3, <2>2 DEF PollHeartbeat
    <3>2. QED
      BY <1>0, <3>1, StartFacts
  <2>3. QED
    BY <2>1, <2>2
<1>4. ASSUME NEW by, NEW slot, NEW row, row \in {"none", "pending"}, Start(by, slot, "done", row),
             UNCHANGED <<kind, booting, marked, cleared, early, stranded>>
      PROVE  OwnedOne(g)'
  BY <1>0, <1>4, StartFacts
<1>5. CASE SpawnSchedule
  BY <1>4, <1>5 DEF SpawnSchedule
<1>6. CASE SpawnChild
  <2>1. CASE Start("worker", seen, "done", "pending")
    BY <1>4, <1>6, <2>1 DEF SpawnChild
  <2>2. CASE UNCHANGED fire
    BY <1>0, <1>6, <2>2 DEF SpawnChild
  <2>3. QED
    BY <1>6, <2>1, <2>2 DEF SpawnChild
<1>7. CASE ReadSchedule \/ SpawnFails \/ AdvanceSubscription
  BY <1>0, <1>7 DEF ReadSchedule, SpawnFails, AdvanceSubscription
<1>8. ASSUME NEW pc, pc \in {"wait", "begin"}, NEW by, by \in {"hand", "flush"}, Start(by, NoSlot, pc, "none"),
             UNCHANGED <<kind, booting, marked, cleared, early, stranded>>
      PROVE  OwnedOne(g)'
  BY <1>0, <1>8, StartFacts
<1>9. CASE FireByHand
  BY <1>8, <1>9 DEF FireByHand
<1>10. CASE FireByFlush
  BY <1>8, <1>10 DEF FireByFlush
<1>11. ASSUME NEW f \in Fires, FireStep(f) PROVE OwnedOne(g)'
  <2>1. CASE Enter(f)
    BY <1>0, <2>1 DEF Enter
  <2>2. CASE GiveUp(f)
    BY <1>0, <2>2 DEF GiveUp, Over
  <2>3. CASE Insert(f)
    BY <1>0, <2>3 DEF Insert
  <2>5. CASE Finish(f)
    BY <1>0, <2>5 DEF Finish, Over
  <2>6. CASE FinishFails(f)
    BY <1>0, <2>6 DEF FinishFails, Over
  <2>7. QED
    BY <1>11, <2>1, <2>2, <2>3, <2>5, <2>6 DEF FireStep
<1>12. CASE Restart
  <2>1. fire'[g] = IF Alive(g) THEN [fire[g] EXCEPT !.pc = "dead", !.at = 0]
                   ELSE fire[g]
    BY <1>12 DEF Restart
  <2>2. /\ fire'[g].row = fire[g].row /\ fire'[g].by = fire[g].by
        /\ fire'[g].pc = IF Alive(g) THEN "dead" ELSE fire[g].pc
    BY <1>00, <2>1 DEF Fire
  <2>3. stranded' = {} /\ early' = {} /\ kind' = kind /\ (kind = "heartbeat" => booting')
    BY <1>12 DEF Restart, HasRuns
  <2>4. fire[g].row = "cancelled" => fire[g].pc \in {"dead", "done"} \/ Alive(g)
    BY <1>0, <1>00 DEF Fire
  <2>5. QED
    BY <1>0, <2>2, <2>3, <2>4
<1>13. CASE ResetRuns
  <2>1. fire'[g] = IF fire[g].row = "running" THEN [fire[g] EXCEPT !.row = "cancelled"]
                   ELSE fire[g]
    BY <1>13 DEF ResetRuns
  <2>2. /\ fire'[g].pc = fire[g].pc /\ fire'[g].by = fire[g].by
        /\ fire'[g].row = IF fire[g].row = "running" THEN "cancelled" ELSE fire[g].row
    BY <1>00, <2>1 DEF Fire
  <2>3. booting /\ ~booting' /\ UNCHANGED <<kind, marked, cleared, early>>
    BY <1>13 DEF ResetRuns
  <2>4. fire[g].pc \in {"none", "wait", "begin", "run", "done", "dead"}
    BY <1>00 DEF Fire
  <2>5. QED
    BY <1>0, <2>2, <2>3, <2>4
<1>14. CASE ResetFails
  BY <1>0, <1>14 DEF ResetFails
<1>15. CASE UNCHANGED vars
  BY <1>0, <1>15 DEF vars
<1>16. QED
  BY <1>1, <1>2, <1>3, <1>5, <1>6, <1>7, <1>9, <1>10, <1>11, <1>12, <1>13, <1>14, <1>15
     DEF Next, PollStep

(* A step keeps the fires apart: only a poll makes one more alive.         *)
LEMMA StepFires ==
  ASSUME TypeInv, Owned, [Next]_vars
  PROVE  /\ Fresh'
         /\ \/ PollHeartbeat /\ ~marked
            \/ \A g \in Fires : Polled(g)' /\ Alive(g)' => Polled(g) /\ Alive(g)
         /\ cleared \subseteq cleared'
<1>0. Fresh /\ fire \in [Fires -> Fire] /\ made \in 0..MaxFires
  BY DEF Owned, TypeInv, TypeOK
<1> DEFINE Goal == /\ Fresh'
                   /\ \A g \in Fires : Polled(g)' /\ Alive(g)' => Polled(g) /\ Alive(g)
                   /\ cleared \subseteq cleared'
<1>1. ASSUME NEW by, by \in {"worker", "hand", "flush"}, NEW slot, NEW pc, NEW row,
             Start(by, slot, pc, row)
      PROVE  Fresh'
  BY <1>0, <1>1, StartFacts DEF Fresh, Fires
<1>2. ASSUME NEW by, by \in {"worker", "hand", "flush"}, NEW slot, NEW pc, NEW row,
             Start(by, slot, pc, row), by # "worker" \/ pc = "done", UNCHANGED cleared
      PROVE  Goal
  BY <1>0, <1>1, <1>2, StartFacts DEF Polled, Alive
<1>3. CASE UNCHANGED <<fire, made, cleared>>
  BY <1>0, <1>3 DEF Fresh, Polled, Alive
<1>4. CASE PollHeartbeat
  <2>1. CASE marked
    BY <1>3, <1>4, <2>1 DEF PollHeartbeat, seenBy
  <2>2. CASE ~marked
    BY <1>1, <1>4, <2>2 DEF PollHeartbeat, seenBy
  <2>3. QED
    BY <2>1, <2>2
<1>5. CASE SpawnSchedule
  BY <1>2, <1>5 DEF SpawnSchedule, seenBy
<1>6. CASE SpawnChild
  BY <1>2, <1>3, <1>6 DEF SpawnChild
<1>7. CASE FireByHand
  BY <1>2, <1>7 DEF FireByHand, seenBy
<1>8. CASE FireByFlush
  BY <1>2, <1>8 DEF FireByFlush, seenBy
<1>9. ASSUME NEW f \in Fires, FireStep(f) PROVE Goal
  <2>0. f <= made
    <3>1. fire[f].pc # "none"
      BY <1>9 DEF FireStep, Enter, GiveUp, Insert, Finish, FinishFails
    <3>2. QED
      BY <1>0, <3>1 DEF Fresh, Fires
  <2>1. CASE Enter(f)
    BY <1>0, <2>0, <2>1 DEF Enter, Fresh, Polled, Alive, seenBy
  <2>2. CASE GiveUp(f)
    BY <1>0, <2>0, <2>2 DEF GiveUp, Over, Fresh, Polled, Alive
  <2>3. CASE Insert(f)
    BY <1>0, <2>0, <2>3 DEF Insert, Fresh, Polled, Alive
  <2>5. CASE Finish(f)
    BY <1>0, <2>0, <2>5 DEF Finish, Over, Fresh, Polled, Alive
  <2>6. CASE FinishFails(f)
    BY <1>0, <2>0, <2>6 DEF FinishFails, Over, Fresh, Polled, Alive
  <2>7. QED
    BY <1>9, <2>1, <2>2, <2>3, <2>5, <2>6 DEF FireStep
<1>10. CASE Restart
  <2>1. \A g \in Fires : fire'[g] =
          IF Alive(g) THEN [fire[g] EXCEPT !.pc = "dead", !.at = 0] ELSE fire[g]
    BY <1>10 DEF Restart
  <2>2. \A g \in Fires : fire[g] \in Fire
    BY <1>0
  <2>3. \A g \in Fires : /\ fire'[g].by = fire[g].by
                         /\ fire'[g].pc = IF Alive(g) THEN "dead" ELSE fire[g].pc
    BY <2>1, <2>2 DEF Fire
  <2>4. made' = made /\ cleared' = cleared
    BY <1>10 DEF Restart
  <2>5. QED
    BY <1>0, <2>3, <2>4 DEF Fresh, Polled, Alive
<1>11. CASE ResetRuns
  BY <1>0, <1>11 DEF ResetRuns, Fresh, Polled, Alive
<1>12. CASE Tick \/ Toggle \/ PatchSubscription \/ PatchTask \/ PollRead
            \/ ReadSchedule \/ SpawnFails \/ AdvanceSubscription \/ ResetFails \/ UNCHANGED vars
  BY <1>3, <1>12 DEF Tick, Toggle, PatchSubscription, PatchTask, Edit, PollRead, ReadSchedule,
     SpawnFails, AdvanceSubscription, ResetFails, seenBy, vars
<1>13. QED
  BY <1>4, <1>5, <1>6, <1>7, <1>8, <1>9, <1>10, <1>11, <1>12 DEF Next, PollStep

LEMMA StepNoOverlap ==
  ASSUME TypeInv, Owned, [Next]_vars
  PROVE  NoOverlap'
<1> SUFFICES ASSUME NEW f \in Fires, NEW g \in Fires, f < g,
                    Polled(f)', Polled(g)', Alive(f)', Alive(g)'
             PROVE  f \in cleared'
  BY DEF NoOverlap, Polled, Alive
<1>1. CASE \A h \in Fires : Polled(h)' /\ Alive(h)' => Polled(h) /\ Alive(h)
  BY <1>1, StepFires DEF Owned, NoOverlap
<1>2. CASE PollHeartbeat /\ ~marked
  <2>1. Start("worker", seen, "wait", "none") /\ UNCHANGED cleared /\ Fresh
    BY <1>2 DEF PollHeartbeat, seenBy, Owned
  <2>2. CASE f = made + 1
    <3>1. fire'[g] = fire[g] /\ fire[g].pc = "none"
      BY <2>1, <2>2, StartFacts DEF Fresh, TypeInv, TypeOK, Fires
    <3>2. QED
      BY <3>1 DEF Alive
  <2>3. CASE f # made + 1
    <3>1. fire'[f] = fire[f]
      BY <2>1, <2>3, StartFacts
    <3>2. QED
      BY <1>2, <2>1, <3>1 DEF Owned, OwnedOne, Polled, Alive
  <2>4. QED
    BY <2>2, <2>3
<1>3. QED
  BY <1>1, <1>2, StepFires

LEMMA InitOwned == Init => Owned
  BY DEF Init, Owned, Fresh, OwnedOne, NoOverlap, NoFire, Polled, Alive

LEMMA AlwaysOwned == Spec => []Owned
<1>1. TypeInv /\ Owned /\ [Next]_vars => Owned'
  BY StepOwnedOne, StepFires, StepNoOverlap DEF Owned
<1>2. QED
  BY <1>1, InitOwned, AlwaysTyped, PTL DEF Spec

(* The worker's runs do not overlap, a running row has its coroutine, and  *)
(* the reset at start-up cancels the dead, each with the code's exception. *)
THEOREM RunsTracked == Spec => []RunsAreTracked
<1>1. Owned => RunsAreTracked
  BY DEF Owned, OwnedOne, RunsAreTracked, RunningIsOwned, CancelledIsDead
<1>2. QED
  BY <1>1, AlwaysOwned, PTL

---------------------------------------------------------------------------
(* Each slot once.  The argument: a fire with a row has moved the next run *)
(* past its slot, so that a later poll sees another slot or another edit,  *)
(* unless it read the row before.                                          *)

Past(f) == fire[f].row = "none" /\ ~Alive(f)     \* gave up or died

Known == /\ worker # "idle" => /\ seen.edit <= edits
                               /\ kind # "schedule" => seen.slot <= now
         /\ worker = "spawn" /\ seen.edit = edits =>
               /\ kind = "schedule" => due = seen.slot
               /\ kind = "subscription" => seen.slot < due
         /\ worker # "idle" /\ kind = "heartbeat" /\ seen.edit = edits => due # Never

KnownFire(f) ==
    /\ fire[f].pc = "run" => fire[f].row # "none"
    /\ Polled(f) =>
          /\ fire[f].edit <= edits
          /\ kind # "schedule" => fire[f].slot <= now
          /\ fire[f].pc = "begin" => fire[f].slot <= fire[f].at
          /\ kind = "heartbeat" /\ fire[f].edit = edits => due # Never
          /\ fire[f].row # "none" /\ fire[f].edit = edits => fire[f].slot < due \/ setback

(* A fire, and what the poll is about to fire.                             *)
ApartSeen(f) ==
    Polled(f) /\ worker # "idle" =>
        /\ fire[f].edit <= seen.edit
        /\ fire[f].slot = seen.slot /\ fire[f].edit = seen.edit
              => seen.stale \/ setback \/ Past(f)

Apart(f, g) ==
    /\ f < g /\ Polled(f) /\ Polled(g)
    /\ fire[f].slot = fire[g].slot /\ fire[f].edit = fire[g].edit
    => fire[g].stale \/ setback \/ Past(f)

OnceInv == /\ Known
           /\ \A f \in Fires : KnownFire(f) /\ ApartSeen(f)
           /\ \A f, g \in Fires : Apart(f, g)

(* The steps that make a polled fire, and which.                           *)
Spawns(slot, edit, stale) ==
    \/ /\ PollHeartbeat /\ ~marked /\ slot = seen.slot /\ edit = seen.edit /\ stale = seen.stale
       /\ Start("worker", seen, "wait", "none")
    \/ /\ SpawnSchedule \/ SpawnChild
       /\ slot = seen.slot /\ edit = seen.edit /\ stale = seen.stale
       /\ Start("worker", seen, "done", "pending")

(* Every other step leaves the polled fires what they are.                 *)
KeepsOne(f) ==
    /\ Polled(f)' => Polled(f)
    /\ Polled(f) => /\ Polled(f)'
                    /\ fire'[f].slot = fire[f].slot /\ fire'[f].edit = fire[f].edit
                    /\ fire'[f].stale = fire[f].stale
                    /\ Past(f) => Past(f)'
Keeps == \A f \in Fires : KeepsOne(f)

LEMMA StartSlot ==
  ASSUME TypeInv, Fresh, NEW by, NEW slot, NEW pc, NEW row, Start(by, slot, pc, row)
  PROVE  /\ fire'[made + 1].slot = slot.slot /\ fire'[made + 1].edit = slot.edit
         /\ fire'[made + 1].stale = slot.stale
         /\ fire'[made + 1].at = IF pc = "begin" THEN now ELSE 0
<1>1. made + 1 \in Fires /\ fire \in [Fires -> Fire]
  BY ScheduleAssumption DEF Start, TypeInv, TypeOK, Fires
<1>2. QED
  BY <1>1 DEF Start

LEMMA StepKeeps ==
  ASSUME TypeInv, Owned, [Next]_vars
  PROVE  /\ setback => setback'
         /\ Keeps \/ (\E slot \in Slots, edit \in 0..MaxEdits, stale \in BOOLEAN :
                        Spawns(slot, edit, stale))
<1>0. /\ Fresh /\ fire \in [Fires -> Fire] /\ made \in 0..MaxFires /\ seen \in Slot
      /\ due \in Slots /\ edits \in 0..MaxEdits
  BY DEF Owned, TypeInv, TypeOK
<1>00. \A f \in Fires : fire[f] \in Fire
  BY <1>0
<1>1. setback => setback'
  BY DEF Next, PollStep, FireStep, Tick, Toggle, PatchSubscription, PatchTask, Edit, PollRead,
     PollHeartbeat, ReadSchedule, SpawnSchedule, SpawnFails, AdvanceSubscription, SpawnChild, FireByHand,
     FireByFlush, Enter, GiveUp, Insert, Finish, FinishFails, Restart,
     ResetRuns, ResetFails, seenBy, vars
<1>2. ASSUME UNCHANGED fire PROVE Keeps
  <2>1. \A f \in Fires : fire'[f] = fire[f]
    BY <1>2
  <2>2. QED
    BY <2>1 DEF Keeps, KeepsOne, Polled, Past, Alive
<1>3. ASSUME NEW by, by \in {"hand", "flush"}, NEW slot, NEW pc, NEW row, Start(by, slot, pc, row)
      PROVE  Keeps
  <2>1. fire[made + 1].by = "none"
    BY <1>0, <1>3, StartFacts, ScheduleAssumption DEF Fresh, Fires
  <2>2. \A f \in Fires : f # made + 1 => fire'[f] = fire[f]
    BY <1>0, <1>3, StartFacts
  <2>3. fire'[made + 1].by = by
    BY <1>0, <1>3, StartFacts
  <2>4. QED
    BY <1>3, <2>1, <2>2, <2>3 DEF Keeps, KeepsOne, Polled, Past, Alive
<1>4. CASE PollHeartbeat
  <2>1. CASE marked
    BY <1>1, <1>2, <1>4, <2>1 DEF PollHeartbeat
  <2>2. CASE ~marked
    <3>1. Spawns(seen.slot, seen.edit, seen.stale)
      BY <1>4, <2>2 DEF PollHeartbeat, Spawns
    <3>2. seen.slot \in Slots /\ seen.edit \in 0..MaxEdits /\ seen.stale \in BOOLEAN
      BY <1>0 DEF Slot
    <3>3. QED
      BY <1>1, <3>1, <3>2
  <2>3. QED
    BY <1>1, <2>1, <2>2
<1>5. CASE SpawnSchedule
  <2>1. Spawns(seen.slot, seen.edit, seen.stale)
    BY <1>5 DEF SpawnSchedule, Spawns
  <2>2. seen.slot \in Slots /\ seen.edit \in 0..MaxEdits /\ seen.stale \in BOOLEAN
    BY <1>0 DEF Slot
  <2>3. QED
    BY <1>1, <2>1, <2>2
<1>6. CASE SpawnChild
  <2>1. CASE Start("worker", seen, "done", "pending")
    <3>1. Spawns(seen.slot, seen.edit, seen.stale)
      BY <1>6, <2>1 DEF Spawns
    <3>2. seen.slot \in Slots /\ seen.edit \in 0..MaxEdits /\ seen.stale \in BOOLEAN
      BY <1>0 DEF Slot
    <3>3. QED
      BY <1>1, <3>1, <3>2
  <2>2. CASE UNCHANGED fire
    BY <1>1, <1>2, <2>2
  <2>3. QED
    BY <1>1, <1>6, <2>1, <2>2 DEF SpawnChild
<1>7. ASSUME FireByHand PROVE Keeps
  <2>1. Start("hand", NoSlot, "wait", "none")
    BY <1>7 DEF FireByHand
  <2>2. QED
    BY <1>3, <2>1
<1>8. ASSUME FireByFlush PROVE Keeps
  <2>1. Start("flush", NoSlot, "begin", "none")
    BY <1>8 DEF FireByFlush
  <2>2. QED
    BY <1>3, <2>1
<1>9. ASSUME NEW f \in Fires, FireStep(f) PROVE Keeps
  <2>1. CASE Enter(f)
    BY <1>0, <2>1 DEF Enter, Keeps, KeepsOne, Polled, Past, Alive
  <2>2. CASE GiveUp(f)
    BY <1>0, <2>2 DEF GiveUp, Over, Keeps, KeepsOne, Polled, Past, Alive
  <2>3. CASE Insert(f)
    BY <1>0, <2>3 DEF Insert, Keeps, KeepsOne, Polled, Past, Alive
  <2>5. CASE Finish(f)
    BY <1>0, <2>5 DEF Finish, Over, Keeps, KeepsOne, Polled, Past, Alive
  <2>6. CASE FinishFails(f)
    BY <1>0, <2>6 DEF FinishFails, Over, Keeps, KeepsOne, Polled, Past, Alive
  <2>7. QED
    BY <1>9, <2>1, <2>2, <2>3, <2>5, <2>6 DEF FireStep
<1>10. CASE Restart
  <2>1. \A g \in Fires : fire'[g] =
          IF Alive(g) THEN [fire[g] EXCEPT !.pc = "dead", !.at = 0] ELSE fire[g]
    BY <1>10 DEF Restart
  <2>2. \A g \in Fires :
          /\ fire'[g].by = fire[g].by /\ fire'[g].slot = fire[g].slot
          /\ fire'[g].edit = fire[g].edit /\ fire'[g].stale = fire[g].stale
          /\ fire'[g].row = fire[g].row
          /\ fire'[g].pc = IF Alive(g) THEN "dead" ELSE fire[g].pc
    BY <1>00, <2>1 DEF Fire
  <2>3. QED
    BY <1>1, <2>2 DEF Keeps, KeepsOne, Polled, Past, Alive
<1>11. CASE ResetRuns
  <2>1. \A g \in Fires : fire'[g] =
          IF fire[g].row = "running" THEN [fire[g] EXCEPT !.row = "cancelled"] ELSE fire[g]
    BY <1>11 DEF ResetRuns
  <2>2. \A g \in Fires :
          /\ fire'[g].by = fire[g].by /\ fire'[g].slot = fire[g].slot
          /\ fire'[g].edit = fire[g].edit /\ fire'[g].stale = fire[g].stale
          /\ fire'[g].pc = fire[g].pc
          /\ fire'[g].row = IF fire[g].row = "running" THEN "cancelled" ELSE fire[g].row
    BY <1>00, <2>1 DEF Fire
  <2>3. QED
    BY <1>1, <2>2 DEF Keeps, KeepsOne, Polled, Past, Alive
<1>12. CASE Tick \/ Toggle \/ PatchSubscription \/ PatchTask \/ PollRead
            \/ ReadSchedule \/ SpawnFails \/ AdvanceSubscription \/ ResetFails \/ UNCHANGED vars
  BY <1>1, <1>2, <1>12 DEF Tick, Toggle, PatchSubscription, PatchTask, Edit, PollRead, ReadSchedule,
     SpawnFails, AdvanceSubscription, ResetFails, vars
<1>13. QED
  BY <1>1, <1>2, <1>4, <1>5, <1>6, <1>7, <1>8, <1>9, <1>10, <1>11, <1>12 DEF Next, PollStep

LEMMA StepKnown ==
  ASSUME TypeInv, Owned, OnceInv, [Next]_vars
  PROVE  Known'
<1>0. /\ Known /\ now \in 0..MaxTime /\ edits \in 0..MaxEdits /\ seen \in Slot /\ due \in Slots
      /\ fire \in [Fires -> Fire] /\ worker \in {"idle", "read", "spawn"}
      /\ \A f \in Fires : Alive(f) => kind = "heartbeat"
  BY DEF OnceInv, TypeInv, TypeOK, OfHeartbeat
<1>00. seen.slot \in Int /\ seen.edit \in Int
  BY <1>0, ScheduleAssumption DEF Slot, Slots, Never
<1> USE ScheduleAssumption DEF Known, Slots, Never, clock, plan, poll, budget, seenBy
<1>1. CASE Tick
  BY <1>0, <1>00, <1>1 DEF Tick
<1>2. CASE Toggle \/ PatchSubscription \/ PatchTask
  BY <1>0, <1>00, <1>2 DEF Toggle, PatchSubscription, PatchTask, Edit
<1>3. CASE PollRead
  BY <1>0, <1>3 DEF PollRead, Due
<1>3a. CASE ReadSchedule
  BY <1>0, <1>3a DEF ReadSchedule, PollDone
<1>4. CASE PollHeartbeat \/ SpawnSchedule \/ SpawnFails \/ SpawnChild \/ Restart
  BY <1>0, <1>4 DEF PollHeartbeat, ReadSchedule, SpawnSchedule, SpawnFails, SpawnChild, Restart, PollDone
<1>5. CASE AdvanceSubscription
  BY <1>0, <1>00, <1>5 DEF AdvanceSubscription, PollDone
<1>6. CASE FireByHand \/ FireByFlush
  BY <1>0, <1>6 DEF FireByHand, FireByFlush
<1>7. ASSUME NEW f \in Fires, FireStep(f) PROVE Known'
  <2>1. CASE Insert(f)
    <3>1. fire[f].at \in 0..MaxTime /\ kind = "heartbeat"
      BY <1>0, <2>1 DEF Insert, Fire, Alive
    <3>2. QED
      BY <1>0, <2>1, <3>1 DEF Insert
  <2>2. CASE ~Insert(f)
    BY <1>0, <1>7, <2>2 DEF FireStep, Enter, GiveUp, Finish, FinishFails
  <2>3. QED
    BY <2>1, <2>2
<1>8. CASE ResetRuns \/ ResetFails
  BY <1>0, <1>8 DEF ResetRuns, ResetFails
<1>9. CASE UNCHANGED vars
  BY <1>0, <1>9 DEF vars
<1>10. QED
  BY <1>1, <1>2, <1>3, <1>3a, <1>4, <1>5, <1>6, <1>7, <1>8, <1>9 DEF Next, PollStep

LEMMA StepKnownFire ==
  ASSUME TypeInv, Owned, OnceInv, [Next]_vars, NEW g \in Fires
  PROVE  KnownFire(g)'
<1>0. /\ Known /\ KnownFire(g) /\ Fresh
      /\ now \in 0..MaxTime /\ edits \in 0..MaxEdits /\ seen \in Slot /\ due \in Slots
      /\ fire \in [Fires -> Fire] /\ worker \in {"idle", "read", "spawn"}
      /\ \A f \in Fires : Alive(f) => kind = "heartbeat"
  BY DEF OnceInv, Owned, TypeInv, TypeOK, OfHeartbeat
<1>01. Polled(g) /\ worker # "idle" => fire[g].edit <= seen.edit
  BY DEF OnceInv, ApartSeen
<1>00. /\ seen.slot \in Int /\ seen.edit \in Int /\ fire[g] \in Fire
       /\ fire[g].slot \in Int /\ fire[g].edit \in Int /\ fire[g].at \in 0..MaxTime
  BY <1>0, ScheduleAssumption DEF Slot, Slots, Never, Fire
<1> USE ScheduleAssumption DEF Known, KnownFire, Polled, Slots, Never, clock, plan, poll, budget,
        seenBy
<1>1. CASE Tick \/ PollRead
  BY <1>0, <1>00, <1>1 DEF Tick, PollRead
<1>2. CASE Toggle \/ PatchSubscription \/ PatchTask
  BY <1>0, <1>00, <1>2 DEF Toggle, PatchSubscription, PatchTask, Edit
<1>3. CASE PollHeartbeat
  <2>1. CASE marked
    BY <1>0, <1>3, <2>1 DEF PollHeartbeat
  <2>2. CASE ~marked
    <3>1. /\ Start("worker", seen, "wait", "none") /\ worker = "read" /\ kind = "heartbeat"
          /\ UNCHANGED <<kind, now, due, edits, setback>>
      BY <1>3, <2>2 DEF PollHeartbeat
    <3>2. QED
      BY <1>0, <1>00, <3>1, StartFacts, StartSlot
  <2>3. QED
    BY <2>1, <2>2
<1>4. CASE SpawnSchedule
  <2>1. /\ Start("worker", seen, "done", "pending") /\ worker = "spawn" /\ kind = "schedule"
        /\ due' = seen.slot + 1 /\ UNCHANGED <<kind, now, edits, setback>>
    BY <1>4 DEF SpawnSchedule
  <2>2. QED
    BY <1>0, <1>00, <1>01, <2>1, StartFacts, StartSlot
<1>5. CASE SpawnChild
  <2>1. CASE Start("worker", seen, "done", "pending")
    <3>1. kind = "subscription" /\ worker = "spawn" /\ UNCHANGED <<kind, now, due, edits, setback>>
      BY <1>0, <1>5 DEF SpawnChild
    <3>2. QED
      BY <1>0, <1>00, <2>1, <3>1, StartFacts, StartSlot
  <2>2. CASE UNCHANGED fire
    BY <1>0, <1>5, <2>2 DEF SpawnChild
  <2>3. QED
    BY <1>5, <2>1, <2>2 DEF SpawnChild
<1>6. CASE SpawnFails \/ ReadSchedule
  BY <1>0, <1>6 DEF SpawnFails, ReadSchedule
<1>7. CASE AdvanceSubscription
  BY <1>0, <1>00, <1>7 DEF AdvanceSubscription
<1>8. ASSUME NEW pc, pc \in {"wait", "begin"}, NEW by, by \in {"hand", "flush"},
             Start(by, NoSlot, pc, "none"), UNCHANGED <<kind, now, due, edits, setback>>
      PROVE  KnownFire(g)'
  BY <1>0, <1>8, StartFacts
<1>9. CASE FireByHand
  BY <1>8, <1>9 DEF FireByHand
<1>10. CASE FireByFlush
  BY <1>8, <1>10 DEF FireByFlush
<1>11. ASSUME NEW f \in Fires, FireStep(f) PROVE KnownFire(g)'
  <2>1. CASE Enter(f)
    <3>1. kind = "heartbeat"
      BY <1>0, <2>1 DEF Enter, Alive
    <3>2. QED
      BY <1>0, <1>00, <2>1, <3>1 DEF Enter
  <2>2. CASE GiveUp(f)
    BY <1>0, <2>2 DEF GiveUp, Over
  <2>3. CASE Insert(f)
    <3>1. kind = "heartbeat" /\ fire[f].at \in 0..MaxTime
      BY <1>0, <2>3 DEF Insert, Alive, Fire
    <3>2. QED
      BY <1>0, <1>00, <2>3, <3>1 DEF Insert
  <2>5. CASE Finish(f)
    BY <1>0, <2>5 DEF Finish, Over
  <2>6. CASE FinishFails(f)
    BY <1>0, <2>6 DEF FinishFails, Over
  <2>7. QED
    BY <1>11, <2>1, <2>2, <2>3, <2>5, <2>6 DEF FireStep
<1>12. CASE Restart
  <2>1. fire'[g] = IF Alive(g) THEN [fire[g] EXCEPT !.pc = "dead", !.at = 0]
                   ELSE fire[g]
    BY <1>12 DEF Restart
  <2>2. /\ fire'[g].row = fire[g].row /\ fire'[g].by = fire[g].by
        /\ fire'[g].slot = fire[g].slot /\ fire'[g].edit = fire[g].edit
        /\ fire'[g].at = IF Alive(g) THEN 0 ELSE fire[g].at
        /\ fire'[g].pc = IF Alive(g) THEN "dead" ELSE fire[g].pc
    BY <1>00, <2>1 DEF Fire
  <2>3. UNCHANGED <<kind, now, due, edits, setback>>
    BY <1>12 DEF Restart
  <2>4. QED
    BY <1>0, <2>2, <2>3
<1>13. CASE ResetRuns
  <2>1. fire'[g] = IF fire[g].row = "running" THEN [fire[g] EXCEPT !.row = "cancelled"]
                   ELSE fire[g]
    BY <1>13 DEF ResetRuns
  <2>2. /\ fire'[g].pc = fire[g].pc /\ fire'[g].by = fire[g].by /\ fire'[g].at = fire[g].at
        /\ fire'[g].slot = fire[g].slot /\ fire'[g].edit = fire[g].edit
        /\ fire'[g].row = "none" <=> fire[g].row = "none"
    BY <1>00, <2>1 DEF Fire
  <2>3. UNCHANGED <<kind, now, due, edits, setback>>
    BY <1>13 DEF ResetRuns
  <2>4. QED
    BY <1>0, <2>2, <2>3
<1>14. CASE ResetFails
  BY <1>0, <1>14 DEF ResetFails
<1>15. CASE UNCHANGED vars
  BY <1>0, <1>15 DEF vars
<1>16. QED
  BY <1>1, <1>2, <1>3, <1>4, <1>5, <1>6, <1>7, <1>9, <1>10, <1>11, <1>12, <1>13, <1>14, <1>15
     DEF Next, PollStep

LEMMA StepApartSeen ==
  ASSUME TypeInv, Owned, OnceInv, [Next]_vars, NEW f \in Fires
  PROVE  ApartSeen(f)'
<1>0. KnownFire(f) /\ ApartSeen(f) /\ due \in Slots /\ fire[f] \in Fire
  BY DEF OnceInv, TypeInv, TypeOK
<1>1. CASE PollRead
  <2>1. /\ fire' = fire /\ setback' = setback /\ seen'.slot = due /\ seen'.edit = edits
        /\ seen'.stale = \E g \in Fires : Polled(g) /\ Alive(g)
    BY <1>1 DEF PollRead, seenBy
  <2>2. SUFFICES ASSUME Polled(f), fire[f].slot = due, fire[f].edit = edits,
                        ~seen'.stale, ~setback
                 PROVE  Past(f)
    BY <1>0, <2>1 DEF ApartSeen, KnownFire, Polled, Past, Alive
  <2>3. ~Alive(f)
    BY <2>1, <2>2
  <2>4. fire[f].row = "none"
    BY <1>0, <2>2, ScheduleAssumption DEF KnownFire, Slots, Never
  <2>5. QED
    BY <2>3, <2>4 DEF Past
<1>1a. CASE ReadSchedule /\ worker' # "idle"
  <2>1. /\ fire' = fire /\ setback' = setback /\ seen'.slot = due /\ seen'.edit = edits
        /\ kind = "schedule"
    BY <1>1a DEF ReadSchedule, PollDone, seenBy
  <2>2. ~Alive(f)
    BY <2>1 DEF TypeInv, OfHeartbeat
  <2>3. SUFFICES ASSUME Polled(f), fire[f].slot = due, fire[f].edit = edits, ~setback
                 PROVE  Past(f)
    BY <1>0, <2>1 DEF ApartSeen, KnownFire, Polled, Past, Alive
  <2>4. fire[f].row = "none"
    BY <1>0, <2>3, ScheduleAssumption DEF KnownFire, Slots, Never
  <2>5. QED
    BY <2>2, <2>4 DEF Past
<1>2. CASE worker' = "idle"
  BY <1>2 DEF ApartSeen
<1>3. CASE worker' # "idle" /\ ~PollRead /\ ~ReadSchedule
  <2>1. worker # "idle" /\ seen' = seen
    BY <1>3 DEF Next, PollStep, FireStep, Tick, Toggle, PatchSubscription, PatchTask, Edit,
       PollHeartbeat, ReadSchedule, SpawnSchedule, SpawnFails, AdvanceSubscription, SpawnChild, PollDone,
       FireByHand, FireByFlush, Enter, GiveUp, Insert, Finish, FinishFails,
       Restart, ResetRuns, ResetFails, plan, poll, vars
  <2>2. \A slot, edit, stale : ~Spawns(slot, edit, stale)
    BY <1>3 DEF Spawns, PollHeartbeat, SpawnSchedule, SpawnChild, PollDone
  <2>3. KeepsOne(f) /\ (setback => setback')
    BY <2>2, StepKeeps DEF Keeps
  <2>4. QED
    BY <1>0, <2>1, <2>3 DEF KeepsOne, ApartSeen
<1>4. QED
  BY <1>1, <1>1a, <1>2, <1>3

LEMMA StepApart ==
  ASSUME TypeInv, Owned, OnceInv, [Next]_vars, NEW f \in Fires, NEW g \in Fires
  PROVE  Apart(f, g)'
<1>0. /\ Known /\ KnownFire(f) /\ ApartSeen(f) /\ Apart(f, g) /\ Fresh /\ due \in Slots
      /\ made \in 0..MaxFires /\ fire \in [Fires -> Fire] /\ fire[f] \in Fire
      /\ \A h \in Fires : Alive(h) => kind = "heartbeat"
  BY DEF OnceInv, Owned, TypeInv, TypeOK, OfHeartbeat
<1>1. CASE Keeps
  <2>1. KeepsOne(f) /\ KeepsOne(g) /\ (setback => setback')
    BY <1>1, StepKeeps DEF Keeps
  <2>2. QED
    BY <1>0, <2>1 DEF KeepsOne, Apart
<1>2. ASSUME NEW slot \in Slots, NEW edit \in 0..MaxEdits, NEW stale \in BOOLEAN,
             Spawns(slot, edit, stale)
      PROVE  Apart(f, g)'
  <2>1. PICK s, pc, row : /\ Start("worker", s, pc, row) /\ s.slot = slot
                          /\ s.edit = edit /\ s.stale = stale
    BY <1>2 DEF Spawns
  <2>2. /\ \A h \in Fires : h # made + 1 => fire'[h] = fire[h]
        /\ fire'[made + 1].slot = slot /\ fire'[made + 1].edit = edit
        /\ fire'[made + 1].stale = stale
    BY <1>0, <2>1, StartFacts, StartSlot
  <2>3. SUFFICES ASSUME f < g, Polled(f)', Polled(g)', fire'[f].slot = fire'[g].slot,
                        fire'[f].edit = fire'[g].edit
                 PROVE  fire'[g].stale \/ setback' \/ Past(f)'
    BY DEF Apart, Polled, Past, Alive
  <2>4. setback' = setback
    BY <1>2 DEF Spawns, PollHeartbeat, SpawnSchedule, SpawnChild, seenBy
  <2>5. CASE g # made + 1
    <3>1. fire'[g] = fire[g]
      BY <2>2, <2>5
    <3>2. f # made + 1
      <4>1. SUFFICES ASSUME f = made + 1 PROVE FALSE
        OBVIOUS
      <4>2. fire[g].by = "none"
        BY <1>0, <2>3, <4>1, ScheduleAssumption DEF Fresh, Fires
      <4>3. QED
        BY <2>3, <3>1, <4>2 DEF Polled
    <3>3. fire'[f] = fire[f]
      BY <2>2, <3>2
    <3>4. QED
      BY <1>0, <2>3, <2>4, <3>1, <3>3 DEF Apart, Polled, Past, Alive
  <2>6. CASE g = made + 1
    <3>1. fire'[f] = fire[f] /\ Polled(f)
      BY <2>2, <2>3, <2>6, ScheduleAssumption DEF Fires, Polled
    <3>2. fire[f].slot = slot /\ fire[f].edit = edit
      BY <2>2, <2>3, <2>6, <3>1
    <3>3. slot = seen.slot /\ edit = seen.edit /\ stale = seen.stale /\ worker # "idle"
      BY <1>2 DEF Spawns, PollHeartbeat, SpawnSchedule, SpawnChild
    <3>4. QED
      BY <1>0, <2>2, <2>4, <2>6, <3>1, <3>2, <3>3 DEF ApartSeen, Past, Alive
  <2>7. QED
    BY <2>5, <2>6
<1>3. QED
  BY <1>1, <1>2, StepKeeps

LEMMA InitOnce == Init => OnceInv
<1> SUFFICES ASSUME Init PROVE OnceInv
  OBVIOUS
<1>1. \A f \in Fires : fire[f] = NoFire
  BY DEF Init
<1>2. worker = "idle"
  BY DEF Init
<1>3. QED
  BY <1>1, <1>2 DEF OnceInv, Known, KnownFire, ApartSeen, Apart, Polled, NoFire

LEMMA AlwaysOnce == Spec => []OnceInv
<1>1. TypeInv /\ Owned /\ OnceInv /\ [Next]_vars => OnceInv'
  <2> SUFFICES ASSUME TypeInv, Owned, OnceInv, [Next]_vars PROVE OnceInv'
    OBVIOUS
  <2>1. Known'
    BY StepKnown
  <2>2. \A f \in Fires : KnownFire(f)' /\ ApartSeen(f)'
    BY StepKnownFire, StepApartSeen
  <2>3. \A f, g \in Fires : Apart(f, g)'
    BY StepApart
  <2>4. QED
    BY <2>1, <2>2, <2>3 DEF OnceInv
<1>2. QED
  BY <1>1, InitOnce, AlwaysTyped, AlwaysOwned, PTL DEF Spec

(* No slot is fired by two polls, but by a poll that read the row while a  *)
(* fire was in flight or after a slow fire moved the next run back.        *)
THEOREM SlotsFiredOnce == Spec => []SlotOnce
<1>1. OnceInv => SlotOnce
  BY DEF OnceInv, SlotOnce, Apart, Past
<1>2. QED
  BY <1>1, AlwaysOnce, PTL

---------------------------------------------------------------------------
(* No slot of a schedule left out.                                         *)

Gapless == kind = "schedule" /\ ~overrode => first <= due /\ ScheduleGapless

LEMMA EmptyRange == ASSUME NEW d \in Int PROVE d..(d - 1) = {}
  OBVIOUS

LEMMA StepGapless ==
  ASSUME TypeInv, OnceInv, Owned, Gapless, [Next]_vars
  PROVE  Gapless'
<1> SUFFICES ASSUME kind' = "schedule", ~overrode'
             PROVE  first' <= due' /\ ScheduleGapless'
  BY DEF Gapless
<1>0. /\ due \in Slots /\ first \in Slots /\ edits \in 0..MaxEdits /\ made \in 0..MaxFires
      /\ fire \in [Fires -> Fire] /\ Fresh
      /\ \A f \in Fires : ~Alive(f) \/ kind = "heartbeat"
      /\ \A f \in Fires : Polled(f) => fire[f].edit <= edits
      /\ worker = "spawn" /\ kind = "schedule" /\ seen.edit = edits => due = seen.slot
  BY DEF TypeInv, TypeOK, OfHeartbeat, Owned, OnceInv, Known, KnownFire
<1>1. due \in Int /\ first \in Int /\ \A f \in Fires : fire[f] \in Fire /\ fire[f].edit \in Int
  BY <1>0, ScheduleAssumption DEF Slots, Never, Fire
<1>2. kind = "schedule"
  BY DEF Next, PollStep, FireStep, Tick, Toggle, PatchSubscription, PatchTask, Edit, PollRead,
     PollHeartbeat, ReadSchedule, SpawnSchedule, SpawnFails, AdvanceSubscription, SpawnChild, FireByHand,
     FireByFlush, Enter, GiveUp, Insert, Finish, FinishFails, Restart,
     ResetRuns, ResetFails, clock, vars
<1>2a. ~PatchTask => ~overrode
  BY <1>2 DEF Next, PollStep, FireStep, Tick, Toggle, PatchSubscription, PollRead, PollHeartbeat,
     ReadSchedule, SpawnSchedule, SpawnFails, AdvanceSubscription, SpawnChild, FireByHand,
     FireByFlush, Enter, GiveUp, Insert, Finish, FinishFails, Restart,
     ResetRuns, ResetFails, seenBy, vars
<1>3. ~PatchTask =>
      /\ first <= due /\ {fire[f].slot : f \in Spawned} = first..(due - 1)
      /\ \A f, g \in Spawned : fire[f].slot = fire[g].slot => f = g
  BY <1>2, <1>2a DEF Gapless, ScheduleGapless
<1>4. ASSUME ~PatchTask, UNCHANGED <<due, first, edits>>,
             \A f \in Fires : /\ fire'[f].by = fire[f].by /\ fire'[f].slot = fire[f].slot
                              /\ fire'[f].edit = fire[f].edit
      PROVE  first' <= due' /\ ScheduleGapless'
  <2>1. Spawned' = Spawned
    BY <1>4 DEF Spawned, Polled
  <2>2. \A f \in Spawned : fire'[f].slot = fire[f].slot
    BY <1>4 DEF Spawned
  <2>3. {fire'[f].slot : f \in Spawned} = {fire[f].slot : f \in Spawned}
    BY <2>2
  <2>4. QED
    BY <1>3, <1>4, <2>1, <2>2, <2>3 DEF ScheduleGapless
<1>5. CASE SpawnSchedule
  <2>0. seen.edit = edits
    BY <1>5 DEF SpawnSchedule
  <2>a. ~PatchTask
    BY <1>0, <1>5, ScheduleAssumption DEF SpawnSchedule, PatchTask, Edit, budget
  <2>b. /\ first <= due /\ {fire[f].slot : f \in Spawned} = first..(due - 1)
        /\ \A f, g \in Spawned : fire[f].slot = fire[g].slot => f = g
    BY <1>3, <2>a
  <2>1. /\ Start("worker", seen, "done", "pending") /\ seen.slot = due
        /\ due' = due + 1 /\ UNCHANGED <<first, edits>>
    BY <1>0, <1>5, <2>0 DEF SpawnSchedule, budget
  <2>2. /\ made + 1 \in Fires /\ fire'[made + 1].by = "worker"
        /\ \A f \in Fires : f # made + 1 => fire'[f] = fire[f]
        /\ fire'[made + 1].slot = due /\ fire'[made + 1].edit = edits
    BY <1>0, <2>0, <2>1, StartFacts, StartSlot, ScheduleAssumption DEF Start, Fires
  <2>3. made + 1 \notin Spawned
    BY <1>0, <2>2, ScheduleAssumption DEF Fresh, Fires, Spawned, Polled
  <2>4. Spawned' = Spawned \cup {made + 1}
    BY <2>1, <2>2 DEF Spawned, Polled
  <2>5. \A f \in Spawned : fire'[f].slot = fire[f].slot /\ fire[f].slot \in first..(due - 1)
    BY <2>b, <2>2, <2>3 DEF Spawned
  <2>6. {fire'[f].slot : f \in Spawned'} = {fire[f].slot : f \in Spawned} \cup {due}
    BY <2>2, <2>4, <2>5
  <2>7. first..(due - 1) \cup {due} = first..(due' - 1)
    BY <1>1, <2>b, <2>1
  <2>8. \A f, g \in Spawned' : fire'[f].slot = fire'[g].slot => f = g
    BY <1>1, <2>b, <2>2, <2>4, <2>5
  <2>9. first' <= due'
    BY <1>1, <2>b, <2>1
  <2>10. QED
    BY <2>b, <2>1, <2>6, <2>7, <2>8, <2>9 DEF ScheduleGapless
<1>6. CASE PatchTask
  <2>1. /\ edits' = edits + 1 /\ due' = first' /\ due' \in Int /\ fire' = fire
    BY <1>6, ScheduleAssumption DEF PatchTask, Edit, TypeInv, TypeOK
  <2>2. Spawned' = {}
    BY <1>0, <1>1, <2>1 DEF Spawned, Polled
  <2>3. first'..(due' - 1) = {}
    BY <2>1, EmptyRange
  <2>4. {fire'[f].slot : f \in Spawned'} = {}
    BY <2>2
  <2>5. QED
    BY <2>1, <2>2, <2>3, <2>4 DEF ScheduleGapless
<1>7. CASE Tick \/ PollRead \/ ReadSchedule \/ SpawnFails \/ ResetFails \/ UNCHANGED vars
  BY <1>4, <1>6, <1>7 DEF Tick, PollRead, ReadSchedule, SpawnFails, ResetFails, plan, budget, vars
<1>8. CASE Restart
  <2>1. \A f \in Fires : fire'[f] =
          IF Alive(f) THEN [fire[f] EXCEPT !.pc = "dead", !.at = 0] ELSE fire[f]
    BY <1>8 DEF Restart
  <2>2. QED
    BY <1>1, <1>4, <1>6, <1>8, <2>1 DEF Restart, plan, Fire
<1>9. CASE ResetRuns
  <2>1. \A f \in Fires : fire'[f] =
          IF fire[f].row = "running" THEN [fire[f] EXCEPT !.row = "cancelled"] ELSE fire[f]
    BY <1>9 DEF ResetRuns
  <2>2. QED
    BY <1>1, <1>4, <1>6, <1>9, <2>1 DEF ResetRuns, plan, budget, Fire
<1>10. ASSUME NEW f \in Fires, FireStep(f) PROVE FALSE
  BY <1>0, <1>2, <1>10 DEF FireStep, Enter, GiveUp, Insert, Finish, FinishFails,
     Alive
<1>11. ~(\/ Toggle \/ PatchSubscription \/ PollHeartbeat \/ AdvanceSubscription \/ SpawnChild
         \/ FireByHand \/ FireByFlush)
  BY <1>0, <1>2 DEF Toggle, PatchSubscription, PollHeartbeat, AdvanceSubscription, SpawnChild,
     FireByHand, FireByFlush
<1>12. QED
  BY <1>5, <1>6, <1>7, <1>8, <1>9, <1>10, <1>11 DEF Next, PollStep

(* A recurring task runs every slot between its last edit and its next     *)
(* run, once each, through errors, restarts and missed polls.              *)
THEOREM SchedulesLeaveNoGap == Spec => []ScheduleGapless
<1>1. Init => Gapless
  <2> SUFFICES ASSUME Init PROVE Gapless
    OBVIOUS
  <2>1. Spawned = {}
    BY DEF Init, Spawned, Polled, NoFire
  <2>2. due \in Int /\ first = due /\ first..(due - 1) = {}
    BY DEF Init
  <2>3. {fire[f].slot : f \in Spawned} = {}
    BY <2>1
  <2>4. QED
    BY <2>1, <2>2, <2>3 DEF Gapless, ScheduleGapless
<1>2. TypeInv /\ OnceInv /\ Owned /\ Gapless /\ [Next]_vars => Gapless'
  BY StepGapless
<1>3. Gapless => ScheduleGapless
  BY DEF Gapless, ScheduleGapless
<1>4. QED
  BY <1>1, <1>2, <1>3, AlwaysTyped, AlwaysOwned, AlwaysOnce, PTL DEF Spec
=============================================================================
