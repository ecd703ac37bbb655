-------------------------- MODULE PipelineProofs --------------------------
(***************************************************************************)
(* Proofs about Pipeline, for any set of definitions, child rows, users    *)
(* and bounds: its types, that a user prompt holds what is behind it, that *)
(* one coroutine drives the run, in order, and that the run implements     *)
(* StepMachine, unless a fork happened.                                    *)
(***************************************************************************)
EXTENDS Pipeline, TLAPS

---------------------------------------------------------------------------
(* Types, with the ranges of the steps coroutines and children are at.     *)

Idle(k)  == pc[k] \in {"idle", "start"}
Inside   == Point \ {"idle", "start", "loop"}
Reporting == {"working", "complete", "failed", "record"}

Positions ==
    /\ \A k \in Coroutines :
          /\ at[k] \in 0..(Last + 1)
          /\ pc[k] = "loop" => at[k] \in 1..(Last + 1)
          /\ pc[k] \in Inside => at[k] \in DOMAIN steps
          /\ pc[k] \in Reporting => steps[at[k]].kind = "agent"
    /\ \A c \in Children : child[c] # "none" =>
          stepOf[c] \in DOMAIN steps /\ steps[stepOf[c]].kind = "agent"
    /\ \A c \in Children : pc[c] = "working" => child[c] # "none"

TypeInv == TypeOK /\ Positions

(* The same, cut into what a coroutine has and what the rows and the       *)
(* observers have.                                                         *)
Copies == [DOMAIN steps -> StepStatus]

LocalInv ==
    /\ pc \in [Coroutines -> Point] /\ at \in [Coroutines -> Nat]
    /\ mine \in [Coroutines -> Copies]
    /\ \A k \in Coroutines :
          /\ at[k] \in 0..(Last + 1)
          /\ pc[k] = "loop" => at[k] \in 1..(Last + 1)
          /\ pc[k] \in Inside => at[k] \in DOMAIN steps
          /\ pc[k] \in Reporting => steps[at[k]].kind = "agent"
    /\ \A c \in Children : pc[c] = "working" => child[c] # "none"

RowsStay == \A c \in Children : child[c] # "none" => child'[c] # "none"

RowInv ==
    /\ steps \in Definitions /\ status \in RowStatus \ {"none"} /\ states \in Copies
    /\ child \in [Children -> RowStatus] /\ stepOf \in [Children -> Nat]
    /\ \A c \in Children : child[c] # "none" =>
          stepOf[c] \in DOMAIN steps /\ steps[stepOf[c]].kind = "agent"

SeenInv ==
    /\ started \in SUBSET (DOMAIN steps) /\ rerun \in SUBSET (DOMAIN steps)
    /\ passed \in SUBSET (DOMAIN steps)
    /\ forks \in SUBSET {"outran", "overdue run", "overdue child", "answers", "orphan"}
    /\ dropped \in BOOLEAN /\ defers \in Nat /\ faults \in Nat /\ restarts \in Nat

(* TypeInv is these three, before a step and after it.                     *)
LEMMA Cut == /\ TypeInv <=> LocalInv /\ RowInv /\ SeenInv
             /\ TypeInv' <=> LocalInv' /\ RowInv' /\ SeenInv'
BY DEF TypeInv, TypeOK, Positions, LocalInv, RowInv, SeenInv, Copies

(* steps is a sequence.                                                    *)
LEMMA StepsSeq ==
  ASSUME steps \in Definitions
  PROVE  Last \in Nat /\ DOMAIN steps = 1..Last /\ Fresh \in Copies
         /\ \A i \in DOMAIN steps : steps[i] \in Step
<1>1. steps \in Seq(Step)
  BY PipelineAssumption
<1>2. QED
  BY <1>1 DEF Last, Fresh, Copies, StepStatus

(* A local move to a place of the right kind.                              *)
LEMMA GoType ==
  ASSUME LocalInv, RowInv, NEW k \in Coroutines, NEW where \in Point, NEW i \in 0..(Last + 1),
         NEW s \in Copies, steps' = steps, RowsStay, Go(k, where, i, s),
         where = "loop" => i \in 1..(Last + 1),
         where \in Inside => i \in DOMAIN steps,
         where \in Reporting => steps[i].kind = "agent",
         where = "working" => k \in Children /\ child'[k] # "none"
  PROVE  LocalInv'
<1>1. Last \in Nat /\ Last' = Last /\ Copies' = Copies
  BY StepsSeq DEF RowInv, Last, Copies
<1>2. pc' \in [Coroutines -> Point] /\ at' \in [Coroutines -> Nat] /\ mine' \in [Coroutines -> Copies]
  BY <1>1 DEF LocalInv, Go
<1>3. ASSUME NEW l \in Coroutines
      PROVE  /\ at'[l] \in 0..(Last + 1)
             /\ pc'[l] = "loop" => at'[l] \in 1..(Last + 1)
             /\ pc'[l] \in Inside => at'[l] \in DOMAIN steps
             /\ pc'[l] \in Reporting => steps[at'[l]].kind = "agent"
  <2>1. CASE l = k
    BY <2>1 DEF LocalInv, Go
  <2>2. CASE l # k
    BY <2>2 DEF LocalInv, Go
  <2>3. QED
    BY <2>1, <2>2
<1>4. \A c \in Children : pc'[c] = "working" => child'[c] # "none"
  BY DEF LocalInv, Go, RowsStay, Coroutines
<1>5. QED
  BY <1>1, <1>2, <1>3, <1>4 DEF LocalInv, Inside, Point, Driving, Reporting

(* Going idle.                                                             *)
LEMMA LeaveType ==
  ASSUME LocalInv, RowInv, NEW k \in Coroutines, steps' = steps, RowsStay, Leave(k)
  PROVE  LocalInv'
<1>1. Last \in Nat /\ Fresh \in Copies /\ 0 \in 0..(Last + 1)
  BY StepsSeq DEF RowInv
<1>2. "idle" \in Point /\ "idle" \notin Inside /\ "idle" \notin Reporting /\ "idle" # "loop"
  BY DEF Point, Inside, Reporting
<1>3. Go(k, "idle", 0, Fresh)
  BY DEF Leave
<1>4. QED
  BY <1>1, <1>2, <1>3, GoType

(* Going on with the loop.                                                 *)
LEMMA ContinueType ==
  ASSUME LocalInv, RowInv, NEW k \in Coroutines, NEW s \in Copies, NEW i \in 1..(Last + 1),
         steps' = steps, RowsStay, Continue(k, s, i)
  PROVE  LocalInv'
<1>1. Last \in Nat
  BY StepsSeq DEF RowInv
<1>2. PICK j \in i..(Last + 1) : Go(k, "loop", j, s)
  BY DEF Continue
<1>3. "loop" \in Point /\ "loop" \notin Inside /\ "loop" \notin Reporting
  BY DEF Point, Driving, Inside, Reporting
<1>4. j \in 0..(Last + 1) /\ j \in 1..(Last + 1)
  BY <1>1
<1>5. QED
  BY <1>2, <1>3, <1>4, GoType

(* The copy with the current step's status set.                            *)
LEMMA WithType ==
  ASSUME LocalInv, NEW k \in Coroutines, NEW value \in StepStatus
  PROVE  With(k, value) \in Copies
BY DEF LocalInv, With, Copies

(* A step's end.                                                           *)
LEMMA EndStepType ==
  ASSUME LocalInv, RowInv, NEW k \in Coroutines, NEW s \in Copies, steps' = steps,
         RowsStay, at[k] \in DOMAIN steps, EndStep(k, s)
  PROVE  LocalInv' /\ states' \in Copies
<1>1. states' \in Copies
  BY DEF EndStep
<1>2. Last \in Nat /\ at[k] + 1 \in 1..(Last + 1) /\ at[k] \in 0..(Last + 1)
  BY StepsSeq DEF RowInv
<1>3. CASE s[at[k]] = "failed" /\ steps[at[k]].abort
  <2>1. Go(k, "abort", at[k], s)
    BY <1>3 DEF EndStep
  <2>2. "abort" \in Point /\ "abort" # "loop" /\ "abort" \notin Reporting
    BY DEF Point, Driving, Reporting
  <2>3. QED
    BY <1>1, <1>2, <2>1, <2>2, GoType
<1>4. CASE ~(s[at[k]] = "failed" /\ steps[at[k]].abort)
  <2>1. Continue(k, s, at[k] + 1)
    BY <1>4 DEF EndStep
  <2>2. QED
    BY <1>1, <1>2, <2>1, ContinueType
<1>5. QED
  BY <1>3, <1>4

(* A counter goes on counting.                                             *)
LEMMA CountType == \A n \in Nat : n + 1 \in Nat
OBVIOUS

(* No run has begun.                                                       *)
LEMMA InitType == Init => TypeInv
<1> SUFFICES ASSUME Init PROVE TypeInv
  OBVIOUS
<1>1. steps \in Definitions /\ Last \in Nat /\ Fresh \in Copies
  BY StepsSeq DEF Init
<1>2. LocalInv
  <2>1. /\ pc \in [Coroutines -> Point] /\ at \in [Coroutines -> Nat]
        /\ mine \in [Coroutines -> Copies]
    BY <1>1 DEF Init, Point
  <2>2. \A k \in Coroutines : pc[k] = "idle" /\ at[k] = 0
    BY DEF Init
  <2>3. \A c \in Children : pc[c] # "working"
    BY <2>2 DEF Coroutines
  <2>4. 0 \in 0..(Last + 1) /\ "idle" \notin Inside /\ "idle" \notin Reporting
    BY <1>1 DEF Inside, Reporting
  <2>5. QED
    BY <2>1, <2>2, <2>3, <2>4 DEF LocalInv
<1>3. RowInv
  BY <1>1 DEF Init, RowInv, RowStatus, Final
<1>4. SeenInv
  BY DEF Init, SeenInv
<1>5. QED
  BY <1>2, <1>3, <1>4, Cut

(* The steps of _advance_pipeline.                                         *)
LEMMA AdvanceType ==
  ASSUME TypeInv, NEW k \in Coroutines, Advance(k) \/ ForeachItem(k) PROVE TypeInv'
<1> USE Cut
<1>1. /\ LocalInv /\ RowInv /\ SeenInv /\ steps' = steps /\ Last \in Nat /\ DOMAIN steps = 1..Last
      /\ Copies' = Copies /\ mine[k] \in Copies
  BY StepsSeq DEF RowInv, LocalInv, Copies, Advance, SkipStep, StartStep, UnknownStep, RunInline,
     AskUser, SkipPrompt, SpawnChild, LinkChild, Finalize, ForeachItem
<1> USE <1>1
<1> RowsStay
  BY DEF RowInv, RowsStay, Advance, SkipStep, StartStep, UnknownStep, RunInline,
     AskUser, SkipPrompt, SpawnChild, LinkChild, Finalize, ForeachItem
<1>2. \A value \in StepStatus : With(k, value) \in Copies
  BY WithType
<1>3. /\ pc[k] = "loop" /\ at[k] <= Last => at[k] \in DOMAIN steps
      /\ pc[k] \in Inside => at[k] \in DOMAIN steps
      /\ at[k] \in 0..(Last + 1)
  BY DEF LocalInv
<1>4. {"step", "link", "abort"} \subseteq Inside /\ {"step", "abort", "link"} \subseteq Point
      /\ {"step", "abort", "link"} \cap Reporting = {}
  BY DEF Inside, Point, Driving, Reporting
<1>5. {"skipped", "running", "failed", "awaiting_user_input", "done"} \subseteq StepStatus
  BY DEF StepStatus
<1>6. ASSUME states' \in Copies, LocalInv', SeenInv', UNCHANGED <<status, child, stepOf>>
      PROVE  TypeInv'
  BY <1>6 DEF RowInv
<1>7. CASE SkipStep(k)
  <2>1. states' \in Copies /\ at[k] \in DOMAIN steps /\ Continue(k, states', at[k] + 1)
    BY <1>7, <1>2, <1>3, <1>5 DEF SkipStep
  <2>2. LocalInv'
    BY <2>1, ContinueType
  <2>3. SeenInv'
    BY <1>7, <2>1 DEF SkipStep, SeenInv, bounds
  <2>4. QED
    BY <1>6, <1>7, <2>1, <2>2, <2>3 DEF SkipStep
<1>8. CASE StartStep(k)
  <2>1. states' \in Copies /\ at[k] \in DOMAIN steps /\ Go(k, "step", at[k], states')
    BY <1>8, <1>2, <1>3, <1>5 DEF StartStep
  <2>2. LocalInv'
    BY <2>1, <1>3, <1>4, GoType
  <2>3. SeenInv'
    BY <1>8, <2>1 DEF StartStep, SeenInv, bounds
  <2>4. QED
    BY <1>6, <1>8, <2>1, <2>2, <2>3 DEF StartStep
<1>9. CASE UnknownStep(k)
  <2>1. states' \in Copies /\ at[k] \in DOMAIN steps /\ Go(k, "abort", at[k], states')
    BY <1>9, <1>2, <1>3, <1>4, <1>5 DEF UnknownStep, AtStep
  <2>2. LocalInv'
    BY <2>1, <1>3, <1>4, GoType
  <2>3. QED
    BY <1>6, <1>9, <2>1, <2>2 DEF UnknownStep, SeenInv, seen, bounds
<1>10. ASSUME NEW result \in Ended, RunInline(k, result) PROVE TypeInv'
  <2>1. at[k] \in DOMAIN steps /\ EndStep(k, With(k, result)) /\ With(k, result) \in Copies
    BY <1>10, <1>2, <1>3, <1>4 DEF RunInline, AtStep, Ended, StepStatus
  <2>2. LocalInv' /\ states' \in Copies
    BY <2>1, EndStepType
  <2>3. QED
    BY <1>6, <1>10, <2>2 DEF RunInline, SeenInv, seen, bounds
<1>11. CASE AskUser(k)
  <2>1. states' \in Copies /\ LocalInv'
    BY <1>11, <1>2, <1>5, LeaveType DEF AskUser
  <2>2. QED
    BY <1>6, <1>11, <2>1 DEF AskUser, SeenInv, seen, bounds
<1>12. CASE SkipPrompt(k)
  <2>1. states' \in Copies /\ at[k] \in DOMAIN steps /\ Continue(k, states', at[k] + 1)
    BY <1>12, <1>2, <1>3, <1>4, <1>5 DEF SkipPrompt, AtStep
  <2>2. LocalInv'
    BY <2>1, ContinueType
  <2>3. SeenInv'
    BY <1>12, <2>1 DEF SkipPrompt, SeenInv, bounds
  <2>4. QED
    BY <1>6, <1>12, <2>1, <2>2, <2>3 DEF SkipPrompt
<1>13. ASSUME NEW c \in Children, SpawnChild(k, c) PROVE TypeInv'
  <2>1. at[k] \in DOMAIN steps /\ Go(k, "link", at[k], mine[k]) /\ steps[at[k]].kind = "agent"
    BY <1>13, <1>3, <1>4 DEF SpawnChild, AtStep
  <2>2. LocalInv'
    BY <2>1, <1>3, <1>4, GoType
  <2>3. RowInv'
    <3>1. child' \in [Children -> RowStatus]
      BY <1>13 DEF SpawnChild, RowInv, RowStatus
    <3>2. stepOf' \in [Children -> Nat]
      BY <1>13, <2>1 DEF SpawnChild, RowInv
    <3>3. \A d \in Children : child'[d] # "none" =>
             stepOf'[d] \in DOMAIN steps /\ steps[stepOf'[d]].kind = "agent"
      BY <1>13, <2>1 DEF SpawnChild, RowInv
    <3>4. QED
      BY <1>13, <3>1, <3>2, <3>3 DEF SpawnChild, RowInv
  <2>4. QED
    BY <1>13, <2>2, <2>3 DEF SpawnChild, SeenInv, seen, bounds
<1>14. CASE LinkChild(k)
  <2>1. states' \in Copies /\ LocalInv'
    BY <1>14, LeaveType DEF LinkChild
  <2>2. QED
    BY <1>6, <1>14, <2>1 DEF LinkChild, SeenInv, seen, bounds
<1>15. CASE Finalize(k)
  <2>1. states' \in Copies /\ LocalInv'
    BY <1>15, LeaveType DEF Finalize
  <2>2. status' \in RowStatus \ {"none"}
    BY <1>15 DEF Finalize, RowStatus, Final
  <2>3. QED
    BY <1>15, <2>1, <2>2 DEF Finalize, RowInv, SeenInv, seen, bounds
<1>16. CASE ForeachItem(k)
  <2>1. RowInv' /\ SeenInv'
    BY <1>16 DEF ForeachItem, RowInv, SeenInv, seen, bounds
  <2>2. LocalInv'
    BY <1>16 DEF ForeachItem, LocalInv, Last, locals
  <2>3. QED
    BY <2>1, <2>2
<1>17. QED
  BY <1>7, <1>8, <1>9, <1>10, <1>11, <1>12, <1>13, <1>14, <1>15, <1>16 DEF Advance

(* The worker, the children and their reports.                             *)
LEMMA TaskType ==
  ASSUME TypeInv,
         \/ FetchRun \/ DeferRun \/ BeginRun \/ Recover
         \/ \E c \in Children : FetchChild(c) \/ DeferChild(c) \/ (\E outcome \in Final : EndChild(c, outcome))
         \/ \E k \in Coroutines : Report(k)
  PROVE  TypeInv'
<1> USE Cut
<1>1. /\ LocalInv /\ RowInv /\ SeenInv /\ steps' = steps /\ Last \in Nat /\ DOMAIN steps = 1..Last
      /\ Copies' = Copies /\ Fresh \in Copies
  BY StepsSeq DEF RowInv, LocalInv, Copies, FetchRun, DeferRun, BeginRun, Recover, RecoverRun, RecoverChild,
     FetchChild, DeferChild, EndChild, Report, ReadRun, RecordStep
<1> USE <1>1
<1> RowsStay
  BY DEF RowInv, RowsStay, FetchRun, DeferRun, BeginRun, Recover, RecoverRun, RecoverChild,
     FetchChild, DeferChild, EndChild, Report, ReadRun, RecordStep, Final
<1>2. Run \in Coroutines /\ Worker \in Coroutines /\ Children \subseteq Coroutines
  BY DEF Coroutines
<1>3. {"working", "complete", "failed", "record", "start"} \subseteq Point
  BY DEF Point, Driving
<1>4. {"working", "complete", "failed", "record"} \subseteq Inside /\ "start" \notin Inside
  BY <1>3 DEF Inside
<1>5. "start" \notin Reporting /\ {"working", "complete", "failed", "record"} \subseteq Reporting
  BY DEF Reporting
<1>6. CASE FetchRun
  <2>1. Go(Run, "start", 0, Fresh) /\ 0 \in 0..(Last + 1)
    BY <1>6 DEF FetchRun
  <2>2. LocalInv'
    BY <2>1, <1>2, <1>3, <1>4, <1>5, GoType
  <2>3. QED
    BY <1>6, <2>2 DEF FetchRun, RowInv, RowStatus, SeenInv, seen, bounds
<1>7. CASE DeferRun
  <2>1. LocalInv'
    BY <1>7, <1>2, LeaveType DEF DeferRun
  <2>2. QED
    BY <1>7, <2>1 DEF DeferRun, RowInv, RowStatus, SeenInv, seen, bounds
<1>8. CASE BeginRun
  <2>1. LocalInv'
    <3>1. CASE Last = 0
      BY <1>8, <3>1, <1>2, LeaveType DEF BeginRun
    <3>2. CASE Last # 0
      BY <1>8, <3>2, <1>2, ContinueType DEF BeginRun, RowInv
    <3>3. QED
      BY <3>1, <3>2
  <2>2. status' \in RowStatus \ {"none"}
    BY <1>8 DEF BeginRun, RowStatus, Final
  <2>3. QED
    BY <1>8, <2>1, <2>2 DEF BeginRun, RowInv, SeenInv, seen, bounds
<1>9. CASE RecoverRun
  <2>1. SeenInv'
    BY <1>9 DEF RecoverRun, SeenInv, seen, bounds
  <2>2. LocalInv'
    BY <1>9 DEF RecoverRun, LocalInv, Last, locals
  <2>3. QED
    BY <1>9, <2>1, <2>2 DEF RecoverRun, RowInv, RowStatus, Final
<1>10. ASSUME NEW c \in Children, RecoverChild(c) PROVE TypeInv'
  <2>1. stepOf[c] \in DOMAIN steps /\ steps[stepOf[c]].kind = "agent"
    BY <1>10 DEF RecoverChild, RowInv
  <2> stepOf[c] \in 0..(Last + 1)
    BY <2>1
  <2> Go(Worker, "failed", stepOf[c], Fresh)
    BY <1>10 DEF RecoverChild
  <2>2. LocalInv'
    BY <2>1, <1>2, <1>3, <1>4, <1>5, GoType
  <2>3. SeenInv'
    BY <1>10 DEF RecoverChild, SeenInv, seen, bounds
  <2>4. QED
    BY <1>10, <2>2, <2>3 DEF RecoverChild, RowInv, RowStatus, Final
<1>11. ASSUME NEW c \in Children, FetchChild(c) PROVE TypeInv'
  <2>1. stepOf[c] \in DOMAIN steps /\ steps[stepOf[c]].kind = "agent"
    BY <1>11 DEF FetchChild, RowInv
  <2>2. LocalInv'
    BY <1>11, <2>1, <1>2, <1>3, <1>4, <1>5, GoType DEF FetchChild
  <2>3. QED
    BY <1>11, <2>2 DEF FetchChild, RowInv, RowStatus, SeenInv, seen, bounds
<1>12. ASSUME NEW c \in Children, DeferChild(c) PROVE TypeInv'
  <2>1. LocalInv'
    BY <1>12, <1>2, LeaveType DEF DeferChild
  <2>2. RowInv'
    BY <1>12 DEF DeferChild, LocalInv, RowInv, RowStatus
  <2>3. defers' \in Nat
    BY <1>12, CountType DEF DeferChild, SeenInv
  <2>4. SeenInv'
    BY <1>12, <2>3 DEF DeferChild, SeenInv, seen
  <2>5. QED
    BY <2>1, <2>2, <2>4
<1>13. ASSUME NEW c \in Children, NEW outcome \in Final, EndChild(c, outcome) PROVE TypeInv'
  <2>1. at[c] \in DOMAIN steps /\ steps[at[c]].kind = "agent" /\ at[c] \in 0..(Last + 1)
    BY <1>13, <1>2, <1>4, <1>5 DEF EndChild, LocalInv
  <2>2. LocalInv'
    BY <1>13, <2>1, <1>2, <1>3, <1>4, <1>5, GoType DEF EndChild, Final
  <2>3. child' \in [Children -> RowStatus]
    BY <1>13 DEF EndChild, RowInv, RowStatus
  <2>4. \A d \in Children : child'[d] # "none" => child[d] # "none"
    BY <1>13 DEF EndChild, RowInv, LocalInv
  <2>5. QED
    BY <1>13, <2>2, <2>3, <2>4 DEF EndChild, RowInv, SeenInv, seen, bounds
<1>14. ASSUME NEW k \in Coroutines, ReadRun(k) PROVE TypeInv'
  <2>1. at[k] \in DOMAIN steps /\ steps[at[k]].kind = "agent" /\ at[k] \in 0..(Last + 1)
    BY <1>14, <1>4, <1>5 DEF ReadRun, LocalInv
  <2>2. PICK s \in Copies : Go(k, "record", at[k], s)
    BY <1>14 DEF ReadRun, RowInv, Copies, StepStatus
  <2>3. LocalInv'
    BY <2>1, <2>2, <1>3, <1>4, <1>5, GoType
  <2>4. SeenInv'
    BY <1>14 DEF ReadRun, SeenInv, seen, bounds
  <2>5. QED
    BY <1>14, <2>3, <2>4 DEF ReadRun, RowInv
<1>15. ASSUME NEW k \in Coroutines, NEW failIf \in BOOLEAN, RecordStep(k, failIf) PROVE TypeInv'
  <2>1. at[k] \in DOMAIN steps
    BY <1>15, <1>4, <1>5 DEF RecordStep, LocalInv
  <2>2. PICK s \in Copies : EndStep(k, s)
    BY <1>15, WithType DEF RecordStep, LocalInv, StepStatus
  <2>3. LocalInv' /\ states' \in Copies
    BY <2>1, <2>2, EndStepType
  <2>4. QED
    BY <1>15, <2>3 DEF RecordStep, RowInv, SeenInv, seen, bounds
<1>16. QED
  BY <1>6, <1>7, <1>8, <1>9, <1>10, <1>11, <1>12, <1>13, <1>14, <1>15 DEF Recover, Report

(* Answers and failures.                                                   *)
LEMMA EventType ==
  ASSUME TypeInv,
         (\E u \in Users : Resolve(u)) \/ (\E k \in Coroutines : Raise(k)) \/ CancelQueued \/ Restart
  PROVE  TypeInv'
<1> USE Cut
<1>1. /\ LocalInv /\ RowInv /\ SeenInv /\ steps' = steps /\ Last \in Nat /\ DOMAIN steps = 1..Last
      /\ Copies' = Copies /\ Fresh \in Copies
  BY StepsSeq DEF RowInv, LocalInv, Copies, Resolve, ReadAnswer, StoreAnswer, Resume, Raise, CancelQueued, Restart
<1> USE <1>1
<1> RowsStay
  BY DEF RowsStay, Resolve, ReadAnswer, StoreAnswer, Resume, Raise, CancelQueued, Restart
<1>2. /\ Users \subseteq Coroutines /\ {"answer", "resume"} \subseteq Point
      /\ {"answer", "resume"} \subseteq Inside /\ {"answer", "resume"} \cap Reporting = {}
  BY DEF Coroutines, Point, Inside, Reporting
<1>3. ASSUME NEW u \in Users, NEW i \in DOMAIN steps, ReadAnswer(u, i) PROVE TypeInv'
  <2>1. Go(u, "answer", i, states) /\ i \in 0..(Last + 1) /\ states \in Copies
    BY <1>3 DEF ReadAnswer, RowInv
  <2>2. LocalInv'
    BY <2>1, <1>2, GoType
  <2>3. QED
    BY <1>3, <2>2 DEF ReadAnswer, RowInv, SeenInv, seen, bounds
<1>4. ASSUME NEW u \in Users, StoreAnswer(u) PROVE TypeInv'
  <2>1. at[u] \in DOMAIN steps /\ at[u] \in 0..(Last + 1)
    BY <1>4, <1>2 DEF StoreAnswer, LocalInv
  <2>2. states' \in Copies /\ Go(u, "resume", at[u], Fresh)
    BY <1>4, <1>2, WithType DEF StoreAnswer, StepStatus
  <2>3. LocalInv'
    BY <2>1, <2>2, <1>2, GoType
  <2>4. SeenInv'
    BY <1>4, <2>1 DEF StoreAnswer, SeenInv, bounds
  <2>5. QED
    BY <1>4, <2>2, <2>3, <2>4 DEF StoreAnswer, RowInv
<1>5. ASSUME NEW u \in Users, Resume(u) PROVE TypeInv'
  <2>1. at[u] + 1 \in 1..(Last + 1) /\ states \in Copies
    BY <1>5, <1>2 DEF Resume, LocalInv, RowInv
  <2>2. LocalInv'
    BY <1>5, <2>1, <1>2, ContinueType DEF Resume
  <2>3. QED
    BY <1>5, <2>2 DEF Resume, RowInv, SeenInv, seen, bounds
<1>6. ASSUME NEW k \in Coroutines, Raise(k) PROVE TypeInv'
  <2>1. LocalInv'
    BY <1>6, LeaveType DEF Raise
  <2>2. states' \in Copies /\ status' \in RowStatus \ {"none"}
    BY <1>6 DEF Raise, RowInv, Copies, StepStatus, RowStatus, Final
  <2>3. faults' \in Nat /\ UNCHANGED <<child, stepOf, defers, restarts>>
    BY <1>6, CountType DEF Raise, SeenInv
  <2>4. /\ dropped' \in BOOLEAN /\ UNCHANGED seen
        /\ forks' \in SUBSET {"outran", "overdue run", "overdue child", "answers", "orphan"}
    BY <1>6 DEF Raise, SeenInv
  <2>5. QED
    BY <2>1, <2>2, <2>3, <2>4 DEF RowInv, SeenInv, seen
<1>7. CASE Restart
  <2>1. /\ pc' \in [Coroutines -> Point] /\ at' \in [Coroutines -> Nat]
        /\ mine' \in [Coroutines -> Copies] /\ Last' = Last
    BY <1>7 DEF Restart, Point, Fresh, Copies, StepStatus, Last
  <2>2. \A k \in Coroutines : pc'[k] = "idle" /\ at'[k] = 0
    BY <1>7 DEF Restart
  <2>3. \A c \in Children : pc'[c] # "working"
    BY <2>2 DEF Coroutines
  <2>4. 0 \in 0..(Last + 1) /\ "idle" \notin Inside /\ "idle" \notin Reporting
    BY DEF Inside, Reporting
  <2>5. LocalInv'
    BY <2>1, <2>2, <2>3, <2>4 DEF LocalInv, Inside, Point, Driving, Reporting
  <2>6. restarts' \in Nat
    BY <1>7, CountType DEF Restart, SeenInv
  <2>7. SeenInv'
    BY <1>7, <2>6 DEF Restart, SeenInv, seen
  <2>8. QED
    BY <1>7, <2>5, <2>7 DEF Restart, RowInv
<1>8. CASE CancelQueued
  <2>1. /\ child' \in [Children -> RowStatus] /\ \A c \in Children : child'[c] # "none" => child[c] # "none"
        /\ status' \in RowStatus \ {"none"}
    BY <1>8 DEF CancelQueued, QueuedChildren, RowInv, RowStatus, Final
  <2>2. RowInv'
    BY <1>8, <2>1 DEF CancelQueued, RowInv
  <2>3. LocalInv'
    BY <1>8 DEF CancelQueued, LocalInv, Last, locals, RowsStay
  <2>4. SeenInv'
    BY <1>8 DEF CancelQueued, SeenInv, seen, bounds
  <2>5. QED
    BY <2>2, <2>3, <2>4
<1>9. QED
  BY <1>3, <1>4, <1>5, <1>6, <1>7, <1>8 DEF Resolve

(* Every step keeps the types.                                             *)
LEMMA NextType == TypeInv /\ [Next]_vars => TypeInv'
<1> SUFFICES ASSUME TypeInv, [Next]_vars PROVE TypeInv'
  OBVIOUS
<1>1. CASE Next
  BY <1>1, AdvanceType, TaskType, EventType DEF Next
<1>2. CASE UNCHANGED vars
  BY <1>2 DEF vars, locals, seen, bounds, TypeInv, TypeOK, Positions, Last
<1>3. QED
  BY <1>1, <1>2

(* Every variable keeps its type, for any pipelines, child rows, users and *)
(* bounds: no coroutine indexes a step the run does not have.              *)
THEOREM PipelineTypeCorrect == Spec => []TypeOK
<1>1. Spec => []TypeInv
  BY InitType, NextType, PTL DEF Spec
<1>2. TypeInv => TypeOK
  BY DEF TypeInv
<1>3. QED
  BY <1>1, <1>2, PTL

---------------------------------------------------------------------------
(* The phases of the run's own coroutine.  Until it has stored the id of a *)
(* child or asked a user, nothing else writes the run's step states.       *)

Untouched == \A c \in Children : child[c] = "none"
Alone     == \A k \in Coroutines : k # Run => pc[k] = "idle"
Unasked   == \A i \in DOMAIN steps : states[i] # "awaiting_user_input"

Before ==   \* run_task_pipeline has not begun
    /\ pc[Run] \in {"idle", "start"} /\ (status = "pending" => pc[Run] = "idle")
    /\ Untouched /\ Alone /\ \A i \in DOMAIN steps : states[i] = "pending"

First ==   \* its coroutine drives
    /\ pc[Run] \in {"loop", "step", "abort"} /\ status # "pending"
    /\ Untouched /\ Alone /\ Unasked /\ mine[Run] = states
    /\ \A i \in DOMAIN steps : states[i] = "running" => pc[Run] = "step" /\ i = at[Run]

Linking ==   \* it has a child whose id is not stored, and which did not report
    /\ pc[Run] = "link" /\ status # "pending" /\ steps[at[Run]].kind = "agent"
    /\ Unasked /\ \A i \in DOMAIN steps : states[i] = "running" => i = at[Run]
    /\ \A c \in Children : child[c] # "none" => stepOf[c] = at[Run]
    /\ \A k \in Coroutines \ {Run} :
          \/ pc[k] = "idle"
          \/ pc[k] \in {"working", "complete", "failed"} /\ at[k] = at[Run]

Gone ==   \* it has left, or its child outran it
    status # "pending" /\ (pc[Run] = "idle" \/ (pc[Run] = "link" /\ "outran" \in forks))

Phases == Before \/ First \/ Linking \/ Gone

(* The run's coroutine is neither the worker, a child nor a user.          *)
LEMMA RunApart == Run \in Coroutines /\ Run # Worker /\ Run \notin Children \cup Users
                  /\ Children \cup Users \subseteq Coroutines /\ Worker \in Coroutines
BY PipelineAssumption DEF Coroutines

(* Nobody but the run's coroutine moves before it has begun.               *)
LEMMA BeforeStep == ASSUME TypeInv, Before, Next PROVE Phases'
<1>1. /\ \A k \in Coroutines : pc[k] \in {"idle", "start"}
      /\ \A c \in Children : child[c] = "none"
      /\ \A i \in DOMAIN steps : states[i] = "pending"
  BY DEF Before, Alone, Untouched
<1>2. ~(\E k \in Coroutines : Advance(k) \/ ForeachItem(k) \/ Report(k) \/ Raise(k))
  BY <1>1 DEF Advance, SkipStep, StartStep, UnknownStep, RunInline, AskUser, SkipPrompt, SpawnChild,
     LinkChild, Finalize, ForeachItem, Report, ReadRun, RecordStep, Raise, AtStep, Driving
<1>3. /\ ~(\E c \in Children : FetchChild(c) \/ DeferChild(c) \/ \E outcome \in Final : EndChild(c, outcome))
      /\ ~(\E c \in Children : RecoverChild(c))
  BY <1>1, RunApart DEF FetchChild, DeferChild, EndChild, RecoverChild
<1>4. ~(\E u \in Users : Resolve(u))
  BY <1>1, RunApart DEF Resolve, ReadAnswer, StoreAnswer, Resume
<1>5. CASE FetchRun
  BY <1>5, RunApart DEF FetchRun, Go, Before, Untouched, Alone, Phases, TypeInv, TypeOK
<1>6. CASE DeferRun
  BY <1>6, RunApart DEF DeferRun, Leave, Go, Before, Untouched, Alone, Phases, TypeInv, TypeOK
<1>7. CASE BeginRun
  <2>1. CASE Last = 0
    BY <1>7, <2>1, RunApart DEF BeginRun, Leave, Go, Gone, Phases, TypeInv, TypeOK
  <2>2. CASE Last # 0
    <3>1. PICK j : Go(Run, "loop", j, states)
      BY <1>7, <2>2 DEF BeginRun, Continue
    <3>2. pc'[Run] = "loop" /\ mine'[Run] = states' /\ status' # "pending" /\ UNCHANGED <<steps, states, child>>
      BY <1>7, <2>2, <3>1, RunApart DEF BeginRun, Go, TypeInv, TypeOK
    <3>3. Alone'
      BY <3>1 DEF Go, Before, Alone, TypeInv, TypeOK
    <3>4. Untouched' /\ Unasked' /\ \A i \in DOMAIN steps : states'[i] # "running"
      BY <1>1, <3>2 DEF Untouched, Unasked
    <3>5. QED
      BY <3>2, <3>3, <3>4 DEF First, Phases
  <2>3. QED
    BY <2>1, <2>2
<1>8. CASE RecoverRun
  BY <1>8 DEF RecoverRun, locals, Before, Untouched, Alone, Phases
<1>9. CASE Restart
  BY <1>9, RunApart DEF Restart, Before, Untouched, Alone, Phases, Gone
<1>10. CASE CancelQueued
  BY <1>1, <1>10, RunApart DEF CancelQueued, QueuedChildren, locals, Before, Phases, Gone
<1>11. QED
  BY <1>2, <1>3, <1>4, <1>5, <1>6, <1>7, <1>8, <1>9, <1>10 DEF Next, Recover

(* While it drives alone, its copy is what the row holds; it leaves by     *)
(* asking, finalizing or spawning.                                         *)
LEMMA FirstStep == ASSUME TypeInv, First, Next PROVE Phases'
<1>1. /\ \A k \in Coroutines : k # Run => pc[k] = "idle"
      /\ \A c \in Children : child[c] = "none"
      /\ \A i \in DOMAIN steps : states[i] # "awaiting_user_input"
      /\ mine[Run] = states /\ pc[Run] \in {"loop", "step", "abort"} /\ status # "pending"
  BY DEF First, Alone, Untouched, Unasked
<1>2. ASSUME NEW k \in Coroutines, k # Run
      PROVE ~(Advance(k) \/ ForeachItem(k) \/ Report(k) \/ Raise(k))
  BY <1>1, <1>2 DEF Advance, SkipStep, StartStep, UnknownStep, RunInline, AskUser, SkipPrompt, SpawnChild,
     LinkChild, Finalize, ForeachItem, Report, ReadRun, RecordStep, Raise, AtStep, Driving
<1>3. /\ ~(\E c \in Children : FetchChild(c) \/ DeferChild(c) \/ \E outcome \in Final : EndChild(c, outcome))
      /\ ~(\E c \in Children : RecoverChild(c)) /\ ~FetchRun /\ ~DeferRun /\ ~BeginRun /\ ~Report(Run)
      /\ ~CancelQueued
  BY <1>1, RunApart DEF CancelQueued, QueuedChildren, FetchChild, DeferChild, EndChild, RecoverChild, FetchRun, DeferRun, BeginRun,
     Report, ReadRun, RecordStep
<1>4. ~(\E u \in Users : Resolve(u))
  BY <1>1, RunApart DEF Resolve, ReadAnswer, StoreAnswer, Resume
<1>5. ASSUME NEW j, NEW where \in {"loop", "abort"}, Go(Run, where, j, states'),
             \A i \in DOMAIN steps : states'[i] \notin {"running", "awaiting_user_input"},
             UNCHANGED <<steps, status, child>>
      PROVE  Phases'
  <2>1. pc'[Run] = where /\ mine'[Run] = states'
    BY <1>5, RunApart DEF Go, TypeInv, TypeOK
  <2>2. Alone' /\ Untouched' /\ Unasked'
    BY <1>1, <1>5 DEF Go, Alone, Untouched, Unasked, TypeInv, TypeOK
  <2>3. QED
    BY <1>1, <1>5, <2>1, <2>2 DEF First, Phases
<1>6. ASSUME NEW value \in StepStatus \ {"running", "awaiting_user_input"}, at[Run] \in DOMAIN steps,
             states' = With(Run, value)
      PROVE  \A i \in DOMAIN steps : states'[i] \notin {"running", "awaiting_user_input"}
  BY <1>1, <1>6 DEF First, With, TypeInv, TypeOK
<1>7. /\ at[Run] <= Last /\ pc[Run] = "loop" => at[Run] \in DOMAIN steps
      /\ pc[Run] = "step" => at[Run] \in DOMAIN steps
  <2>1. DOMAIN steps = 1..Last /\ Last \in Nat
    BY StepsSeq DEF TypeInv, TypeOK
  <2>2. /\ pc[Run] = "loop" => at[Run] \in 1..(Last + 1)
        /\ pc[Run] = "step" => at[Run] \in DOMAIN steps
    BY RunApart DEF TypeInv, Positions, Inside, Point, Driving
  <2>3. QED
    BY <2>1, <2>2
<1>8. CASE SkipStep(Run)
  BY <1>5, <1>6, <1>7, <1>8 DEF SkipStep, Continue, StepStatus
<1>9. CASE StartStep(Run)
  <2>1. /\ Go(Run, "step", at[Run], states') /\ UNCHANGED <<steps, status, child>>
        /\ states' = With(Run, "running") /\ at[Run] \in DOMAIN steps
        /\ \A i \in DOMAIN steps : states[i] # "running"
    BY <1>7, <1>9 DEF StartStep, First
  <2>2. pc'[Run] = "step" /\ at'[Run] = at[Run] /\ mine'[Run] = states'
    BY <2>1, RunApart DEF Go, TypeInv, TypeOK
  <2>3. Alone' /\ Untouched' /\ Unasked'
    BY <1>1, <2>1 DEF Go, Alone, Untouched, Unasked, With, TypeInv, TypeOK
  <2>4. \A i \in DOMAIN steps : states'[i] = "running" => i = at[Run]
    BY <1>1, <2>1 DEF With, TypeInv, TypeOK
  <2>5. QED
    BY <1>1, <2>1, <2>2, <2>3, <2>4 DEF First, Phases
<1>10. CASE UnknownStep(Run)
  BY <1>5, <1>6, <1>7, <1>10 DEF UnknownStep, AtStep, StepStatus
<1>11. ASSUME NEW result \in Ended, RunInline(Run, result) PROVE Phases'
  <2>1. /\ states' = With(Run, result) /\ at[Run] \in DOMAIN steps
        /\ UNCHANGED <<steps, status, child>> /\ result \in StepStatus \ {"running", "awaiting_user_input"}
    BY <1>7, <1>11 DEF RunInline, EndStep, AtStep, Ended, StepStatus
  <2>2. \E j, where : where \in {"loop", "abort"} /\ Go(Run, where, j, states')
    BY <1>11, <2>1 DEF RunInline, EndStep, Continue
  <2>3. QED
    BY <1>5, <1>6, <2>1, <2>2
<1>12. CASE AskUser(Run) \/ Finalize(Run)
  BY <1>1, <1>12, RunApart DEF AskUser, Finalize, Leave, Go, Gone, Phases, TypeInv, TypeOK
<1>13. CASE SkipPrompt(Run)
  BY <1>5, <1>6, <1>7, <1>13 DEF SkipPrompt, AtStep, Continue, StepStatus
<1>14. ASSUME NEW c \in Children, SpawnChild(Run, c) PROVE Phases'
  <2>1. /\ pc[Run] = "step" /\ steps[at[Run]].kind = "agent" /\ Go(Run, "link", at[Run], mine[Run])
        /\ UNCHANGED <<steps, status, states>>
    BY <1>14 DEF SpawnChild, AtStep
  <2>2. pc'[Run] = "link" /\ at'[Run] = at[Run] /\ \A k \in Coroutines \ {Run} : pc'[k] = "idle"
    BY <1>1, <2>1, RunApart DEF Go, TypeInv, TypeOK
  <2>3. \A d \in Children : child'[d] # "none" => stepOf'[d] = at[Run]
    BY <1>1, <1>14 DEF SpawnChild, TypeInv, TypeOK
  <2>4. Unasked' /\ \A i \in DOMAIN steps : states'[i] = "running" => i = at[Run]
    BY <2>1 DEF First, Unasked
  <2>5. QED
    BY <1>1, <2>1, <2>2, <2>3, <2>4 DEF Linking, Phases
<1>15. ~LinkChild(Run)
  BY <1>1 DEF LinkChild
<1>16. CASE ForeachItem(Run)
  BY <1>1, <1>16 DEF ForeachItem, locals, First, Alone, Untouched, Unasked, Phases
<1>17. CASE Raise(Run)
  BY <1>17, RunApart DEF Raise, Leave, Go, Gone, Phases, TypeInv, TypeOK
<1>18. CASE RecoverRun
  BY <1>1, <1>18 DEF RecoverRun, locals, First, Alone, Untouched, Unasked, Phases
<1>19. CASE Restart
  BY <1>1, <1>19, RunApart DEF Restart, Gone, Phases
<1>20. QED
  BY <1>2, <1>3, <1>4, <1>8, <1>9, <1>10, <1>11, <1>12, <1>13, <1>14, <1>15, <1>16, <1>17, <1>18, <1>19, RunApart
     DEF Next, Recover, Advance

(* Until the child's report is read, only the run's coroutine writes the   *)
(* row's states, and that report is remembered in forks.                   *)
LEMMA LinkingStep == ASSUME TypeInv, Linking, Next PROVE Phases'
<1> DEFINE Near(k) == \/ pc[k] = "idle"
                      \/ pc[k] \in {"working", "complete", "failed"} /\ at[k] = at[Run]
<1>1. /\ \A k \in Coroutines \ {Run} : Near(k)
      /\ \A i \in DOMAIN steps : states[i] # "awaiting_user_input"
      /\ pc[Run] = "link" /\ status # "pending"
      /\ \A c \in Children : child[c] # "none" => stepOf[c] = at[Run]
  BY DEF Linking, Unasked
<1>2. ASSUME NEW k \in Coroutines, k # Run
      PROVE ~(Advance(k) \/ ForeachItem(k) \/ Raise(k) \/ \E failIf \in BOOLEAN : RecordStep(k, failIf))
  BY <1>1, <1>2 DEF Advance, SkipStep, StartStep, UnknownStep, RunInline, AskUser, SkipPrompt, SpawnChild,
     LinkChild, Finalize, ForeachItem, RecordStep, Raise, AtStep, Driving
<1>3. ~FetchRun /\ ~DeferRun /\ ~BeginRun /\ ~Report(Run) /\ ~ForeachItem(Run)
  BY <1>1, RunApart DEF FetchRun, DeferRun, BeginRun, Report, ReadRun, RecordStep, ForeachItem, AtStep
<1>4. ~(\E u \in Users : Resolve(u))
  BY <1>1, RunApart DEF Resolve, ReadAnswer, StoreAnswer, Resume
<1>5. ASSUME NEW k \in Coroutines \ {Run}, NEW where \in {"idle", "working", "complete", "failed"},
             NEW i, NEW s, Go(k, where, i, s), where = "idle" \/ i = at[Run],
             UNCHANGED <<steps, status, states>>,
             \A c \in Children : child'[c] # "none" => child[c] # "none" /\ stepOf'[c] = stepOf[c]
      PROVE  Phases'
  <2>1. pc'[Run] = "link" /\ at'[Run] = at[Run]
    BY <1>1, <1>5, RunApart DEF Go, TypeInv, TypeOK
  <2>2. ASSUME NEW l \in Coroutines \ {Run} PROVE Near(l)'
    <3>1. CASE l = k
      BY <1>5, <2>1, <3>1 DEF Go, TypeInv, TypeOK
    <3>2. CASE l # k
      BY <1>1, <1>5, <2>1, <3>2 DEF Go, TypeInv, TypeOK
    <3>3. QED
      BY <3>1, <3>2
  <2>3. \A c \in Children : child'[c] # "none" => stepOf'[c] = at'[Run]
    BY <1>1, <1>5, <2>1
  <2>4. steps'[at'[Run]].kind = "agent" /\ Unasked' /\ \A i_1 \in DOMAIN steps : states'[i_1] = "running" => i_1 = at'[Run]
    BY <1>5, <2>1 DEF Linking, Unasked
  <2>5. QED
    BY <1>1, <1>5, <2>1, <2>2, <2>3, <2>4 DEF Linking, Phases
<1>6. ASSUME NEW c \in Children, FetchChild(c) PROVE Phases'
  BY <1>1, <1>5, <1>6, RunApart DEF FetchChild, TypeInv, TypeOK
<1>7. ASSUME NEW c \in Children, DeferChild(c) PROVE Phases'
  <2>1. child[c] # "none"
    BY <1>7 DEF DeferChild, TypeInv, Positions
  <2>2. QED
    BY <1>5, <1>7, <2>1, RunApart DEF DeferChild, Leave, TypeInv, TypeOK
<1>8. ASSUME NEW c \in Children, NEW outcome \in Final, EndChild(c, outcome) PROVE Phases'
  <2>1. child[c] # "none" /\ at[c] = at[Run]
    BY <1>1, <1>8, RunApart DEF EndChild, TypeInv, Positions
  <2>2. /\ Go(c, outcome, at[c], Fresh) /\ UNCHANGED <<steps, status, states, stepOf>>
        /\ outcome \in {"complete", "failed"}
    BY <1>8 DEF EndChild, Final
  <2>3. \A d \in Children : child'[d] # "none" => child[d] # "none"
    BY <1>8, <2>1 DEF EndChild, TypeInv, TypeOK
  <2>4. QED
    BY <1>5, <2>1, <2>2, <2>3, RunApart
<1>9. ASSUME NEW c \in Children, RecoverChild(c) PROVE Phases'
  BY <1>1, <1>5, <1>9, RunApart DEF RecoverChild, TypeInv, TypeOK
<1>10. ASSUME NEW k \in Coroutines, k # Run, ReadRun(k) PROVE Phases'
  <2>1. "outran" \in forks' /\ UNCHANGED status
    BY <1>1, <1>10, RunApart DEF ReadRun
  <2>2. pc'[Run] = "link"
    BY <1>1, <1>10, RunApart DEF ReadRun, Go, TypeInv, TypeOK
  <2>3. QED
    BY <1>1, <2>1, <2>2 DEF Gone, Phases
<1>11. CASE Advance(Run)
  <2>1. LinkChild(Run)
    BY <1>1, <1>11 DEF Advance, SkipStep, StartStep, UnknownStep, RunInline, AskUser, SkipPrompt,
       SpawnChild, Finalize, AtStep
  <2>2. QED
    BY <1>1, <2>1, RunApart DEF LinkChild, Leave, Go, Gone, Phases, TypeInv, TypeOK
<1>12. CASE Raise(Run)
  BY <1>12, RunApart DEF Raise, Leave, Go, Gone, Phases, TypeInv, TypeOK
<1>13. CASE RecoverRun \/ CancelQueued
  <2>1. /\ \A c \in Children : child'[c] # "none" => child[c] # "none"
        /\ status' # "pending" /\ UNCHANGED <<steps, states, stepOf, pc, at>>
    BY <1>1, <1>13 DEF RecoverRun, CancelQueued, QueuedChildren, locals
  <2>2. QED
    BY <1>1, <2>1 DEF Linking, Unasked, Phases
<1>14. CASE Restart
  BY <1>1, <1>14, RunApart DEF Restart, Gone, Phases
<1>15. QED
  BY <1>2, <1>3, <1>4, <1>6, <1>7, <1>8, <1>9, <1>10, <1>11, <1>12, <1>13, <1>14, RunApart
     DEF Next, Recover, Report

(* Its coroutine never drives again.                                       *)
LEMMA GoneStep == ASSUME TypeInv, Gone, Next PROVE Gone'
<1>1. /\ status # "pending" /\ pc[Run] \in {"idle", "link"}
      /\ pc[Run] = "link" => "outran" \in forks
  BY DEF Gone
<1>2. ~FetchRun /\ ~DeferRun /\ ~BeginRun
  BY <1>1 DEF FetchRun, DeferRun, BeginRun
<1>3. ASSUME NEW k, NEW where, NEW i, NEW s, Go(k, where, i, s), k # Run \/ where = "idle",
             status' # "pending", forks \subseteq forks'
      PROVE  Gone'
  BY <1>1, <1>3, RunApart DEF Go, Gone, TypeInv, TypeOK
<1>4. ASSUME NEW k \in Coroutines, Advance(k) \/ ForeachItem(k) PROVE Gone'
  <2>1. CASE k = Run
    <3>1. LinkChild(Run)
      BY <1>1, <1>4, <2>1 DEF Advance, SkipStep, StartStep, UnknownStep, RunInline, AskUser, SkipPrompt,
         SpawnChild, Finalize, ForeachItem, AtStep
    <3>2. QED
      BY <1>1, <1>3, <3>1 DEF LinkChild, Leave
  <2>2. CASE k # Run
    <3>1. ForeachItem(k) => Gone'
      BY <1>1 DEF ForeachItem, locals, Gone
    <3>2. Advance(k) => status' # "pending" /\ forks' = forks
      BY <1>1 DEF Advance, SkipStep, StartStep, UnknownStep, RunInline, AskUser, SkipPrompt,
         SpawnChild, LinkChild, Finalize
    <3>3. Advance(k) => \E where, i, s : Go(k, where, i, s)
      BY DEF Advance, SkipStep, StartStep, UnknownStep, RunInline, AskUser, SkipPrompt,
         SpawnChild, LinkChild, Finalize, EndStep, Continue, Leave
    <3>4. QED
      BY <1>3, <1>4, <2>2, <3>1, <3>2, <3>3
  <2>3. QED
    BY <2>1, <2>2
<1>5. ASSUME NEW k \in Coroutines, Report(k) \/ Raise(k) PROVE Gone'
  <2>1. k # Run \/ Raise(Run)
    BY <1>1, <1>5 DEF Report, ReadRun, RecordStep
  <2>2. status' # "pending" /\ forks \subseteq forks'
    BY <1>1, <1>5 DEF Report, ReadRun, RecordStep, Raise
  <2>3. \E where, i, s : Go(k, where, i, s) /\ (Raise(k) => where = "idle")
    BY <1>5 DEF Report, ReadRun, RecordStep, Raise, EndStep, Continue, Leave, Driving
  <2>4. QED
    BY <1>3, <2>1, <2>2, <2>3
<1>6. ASSUME NEW c \in Children, FetchChild(c) \/ DeferChild(c) \/ (\E outcome \in Final : EndChild(c, outcome))
      PROVE  Gone'
  BY <1>1, <1>3, <1>6, RunApart DEF FetchChild, DeferChild, EndChild, Leave
<1>7. CASE Recover
  <2>1. CASE RecoverRun
    BY <1>1, <2>1 DEF RecoverRun, locals, Gone
  <2>2. CASE \E c \in Children : RecoverChild(c)
    BY <1>1, <1>3, <2>2, RunApart DEF RecoverChild
  <2>3. QED
    BY <1>7, <2>1, <2>2 DEF Recover
<1>8. ASSUME NEW u \in Users, Resolve(u) PROVE Gone'
  BY <1>1, <1>3, <1>8, RunApart DEF Resolve, ReadAnswer, StoreAnswer, Resume, Continue
<1>9. CASE Restart \/ CancelQueued
  BY <1>1, <1>9, RunApart DEF Restart, CancelQueued, locals, Gone
<1>10. QED
  BY <1>2, <1>4, <1>5, <1>6, <1>7, <1>8, <1>9 DEF Next

(* The phases cover every reachable state.                                 *)
LEMMA PhasesHold == /\ Init => Phases
                    /\ TypeInv /\ Phases /\ [Next]_vars => Phases'
<1>1. Init => Phases
  BY RunApart DEF Init, Fresh, Before, Untouched, Alone, Phases
<1>2. TypeInv /\ Phases /\ Next => Phases'
  BY BeforeStep, FirstStep, LinkingStep, GoneStep DEF Phases
<1>3. Phases /\ UNCHANGED vars => Phases'
  BY DEF vars, locals, seen, Phases, Before, First, Linking, Gone, Untouched, Alone, Unasked
<1>4. QED
  BY <1>1, <1>2, <1>3

---------------------------------------------------------------------------
(* The gate.                                                               *)

Clear(j, p) ==   \* every prompt before step j is in p
    \A i \in DOMAIN steps : steps[i].kind = "user_prompt" /\ i < j => i \in p

Honest(s, p) ==   \* the step states s show no prompt ended that is not in p
    \A i \in DOMAIN steps :
        /\ steps[i].kind = "user_prompt" /\ s[i] \in Ended => i \in p
        /\ s[i] = "awaiting_user_input" => Clear(i, p)

ChildrenClear == \A c \in Children : child[c] # "none" => Clear(stepOf[c], passed)

GateInv ==
    /\ Honest(states, passed)
    /\ \A k \in Coroutines :
          /\ Honest(mine[k], passed)
          /\ ~Idle(k) => Clear(at[k], passed)
          /\ pc[k] = "resume" => at[k] \in passed
    /\ ChildrenClear

Over ==   \* the crash handler ended the run before anyone else took part
    /\ Untouched /\ Unasked /\ status \in Final
    /\ \A k \in Coroutines : pc[k] = "idle"

Guarded == faults = 0 \/ "outran" \notin forks

StartedClear == \A j \in started : Clear(j, passed)

GateIInv == Guarded => StartedClear /\ (Over \/ GateInv)

(* Answers and skips only open the gate.                                   *)
LEMMA ClearGrows ==
  ASSUME NEW j, NEW p, NEW q, p \subseteq q, Clear(j, p) PROVE Clear(j, q)
BY DEF Clear

(* and what was honest stays honest.                                      *)
LEMMA HonestGrows ==
  ASSUME NEW s, NEW p, NEW q, p \subseteq q, Honest(s, p) PROVE Honest(s, q)
BY DEF Honest, Clear

(* A list of pending steps.                                                *)
LEMMA HonestFresh == \A p : Honest(Fresh, p)
BY DEF Honest, Fresh, Ended

(* Behind a step that is no prompt, or is in p.                            *)
LEMMA ClearNext ==
  ASSUME TypeInv, NEW j \in DOMAIN steps, NEW p, Clear(j, p),
         steps[j].kind # "user_prompt" \/ j \in p
  PROVE  Clear(j + 1, p)
<1>1. ASSUME NEW i \in DOMAIN steps, steps[i].kind = "user_prompt", i < j + 1 PROVE i \in p
  <2>1. i \in 1..Last /\ j \in 1..Last /\ Last \in Nat
    BY StepsSeq DEF TypeInv, TypeOK
  <2>2. i < j \/ i = j
    BY <1>1, <2>1
  <2>3. QED
    BY <1>1, <2>2 DEF Clear
<1>2. QED
  BY <1>1 DEF Clear

(* Over the ended steps the loop skips.                                    *)
LEMMA ClearAcross ==
  ASSUME TypeInv, NEW s, NEW p, NEW i \in 1..(Last + 1), NEW j \in i..(Last + 1),
         IsNext(s, i, j), Clear(i, p), Honest(s, p)
  PROVE  Clear(j, p)
<1>1. ASSUME NEW l \in DOMAIN steps, steps[l].kind = "user_prompt", l < j PROVE l \in p
  <2>1. l \in 1..Last /\ Last \in Nat
    BY StepsSeq DEF TypeInv, TypeOK
  <2>2. l < i \/ l \in i..(j - 1)
    BY <1>1, <2>1
  <2>3. CASE l < i
    BY <1>1, <2>3 DEF Clear
  <2>4. CASE l \in i..(j - 1)
    BY <1>1, <2>4 DEF IsNext, Honest
  <2>5. QED
    BY <2>2, <2>3, <2>4
<1>2. QED
  BY <1>1 DEF Clear

(* Setting a step's status.                                                *)
LEMMA HonestWith ==
  ASSUME NEW s \in Copies, NEW p, NEW i \in DOMAIN steps, NEW value, Honest(s, p),
         value = "awaiting_user_input" => Clear(i, p),
         value \in Ended => steps[i].kind # "user_prompt" \/ i \in p
  PROVE  Honest([s EXCEPT ![i] = value], p)
BY DEF Honest, Copies

(* A move of one coroutine keeps the gate if what it takes along does.     *)
LEMMA GoGate ==
  ASSUME TypeInv, GateInv, NEW k \in Coroutines, NEW where, NEW i, NEW s, Go(k, where, i, s),
         steps' = steps, passed \subseteq passed',
         Honest(s, passed'), Honest(states', passed'),
         where \in {"idle", "start"} \/ Clear(i, passed'),
         where = "resume" => i \in passed',
         UNCHANGED <<child, stepOf>> \/ ChildrenClear'
  PROVE  GateInv'
<1>1. Honest(states, passed)'
  BY DEF Honest, Clear
<1>2. ChildrenClear'
  <2>1. CASE UNCHANGED <<child, stepOf>>
    BY <2>1, ClearGrows DEF GateInv, ChildrenClear, Clear
  <2>2. QED
    BY <2>1
<1>3. ASSUME NEW l \in Coroutines
      PROVE  /\ Honest(mine[l], passed)'
             /\ ~Idle(l)' => Clear(at[l], passed)'
             /\ pc'[l] = "resume" => at'[l] \in passed'
  <2>1. CASE l = k
    <3>1. pc'[l] = where /\ at'[l] = i /\ mine'[l] = s
      BY <2>1 DEF Go, TypeInv, TypeOK
    <3>2. QED
      BY <3>1 DEF Idle, Honest, Clear
  <2>2. CASE l # k
    <3>1. pc'[l] = pc[l] /\ at'[l] = at[l] /\ mine'[l] = mine[l]
      BY <2>2 DEF Go, TypeInv, TypeOK
    <3>2. /\ Honest(mine[l], passed') /\ (~Idle(l) => Clear(at[l], passed'))
          /\ pc[l] = "resume" => at[l] \in passed'
      BY ClearGrows, HonestGrows DEF GateInv
    <3>3. QED
      BY <3>1, <3>2 DEF Idle, Honest, Clear
  <2>3. QED
    BY <2>1, <2>2
<1>4. QED
  BY <1>1, <1>2, <1>3 DEF GateInv

(* A coroutine that goes idle takes nothing along.                         *)
LEMMA LeaveGate ==
  ASSUME TypeInv, GateInv, NEW k \in Coroutines, Leave(k), steps' = steps,
         passed \subseteq passed', Honest(states', passed'), UNCHANGED <<child, stepOf>>
  PROVE  GateInv'
<1>1. Go(k, "idle", 0, Fresh)
  BY DEF Leave
<1>2. QED
  BY <1>1, HonestFresh, GoGate

(* One that goes on with the loop stands behind open prompts only.         *)
LEMMA ContinueGate ==
  ASSUME TypeInv, GateInv, NEW k \in Coroutines, NEW s, NEW i \in 1..(Last + 1),
         Continue(k, s, i), steps' = steps, passed \subseteq passed', Honest(s, passed'),
         Honest(states', passed'), Clear(i, passed'), UNCHANGED <<child, stepOf>>
  PROVE  GateInv'
<1>1. PICK j \in i..(Last + 1) : IsNext(s, i, j) /\ Go(k, "loop", j, s)
  BY DEF Continue
<1>2. Clear(j, passed')
  BY <1>1, ClearAcross
<1>3. QED
  BY <1>1, <1>2, GoGate

(* One that ends a step aborts or goes on with the loop.                   *)
LEMMA EndStepGate ==
  ASSUME TypeInv, GateInv, NEW k \in Coroutines, NEW s \in Copies, EndStep(k, s),
         at[k] \in DOMAIN steps, steps[at[k]].kind # "user_prompt", ~Idle(k), Honest(s, passed),
         UNCHANGED <<steps, passed, child, stepOf>>
  PROVE  GateInv'
<1>1. Clear(at[k], passed) /\ states' = s
  BY DEF GateInv, EndStep
<1>2. CASE s[at[k]] = "failed" /\ steps[at[k]].abort
  <2>1. Go(k, "abort", at[k], s)
    BY <1>2 DEF EndStep
  <2>2. QED
    BY <1>1, <2>1, GoGate
<1>3. CASE ~(s[at[k]] = "failed" /\ steps[at[k]].abort)
  <2>1. Continue(k, s, at[k] + 1)
    BY <1>3 DEF EndStep
  <2>2. Clear(at[k] + 1, passed)
    BY <1>1, ClearNext
  <2>3. DOMAIN steps = 1..Last /\ Last \in Nat
    BY StepsSeq DEF TypeInv, TypeOK
  <2>4. at[k] + 1 \in 1..(Last + 1)
    BY <2>3
  <2>5. QED
    BY <1>1, <2>1, <2>2, <2>4, ContinueGate
<1>4. QED
  BY <1>2, <1>3

(* The steps of _advance_pipeline keep the gate: a prompt ends only by an  *)
(* answer or a skip, and a step starts only when the loop got to it.       *)
LEMMA AdvanceGate ==
  ASSUME TypeInv, GateInv, NEW k \in Coroutines, Advance(k) \/ ForeachItem(k)
  PROVE  GateInv' /\ (StartedClear => StartedClear')
<1>1. /\ Honest(states, passed) /\ Honest(mine[k], passed) /\ (~Idle(k) => Clear(at[k], passed))
      /\ mine[k] \in Copies
  BY DEF GateInv, TypeInv, TypeOK, Copies
<1>2. DOMAIN steps = 1..Last /\ Last \in Nat
  BY StepsSeq DEF TypeInv, TypeOK
<1>3. /\ pc[k] = "loop" /\ at[k] <= Last => at[k] \in DOMAIN steps
      /\ pc[k] = "step" => at[k] \in DOMAIN steps
  <2>1. /\ pc[k] = "loop" => at[k] \in 1..(Last + 1)
        /\ pc[k] = "step" => at[k] \in DOMAIN steps
    BY DEF TypeInv, Positions, Inside, Point, Driving
  <2>2. QED
    BY <1>2, <2>1
<1>4. /\ at[k] \in DOMAIN steps => at[k] + 1 \in 1..(Last + 1)
      /\ pc[k] \in {"loop", "step", "link", "abort"} => ~Idle(k)
  BY <1>2 DEF Idle
<1>5. ASSUME passed \subseteq passed', steps' = steps, started' = started, StartedClear
      PROVE  StartedClear'
  <2>1. \A j \in started : Clear(j, passed')
    BY <1>5, ClearGrows DEF StartedClear
  <2>2. QED
    BY <1>5, <2>1 DEF StartedClear, Clear
<1>6. ASSUME pc[k] \in {"loop", "step"}, at[k] \in DOMAIN steps, states' = With(k, "skipped"),
             Continue(k, states', at[k] + 1), passed' = passed \cup {at[k]},
             UNCHANGED <<steps, child, stepOf, started>>
      PROVE  GateInv' /\ (StartedClear => StartedClear')
  <2>1. Honest(mine[k], passed') /\ Clear(at[k], passed') /\ at[k] \in passed'
    BY <1>1, <1>4, <1>6, ClearGrows, HonestGrows
  <2>2. Honest(states', passed')
    BY <1>1, <1>6, <2>1, HonestWith DEF With
  <2>3. Clear(at[k] + 1, passed')
    BY <1>6, <2>1, ClearNext
  <2>4. QED
    BY <1>4, <1>5, <1>6, <2>2, <2>3, ContinueGate
<1>7. CASE SkipStep(k)
  BY <1>3, <1>6, <1>7 DEF SkipStep
<1>8. CASE SkipPrompt(k)
  BY <1>3, <1>6, <1>8 DEF SkipPrompt, AtStep
<1>9. CASE StartStep(k)
  <2>1. /\ at[k] \in DOMAIN steps /\ Clear(at[k], passed) /\ states' = With(k, "running")
        /\ Go(k, "step", at[k], states') /\ UNCHANGED <<steps, passed, child, stepOf>>
        /\ started' = started \cup {at[k]}
    BY <1>1, <1>3, <1>4, <1>9 DEF StartStep
  <2>2. Honest(states', passed)
    BY <1>1, <2>1, HonestWith DEF With, Ended
  <2>3. GateInv'
    BY <2>1, <2>2, GoGate
  <2>4. StartedClear => StartedClear'
    BY <2>1 DEF StartedClear, Clear
  <2>5. QED
    BY <2>3, <2>4
<1>10. CASE UnknownStep(k)
  <2>1. /\ at[k] \in DOMAIN steps /\ Clear(at[k], passed) /\ states' = With(k, "failed")
        /\ Go(k, "abort", at[k], states') /\ UNCHANGED <<steps, passed, started, child, stepOf>>
        /\ steps[at[k]].kind # "user_prompt"
    BY <1>1, <1>3, <1>4, <1>10 DEF UnknownStep, AtStep, seen
  <2>2. Honest(states', passed)
    BY <1>1, <2>1, HonestWith DEF With
  <2>3. QED
    BY <1>5, <2>1, <2>2, GoGate
<1>11. ASSUME NEW result \in Ended, RunInline(k, result) PROVE GateInv' /\ (StartedClear => StartedClear')
  <2>1. /\ at[k] \in DOMAIN steps /\ ~Idle(k) /\ EndStep(k, With(k, result))
        /\ UNCHANGED <<steps, passed, started, child, stepOf>> /\ steps[at[k]].kind # "user_prompt"
    BY <1>3, <1>4, <1>11 DEF RunInline, AtStep, seen
  <2>2. Honest(With(k, result), passed)
    BY <1>1, <2>1, HonestWith DEF With, Ended
  <2>3. With(k, result) \in Copies
    BY <1>1 DEF With, Copies, Ended, StepStatus
  <2>4. QED
    BY <1>5, <2>1, <2>2, <2>3, EndStepGate
<1>12. CASE AskUser(k)
  <2>1. /\ at[k] \in DOMAIN steps /\ Clear(at[k], passed) /\ states' = With(k, "awaiting_user_input")
        /\ Leave(k) /\ UNCHANGED <<steps, passed, started, child, stepOf>>
    BY <1>1, <1>3, <1>4, <1>12 DEF AskUser, AtStep, seen
  <2>2. Honest(states', passed)
    BY <1>1, <2>1, HonestWith DEF With, Ended
  <2>3. QED
    BY <1>5, <2>1, <2>2, LeaveGate
<1>13. ASSUME NEW c \in Children, SpawnChild(k, c) PROVE GateInv' /\ (StartedClear => StartedClear')
  <2>1. /\ Clear(at[k], passed) /\ Go(k, "link", at[k], mine[k])
        /\ UNCHANGED <<steps, passed, started, states>>
    BY <1>1, <1>4, <1>13 DEF SpawnChild, AtStep, seen
  <2>2. ASSUME NEW d \in Children, child'[d] # "none" PROVE Clear(stepOf'[d], passed)
    BY <1>13, <2>1, <2>2 DEF SpawnChild, GateInv, ChildrenClear, TypeInv, TypeOK
  <2>3. ChildrenClear'
    BY <2>1, <2>2 DEF ChildrenClear, Clear
  <2>4. QED
    BY <1>1, <1>5, <2>1, <2>3, GoGate
<1>14. CASE LinkChild(k) \/ Finalize(k)
  <2>1. Leave(k) /\ states' = mine[k] /\ UNCHANGED <<steps, passed, started, child, stepOf>>
    BY <1>14 DEF LinkChild, Finalize, seen
  <2>2. QED
    BY <1>1, <1>5, <2>1, LeaveGate
<1>15. CASE ForeachItem(k)
  <2>1. states' = mine[k] /\ UNCHANGED <<steps, passed, started, child, stepOf, pc, at, mine>>
    BY <1>15 DEF ForeachItem, seen, locals
  <2>2. GateInv'
    BY <1>1, <2>1 DEF GateInv, ChildrenClear, Honest, Clear, Idle
  <2>3. QED
    BY <1>5, <2>1, <2>2
<1>16. QED
  BY <1>7, <1>8, <1>9, <1>10, <1>11, <1>12, <1>13, <1>14, <1>15 DEF Advance

(* So do the tasks, the worker and the answers.                            *)
LEMMA TaskGate ==
  ASSUME TypeInv, GateInv,
         \/ FetchRun \/ DeferRun \/ BeginRun \/ Recover \/ CancelQueued \/ Restart
         \/ \E c \in Children : FetchChild(c) \/ DeferChild(c) \/ (\E outcome \in Final : EndChild(c, outcome))
         \/ \E k \in Coroutines : Report(k) \/ (k # Run /\ Raise(k))
         \/ \E u \in Users : Resolve(u)
  PROVE  GateInv' /\ passed \subseteq passed' /\ UNCHANGED <<steps, started>>
<1>1. passed \subseteq passed' /\ UNCHANGED <<steps, started>>
  BY DEF FetchRun, DeferRun, BeginRun, Recover, RecoverRun, RecoverChild, CancelQueued, Restart, FetchChild,
     DeferChild, EndChild, Report, ReadRun, RecordStep, Raise, Resolve, ReadAnswer, StoreAnswer, Resume, seen
<1>2. /\ DOMAIN steps = 1..Last /\ Last \in Nat /\ Honest(states, passed) /\ Honest(Fresh, passed)
      /\ \A k \in Coroutines : Honest(mine[k], passed) /\ (~Idle(k) => Clear(at[k], passed))
      /\ ChildrenClear
  BY StepsSeq, HonestFresh DEF GateInv, TypeInv, TypeOK
<1>3. /\ states \in Copies /\ \A k \in Coroutines : mine[k] \in Copies
      /\ Children \cup Users \subseteq Coroutines /\ Run \in Coroutines /\ Worker \in Coroutines
  BY RunApart DEF TypeInv, TypeOK, Copies
<1>4. \A k \in Coroutines : pc[k] \in {"working", "complete", "failed", "record", "answer", "resume"} =>
         at[k] \in DOMAIN steps /\ Clear(at[k], passed)
  BY <1>2 DEF TypeInv, Positions, Inside, Point, Driving, Idle
<1>5. \A k \in Coroutines : pc[k] \in {"complete", "failed", "record"} => steps[at[k]].kind # "user_prompt"
  BY DEF TypeInv, Positions, Reporting
<1>6. CASE FetchRun
  <2>1. Go(Run, "start", 0, Fresh) /\ UNCHANGED <<steps, states, child, stepOf, passed>>
    BY <1>6 DEF FetchRun, seen
  <2>2. QED
    BY <1>1, <1>2, <1>3, <2>1, GoGate
<1>7. CASE DeferRun
  BY <1>1, <1>2, <1>3, <1>7, LeaveGate DEF DeferRun, seen
<1>8. CASE BeginRun
  <2>1. UNCHANGED <<steps, states, child, stepOf, passed>>
    BY <1>8 DEF BeginRun, seen
  <2>2. CASE Last = 0
    BY <1>1, <1>2, <1>3, <1>8, <2>1, <2>2, LeaveGate DEF BeginRun
  <2>3. CASE Last # 0
    <3>1. Clear(1, passed) /\ 1 \in 1..(Last + 1)
      BY <1>2 DEF Clear
    <3>2. Continue(Run, states, 1)
      BY <1>8, <2>3 DEF BeginRun
    <3>3. QED
      BY <1>1, <1>2, <1>3, <2>1, <3>1, <3>2, ContinueGate
  <2>4. QED
    BY <2>2, <2>3
<1>9. CASE RecoverRun \/ CancelQueued
  <2>1. /\ UNCHANGED <<steps, states, passed, stepOf, pc, at, mine>>
        /\ \A c \in Children : child'[c] # "none" => child[c] # "none"
    BY <1>9 DEF RecoverRun, CancelQueued, QueuedChildren, seen, locals
  <2>2. ChildrenClear'
    BY <1>2, <2>1 DEF ChildrenClear, Clear
  <2>3. QED
    BY <1>1, <2>1, <2>2 DEF GateInv, Honest, Clear, Idle
<1>10. ASSUME NEW c \in Children, RecoverChild(c) PROVE GateInv'
  <2>1. /\ Go(Worker, "failed", stepOf[c], Fresh) /\ child[c] # "none"
        /\ UNCHANGED <<steps, states, stepOf, passed>>
        /\ \A d \in Children : child'[d] # "none" => child[d] # "none"
    BY <1>10 DEF RecoverChild, seen, TypeInv, TypeOK
  <2>2. ChildrenClear' /\ Clear(stepOf[c], passed)
    BY <1>2, <2>1 DEF ChildrenClear, Clear
  <2>3. QED
    BY <1>1, <1>2, <1>3, <2>1, <2>2, GoGate
<1>11. CASE Restart
  <2>1. \A k \in Coroutines : pc'[k] = "idle" /\ mine'[k] = Fresh
    BY <1>11 DEF Restart
  <2>2. UNCHANGED <<steps, states, passed, child, stepOf>>
    BY <1>11 DEF Restart, seen
  <2>3. Honest(states, passed)' /\ ChildrenClear'
    BY <1>2, <2>2 DEF ChildrenClear, Honest, Clear
  <2>4. ASSUME NEW k \in Coroutines
        PROVE  /\ Honest(mine[k], passed)'
               /\ ~Idle(k)' => Clear(at[k], passed)'
               /\ pc'[k] = "resume" => at'[k] \in passed'
    BY <1>2, <2>1, <2>2 DEF Honest, Clear, Idle
  <2>5. QED
    BY <1>1, <2>3, <2>4 DEF GateInv
<1>12. ASSUME NEW c \in Children, FetchChild(c) PROVE GateInv'
  <2>1. /\ Go(c, "working", stepOf[c], Fresh) /\ child[c] # "none"
        /\ UNCHANGED <<steps, states, stepOf, passed>>
        /\ \A d \in Children : child'[d] # "none" => child[d] # "none"
    BY <1>12 DEF FetchChild, seen, TypeInv, TypeOK
  <2>2. ChildrenClear' /\ Clear(stepOf[c], passed)
    BY <1>2, <2>1 DEF ChildrenClear, Clear
  <2>3. QED
    BY <1>1, <1>2, <1>3, <2>1, <2>2, GoGate
<1>13. ASSUME NEW c \in Children, DeferChild(c) PROVE GateInv'
  <2>1. Go(c, "idle", 0, Fresh) /\ UNCHANGED <<steps, states, stepOf, passed>>
    BY <1>13 DEF DeferChild, Leave, seen
  <2>2. \A d \in Children : child'[d] # "none" => child[d] # "none"
    BY <1>13 DEF DeferChild, TypeInv, TypeOK, Positions
  <2>3. ChildrenClear'
    BY <1>2, <2>1, <2>2 DEF ChildrenClear, Clear
  <2>4. QED
    BY <1>1, <1>2, <1>3, <2>1, <2>3, GoGate
<1>14. ASSUME NEW c \in Children, NEW outcome \in Final, EndChild(c, outcome) PROVE GateInv'
  <2>1. /\ Go(c, outcome, at[c], Fresh) /\ Clear(at[c], passed) /\ outcome # "resume"
        /\ UNCHANGED <<steps, states, stepOf, passed>>
    BY <1>3, <1>4, <1>14 DEF EndChild, seen, Final
  <2>2. \A d \in Children : child'[d] # "none" => child[d] # "none"
    BY <1>14 DEF EndChild, TypeInv, TypeOK, Positions
  <2>3. ChildrenClear'
    BY <1>2, <2>1, <2>2 DEF ChildrenClear, Clear
  <2>4. QED
    BY <1>1, <1>2, <1>3, <2>1, <2>3, GoGate
<1>15. ASSUME NEW k \in Coroutines, ReadRun(k) PROVE GateInv'
  <2>1. PICK outcome \in {"done", "failed"} : Go(k, "record", at[k], [states EXCEPT ![at[k]] = outcome])
    BY <1>15 DEF ReadRun
  <2>2. UNCHANGED <<steps, states, child, stepOf, passed>> /\ pc[k] \in {"complete", "failed"}
    BY <1>15 DEF ReadRun, seen
  <2>3. at[k] \in DOMAIN steps /\ Clear(at[k], passed) /\ steps[at[k]].kind # "user_prompt"
    BY <1>4, <1>5, <2>2
  <2>4. Honest([states EXCEPT ![at[k]] = outcome], passed)
    BY <1>2, <1>3, <2>3, HonestWith
  <2>5. QED
    BY <1>2, <2>1, <2>2, <2>3, <2>4, GoGate
<1>16. ASSUME NEW k \in Coroutines, NEW failIf \in BOOLEAN, RecordStep(k, failIf) PROVE GateInv'
  <2>1. PICK s \in {mine[k], With(k, "failed")} : EndStep(k, s)
    BY <1>16 DEF RecordStep
  <2>2. UNCHANGED <<steps, child, stepOf, passed>> /\ pc[k] = "record"
    BY <1>16 DEF RecordStep, seen
  <2>3. at[k] \in DOMAIN steps /\ ~Idle(k) /\ steps[at[k]].kind # "user_prompt"
    BY <1>4, <1>5, <2>2 DEF Idle
  <2>4. Honest(With(k, "failed"), passed)
    BY <1>2, <1>3, <2>3, HonestWith DEF With
  <2>5. With(k, "failed") \in Copies
    BY <1>3 DEF With, Copies, StepStatus
  <2>6. QED
    BY <1>2, <1>3, <2>1, <2>2, <2>3, <2>4, <2>5, EndStepGate
<1>17. ASSUME NEW k \in Coroutines, k # Run, Raise(k) PROVE GateInv'
  <2>1. Leave(k) /\ UNCHANGED <<steps, states, child, stepOf, passed>>
    BY <1>17 DEF Raise, seen
  <2>2. QED
    BY <1>2, <2>1, LeaveGate
<1>18. ASSUME NEW u \in Users, NEW i \in DOMAIN steps, ReadAnswer(u, i) PROVE GateInv'
  <2>1. Go(u, "answer", i, states) /\ Clear(i, passed) /\ UNCHANGED <<steps, states, child, stepOf, passed>>
    BY <1>2, <1>18 DEF ReadAnswer, Honest, seen
  <2>2. QED
    BY <1>2, <1>3, <2>1, GoGate
<1>19. ASSUME NEW u \in Users, StoreAnswer(u) PROVE GateInv'
  <2>1. /\ Go(u, "resume", at[u], Fresh) /\ states' = With(u, "done") /\ passed' = passed \cup {at[u]}
        /\ UNCHANGED <<steps, child, stepOf>> /\ pc[u] = "answer"
    BY <1>19 DEF StoreAnswer
  <2>2. at[u] \in DOMAIN steps /\ Clear(at[u], passed') /\ at[u] \in passed'
    BY <1>3, <1>4, <2>1, ClearGrows
  <2>3. Honest(mine[u], passed')
    BY <1>2, <1>3, <2>1, HonestGrows
  <2>4. Honest(states', passed')
    BY <1>3, <2>1, <2>2, <2>3, HonestWith DEF With
  <2>5. QED
    BY <1>1, <1>3, <2>1, <2>2, <2>4, HonestFresh, GoGate
<1>20. ASSUME NEW u \in Users, Resume(u) PROVE GateInv'
  <2>1. Continue(u, states, at[u] + 1) /\ UNCHANGED <<steps, states, child, stepOf, passed>> /\ pc[u] = "resume"
    BY <1>20 DEF Resume, seen
  <2>2. at[u] \in DOMAIN steps /\ Clear(at[u], passed) /\ at[u] \in passed
    BY <1>3, <1>4, <2>1 DEF GateInv
  <2>3. Clear(at[u] + 1, passed)
    BY <2>2, ClearNext
  <2>4. at[u] + 1 \in 1..(Last + 1)
    BY <1>2, <2>2
  <2>5. QED
    BY <1>2, <1>3, <2>1, <2>3, <2>4, ContinueGate
<1>21. QED
  BY <1>1, <1>6, <1>7, <1>8, <1>9, <1>10, <1>11, <1>12, <1>13, <1>14, <1>15, <1>16, <1>17, <1>18, <1>19, <1>20
     DEF Recover, Report, Resolve

(* The crash handler of run_task_pipeline turns running into failed: that  *)
(* is a prompt only when the run's coroutine is the only one there is.     *)
LEMMA CrashGate ==
  ASSUME TypeInv, Phases, GateInv, Raise(Run), Guarded'
  PROVE  (Over' \/ GateInv') /\ UNCHANGED <<steps, started, passed>>
<1>1. /\ UNCHANGED <<steps, started, passed, child, stepOf>> /\ Leave(Run)
      /\ states' = [i \in DOMAIN steps |-> IF states[i] = "running" THEN "failed" ELSE states[i]]
      /\ pc[Run] \in Driving /\ faults' = faults + 1 /\ forks \subseteq forks' /\ status' = "failed"
  BY DEF Raise, seen
<1>2. Run \in Coroutines /\ faults \in Nat
  BY RunApart DEF TypeInv, TypeOK
<1>3. "outran" \notin forks
  <2>1. faults' # 0
    BY <1>1, <1>2
  <2>2. QED
    BY <1>1, <2>1 DEF Guarded
<1>4. First \/ Linking
  BY <1>1, <1>3 DEF Phases, Before, Gone, Driving
<1>5. CASE First
  <2>1. \A k \in Coroutines : pc'[k] = "idle"
    BY <1>1, <1>2, <1>5 DEF First, Alone, Leave, Go, TypeInv, TypeOK
  <2>2. Unasked' /\ Untouched'
    BY <1>1, <1>5 DEF First, Unasked, Untouched
  <2>3. QED
    BY <1>1, <2>1, <2>2 DEF Over, Final
<1>6. CASE Linking
  <2>1. \A i \in DOMAIN steps : states'[i] # states[i] => steps[i].kind = "agent"
    BY <1>1, <1>6 DEF Linking
  <2>2. \A i \in DOMAIN steps : states'[i] = "awaiting_user_input" => states[i] = "awaiting_user_input"
    BY <1>1
  <2>3. Honest(states', passed')
    BY <1>1, <2>1, <2>2 DEF GateInv, Honest, Clear
  <2>4. QED
    BY <1>1, <1>2, <2>3, LeaveGate
<1>7. QED
  BY <1>4, <1>5, <1>6

(* After that crash nothing happens to the run.                            *)
LEMMA OverStep == ASSUME TypeInv, Over, Next PROVE Over' /\ UNCHANGED <<steps, started, passed>>
<1>1. /\ \A k \in Coroutines : pc[k] = "idle"
      /\ \A c \in Children : child[c] = "none"
      /\ \A i \in DOMAIN steps : states[i] # "awaiting_user_input"
      /\ status \in {"complete", "failed"}
  BY DEF Over, Untouched, Unasked, Final
<1>2. ~(\E k \in Coroutines : Advance(k) \/ ForeachItem(k) \/ Report(k) \/ Raise(k))
  BY <1>1 DEF Advance, SkipStep, StartStep, UnknownStep, RunInline, AskUser, SkipPrompt, SpawnChild,
     LinkChild, Finalize, ForeachItem, Report, ReadRun, RecordStep, Raise, AtStep, Driving
<1>3. /\ ~(\E c \in Children : FetchChild(c) \/ DeferChild(c) \/ \E outcome \in Final : EndChild(c, outcome))
      /\ ~Recover /\ ~FetchRun /\ ~DeferRun /\ ~BeginRun /\ ~CancelQueued
  BY <1>1, RunApart DEF CancelQueued, QueuedChildren, FetchChild, DeferChild, EndChild, Recover, RecoverRun, RecoverChild, FetchRun,
     DeferRun, BeginRun
<1>4. ~(\E u \in Users : Resolve(u))
  BY <1>1, RunApart DEF Resolve, ReadAnswer, StoreAnswer, Resume
<1>5. CASE Restart
  BY <1>1, <1>5 DEF Restart, Over, Untouched, Unasked, seen
<1>6. QED
  BY <1>2, <1>3, <1>4, <1>5 DEF Next

(* Faults and forks are never forgotten.                                   *)
LEMMA GuardedBefore == ASSUME TypeInv, Next, Guarded' PROVE Guarded
<1>1. CASE \E k \in Coroutines : Raise(k)
  <2>1. faults \in Nat /\ faults' = faults + 1 /\ forks \subseteq forks'
    BY <1>1 DEF Raise, TypeInv, TypeOK
  <2>2. faults' # 0
    BY <2>1
  <2>3. QED
    BY <2>1, <2>2 DEF Guarded
<1>2. CASE ~(\E k \in Coroutines : Raise(k))
  <2>1. ASSUME NEW k \in Coroutines, Advance(k) \/ ForeachItem(k) \/ Report(k)
        PROVE  faults' = faults /\ forks \subseteq forks'
    BY <2>1 DEF Advance, SkipStep, StartStep, UnknownStep, RunInline, AskUser, SkipPrompt, SpawnChild,
       LinkChild, Finalize, ForeachItem, Report, ReadRun, RecordStep, bounds
  <2>2. ASSUME \/ FetchRun \/ DeferRun \/ BeginRun \/ Recover \/ CancelQueued \/ Restart
               \/ \E c \in Children : FetchChild(c) \/ DeferChild(c) \/ \E outcome \in Final : EndChild(c, outcome)
               \/ \E u \in Users : Resolve(u)
        PROVE  faults' = faults /\ forks \subseteq forks'
    BY <2>2 DEF FetchRun, DeferRun, BeginRun, Recover, RecoverRun, RecoverChild, CancelQueued, Restart,
       FetchChild, DeferChild, EndChild, Resolve, ReadAnswer, StoreAnswer, Resume, bounds
  <2>3. faults' = faults /\ forks \subseteq forks'
    BY <1>2, <2>1, <2>2 DEF Next
  <2>4. QED
    BY <2>3 DEF Guarded
<1>3. QED
  BY <1>1, <1>2

(* The strengthened invariant is inductive.                                *)
LEMMA GateInit == Init => GateIInv
<1> SUFFICES ASSUME Init PROVE GateIInv
  OBVIOUS
<1>1. Honest(states, passed) /\ \A k \in Coroutines : Honest(mine[k], passed) /\ Idle(k) /\ pc[k] = "idle"
  BY HonestFresh DEF Init, Idle
<1>2. ChildrenClear /\ StartedClear
  BY DEF Init, ChildrenClear, StartedClear
<1>3. QED
  BY <1>1, <1>2 DEF GateInv, GateIInv

(* and every step keeps it, given the types and the phases.                *)
LEMMA GateNext == TypeInv /\ Phases /\ GateIInv /\ [Next]_vars => GateIInv'
<1> SUFFICES ASSUME TypeInv, Phases, GateIInv, [Next]_vars, Guarded'
             PROVE  StartedClear' /\ (Over' \/ GateInv')
  BY DEF GateIInv
<1>1. CASE UNCHANGED vars
  BY <1>1 DEF vars, locals, seen, bounds, GateIInv, Guarded, StartedClear, Over, Untouched, Unasked,
     GateInv, ChildrenClear, Honest, Clear, Idle
<1>2. CASE Next
  <2>1. Guarded
    BY <1>2, GuardedBefore
  <2>2. StartedClear /\ (Over \/ GateInv)
    BY <2>1 DEF GateIInv
  <2>3. ASSUME passed \subseteq passed', UNCHANGED <<steps, started>> PROVE StartedClear'
    <3>1. \A j \in started : Clear(j, passed')
      BY <2>2, <2>3, ClearGrows DEF StartedClear
    <3>2. QED
      BY <2>3, <3>1 DEF StartedClear, Clear
  <2>4. CASE Over
    BY <1>2, <2>3, <2>4, OverStep
  <2>5. CASE GateInv
    BY <1>2, <2>2, <2>3, <2>5, AdvanceGate, TaskGate, CrashGate DEF Next
  <2>6. QED
    BY <2>2, <2>4, <2>5
<1>3. QED
  BY <1>1, <1>2

(* No step behind a user prompt starts before the prompt was answered or   *)
(* skipped, for any pipeline, however the answers, children and recoveries *)
(* race.                                                                   *)
THEOREM GateHeld == Spec => []GateHolds
<1>1. Init => TypeInv /\ Phases /\ GateIInv
  BY InitType, PhasesHold, GateInit
<1>2. TypeInv /\ Phases /\ GateIInv /\ [Next]_vars => (TypeInv /\ Phases /\ GateIInv)'
  BY NextType, PhasesHold, GateNext
<1>3. GateIInv => GateHolds
  BY DEF GateIInv, Guarded, StartedClear, Clear, GateHolds
<1>4. QED
  BY <1>1, <1>2, <1>3, PTL DEF Spec

---------------------------------------------------------------------------
(* One driver.  While none of the forks has happened the run has at most   *)
(* one holder: the coroutine that drives it, the child or the report that  *)
(* will, or nobody while it waits, in its row, for the worker or the user. *)
(* Only a spawner that has not stored its child's id yet shares the run    *)
(* with that child.  A sole holder's copy is the row, which is what keeps  *)
(* the steps in order.                                                     *)

Holds(k) ==
    \/ pc[k] \notin {"idle", "answer"}
    \/ k \in Children /\ child[k] \in {"pending", "running"}

Linked(k, c) ==
    /\ pc[k] = "link" /\ c \in Children /\ stepOf[c] = at[k]
    /\ pc[c] \in {"idle", "working", "complete", "failed"}
    /\ pc[c] = "idle" => child[c] # "running"

Pairs == \A k, l \in Coroutines : Holds(k) /\ Holds(l) => k = l \/ Linked(k, l) \/ Linked(l, k)

Asked  == \E i \in DOMAIN steps : states[i] = "awaiting_user_input"
Halted == status \in Final \cup {"pending"} \/ Asked => \A k \in Coroutines : ~Holds(k)

StatusTrue ==
    /\ status \in Final => ~Asked
    /\ status = "pending" => states = Fresh
    /\ status = "complete" => \A i \in DOMAIN steps : states[i] \in {"done", "skipped"}

Ordered == \A i, j \in DOMAIN steps : i < j /\ states[j] # "pending" => states[i] \in Ended
Once == rerun = {} /\ \A i \in started : states[i] # "pending"

(* Before i all steps have ended, behind it none has begun.                *)
Past(i) == \A j \in DOMAIN steps : j < i => states[j] \in Ended
Behind(i)  == \A j \in DOMAIN steps : j > i => states[j] = "pending"

(* What the row of a child and its coroutine say of each other.            *)
Row(c) ==
    /\ pc[c] \notin {"start", "answer", "resume"}
    /\ child[c] \in {"none", "pending"} => pc[c] = "idle"
    /\ pc[c] = "working" => child[c] = "running"
    /\ pc[c] \in Driving \cup {"complete", "failed"} => child[c] \in Final
    /\ pc[c] \in {"working", "complete", "failed"} => at[c] = stepOf[c]
    /\ child[c] \in {"pending", "running"} => states[stepOf[c]] = "running"

(* Where a coroutine stands, and what its copy is worth.                   *)
Stands(k) ==
    /\ pc[k] = "start" => k = Run /\ states = Fresh
    /\ pc[k] \in {"loop", "step", "link", "abort"} => mine[k] = states
    /\ pc[k] = "loop" => Past(at[k]) /\ Behind(at[k] - 1)
    /\ pc[k] \in {"step", "link", "working", "complete", "failed", "record"} => states[at[k]] = "running"
    /\ pc[k] = "abort" => states[at[k]] = "failed" /\ Past(at[k]) /\ Behind(at[k])
    /\ pc[k] = "record" =>
          \E outcome \in {"done", "failed"} : mine[k] = [states EXCEPT ![at[k]] = outcome]
    /\ pc[k] = "resume" => states[at[k]] = "done" /\ Past(at[k]) /\ Behind(at[k])
    /\ pc[k] = "answer" =>
          \/ states[at[k]] = "awaiting_user_input" /\ mine[k] = states
          \/ states[at[k]] \in Ended

DriverInv ==
    /\ Pairs /\ Halted /\ StatusTrue /\ Ordered /\ Once
    /\ \A c \in Children : Row(c)
    /\ \A k \in Coroutines : Stands(k)

LEMMA Facts ==
  ASSUME TypeInv
  PROVE  /\ Last \in Nat /\ DOMAIN steps = 1..Last
         /\ Fresh \in Copies /\ states \in Copies /\ mine \in [Coroutines -> Copies]
         /\ pc \in [Coroutines -> Point] /\ at \in [Coroutines -> Nat]
         /\ child \in [Children -> RowStatus] /\ stepOf \in [Children -> Nat]
         /\ \A k \in Coroutines : pc[k] \in Inside => at[k] \in DOMAIN steps
         /\ \A k \in Coroutines : pc[k] = "loop" => at[k] \in 1..(Last + 1)
         /\ \A c \in Children : child[c] # "none" => stepOf[c] \in DOMAIN steps
         /\ started \subseteq DOMAIN steps /\ status \in RowStatus
         /\ Run \in Coroutines \ Children /\ Worker \in Coroutines \ Children
         /\ Children \subseteq Coroutines /\ Users \subseteq Coroutines
BY StepsSeq, PipelineAssumption DEF TypeInv, TypeOK, Positions, Copies, Coroutines

(* A holder whose child is not at large holds the run alone.               *)
LEMMA HoldsAlone ==
  ASSUME Pairs, NEW k \in Coroutines, Holds(k),
         pc[k] \notin {"link", "idle", "working", "complete", "failed"}
  PROVE  \A l \in Coroutines \ {k} : ~Holds(l)
BY DEF Pairs, Linked

(* While there is a holder the run is running and no prompt is open.       *)
LEMMA HolderRuns ==
  ASSUME TypeInv, Halted, NEW k \in Coroutines, Holds(k)
  PROVE  status = "running" /\ ~Asked
<1>1. status \in RowStatus \ {"none"}
  BY DEF TypeInv, TypeOK
<1>2. QED
  BY <1>1 DEF Halted, RowStatus, Final

(* Behind an unfinished step nothing has begun, before a begun one all has *)
(* ended.                                                                  *)
LEMMA InOrder ==
  ASSUME TypeInv, Ordered, NEW i \in DOMAIN steps
  PROVE  /\ states[i] \notin Ended => Behind(i)
         /\ states[i] # "pending" => Past(i)
BY Facts DEF Ordered, Behind, Past

(* Only pending steps ahead: the loop goes on with the next one.           *)
LEMMA GoesOn ==
  ASSUME TypeInv, NEW k \in Coroutines, NEW s, NEW i \in 1..(Last + 1), Continue(k, s, i),
         \A j \in DOMAIN steps : j >= i => s[j] = "pending"
  PROVE  Go(k, "loop", i, s)
<1>1. Last \in Nat /\ DOMAIN steps = 1..Last
  BY Facts
<1>2. PICK j \in i..(Last + 1) : IsNext(s, i, j) /\ Go(k, "loop", j, s)
  BY DEF Continue
<1>3. j = i
  <2> SUFFICES ASSUME j # i PROVE FALSE
    OBVIOUS
  <2>1. i \in i..(j - 1) /\ i \in DOMAIN steps
    BY <1>1
  <2>2. s[i] \in Ended
    BY <1>2, <2>1 DEF IsNext
  <2>3. QED
    BY <1>1, <2>1, <2>2 DEF Ended
<1>4. QED
  BY <1>2, <1>3

(* A sole holder moves: the others stay as they are, and ended steps stay  *)
(* ended.                                                                  *)
LEMMA SoleMoves ==
  ASSUME TypeInv, DriverInv, NEW k \in Coroutines, Holds(k),
         \A l \in Coroutines \ {k} : ~Holds(l),
         NEW p \in Point, NEW i, NEW s, Go(k, p, i, s),
         k \in Children => child[k] \in Final /\ p \in Driving \cup {"idle"},
         UNCHANGED <<steps, child, stepOf>>,
         \A j \in DOMAIN steps : states[j] \in Ended => states'[j] \in Ended
  PROVE  /\ Pairs' /\ (\A c \in Children : Row(c)')
         /\ \A l \in Coroutines \ {k} : Stands(l)' /\ ~Holds(l)'
<1> USE Facts
<1>1. \A l \in Coroutines \ {k} : pc'[l] = pc[l] /\ at'[l] = at[l] /\ mine'[l] = mine[l]
  BY DEF Go
<1>2. \A l \in Coroutines \ {k} : ~Holds(l)'
  BY <1>1 DEF Holds
<1>3. Pairs'
  BY <1>2 DEF Pairs
<1>4. ASSUME NEW l \in Coroutines \ {k} PROVE Stands(l)'
  <2>1. pc[l] \in {"idle", "answer"} /\ Stands(l)
    BY DEF Holds, DriverInv
  <2>2. ~Asked
    BY HolderRuns DEF DriverInv
  <2>3. pc[l] = "answer" => at[l] \in DOMAIN steps /\ states[at[l]] \in Ended
    BY <2>1, <2>2 DEF Asked, Stands, Inside, Point
  <2>4. QED
    BY <1>1, <2>1, <2>3 DEF Stands
<1>5. ASSUME NEW c \in Children PROVE Row(c)'
  <2>1. Row(c)
    BY DEF DriverInv
  <2>2. CASE c = k
    <3>1. pc'[c] = p /\ child'[c] \in Final /\ p \in Driving \cup {"idle"}
      BY <2>2 DEF Go
    <3>2. QED
      BY <3>1 DEF Row, Driving, Final
  <2>3. CASE c # k
    <3>1. ~Holds(c) /\ pc'[c] = pc[c] /\ child'[c] = child[c]
      BY <1>1, <2>3
    <3>2. pc[c] = "idle" /\ child[c] \notin {"pending", "running"}
      BY <2>1, <3>1 DEF Holds, Row
    <3>3. QED
      BY <3>1, <3>2 DEF Row, Driving
  <2>4. QED
    BY <2>2, <2>3
<1>6. QED
  BY <1>2, <1>3, <1>4, <1>5

(* A sole holder writes the step it is at.                                 *)
LEMMA Turned ==
  ASSUME TypeInv, DriverInv, NEW k \in Coroutines, Holds(k),
         \A l \in Coroutines \ {k} : ~Holds(l), k \in Children => child[k] \in Final,
         NEW i \in DOMAIN steps, states[i] \in {"pending", "running"}, Past(i), Behind(i),
         NEW v \in StepStatus \ {"pending"}, states' = [states EXCEPT ![i] = v],
         UNCHANGED <<steps, status, child, stepOf, rerun>>, started' \subseteq started \cup {i},
         \/ v = "running" /\ Go(k, "step", i, states')
         \/ v \in Ended /\ Go(k, "loop", i + 1, states')
         \/ v = "failed" /\ Go(k, "abort", i, states')
         \/ v = "awaiting_user_input" /\ Leave(k)
  PROVE  DriverInv'
<1> USE Facts
<1>1. status = "running" /\ ~Asked
  BY HolderRuns DEF DriverInv
<1>2. PICK p \in {"step", "loop", "abort", "idle"} : \E j, s : Go(k, p, j, s)
  BY DEF Leave
<1>3. \A j \in DOMAIN steps : /\ j < i => states'[j] \in Ended
                              /\ j > i => states'[j] = "pending"
                              /\ j # i => states'[j] = states[j]
  BY DEF Past, Behind, Copies
<1>4. states'[i] = v
  BY DEF Copies
<1>5. /\ Pairs' /\ (\A c \in Children : Row(c)')
      /\ \A l \in Coroutines \ {k} : Stands(l)' /\ ~Holds(l)'
  <2>1. \A j \in DOMAIN steps : states[j] \in Ended => states'[j] \in Ended
    BY <1>3 DEF Ended
  <2>2. p \in Point /\ p \in Driving \cup {"idle"}
    BY DEF Point, Driving
  <2>3. QED
    BY <1>2, <2>1, <2>2, SoleMoves
<1>6. Ordered'
  BY <1>3, <1>4 DEF Ordered, Ended
<1>7. Once'
  BY <1>3, <1>4 DEF DriverInv, Once
<1>8. StatusTrue'
  BY <1>1 DEF StatusTrue, Final
<1>9. Halted'
  <2>1. CASE v = "awaiting_user_input"
    <3>1. pc'[k] = "idle"
      BY <2>1 DEF Leave, Go, Ended
    <3>2. ~Holds(k)'
      BY <3>1 DEF Holds, Final
    <3>3. QED
      BY <1>5, <3>2 DEF Halted
  <2>2. CASE v # "awaiting_user_input"
    <3>1. ~Asked'
      BY <1>1, <1>3, <1>4, <2>2 DEF Asked
    <3>2. QED
      BY <1>1, <3>1 DEF Halted, Final
  <2>3. QED
    BY <2>1, <2>2
<1>10. Stands(k)'
  <2>1. CASE v = "running" /\ Go(k, "step", i, states')
    BY <1>4, <2>1 DEF Go, Stands
  <2>2. CASE v \in Ended /\ Go(k, "loop", i + 1, states')
    <3>1. pc'[k] = "loop" /\ at'[k] = i + 1 /\ mine'[k] = states'
      BY <2>2 DEF Go
    <3>2. Past(i + 1)' /\ Behind(i)'
      BY <1>3, <1>4, <2>2 DEF Past, Behind
    <3>3. (i + 1) - 1 = i
      OBVIOUS
    <3>4. QED
      BY <3>1, <3>2, <3>3 DEF Stands
  <2>3. CASE v = "failed" /\ Go(k, "abort", i, states')
    <3>1. pc'[k] = "abort" /\ at'[k] = i /\ mine'[k] = states'
      BY <2>3 DEF Go
    <3>2. Past(i)' /\ Behind(i)'
      BY <1>3 DEF Past, Behind
    <3>3. QED
      BY <1>4, <2>3, <3>1, <3>2 DEF Stands
  <2>4. CASE Leave(k)
    BY <2>4 DEF Leave, Go, Stands
  <2>5. QED
    BY <2>1, <2>2, <2>3, <2>4
<1>11. QED
  BY <1>5, <1>6, <1>7, <1>8, <1>9, <1>10 DEF DriverInv

(* What depends on nothing but the run's row.                              *)
LEMMA Calm ==
  ASSUME StatusTrue, Ordered, Once, UNCHANGED <<steps, status, states, started, rerun>>
  PROVE  StatusTrue' /\ Ordered' /\ Once' /\ (Asked' <=> Asked)
BY DEF StatusTrue, Ordered, Once, Asked, Fresh

(* Who stays where it is stands as before, if the run's row stays.         *)
LEMMA Stays ==
  ASSUME NEW l \in Coroutines, Stands(l), pc'[l] = pc[l], at'[l] = at[l], mine'[l] = mine[l],
         UNCHANGED <<steps, states>>
  PROVE  Stands(l)'
<1>1. Past(at[l])' <=> Past(at[l])
  BY DEF Past
<1>2. Behind(at[l])' <=> Behind(at[l])
  BY DEF Behind
<1>3. Behind(at[l] - 1)' <=> Behind(at[l] - 1)
  BY DEF Behind
<1>4. Fresh' = Fresh
  BY DEF Fresh
<1>5. QED
  BY <1>1, <1>2, <1>3, <1>4 DEF Stands

(* A sole holder moves and the run's row stays.                            *)
LEMMA Moved ==
  ASSUME TypeInv, DriverInv, NEW k \in Coroutines, Holds(k),
         \A l \in Coroutines \ {k} : ~Holds(l), k \in Children => child[k] \in Final,
         NEW p \in Driving \cup {"idle"}, NEW i, NEW s, Go(k, p, i, s), Stands(k)',
         UNCHANGED <<steps, status, states, child, stepOf, started, rerun>>
  PROVE  DriverInv'
<1>1. StatusTrue' /\ Ordered' /\ Once' /\ (Asked' <=> Asked)
  BY Calm DEF DriverInv
<1>2. p \in Point
  BY DEF Point
<1>3. /\ Pairs' /\ (\A c \in Children : Row(c)')
      /\ \A l \in Coroutines \ {k} : Stands(l)' /\ ~Holds(l)'
  BY <1>2, SoleMoves
<1>4. Halted'
  <2>1. status = "running" /\ ~Asked
    BY HolderRuns DEF DriverInv
  <2>2. QED
    BY <1>1, <2>1 DEF Halted, Final
<1>5. QED
  BY <1>1, <1>3, <1>4 DEF DriverInv

(* A driver past its callback or its spawn holds the run alone.            *)
LEMMA DriverAlone ==
  ASSUME TypeInv, DriverInv, NEW k \in Coroutines, pc[k] \in (Driving \ {"link"}) \cup {"resume"}
  PROVE  /\ Holds(k) /\ \A l \in Coroutines \ {k} : ~Holds(l)
         /\ k \in Children => child[k] \in Final
<1>1. Holds(k)
  BY DEF Holds, Driving
<1>2. pc[k] \notin {"link", "idle", "working", "complete", "failed"}
  BY DEF Driving
<1>3. \A l \in Coroutines \ {k} : ~Holds(l)
  BY <1>1, <1>2, HoldsAlone DEF DriverInv
<1>4. ASSUME k \in Children PROVE child[k] \in Final
  <2>1. Row(k)
    BY <1>4 DEF DriverInv
  <2>2. QED
    BY <2>1 DEF Row, Driving
<1>5. QED
  BY <1>1, <1>3, <1>4

(* The coroutine at a step ends it with s.                                 *)
LEMMA StepEnds ==
  ASSUME TypeInv, DriverInv, NEW k \in Coroutines, pc[k] \in {"step", "record"},
         NEW v \in Ended, EndStep(k, [states EXCEPT ![at[k]] = v]),
         UNCHANGED <<steps, status, child, stepOf, started, rerun>>
  PROVE  DriverInv'
<1> USE Facts
<1>1. /\ Holds(k) /\ \A l \in Coroutines \ {k} : ~Holds(l)
      /\ k \in Children => child[k] \in Final
  BY DriverAlone DEF Driving
<1>2. at[k] \in DOMAIN steps /\ states[at[k]] = "running" /\ v \in StepStatus \ {"pending"}
  BY DEF DriverInv, Stands, Inside, Point, Driving, Ended, StepStatus
<1>3. Past(at[k]) /\ Behind(at[k])
  BY <1>2, InOrder DEF DriverInv, Ended
<1>4. states' = [states EXCEPT ![at[k]] = v] /\ states'[at[k]] = v
  BY <1>2 DEF EndStep, Copies
<1>5. \/ v \in Ended /\ Go(k, "loop", at[k] + 1, states')
      \/ v = "failed" /\ Go(k, "abort", at[k], states')
  <2>1. CASE v = "failed" /\ steps[at[k]].abort
    BY <1>4, <2>1 DEF EndStep
  <2>2. CASE ~(v = "failed" /\ steps[at[k]].abort)
    <3>1. Continue(k, states', at[k] + 1)
      BY <1>4, <2>2 DEF EndStep
    <3>2. \A j \in DOMAIN steps : j >= at[k] + 1 => states'[j] = "pending"
      BY <1>2, <1>3, <1>4 DEF Behind, Copies
    <3>3. at[k] + 1 \in 1..(Last + 1)
      BY <1>2
    <3>4. Go(k, "loop", at[k] + 1, states')
      BY <3>1, <3>2, <3>3, GoesOn
    <3>5. QED
      BY <3>4
  <2>3. QED
    BY <2>1, <2>2
<1>6. QED
  BY <1>1, <1>2, <1>3, <1>4, <1>5, Turned

(* What a coroutine has when it is at a step.                              *)
LEMMA StandsAt ==
  ASSUME TypeInv, DriverInv, NEW k \in Coroutines
  PROVE  /\ pc[k] = "step" =>
              /\ at[k] \in DOMAIN steps /\ states[at[k]] = "running"
              /\ \A v : With(k, v) = [states EXCEPT ![at[k]] = v]
         /\ pc[k] = "loop" /\ at[k] <= Last =>
              /\ at[k] \in DOMAIN steps /\ states[at[k]] = "pending"
              /\ Past(at[k]) /\ Behind(at[k])
              /\ \A v : With(k, v) = [states EXCEPT ![at[k]] = v]
<1> USE Facts
<1>1. Stands(k)
  BY DEF DriverInv
<1>2. ASSUME pc[k] = "step"
      PROVE  /\ at[k] \in DOMAIN steps /\ states[at[k]] = "running"
             /\ \A v : With(k, v) = [states EXCEPT ![at[k]] = v]
  BY <1>1, <1>2 DEF Stands, With, Inside, Point, Driving
<1>3. ASSUME pc[k] = "loop", at[k] <= Last
      PROVE  /\ at[k] \in DOMAIN steps /\ states[at[k]] = "pending"
             /\ Past(at[k]) /\ Behind(at[k])
             /\ \A v : With(k, v) = [states EXCEPT ![at[k]] = v]
  <2>1. at[k] \in DOMAIN steps
    BY <1>3
  <2>2. mine[k] = states /\ Past(at[k]) /\ Behind(at[k] - 1)
    BY <1>1, <1>3 DEF Stands
  <2>3. states[at[k]] = "pending" /\ Behind(at[k])
    BY <2>1, <2>2 DEF Behind
  <2>4. QED
    BY <2>1, <2>2, <2>3 DEF With
<1>4. QED
  BY <1>2, <1>3

(* The loop skips a step or starts it.                                     *)
LEMMA LoopDriven ==
  ASSUME TypeInv, DriverInv, NEW k \in Coroutines, SkipStep(k) \/ StartStep(k)
  PROVE  DriverInv'
<1> USE Facts
<1>1. pc[k] = "loop" /\ at[k] <= Last
  BY DEF SkipStep, StartStep
<1>2. /\ Holds(k) /\ \A l \in Coroutines \ {k} : ~Holds(l)
      /\ k \in Children => child[k] \in Final
  BY <1>1, DriverAlone DEF Driving
<1>3. /\ at[k] \in DOMAIN steps /\ states[at[k]] = "pending" /\ Past(at[k]) /\ Behind(at[k])
      /\ \A v : With(k, v) = [states EXCEPT ![at[k]] = v]
  BY <1>1, StandsAt
<1>4. CASE SkipStep(k)
  <2>1. states' = [states EXCEPT ![at[k]] = "skipped"] /\ Continue(k, states', at[k] + 1)
    BY <1>3, <1>4 DEF SkipStep
  <2>2. \A j \in DOMAIN steps : j >= at[k] + 1 => states'[j] = "pending"
    BY <1>3, <2>1 DEF Behind, Copies
  <2>3. at[k] + 1 \in 1..(Last + 1)
    BY <1>3
  <2>4. Go(k, "loop", at[k] + 1, states')
    BY <2>1, <2>2, <2>3, GoesOn
  <2>5. "skipped" \in StepStatus \ {"pending"} /\ "skipped" \in Ended
    BY DEF StepStatus, Ended
  <2>6. UNCHANGED <<steps, status, child, stepOf, rerun>> /\ started' \subseteq started \cup {at[k]}
    BY <1>4 DEF SkipStep
  <2>7. QED
    BY <1>2, <1>3, <2>1, <2>4, <2>5, <2>6, Turned
<1>5. CASE StartStep(k)
  <2>1. states' = [states EXCEPT ![at[k]] = "running"] /\ Go(k, "step", at[k], states')
    BY <1>3, <1>5 DEF StartStep
  <2>2. at[k] \notin started
    BY <1>3 DEF DriverInv, Once
  <2>3. UNCHANGED <<steps, status, child, stepOf, rerun>> /\ started' \subseteq started \cup {at[k]}
    BY <1>5, <2>2 DEF StartStep
  <2>4. "running" \in StepStatus \ {"pending"}
    BY DEF StepStatus
  <2>5. QED
    BY <1>2, <1>3, <2>1, <2>3, <2>4, Turned
<1>6. QED
  BY <1>4, <1>5

(* A step runs, is skipped, fails or asks.                                 *)
LEMMA StepDriven ==
  ASSUME TypeInv, DriverInv, NEW k \in Coroutines,
         \/ \E result \in Ended : RunInline(k, result)
         \/ UnknownStep(k) \/ AskUser(k) \/ SkipPrompt(k)
  PROVE  DriverInv'
<1> USE Facts
<1>1. pc[k] = "step"
  BY DEF RunInline, UnknownStep, AskUser, SkipPrompt, AtStep
<1>2. /\ Holds(k) /\ \A l \in Coroutines \ {k} : ~Holds(l)
      /\ k \in Children => child[k] \in Final
  BY <1>1, DriverAlone DEF Driving
<1>3. /\ at[k] \in DOMAIN steps /\ states[at[k]] = "running"
      /\ \A v : With(k, v) = [states EXCEPT ![at[k]] = v]
  BY <1>1, StandsAt
<1>4. Past(at[k]) /\ Behind(at[k])
  BY <1>3, InOrder DEF DriverInv, Ended
<1>5. ASSUME NEW result \in Ended, RunInline(k, result) PROVE DriverInv'
  <2>1. EndStep(k, [states EXCEPT ![at[k]] = result])
    BY <1>3, <1>5 DEF RunInline
  <2>2. UNCHANGED <<steps, status, child, stepOf, started, rerun>>
    BY <1>5 DEF RunInline, seen
  <2>3. QED
    BY <1>1, <2>1, <2>2, StepEnds
<1>6. ASSUME UnknownStep(k) PROVE DriverInv'
  <2>1. /\ states' = [states EXCEPT ![at[k]] = "failed"] /\ Go(k, "abort", at[k], states')
        /\ UNCHANGED <<steps, status, child, stepOf, started, rerun>>
    BY <1>3, <1>6 DEF UnknownStep, seen
  <2>2. "failed" \in StepStatus \ {"pending"}
    BY DEF StepStatus
  <2>3. QED
    BY <1>2, <1>3, <1>4, <2>1, <2>2, Turned
<1>7. ASSUME AskUser(k) PROVE DriverInv'
  <2>1. /\ states' = [states EXCEPT ![at[k]] = "awaiting_user_input"] /\ Leave(k)
        /\ UNCHANGED <<steps, status, child, stepOf, started, rerun>>
    BY <1>3, <1>7 DEF AskUser, seen
  <2>2. "awaiting_user_input" \in StepStatus \ {"pending"}
    BY DEF StepStatus
  <2>3. QED
    BY <1>2, <1>3, <1>4, <2>1, <2>2, Turned
<1>8. ASSUME SkipPrompt(k) PROVE DriverInv'
  <2>1. /\ states' = [states EXCEPT ![at[k]] = "skipped"] /\ Continue(k, states', at[k] + 1)
        /\ UNCHANGED <<steps, status, child, stepOf, started, rerun>>
    BY <1>3, <1>8 DEF SkipPrompt
  <2>2. \A j \in DOMAIN steps : j >= at[k] + 1 => states'[j] = "pending"
    BY <1>3, <1>4, <2>1 DEF Behind, Copies
  <2>3. at[k] + 1 \in 1..(Last + 1)
    BY <1>3
  <2>4. Go(k, "loop", at[k] + 1, states')
    BY <2>1, <2>2, <2>3, GoesOn
  <2>5. "skipped" \in StepStatus \ {"pending"} /\ "skipped" \in Ended
    BY DEF StepStatus, Ended
  <2>6. QED
    BY <1>2, <1>3, <1>4, <2>1, <2>4, <2>5, Turned
<1>9. QED
  BY <1>5, <1>6, <1>7, <1>8

(* A foreach writes its copy, which is what the row holds.                 *)
LEMMA ItemDriven ==
  ASSUME TypeInv, DriverInv, NEW k \in Coroutines, ForeachItem(k)
  PROVE  DriverInv'
<1>1. pc[k] = "step" /\ states' = mine[k]
      /\ UNCHANGED <<steps, status, child, stepOf, pc, at, mine, started, rerun>>
  BY DEF ForeachItem, AtStep, locals, seen
<1>2. states' = states
  BY <1>1 DEF DriverInv, Stands
<1>3. QED
  BY <1>1, <1>2 DEF DriverInv, Pairs, Halted, Asked, StatusTrue, Ordered, Once, Row, Stands, Holds,
                    Linked, Past, Behind, Fresh

(* The child of an agent step is committed: spawner and child are linked.  *)
LEMMA SpawnDriven ==
  ASSUME TypeInv, DriverInv, NEW k \in Coroutines, NEW c \in Children, SpawnChild(k, c)
  PROVE  DriverInv'
<1> USE Facts
<1>1. /\ pc[k] = "step" /\ child[c] = "none"
      /\ child' = [child EXCEPT ![c] = "pending"] /\ stepOf' = [stepOf EXCEPT ![c] = at[k]]
      /\ Go(k, "link", at[k], mine[k])
      /\ UNCHANGED <<steps, status, states, started, rerun>>
  BY DEF SpawnChild, AtStep, seen
<1>2. Holds(k) /\ \A l \in Coroutines \ {k} : ~Holds(l)
  BY <1>1, DriverAlone DEF Driving
<1>3. at[k] \in DOMAIN steps /\ states[at[k]] = "running" /\ mine[k] = states
  BY <1>1, StandsAt DEF DriverInv, Stands
<1>4. pc[c] = "idle" /\ c # k
  BY <1>1 DEF DriverInv, Row
<1>5. /\ pc'[k] = "link" /\ at'[k] = at[k] /\ mine'[k] = mine[k]
      /\ \A l \in Coroutines \ {k} : pc'[l] = pc[l] /\ at'[l] = at[l] /\ mine'[l] = mine[l]
  BY <1>1 DEF Go
<1>6. /\ child'[c] = "pending" /\ stepOf'[c] = at[k]
      /\ \A d \in Children \ {c} : child'[d] = child[d] /\ stepOf'[d] = stepOf[d]
  BY <1>1
<1>7. Pairs'
  <2>1. \A l \in Coroutines \ {k, c} : ~Holds(l)'
    BY <1>2, <1>5, <1>6 DEF Holds
  <2>2. Linked(k, c)'
    BY <1>4, <1>5, <1>6 DEF Linked
  <2>3. QED
    BY <2>1, <2>2 DEF Pairs
<1>8. StatusTrue' /\ Ordered' /\ Once' /\ (Asked' <=> Asked)
  BY <1>1, Calm DEF DriverInv
<1>9. Halted'
  BY <1>1, <1>2, <1>8, HolderRuns DEF DriverInv, Halted, Final
<1>10. ASSUME NEW d \in Children PROVE Row(d)'
  <2>1. Row(d)
    BY DEF DriverInv
  <2>2. CASE d = c
    BY <1>1, <1>3, <1>4, <1>5, <1>6, <2>2 DEF Row, Driving
  <2>3. CASE d # c /\ d = k
    <3>1. child[d] \in Final /\ pc'[d] = "link" /\ child'[d] = child[d]
      BY <1>1, <1>5, <1>6, <2>1, <2>3 DEF Row, Driving
    <3>2. QED
      BY <3>1 DEF Row, Driving, Final
  <2>4. CASE d # c /\ d # k
    BY <1>1, <1>5, <1>6, <2>1, <2>4 DEF Row
  <2>5. QED
    BY <2>2, <2>3, <2>4
<1>11. ASSUME NEW l \in Coroutines PROVE Stands(l)'
  <2>1. Stands(l)
    BY DEF DriverInv
  <2>2. CASE l = k
    BY <1>1, <1>3, <1>5, <2>2 DEF Stands
  <2>3. CASE l # k
    BY <1>1, <1>5, <2>1, <2>3, Stays
  <2>4. QED
    BY <2>2, <2>3
<1>12. QED
  BY <1>7, <1>8, <1>9, <1>10, <1>11 DEF DriverInv

(* A coroutine leaves and the run's row stays: a spawner that has stored   *)
(* its child's id, or a callback whose exception is only logged.           *)
LEMMA LeaveDriven ==
  ASSUME TypeInv, DriverInv, NEW k \in Coroutines, pc[k] \in Driving, Leave(k),
         UNCHANGED <<steps, status, states, child, stepOf, started, rerun>>
  PROVE  DriverInv'
<1> USE Facts
<1>1. /\ pc'[k] = "idle"
      /\ \A l \in Coroutines \ {k} : pc'[l] = pc[l] /\ at'[l] = at[l] /\ mine'[l] = mine[l]
  BY DEF Leave, Go
<1>2. k \in Children => child[k] \in Final
  BY DEF DriverInv, Row
<1>3. ~Holds(k)' /\ \A l \in Coroutines \ {k} : Holds(l)' <=> Holds(l)
  BY <1>1, <1>2 DEF Holds, Final
<1>4. Pairs'
  BY <1>1, <1>3 DEF DriverInv, Pairs, Linked
<1>5. StatusTrue' /\ Ordered' /\ Once' /\ (Asked' <=> Asked)
  BY Calm DEF DriverInv
<1>6. Halted'
  BY <1>3, <1>5 DEF DriverInv, Halted
<1>7. ASSUME NEW d \in Children PROVE Row(d)'
  <2>1. Row(d)
    BY DEF DriverInv
  <2>2. CASE d = k
    BY <1>1, <1>2, <2>2 DEF Row, Driving, Final
  <2>3. CASE d # k
    BY <1>1, <2>1, <2>3 DEF Row
  <2>4. QED
    BY <2>2, <2>3
<1>8. ASSUME NEW l \in Coroutines PROVE Stands(l)'
  <2>1. Stands(l)
    BY DEF DriverInv
  <2>2. CASE l = k
    BY <1>1, <2>2 DEF Stands
  <2>3. CASE l # k
    BY <1>1, <2>1, <2>3, Stays
  <2>4. QED
    BY <2>2, <2>3
<1>9. QED
  BY <1>4, <1>5, <1>6, <1>7, <1>8 DEF DriverInv

(* A sole holder ends the run: nobody holds it any more.                   *)
LEMMA RunEnds ==
  ASSUME TypeInv, DriverInv, NEW k \in Coroutines, pc[k] \in (Driving \ {"link"}),
         Leave(k), status' \in Final, states' \in Copies,
         UNCHANGED <<steps, child, stepOf, started, rerun>>,
         \A i \in DOMAIN steps : /\ states[i] \in Ended \cup {"pending"} => states'[i] = states[i]
                                 /\ states[i] = "running" => states'[i] = "failed"
                                                             \/ states'[i] = "running",
         status' = "complete" => \A i \in DOMAIN steps : states'[i] \in {"done", "skipped"}
  PROVE  DriverInv'
<1> USE Facts
<1>1. /\ Holds(k) /\ \A l \in Coroutines \ {k} : ~Holds(l)
      /\ k \in Children => child[k] \in Final
  BY DriverAlone
<1>2. status = "running" /\ ~Asked
  BY <1>1, HolderRuns DEF DriverInv
<1>3. Go(k, "idle", 0, Fresh) /\ "idle" \in Point
  BY DEF Leave, Point
<1>4. \A j \in DOMAIN steps : states[j] \in Ended => states'[j] \in Ended
  OBVIOUS
<1>5. /\ Pairs' /\ (\A c \in Children : Row(c)')
      /\ \A l \in Coroutines \ {k} : Stands(l)' /\ ~Holds(l)'
  BY <1>1, <1>3, <1>4, SoleMoves
<1>6. \A i \in DOMAIN steps : /\ states[i] \in StepStatus \ {"awaiting_user_input"}
                              /\ states'[i] # "awaiting_user_input"
                              /\ states'[i] = "pending" <=> states[i] = "pending"
  <2>1. \A i \in DOMAIN steps : states[i] \in StepStatus \ {"awaiting_user_input"}
    BY <1>2 DEF Asked, Copies
  <2>2. QED
    BY <2>1 DEF StepStatus, Ended
<1>7. ~Asked'
  BY <1>6 DEF Asked
<1>8. pc'[k] = "idle" /\ ~Holds(k)'
  BY <1>1, <1>3 DEF Go, Holds, Final
<1>9. Halted'
  BY <1>5, <1>8 DEF Halted
<1>10. StatusTrue'
  BY <1>7 DEF StatusTrue, Final
<1>11. Ordered' /\ Once'
  BY <1>4, <1>6 DEF DriverInv, Ordered, Once
<1>12. Stands(k)'
  BY <1>8 DEF Stands
<1>13. QED
  BY <1>5, <1>9, <1>10, <1>11, <1>12 DEF DriverInv

(* The run is finalized with a status its steps bear out.                  *)
LEMMA FinalizeDriven ==
  ASSUME TypeInv, DriverInv, NEW k \in Coroutines, Finalize(k)
  PROVE  DriverInv'
<1> USE Facts
<1>1. pc[k] \in Driving \ {"link"} /\ mine[k] = states /\ states' = states
  BY DEF Finalize, DriverInv, Stands, Driving
<1>2. status' \in Final /\ Leave(k) /\ UNCHANGED <<steps, child, stepOf, started, rerun>>
  BY DEF Finalize, Final, seen
<1>3. ASSUME status' = "complete" PROVE \A i \in DOMAIN steps : states[i] \in {"done", "skipped"}
  <2>1. \A i \in DOMAIN steps : states[i] # "failed"
    BY <1>1, <1>3 DEF Finalize
  <2>2. pc[k] = "loop" /\ at[k] > Last
    BY <2>1 DEF Finalize, DriverInv, Stands, Inside, Point, Driving
  <2>3. \A i \in DOMAIN steps : states[i] \in Ended
    BY <2>2 DEF DriverInv, Stands, Past
  <2>4. QED
    BY <2>1, <2>3 DEF Ended
<1>4. QED
  BY <1>1, <1>2, <1>3, RunEnds

LEMMA AdvanceDriven ==
  ASSUME TypeInv, DriverInv, NEW k \in Coroutines, Advance(k)
  PROVE  DriverInv'
<1>1. ASSUME LinkChild(k) PROVE DriverInv'
  <2>1. /\ pc[k] = "link" /\ states' = mine[k] /\ Leave(k)
        /\ UNCHANGED <<steps, status, child, stepOf, started, rerun>>
    BY <1>1 DEF LinkChild, seen
  <2>2. states' = states /\ pc[k] \in Driving
    BY <2>1 DEF DriverInv, Stands, Driving
  <2>3. QED
    BY <2>1, <2>2, LeaveDriven
<1>2. QED
  BY <1>1, LoopDriven, StepDriven, SpawnDriven, FinalizeDriven DEF Advance

LEMMA RaiseDriven ==
  ASSUME TypeInv, DriverInv, forks' = {}, NEW k \in Coroutines, Raise(k)
  PROVE  DriverInv'
<1> USE Facts
<1>1. pc[k] \in Driving /\ Leave(k) /\ UNCHANGED <<steps, child, stepOf, started, rerun>>
  BY DEF Raise, seen
<1>2. CASE k = Run
  <2>1. pc[k] # "link"
    BY <1>2 DEF Raise
  <2>2. /\ status' \in Final /\ status' # "complete"
        /\ states' = [i \in DOMAIN steps |-> IF states[i] = "running" THEN "failed" ELSE states[i]]
    BY <1>2 DEF Raise, Final
  <2>3. states' \in Copies
    BY <2>2 DEF Copies, StepStatus
  <2>4. \A i \in DOMAIN steps : states'[i] = IF states[i] = "running" THEN "failed" ELSE states[i]
    BY <2>2
  <2>5. \A i \in DOMAIN steps : /\ states[i] \in Ended \cup {"pending"} => states'[i] = states[i]
                                /\ states[i] = "running" => states'[i] = "failed"
    BY <2>4 DEF Ended
  <2>6. QED
    BY <1>1, <2>1, <2>2, <2>3, <2>5, RunEnds
<1>3. CASE k # Run
  BY <1>1, <1>3, LeaveDriven DEF Raise
<1>4. QED
  BY <1>2, <1>3

(* The worker fetches the run, which nobody holds.                         *)
LEMMA FetchDriven ==
  ASSUME TypeInv, DriverInv, FetchRun
  PROVE  DriverInv'
<1> USE Facts
<1>1. /\ status = "pending" /\ status' = "running" /\ Go(Run, "start", 0, Fresh)
      /\ UNCHANGED <<steps, states, child, stepOf, started, rerun>>
  BY DEF FetchRun, seen
<1>2. states = Fresh /\ \A k \in Coroutines : ~Holds(k)
  BY <1>1 DEF DriverInv, StatusTrue, Halted
<1>3. /\ pc'[Run] = "start"
      /\ \A l \in Coroutines \ {Run} : pc'[l] = pc[l] /\ at'[l] = at[l] /\ mine'[l] = mine[l]
  BY <1>1 DEF Go
<1>4. Pairs'
  BY <1>1, <1>2, <1>3 DEF Pairs, Holds
<1>5. ~Asked' /\ Halted'
  BY <1>1, <1>2 DEF Asked, Halted, Fresh, Final
<1>6. StatusTrue' /\ Ordered' /\ Once'
  BY <1>1, <1>5 DEF DriverInv, StatusTrue, Ordered, Once, Final
<1>7. \A d \in Children : Row(d)'
  BY <1>1, <1>3 DEF DriverInv, Row
<1>8. ASSUME NEW l \in Coroutines PROVE Stands(l)'
  <2>1. Stands(l)
    BY DEF DriverInv
  <2>2. CASE l = Run
    BY <1>1, <1>2, <1>3, <2>2 DEF Stands, Fresh
  <2>3. CASE l # Run
    BY <1>1, <1>3, <2>1, <2>3, Stays
  <2>4. QED
    BY <2>2, <2>3
<1>9. QED
  BY <1>4, <1>5, <1>6, <1>7, <1>8 DEF DriverInv

(* The run's own coroutine gives the row back, refuses an empty run, or    *)
(* begins with the first step.                                             *)
LEMMA BeginDriven ==
  ASSUME TypeInv, DriverInv, DeferRun \/ BeginRun
  PROVE  DriverInv'
<1> USE Facts
<1>1. pc[Run] = "start" /\ UNCHANGED <<steps, states, child, stepOf, started, rerun>>
  BY DEF DeferRun, BeginRun, seen
<1>2. states = Fresh
  BY <1>1 DEF DriverInv, Stands
<1>3. Holds(Run) /\ \A l \in Coroutines \ {Run} : ~Holds(l)
  <2>1. Holds(Run)
    BY <1>1 DEF Holds
  <2>2. QED
    BY <1>1, <2>1, HoldsAlone DEF DriverInv
<1>4. PICK p \in {"idle", "loop"} : \E i, s : Go(Run, p, i, s)
  <2>1. CASE DeferRun
    BY <2>1 DEF DeferRun, Leave
  <2>2. CASE BeginRun
    BY <2>2 DEF BeginRun, Leave, Continue
  <2>3. QED
    BY <2>1, <2>2
<1>5. /\ Pairs' /\ (\A c \in Children : Row(c)')
      /\ \A l \in Coroutines \ {Run} : Stands(l)' /\ ~Holds(l)'
  <2>1. p \in Point
    BY DEF Point, Driving
  <2>2. QED
    BY <1>1, <1>3, <1>4, <2>1, SoleMoves
<1>6. ~Asked'
  BY <1>1, <1>2 DEF Asked, Fresh
<1>7. Ordered' /\ Once'
  BY <1>1 DEF DriverInv, Ordered, Once
<1>8. CASE Leave(Run) /\ status' \in {"pending", "failed"}
  <2>1. pc'[Run] = "idle" /\ ~Holds(Run)'
    BY <1>8 DEF Leave, Go, Holds
  <2>2. Halted' /\ Stands(Run)'
    BY <1>5, <2>1 DEF Halted, Stands
  <2>3. StatusTrue'
    BY <1>1, <1>2, <1>6, <1>8 DEF StatusTrue, Fresh
  <2>4. QED
    BY <1>5, <1>7, <2>2, <2>3 DEF DriverInv
<1>9. CASE status' = "running" /\ Continue(Run, states, 1)
  <2>1. Halted' /\ StatusTrue'
    BY <1>6, <1>9 DEF Halted, StatusTrue, Final
  <2>2. \A j \in DOMAIN steps : states[j] = "pending"
    BY <1>2 DEF Fresh
  <2>3. Go(Run, "loop", 1, states)
    BY <1>9, <2>2, GoesOn
  <2>4. pc'[Run] = "loop" /\ at'[Run] = 1 /\ mine'[Run] = states
    BY <2>3 DEF Go
  <2>5. Past(1)' /\ Behind(0)'
    BY <1>1, <2>2 DEF Past, Behind
  <2>6. 1 - 1 = 0
    OBVIOUS
  <2>7. Stands(Run)'
    BY <1>1, <2>4, <2>5, <2>6 DEF Stands
  <2>8. QED
    BY <1>5, <1>7, <2>1, <2>7 DEF DriverInv
<1>10. QED
  BY <1>8, <1>9 DEF DeferRun, BeginRun

(* A child moves between its row and its coroutine: it holds the run as    *)
(* before, and its spawner is still linked to it.                          *)
LEMMA ChildMoves ==
  ASSUME TypeInv, DriverInv, NEW c \in Children, pc[c] \in {"idle", "working"}, Holds(c),
         NEW p \in {"working", "idle", "complete", "failed"}, NEW i, NEW r \in RowStatus,
         Go(c, p, i, Fresh), child' = [child EXCEPT ![c] = r],
         p = "idle" => r = "pending", p = "working" => r = "running",
         p \in {"complete", "failed"} => r \in Final, p # "idle" => i = stepOf[c],
         UNCHANGED <<steps, status, states, stepOf, started, rerun>>
  PROVE  DriverInv'
<1> USE Facts
<1>1. UNCHANGED <<steps, status, states, stepOf, started, rerun>>
  OBVIOUS
<1>2. Row(c)
  BY DEF DriverInv
<1>3. Holds(c) /\ pc[c] \in {"idle", "working"} /\ states[stepOf[c]] = "running"
  BY <1>2 DEF Row, Holds
<1>4. /\ p = "idle" => r = "pending"
      /\ p = "working" => r = "running"
      /\ p \in {"complete", "failed"} => r \in Final
      /\ p # "idle" => i = stepOf[c]
  OBVIOUS
<1>5. /\ pc'[c] = p /\ at'[c] = i /\ child'[c] = r
      /\ \A l \in Coroutines \ {c} : pc'[l] = pc[l] /\ at'[l] = at[l] /\ mine'[l] = mine[l]
      /\ \A d \in Children \ {c} : child'[d] = child[d]
  BY DEF Go
<1>6. Holds(c)' /\ \A l \in Coroutines \ {c} : Holds(l)' <=> Holds(l)
  BY <1>4, <1>5 DEF Holds
<1>7. ASSUME NEW k \in Coroutines, NEW l \in Coroutines, Linked(k, l) PROVE Linked(k, l)'
  <2>1. k # c
    BY <1>3, <1>7 DEF Linked
  <2>2. pc'[k] = "link" /\ stepOf'[l] = at'[k]
    BY <1>1, <1>5, <1>7, <2>1 DEF Linked
  <2>3. CASE l = c
    BY <1>4, <1>5, <2>2, <2>3 DEF Linked
  <2>4. CASE l # c
    BY <1>5, <1>7, <2>2, <2>4 DEF Linked
  <2>5. QED
    BY <2>3, <2>4
<1>8. Pairs'
  BY <1>3, <1>6, <1>7 DEF DriverInv, Pairs
<1>9. StatusTrue' /\ Ordered' /\ Once' /\ (Asked' <=> Asked)
  BY <1>1, Calm DEF DriverInv
<1>10. Halted'
  BY <1>1, <1>3, <1>9, HolderRuns DEF DriverInv, Halted, Final
<1>11. ASSUME NEW d \in Children PROVE Row(d)'
  <2>1. CASE d = c
    BY <1>1, <1>3, <1>4, <1>5, <2>1 DEF Row, Driving, Final
  <2>2. CASE d # c
    BY <1>1, <1>5, <2>2 DEF DriverInv, Row
  <2>3. QED
    BY <2>1, <2>2
<1>12. ASSUME NEW l \in Coroutines PROVE Stands(l)'
  <2>1. CASE l = c
    BY <1>1, <1>3, <1>4, <1>5, <2>1 DEF Stands
  <2>2. CASE l # c
    <3>1. Stands(l)
      BY DEF DriverInv
    <3>2. QED
      BY <1>1, <1>5, <2>2, <3>1, Stays
  <2>3. QED
    BY <2>1, <2>2
<1>13. QED
  BY <1>8, <1>9, <1>10, <1>11, <1>12 DEF DriverInv

(* A child is fetched, deferred, or ends.                                  *)
LEMMA ChildDriven ==
  ASSUME TypeInv, DriverInv, NEW c \in Children,
         \/ FetchChild(c) \/ DeferChild(c)
         \/ \E outcome \in Final : EndChild(c, outcome)
  PROVE  DriverInv'
<1> USE Facts
<1>1. UNCHANGED <<steps, status, states, stepOf, started, rerun>>
  BY DEF FetchChild, DeferChild, EndChild, seen
<1>2. Row(c)
  BY DEF DriverInv
<1>3. Holds(c) /\ pc[c] \in {"idle", "working"}
  BY <1>2 DEF FetchChild, DeferChild, EndChild, Row, Holds
<1>4. ASSUME FetchChild(c) PROVE DriverInv'
  <2>1. Go(c, "working", stepOf[c], Fresh) /\ child' = [child EXCEPT ![c] = "running"]
    BY <1>4 DEF FetchChild
  <2>2. "running" \in RowStatus
    BY DEF RowStatus
  <2>3. QED
    BY <1>1, <1>3, <2>1, <2>2, ChildMoves
<1>5. ASSUME DeferChild(c) PROVE DriverInv'
  <2>1. Go(c, "idle", 0, Fresh) /\ child' = [child EXCEPT ![c] = "pending"]
    BY <1>5 DEF DeferChild, Leave
  <2>2. "pending" \in RowStatus
    BY DEF RowStatus
  <2>3. QED
    BY <1>1, <1>3, <2>1, <2>2, ChildMoves
<1>6. ASSUME NEW outcome \in Final, EndChild(c, outcome) PROVE DriverInv'
  <2>1. Go(c, outcome, at[c], Fresh) /\ child' = [child EXCEPT ![c] = outcome]
    BY <1>6 DEF EndChild
  <2>2. outcome \in RowStatus /\ at[c] = stepOf[c]
    BY <1>2, <1>6 DEF EndChild, Row, RowStatus
  <2>3. /\ outcome \in {"working", "idle", "complete", "failed"}
        /\ outcome # "idle" /\ outcome # "working"
    BY DEF Final
  <2>4. QED
    BY <1>1, <1>3, <2>1, <2>2, <2>3, ChildMoves
<1>7. QED
  BY <1>4, <1>5, <1>6

(* A report, made when the spawner has stored the id, is the run's only    *)
(* holder.                                                                 *)
LEMMA ReportAlone ==
  ASSUME TypeInv, DriverInv, NEW k \in Coroutines, pc[k] \in {"complete", "failed"},
         \A l \in Coroutines : ~(pc[l] = "link" /\ at[l] = at[k])
  PROVE  /\ Holds(k) /\ \A l \in Coroutines \ {k} : ~Holds(l)
         /\ k \in Children => child[k] \in Final
<1>1. Holds(k)
  BY DEF Holds
<1>2. \A l \in Coroutines : ~Linked(k, l)
  BY DEF Linked
<1>3. \A l \in Coroutines : ~Linked(l, k)
  BY DEF Linked, DriverInv, Row
<1>4. QED
  BY <1>1, <1>2, <1>3 DEF DriverInv, Pairs, Row

LEMMA ReportDriven ==
  ASSUME TypeInv, DriverInv, forks' = {}, NEW k \in Coroutines, Report(k)
  PROVE  DriverInv'
<1> USE Facts
<1>1. ASSUME ReadRun(k) PROVE DriverInv'
  <2>1. PICK v \in {"done", "failed"} : Go(k, "record", at[k], [states EXCEPT ![at[k]] = v])
    BY <1>1 DEF ReadRun
  <2>2. /\ pc[k] \in {"complete", "failed"}
        /\ UNCHANGED <<steps, status, states, child, stepOf, started, rerun>>
    BY <1>1 DEF ReadRun, seen
  <2>3. \A l \in Coroutines : ~(pc[l] = "link" /\ at[l] = at[k])
    BY <1>1 DEF ReadRun
  <2>4. /\ Holds(k) /\ \A l \in Coroutines \ {k} : ~Holds(l)
        /\ k \in Children => child[k] \in Final
    BY <2>2, <2>3, ReportAlone
  <2>5. states[at[k]] = "running"
    BY <2>2 DEF DriverInv, Stands
  <2>6. pc'[k] = "record" /\ at'[k] = at[k] /\ mine'[k] = [states EXCEPT ![at[k]] = v]
    BY <2>1 DEF Go
  <2>7. Stands(k)'
    BY <2>2, <2>5, <2>6 DEF Stands
  <2>8. "record" \in Driving \cup {"idle"}
    BY DEF Driving
  <2>9. QED
    BY <2>1, <2>2, <2>4, <2>7, <2>8, Moved
<1>2. ASSUME NEW failIf \in BOOLEAN, RecordStep(k, failIf) PROVE DriverInv'
  <2>1. pc[k] = "record" /\ UNCHANGED <<steps, status, child, stepOf, started, rerun>>
    BY <1>2 DEF RecordStep, seen
  <2>2. PICK v \in {"done", "failed"} : mine[k] = [states EXCEPT ![at[k]] = v]
    BY <2>1 DEF DriverInv, Stands
  <2>3. With(k, "failed") = [states EXCEPT ![at[k]] = "failed"]
    BY <2>2 DEF With
  <2>4. PICK w \in Ended : EndStep(k, [states EXCEPT ![at[k]] = w])
    BY <1>2, <2>2, <2>3 DEF RecordStep, Ended
  <2>5. QED
    BY <2>1, <2>4, StepEnds
<1>3. QED
  BY <1>1, <1>2 DEF Report

(* Recovery that forks nothing finds a run nobody works for, or a child    *)
(* whose coroutine is gone: the worker reports in its place.               *)
LEMMA RecoverRunDriven ==
  ASSUME TypeInv, DriverInv, forks' = {}, RecoverRun
  PROVE  DriverInv'
<1> USE Facts
<1>1. /\ status' = "failed"
      /\ UNCHANGED <<steps, states, child, stepOf, pc, at, mine, started, rerun>>
  BY DEF RecoverRun, locals, seen
<1>2. ~Unfinished
  BY DEF RecoverRun
<1>3. ~Asked /\ \A k \in Coroutines : ~Holds(k)
  BY <1>2 DEF Unfinished, Asked, Holds
<1>4. ~Asked' /\ \A k \in Coroutines : ~Holds(k)'
  BY <1>1, <1>3 DEF Asked, Holds
<1>5. Halted' /\ StatusTrue' /\ Pairs'
  BY <1>1, <1>4 DEF Halted, StatusTrue, Pairs
<1>6. Ordered' /\ Once'
  BY <1>1 DEF DriverInv, Ordered, Once
<1>7. \A c \in Children : Row(c)'
  BY <1>1 DEF DriverInv, Row
<1>8. \A k \in Coroutines : Stands(k)'
  BY <1>1 DEF DriverInv, Stands, Past, Behind, Fresh
<1>9. QED
  BY <1>5, <1>6, <1>7, <1>8 DEF DriverInv

LEMMA RecoverChildDriven ==
  ASSUME TypeInv, DriverInv, forks' = {}, NEW c \in Children, RecoverChild(c)
  PROVE  DriverInv'
<1> USE Facts
<1>1. /\ child[c] = "running" /\ child' = [child EXCEPT ![c] = "failed"]
      /\ Go(Worker, "failed", stepOf[c], Fresh) /\ pc[c] = "idle"
      /\ UNCHANGED <<steps, status, states, stepOf, started, rerun>>
  BY DEF RecoverChild, seen
<1>2. Holds(c) /\ states[stepOf[c]] = "running" /\ c # Worker
  BY <1>1 DEF Holds, DriverInv, Row
<1>3. \A l \in Coroutines \ {c} : ~Holds(l)
  BY <1>1, <1>2 DEF DriverInv, Pairs, Linked
<1>4. /\ pc'[Worker] = "failed" /\ at'[Worker] = stepOf[c]
      /\ \A l \in Coroutines \ {Worker} : pc'[l] = pc[l] /\ at'[l] = at[l] /\ mine'[l] = mine[l]
      /\ child'[c] = "failed" /\ \A d \in Children \ {c} : child'[d] = child[d]
  BY <1>1 DEF Go
<1>5. \A l \in Coroutines \ {Worker} : ~Holds(l)'
  BY <1>1, <1>2, <1>3, <1>4 DEF Holds
<1>6. Pairs'
  BY <1>5 DEF Pairs
<1>7. StatusTrue' /\ Ordered' /\ Once' /\ (Asked' <=> Asked)
  BY <1>1, Calm DEF DriverInv
<1>8. Halted'
  BY <1>1, <1>2, <1>7, HolderRuns DEF DriverInv, Halted, Final
<1>9. ASSUME NEW d \in Children PROVE Row(d)'
  <2>1. Row(d) /\ d # Worker
    BY DEF DriverInv
  <2>2. CASE d = c
    BY <1>1, <1>4, <2>1, <2>2 DEF Row, Driving, Final
  <2>3. CASE d # c
    BY <1>1, <1>4, <2>1, <2>3 DEF Row
  <2>4. QED
    BY <2>2, <2>3
<1>10. ASSUME NEW l \in Coroutines PROVE Stands(l)'
  <2>1. CASE l = Worker
    BY <1>1, <1>2, <1>4, <2>1 DEF Stands
  <2>2. CASE l # Worker
    <3>1. Stands(l)
      BY DEF DriverInv
    <3>2. QED
      BY <1>1, <1>4, <2>2, <3>1, Stays
  <2>3. QED
    BY <2>1, <2>2
<1>11. QED
  BY <1>6, <1>7, <1>8, <1>9, <1>10 DEF DriverInv

(* An answer is read and stored, and its request goes on with the run.     *)
LEMMA AskedAlone ==
  ASSUME TypeInv, DriverInv, NEW i \in DOMAIN steps, states[i] = "awaiting_user_input"
  PROVE  /\ status = "running" /\ \A k \in Coroutines : ~Holds(k)
         /\ Past(i) /\ Behind(i)
<1>1. Asked
  BY DEF Asked
<1>2. \A k \in Coroutines : ~Holds(k)
  BY <1>1 DEF DriverInv, Halted
<1>3. Past(i) /\ Behind(i)
  BY InOrder DEF DriverInv, Ended
<1>4. status # "pending"
  BY DEF DriverInv, StatusTrue, Fresh
<1>5. status \in RowStatus \ {"none"} /\ status \notin Final
  BY <1>1 DEF DriverInv, StatusTrue, TypeInv, TypeOK
<1>6. QED
  BY <1>2, <1>3, <1>4, <1>5 DEF RowStatus

LEMMA ReadDriven ==
  ASSUME TypeInv, DriverInv, NEW u \in Users, NEW i \in DOMAIN steps, ReadAnswer(u, i)
  PROVE  DriverInv'
<1> USE Facts
<1>1. /\ pc[u] = "idle" /\ states[i] = "awaiting_user_input" /\ Go(u, "answer", i, states)
      /\ UNCHANGED <<steps, status, states, child, stepOf, started, rerun>>
  BY DEF ReadAnswer, seen
<1>2. u \in Coroutines \ Children
  BY PipelineAssumption DEF Coroutines
<1>3. /\ pc'[u] = "answer" /\ at'[u] = i /\ mine'[u] = states
      /\ \A l \in Coroutines \ {u} : pc'[l] = pc[l] /\ at'[l] = at[l] /\ mine'[l] = mine[l]
  BY <1>1, <1>2 DEF Go
<1>4. \A l \in Coroutines : ~Holds(l)'
  BY <1>1, <1>2, <1>3, AskedAlone DEF Holds
<1>5. Pairs' /\ Halted'
  BY <1>4 DEF Pairs, Halted
<1>6. StatusTrue' /\ Ordered' /\ Once'
  BY <1>1, Calm DEF DriverInv
<1>7. \A d \in Children : Row(d)'
  BY <1>1, <1>2, <1>3 DEF DriverInv, Row
<1>8. ASSUME NEW l \in Coroutines PROVE Stands(l)'
  <2>1. CASE l = u
    BY <1>1, <1>3, <2>1 DEF Stands
  <2>2. CASE l # u
    <3>1. Stands(l)
      BY DEF DriverInv
    <3>2. QED
      BY <1>1, <1>3, <2>2, <3>1, Stays
  <2>3. QED
    BY <2>1, <2>2
<1>9. QED
  BY <1>5, <1>6, <1>7, <1>8 DEF DriverInv

(* The answer to the open prompt is stored: its request holds the run.     *)
LEMMA StoreDriven ==
  ASSUME TypeInv, DriverInv, forks' = {}, NEW u \in Users, StoreAnswer(u)
  PROVE  DriverInv'
<1> USE Facts
<1>1. /\ pc[u] = "answer" /\ states' = With(u, "done") /\ Go(u, "resume", at[u], Fresh)
      /\ states[at[u]] = "awaiting_user_input"
      /\ UNCHANGED <<steps, status, child, stepOf, started, rerun>>
  BY DEF StoreAnswer
<1>2. u \in Coroutines \ Children
  BY PipelineAssumption DEF Coroutines
<1>3. at[u] \in DOMAIN steps
  BY <1>1, <1>2 DEF Inside, Point
<1>4. mine[u] = states
  BY <1>1, <1>2 DEF DriverInv, Stands, Ended
<1>5. /\ states'[at[u]] = "done"
      /\ \A j \in DOMAIN steps \ {at[u]} : states'[j] = states[j]
  BY <1>1, <1>3, <1>4 DEF With, Copies
<1>6. /\ status = "running" /\ \A k \in Coroutines : ~Holds(k)
      /\ Past(at[u]) /\ Behind(at[u])
  BY <1>1, <1>3, AskedAlone
<1>7. /\ pc'[u] = "resume" /\ at'[u] = at[u]
      /\ \A l \in Coroutines \ {u} : pc'[l] = pc[l] /\ at'[l] = at[l] /\ mine'[l] = mine[l]
  BY <1>1, <1>2 DEF Go
<1>8. \A l \in Coroutines \ {u} : ~Holds(l)'
  BY <1>1, <1>6, <1>7 DEF Holds
<1>9. Pairs'
  BY <1>8 DEF Pairs
<1>h. \A j \in DOMAIN steps : IF j <= at[u] THEN states'[j] \in Ended ELSE states'[j] = "pending"
  <2>1. ASSUME NEW j \in DOMAIN steps
        PROVE  IF j <= at[u] THEN states'[j] \in Ended ELSE states'[j] = "pending"
    <3>1. CASE j < at[u]
      BY <1>5, <1>6, <3>1 DEF Past
    <3>2. CASE j = at[u]
      BY <1>5, <3>2 DEF Ended
    <3>3. CASE j > at[u]
      BY <1>5, <1>6, <3>3 DEF Behind
    <3>4. QED
      BY <1>3, <3>1, <3>2, <3>3
  <2>2. QED
    BY <2>1
<1>10. Past(at[u])' /\ Behind(at[u])'
  BY <1>1, <1>3, <1>7, <1>h DEF Past, Behind
<1>11. ~Asked'
  BY <1>1, <1>h DEF Asked, Ended
<1>12. Halted' /\ StatusTrue'
  BY <1>1, <1>6, <1>11 DEF Halted, StatusTrue, Final
<1>13. Ordered'
  BY <1>1, <1>3, <1>h DEF Ordered
<1>14. Once'
  BY <1>1, <1>5 DEF DriverInv, Once
<1>15. \A d \in Children : Row(d)'
  <2>1. ASSUME NEW d \in Children PROVE Row(d)'
    <3>1. Row(d) /\ ~Holds(d) /\ d # u
      BY <1>2, <1>6 DEF DriverInv
    <3>2. QED
      BY <1>1, <1>7, <3>1 DEF Row, Holds, Driving
  <2>2. QED
    BY <2>1
<1>16. ASSUME NEW l \in Coroutines PROVE Stands(l)'
  <2>1. CASE l = u
    BY <1>5, <1>7, <1>10, <2>1 DEF Stands
  <2>2. CASE l # u
    <3>1. Stands(l) /\ pc[l] \in {"idle", "answer"}
      BY <1>6 DEF DriverInv, Holds
    <3>2. pc[l] = "answer" => at[l] \in DOMAIN steps
      BY DEF Inside, Point
    <3>3. pc[l] = "answer" => states'[at[l]] \in Ended
      BY <1>5, <1>6, <3>1, <3>2 DEF Stands, Past, Behind, Ended
    <3>4. QED
      BY <1>7, <2>2, <3>1, <3>3 DEF Stands
  <2>3. QED
    BY <2>1, <2>2
<1>17. QED
  BY <1>9, <1>12, <1>13, <1>14, <1>15, <1>16 DEF DriverInv

LEMMA ResumeDriven ==
  ASSUME TypeInv, DriverInv, NEW u \in Users, Resume(u)
  PROVE  DriverInv'
<1> USE Facts
<1>1. /\ pc[u] = "resume" /\ Continue(u, states, at[u] + 1)
      /\ UNCHANGED <<steps, status, states, child, stepOf, started, rerun>>
  BY DEF Resume, seen
<1>2. /\ u \in Coroutines /\ Holds(u) /\ \A l \in Coroutines \ {u} : ~Holds(l)
      /\ u \in Children => child[u] \in Final
  BY <1>1, DriverAlone
<1>3. /\ at[u] \in DOMAIN steps /\ states[at[u]] = "done" /\ Past(at[u]) /\ Behind(at[u])
  BY <1>1, <1>2 DEF DriverInv, Stands, Inside, Point, Driving
<1>4. PICK n \in 1..(Last + 1) : n = at[u] + 1 /\ n - 1 = at[u]
  BY <1>3
<1>5. \A j \in DOMAIN steps : j >= n => states[j] = "pending"
  BY <1>3, <1>4 DEF Behind
<1>6. Go(u, "loop", n, states)
  BY <1>1, <1>2, <1>4, <1>5, GoesOn
<1>7. pc'[u] = "loop" /\ at'[u] = n /\ mine'[u] = states
  BY <1>2, <1>6 DEF Go
<1>8. Past(n)' /\ Behind(n - 1)'
  BY <1>1, <1>3, <1>4 DEF Past, Behind, Ended
<1>9. Stands(u)'
  BY <1>1, <1>7, <1>8 DEF Stands
<1>10. QED
  BY <1>1, <1>2, <1>6, <1>9, Moved DEF Driving

(* Cancelling what is queued: nobody held a pending run, and a queued      *)
(* child gives its hold up.                                                *)
LEMMA CancelDriven ==
  ASSUME TypeInv, DriverInv, CancelQueued
  PROVE  DriverInv'
<1> USE Facts
<1>1. /\ status' = IF status = "pending" THEN "failed" ELSE status
      /\ \A c \in Children : child'[c] = IF child[c] = "pending" THEN "failed" ELSE child[c]
      /\ UNCHANGED <<steps, states, stepOf, pc, at, mine, started, rerun>>
  BY DEF CancelQueued, QueuedChildren, locals, seen
<1>2. \A k \in Coroutines : Holds(k)' => Holds(k)
  BY <1>1 DEF Holds
<1>3. \A k, l \in Coroutines : Linked(k, l) => Linked(k, l)'
  BY <1>1 DEF Linked
<1>4. Pairs'
  BY <1>2, <1>3 DEF DriverInv, Pairs
<1>5. Ordered' /\ Once'
  BY <1>1 DEF DriverInv, Ordered, Once
<1>6. Asked' <=> Asked
  BY <1>1 DEF Asked
<1>7. StatusTrue' /\ Halted'
  <2>1. CASE status = "pending"
    <3>1. ~Asked /\ \A k \in Coroutines : ~Holds(k)
      BY <2>1 DEF DriverInv, StatusTrue, Halted, Asked, Fresh
    <3>2. QED
      BY <1>1, <1>2, <1>6, <2>1, <3>1 DEF StatusTrue, Halted
  <2>2. CASE status # "pending"
    BY <1>1, <1>2, <1>6, <2>2 DEF DriverInv, StatusTrue, Halted
  <2>3. QED
    BY <2>1, <2>2
<1>8. ASSUME NEW c \in Children PROVE Row(c)'
  <2>1. Row(c)
    BY DEF DriverInv
  <2>2. QED
    BY <1>1, <2>1 DEF Row, Driving, Final
<1>9. ASSUME NEW k \in Coroutines PROVE Stands(k)'
  <2>1. Stands(k)
    BY DEF DriverInv
  <2>2. QED
    BY <1>1, <2>1, Stays
<1>10. QED
  BY <1>4, <1>5, <1>7, <1>8, <1>9 DEF DriverInv

(* After a restart only a child's row can hold the run.                    *)
LEMMA RestartDriven ==
  ASSUME TypeInv, DriverInv, Restart
  PROVE  DriverInv'
<1> USE Facts
<1>1. /\ \A k \in Coroutines : pc'[k] = "idle"
      /\ UNCHANGED <<steps, status, states, child, stepOf, started, rerun>>
  BY DEF Restart, seen
<1>2. \A k \in Coroutines : Holds(k)' => Holds(k) /\ k \in Children /\ child[k] \notin Final
  BY <1>1 DEF Holds, Final
<1>3. ASSUME NEW k \in Coroutines, NEW l \in Coroutines, Holds(k)', Holds(l)' PROVE k = l
  <2>1. pc[k] # "link" /\ pc[l] # "link"
    BY <1>2, <1>3 DEF DriverInv, Row, Driving
  <2>2. QED
    BY <1>2, <1>3, <2>1 DEF DriverInv, Pairs, Linked
<1>4. Pairs'
  BY <1>3 DEF Pairs
<1>5. StatusTrue' /\ Ordered' /\ Once' /\ (Asked' <=> Asked)
  BY <1>1, Calm DEF DriverInv
<1>6. Halted'
  BY <1>1, <1>2, <1>5 DEF DriverInv, Halted
<1>7. ASSUME NEW c \in Children PROVE Row(c)'
  <2>1. Row(c) /\ pc'[c] = "idle"
    BY <1>1 DEF DriverInv
  <2>2. QED
    BY <1>1, <2>1 DEF Row, Driving
<1>8. \A k \in Coroutines : Stands(k)'
  BY <1>1 DEF Stands
<1>9. QED
  BY <1>4, <1>5, <1>6, <1>7, <1>8 DEF DriverInv

(* While no fork has happened DriverInv holds.                             *)
DriveInv == TypeInv /\ (forks = {} => DriverInv)

LEMMA InitDrive == Init => DriveInv
<1> SUFFICES ASSUME Init PROVE DriveInv
  OBVIOUS
<1>1. TypeInv
  BY InitType
<1> USE Facts
<1>2. /\ states = Fresh /\ status = "pending" /\ rerun = {} /\ started = {}
      /\ \A k \in Coroutines : pc[k] = "idle"
      /\ \A c \in Children : child[c] = "none"
  BY <1>1 DEF Init
<1>3. \A k \in Coroutines : ~Holds(k)
  BY <1>2 DEF Holds
<1>4. \A i \in DOMAIN steps : states[i] = "pending"
  BY <1>2 DEF Fresh
<1>5. Pairs /\ Halted
  BY <1>3 DEF Pairs, Halted
<1>6. StatusTrue /\ Ordered /\ Once
  BY <1>2, <1>4 DEF StatusTrue, Ordered, Once, Final
<1>7. \A c \in Children : Row(c)
  BY <1>1, <1>2 DEF Row, Driving
<1>8. \A k \in Coroutines : Stands(k)
  BY <1>2 DEF Stands
<1>9. QED
  BY <1>1, <1>5, <1>6, <1>7, <1>8 DEF DriveInv, DriverInv

LEMMA ForksStay == ASSUME [Next]_vars PROVE forks \subseteq forks'
BY DEF Next, vars, FetchRun, DeferRun, BeginRun, FetchChild, DeferChild, EndChild, Advance, SkipStep,
       StartStep, UnknownStep, RunInline, AskUser, SkipPrompt, SpawnChild, LinkChild, Finalize,
       ForeachItem, Report, ReadRun, RecordStep, Raise, Recover, RecoverRun, RecoverChild,
       CancelQueued, Resolve, ReadAnswer, StoreAnswer, Resume, Restart

LEMMA NextDrive == DriveInv /\ [Next]_vars => DriveInv'
<1> SUFFICES ASSUME DriveInv, [Next]_vars, forks' = {} PROVE DriverInv'
  BY NextType DEF DriveInv
<1>1. TypeInv /\ DriverInv
  BY ForksStay DEF DriveInv
<1>2. ASSUME NEW k \in Coroutines, Advance(k) \/ ForeachItem(k) \/ Report(k) \/ Raise(k) PROVE DriverInv'
  BY <1>1, <1>2, AdvanceDriven, ItemDriven, ReportDriven, RaiseDriven
<1>3. ASSUME NEW u \in Users, Resolve(u) PROVE DriverInv'
  BY <1>1, <1>3, ReadDriven, StoreDriven, ResumeDriven DEF Resolve
<1>4. ASSUME Recover PROVE DriverInv'
  BY <1>1, <1>4, RecoverRunDriven, RecoverChildDriven DEF Recover
<1>5. ASSUME UNCHANGED vars PROVE DriverInv'
  BY <1>1, <1>5 DEF vars, locals, seen, DriverInv, Pairs, Halted, Asked, StatusTrue, Ordered, Once, Row,
                    Stands, Holds, Linked, Past, Behind, Fresh
<1>6. QED
  BY <1>1, <1>2, <1>3, <1>4, <1>5, FetchDriven, BeginDriven, ChildDriven, CancelDriven, RestartDriven
     DEF Next

LEMMA DriveAlways == Spec => []DriveInv
BY InitDrive, NextDrive, PTL DEF Spec

(* Only five events let two coroutines drive one run: a child that ends    *)
(* before its id is stored, a run or a child recovered while it is alive,  *)
(* two answers read before either is stored, and an exception between the  *)
(* child's commit and its id's (_advance_pipeline, on_pipeline_step_       *)
(* completed, recover_stuck_tasks, admin_resolve_step).                    *)
THEOREM DriverIsOne == Spec => []OneDriver
<1>1. DriveInv => OneDriver
  BY DEF DriveInv, DriverInv, Pairs, OneDriver, Holds, Linked, Driving
<1>2. QED
  BY <1>1, DriveAlways, PTL

(* Without them the steps of a pipeline run in order and once, and a run   *)
(* marked complete has every step done or skipped (_finalize_pipeline).    *)
THEOREM OrderIsKept == Spec => []OrderKept
<1>1. DriveInv => OrderKept
  <2> SUFFICES ASSUME DriveInv, forks = {} PROVE OrderKept
    BY DEF OrderKept, StepsInOrder, CompleteMeansDone
  <2>1. Last \in Nat /\ DOMAIN steps = 1..Last
    BY Facts DEF DriveInv
  <2>2. Ordered /\ Once /\ StatusTrue
    BY DEF DriveInv, DriverInv
  <2>3. StepsInOrder
    BY <2>1, <2>2 DEF StepsInOrder, Ordered, Once
  <2>4. QED
    BY <2>2, <2>3 DEF OrderKept, CompleteMeansDone, StatusTrue
<1>2. QED
  BY <1>1, DriveAlways, PTL

(* Without them nothing writes a finished run: no late driver, report or   *)
(* answer is left (every writer of step_states checks nothing but its      *)
(* own place in the code).                                                 *)
THEOREM FinishedUntouched ==
  Spec => [][forks' = {} /\ status \in Final => UNCHANGED <<status, states>>]_vars
<1>1. DriveInv /\ [Next]_vars => [forks' = {} /\ status \in Final => UNCHANGED <<status, states>>]_vars
  <2> SUFFICES ASSUME DriveInv, Next, forks' = {}, status \in Final
               PROVE  UNCHANGED <<status, states>>
    BY DEF vars
  <2>1. TypeInv /\ DriverInv
    BY ForksStay DEF DriveInv
  <2>2. /\ \A k \in Coroutines : pc[k] \in {"idle", "answer"}
        /\ \A c \in Children : child[c] # "pending"
    BY <2>1, Facts DEF DriverInv, Halted, Holds
  <2>3. ~Asked /\ status \notin {"pending", "running"}
    BY <2>1 DEF DriverInv, StatusTrue, Final
  <2>4. ASSUME NEW k \in Coroutines
        PROVE  ~Advance(k) /\ ~ForeachItem(k) /\ ~Report(k) /\ ~Raise(k)
    BY <2>2 DEF Advance, SkipStep, StartStep, UnknownStep, RunInline, AskUser, SkipPrompt, SpawnChild,
                LinkChild, Finalize, AtStep, ForeachItem, Report, ReadRun, RecordStep, Raise, Driving
  <2>5. ASSUME NEW u \in Users, Resolve(u) PROVE FALSE
    <3>1. CASE \E i \in DOMAIN steps : ReadAnswer(u, i)
      BY <2>3, <3>1 DEF ReadAnswer, Asked
    <3>2. CASE StoreAnswer(u)
      <4>1. pc[u] = "answer" /\ states[at[u]] = "awaiting_user_input" /\ u \in Coroutines
        BY <3>2 DEF StoreAnswer, Coroutines
      <4>2. at[u] \in DOMAIN steps
        BY <2>1, <4>1, Facts DEF Inside, Point
      <4>3. QED
        BY <2>3, <4>1, <4>2 DEF Asked
    <3>3. CASE Resume(u)
      BY <2>2, <3>3 DEF Resume, Coroutines
    <3>4. QED
      BY <2>5, <3>1, <3>2, <3>3 DEF Resolve
  <2>6. Run \in Coroutines /\ Children \subseteq Coroutines
    BY DEF Coroutines
  <2>7. CASE FetchRun \/ DeferRun \/ BeginRun \/ CancelQueued
    BY <2>2, <2>3, <2>6, <2>7 DEF FetchRun, DeferRun, BeginRun, CancelQueued, QueuedChildren
  <2>8. CASE \E c \in Children : \/ FetchChild(c) \/ DeferChild(c)
                                 \/ \E outcome \in Final : EndChild(c, outcome)
    BY <2>8 DEF FetchChild, DeferChild, EndChild
  <2>9. CASE Recover \/ Restart
    BY <2>3, <2>9 DEF Recover, RecoverRun, RecoverChild, Restart
  <2>10. QED
    BY <2>4, <2>5, <2>7, <2>8, <2>9 DEF Next
<1>2. QED
  BY <1>1, DriveAlways, PTL DEF Spec

---------------------------------------------------------------------------
(* The run as a StepMachine: it implements it while nothing forks it.      *)

Stops(i)   == steps[i].abort \/ steps[i].kind = "unknown"
Aborted(i) == states[i] = "failed" /\ Stops(i)
Clean      == \A i \in DOMAIN steps : ~Aborted(i)

(* Only prompts wait for the user, and nothing has begun behind a step     *)
(* that aborted, nor will: its driver is about to end the run.             *)
PathInv ==
    /\ \A i \in DOMAIN steps :
          /\ states[i] = "awaiting_user_input" => steps[i].kind = "user_prompt"
          /\ Aborted(i) => Behind(i)
    /\ \A k \in Coroutines : /\ pc[k] = "loop" => steps # <<>> /\ Clean
                             /\ pc[k] = "abort" => ~Clean

(* A step of the machine, or none; and what remains true with it.          *)
Turns ==
    \E i \in DOMAIN steps : \/ Machine!Begin(i) \/ Machine!Omit(i) \/ Machine!Finish(i)
                            \/ Machine!Ask(i) \/ Machine!Answer(i)
Promised ==
    /\ UNCHANGED steps
    /\ \/ Turns \/ Machine!Fetch \/ Machine!Defer \/ Machine!Close \/ Machine!Break
       \/ UNCHANGED <<status, states>>
Keeps == PathInv' /\ Promised

(* Before a step that has begun, or that the loop is at, all have passed.  *)
LEMMA AllPassed ==
  ASSUME TypeInv, DriverInv, PathInv, NEW i \in DOMAIN steps, states[i] # "pending" \/ (Clean /\ Past(i))
  PROVE  \A j \in DOMAIN steps : j < i => Machine!Passed(j)
<1> USE Facts
<1>1. Past(i)
  BY InOrder DEF DriverInv
<1>2. ASSUME NEW j \in DOMAIN steps, j < i PROVE ~Aborted(j)
  <2>1. CASE states[i] # "pending"
    BY <1>2, <2>1 DEF PathInv, Behind
  <2>2. CASE Clean
    BY <1>2, <2>2 DEF Clean
  <2>3. QED
    BY <2>1, <2>2
<1>3. QED
  BY <1>1, <1>2 DEF Past, Machine!Passed, Machine!Aborts, Machine!Ended, Ended, Aborted, Stops

(* A step that turns, with none begun behind it.                           *)
LEMMA TurnPath ==
  ASSUME TypeInv, PathInv, NEW i \in DOMAIN steps, Behind(i),
         \A j \in DOMAIN steps : j < i => Machine!Passed(j),
         NEW v, states' = [states EXCEPT ![i] = v], UNCHANGED steps,
         v = "awaiting_user_input" => steps[i].kind = "user_prompt",
         \A k \in Coroutines : /\ pc'[k] = "loop" => ~(v = "failed" /\ Stops(i))
                               /\ pc'[k] = "abort" => v = "failed" /\ Stops(i)
  PROVE  PathInv'
<1> USE Facts
<1>1. /\ states'[i] = v
      /\ \A j \in DOMAIN steps : /\ j # i => states'[j] = states[j]
                                 /\ j < i => states[j] \in Ended /\ ~Aborted(j)
                                 /\ j > i => states[j] = "pending"
  BY DEF Copies, Behind, Machine!Passed, Machine!Aborts, Machine!Ended, Ended, Aborted, Stops
<1>a. \A j \in DOMAIN steps : Stops(j)' <=> Stops(j)
  BY DEF Stops
<1>2. /\ \A j \in DOMAIN steps : Aborted(j)' => j = i /\ v = "failed" /\ Stops(i)
      /\ v = "failed" /\ Stops(i) => Aborted(i)'
  <2>1. ASSUME NEW j \in DOMAIN steps, Aborted(j)' PROVE j = i /\ v = "failed" /\ Stops(i)
    <3>1. states'[j] = "failed" /\ Stops(j)
      BY <1>a, <2>1 DEF Aborted
    <3>2. j = i
      BY <1>1, <3>1 DEF Aborted
    <3>3. QED
      BY <1>1, <3>1, <3>2
  <2>2. v = "failed" /\ Stops(i) => Aborted(i)'
    BY <1>1, <1>a DEF Aborted
  <2>3. QED
    BY <2>1, <2>2
<1>3. Behind(i)'
  BY <1>1 DEF Behind
<1>4. \A j \in DOMAIN steps : states'[j] = "awaiting_user_input" => steps[j].kind = "user_prompt"
  BY <1>1 DEF PathInv
<1>5. steps # <<>>
  OBVIOUS
<1>6. QED
  BY <1>2, <1>3, <1>4, <1>5 DEF PathInv, Clean

(* Nobody comes to where the run goes on or ends, and the row stays.       *)
LEMMA StillPath ==
  ASSUME PathInv, UNCHANGED <<steps, states>>,
         \A k \in Coroutines : pc'[k] \in {"loop", "abort"} => pc[k] = pc'[k]
  PROVE  PathInv'
BY DEF PathInv, Clean, Aborted, Stops, Behind

(* A move elsewhere brings nobody there.                                   *)
LEMMA GoElsewhere ==
  ASSUME TypeInv, NEW k \in Coroutines, NEW p, NEW i, NEW s, Go(k, p, i, s), p \notin {"loop", "abort"}
  PROVE  \A l \in Coroutines : pc'[l] \in {"loop", "abort"} => pc[l] = pc'[l] /\ l # k
BY Facts DEF Go

(* k moves, to the top of the loop if it may and to the end if not.        *)
Goes(k, may) == \E p, j, s : Go(k, p, j, s) /\ (p = "loop" => may) /\ (p = "abort" => ~may)

(* Step i runs, or is the next.                                            *)
MayTurn(i) == states[i] = "running" \/ (states[i] = "pending" /\ Clean /\ Past(i) /\ Behind(i))

(* A sole holder turns the step it is at.                                  *)
LEMMA TurnMoves ==
  ASSUME TypeInv, DriverInv, PathInv, NEW k \in Coroutines, Holds(k),
         \A l \in Coroutines \ {k} : ~Holds(l),
         NEW i \in DOMAIN steps, MayTurn(i),
         NEW v, states' = [states EXCEPT ![i] = v], UNCHANGED <<steps, status>>,
         v = "awaiting_user_input" => steps[i].kind = "user_prompt",
         Goes(k, ~(v = "failed" /\ Stops(i))), NEW from, states[i] = from
  PROVE  PathInv' /\ Machine!Turn(i, from, v)
<1>0. PICK p, j, s : /\ Go(k, p, j, s)
                     /\ p = "loop" => ~(v = "failed" /\ Stops(i))
                     /\ p = "abort" => v = "failed" /\ Stops(i)
  BY DEF Goes
<1>1. Behind(i)
  BY InOrder DEF DriverInv, Ended, MayTurn
<1>2. \A l \in DOMAIN steps : l < i => Machine!Passed(l)
  <2>1. states[i] # "pending" \/ (Clean /\ Past(i))
    BY DEF MayTurn
  <2> QED
    BY <2>1, AllPassed
<1>3. ASSUME NEW l \in Coroutines
      PROVE  /\ pc'[l] = "loop" => ~(v = "failed" /\ Stops(i))
             /\ pc'[l] = "abort" => v = "failed" /\ Stops(i)
  <2>1. CASE l = k
    BY <1>0, <2>1, Facts DEF Go
  <2>2. CASE l # k
    BY <1>0, <2>2, Facts DEF Go, Holds
  <2>3. QED
    BY <2>1, <2>2
<1>4. PathInv'
  BY <1>1, <1>2, <1>3, TurnPath
<1>5. status = "running"
  BY HolderRuns DEF DriverInv
<1>6. QED
  BY <1>2, <1>4, <1>5 DEF Machine!Turn

LEMMA TurnKeeps ==
  ASSUME NEW i \in DOMAIN steps, UNCHANGED steps,
         \/ Machine!Begin(i) \/ Machine!Omit(i) \/ Machine!Finish(i) \/ Machine!Ask(i) \/ Machine!Answer(i)
  PROVE  Promised
BY DEF Promised, Turns

(* The coroutine at a step ends it with v, as its kind can end.            *)
LEMMA EndKeeps ==
  ASSUME TypeInv, DriverInv, PathInv, NEW k \in Coroutines, pc[k] \in {"step", "record"},
         steps[at[k]].kind # "unknown", NEW v \in Machine!Results(steps[at[k]].kind),
         EndStep(k, [states EXCEPT ![at[k]] = v]), UNCHANGED <<steps, status>>
  PROVE  Keeps
<1> USE Facts
<1>1. Holds(k) /\ \A l \in Coroutines \ {k} : ~Holds(l)
  BY DriverAlone DEF Driving
<1>2. at[k] \in DOMAIN steps /\ states[at[k]] = "running"
  BY DEF DriverInv, Stands, Inside, Point, Driving
<1>3. states' = [states EXCEPT ![at[k]] = v] /\ states'[at[k]] = v
  BY <1>2 DEF EndStep, Copies
<1>4. Goes(k, ~(v = "failed" /\ Stops(at[k])))
  BY <1>3 DEF EndStep, Continue, Goes, Stops
<1>5. v # "awaiting_user_input"
  BY DEF Machine!Results, Machine!Ended
<1>6. PathInv' /\ Machine!Turn(at[k], "running", v)
  BY <1>1, <1>2, <1>3, <1>4, <1>5, TurnMoves DEF MayTurn
<1>7. Machine!Finish(at[k])
  BY <1>6 DEF Machine!Finish
<1>8. QED
  BY <1>2, <1>6, <1>7, TurnKeeps DEF Keeps

(* The loop skips a step or begins it.                                     *)
LEMMA LoopKeeps ==
  ASSUME TypeInv, DriverInv, PathInv, NEW k \in Coroutines, SkipStep(k) \/ StartStep(k)
  PROVE  Keeps
<1> USE Facts
<1>1. pc[k] = "loop" /\ at[k] <= Last /\ UNCHANGED <<steps, status>>
  BY DEF SkipStep, StartStep
<1>2. Holds(k) /\ \A l \in Coroutines \ {k} : ~Holds(l)
  BY <1>1, DriverAlone DEF Driving
<1>3. /\ at[k] \in DOMAIN steps /\ states[at[k]] = "pending" /\ Past(at[k]) /\ Behind(at[k])
      /\ \A v : With(k, v) = [states EXCEPT ![at[k]] = v]
  BY <1>1, StandsAt
<1>4. Clean
  BY <1>1 DEF PathInv
<1>5. CASE SkipStep(k)
  <2>1. Goes(k, ~("skipped" = "failed" /\ Stops(at[k])))
    BY <1>5 DEF SkipStep, Continue, Goes
  <2>2. states' = [states EXCEPT ![at[k]] = "skipped"] /\ steps[at[k]].when
    BY <1>3, <1>5 DEF SkipStep
  <2>3. PathInv' /\ Machine!Turn(at[k], "pending", "skipped")
    BY <1>1, <1>2, <1>3, <1>4, <2>1, <2>2, TurnMoves DEF MayTurn
  <2>4. QED
    BY <1>1, <1>3, <2>2, <2>3, TurnKeeps DEF Keeps, Machine!Omit
<1>6. CASE StartStep(k)
  <2>1. Go(k, "step", at[k], states') /\ states' = [states EXCEPT ![at[k]] = "running"]
    BY <1>3, <1>6 DEF StartStep
  <2>x. Goes(k, ~("running" = "failed" /\ Stops(at[k])))
    BY <2>1 DEF Goes
  <2>2. PathInv' /\ Machine!Turn(at[k], "pending", "running")
    BY <1>1, <1>2, <1>3, <1>4, <2>1, <2>x, TurnMoves DEF MayTurn
  <2>3. QED
    BY <1>1, <1>3, <2>2, TurnKeeps DEF Keeps, Machine!Begin
<1>7. QED
  BY <1>5, <1>6

(* A step runs, is skipped, fails or asks.                                 *)
LEMMA StepKeeps ==
  ASSUME TypeInv, DriverInv, PathInv, NEW k \in Coroutines,
         \/ \E result \in Ended : RunInline(k, result)
         \/ UnknownStep(k) \/ AskUser(k) \/ SkipPrompt(k)
  PROVE  Keeps
<1> USE Facts
<1>1. pc[k] = "step" /\ UNCHANGED <<steps, status>>
  BY DEF RunInline, UnknownStep, AskUser, SkipPrompt, AtStep
<1>2. Holds(k) /\ \A l \in Coroutines \ {k} : ~Holds(l)
  BY <1>1, DriverAlone DEF Driving
<1>3. /\ at[k] \in DOMAIN steps /\ states[at[k]] = "running"
      /\ \A v : With(k, v) = [states EXCEPT ![at[k]] = v]
  BY <1>1, StandsAt
<1>4. ASSUME NEW result \in Ended, RunInline(k, result) PROVE Keeps
  <2>1. EndStep(k, [states EXCEPT ![at[k]] = result])
    BY <1>3, <1>4 DEF RunInline
  <2>2. result \in Machine!Results(steps[at[k]].kind) /\ steps[at[k]].kind # "unknown"
    BY <1>4 DEF RunInline, AtStep, Ended, Machine!Results, Machine!Ended
  <2>3. QED
    BY <1>1, <2>1, <2>2, EndKeeps
<1>5. ASSUME UnknownStep(k) PROVE Keeps
  <2>1. /\ states' = [states EXCEPT ![at[k]] = "failed"] /\ Go(k, "abort", at[k], states')
        /\ steps[at[k]].kind = "unknown"
    BY <1>3, <1>5 DEF UnknownStep, AtStep
  <2>x. Goes(k, ~("failed" = "failed" /\ Stops(at[k])))
    BY <2>1 DEF Goes, Stops
  <2>2. PathInv' /\ Machine!Turn(at[k], "running", "failed")
    BY <1>1, <1>2, <1>3, <2>1, <2>x, TurnMoves DEF MayTurn
  <2>3. Machine!Finish(at[k])
    BY <2>1, <2>2 DEF Machine!Finish, Machine!Results
  <2>4. QED
    BY <1>1, <1>3, <2>2, <2>3, TurnKeeps DEF Keeps
<1>6. ASSUME AskUser(k) PROVE Keeps
  <2>1. /\ states' = [states EXCEPT ![at[k]] = "awaiting_user_input"] /\ Go(k, "idle", 0, Fresh)
        /\ steps[at[k]].kind = "user_prompt"
    BY <1>3, <1>6 DEF AskUser, AtStep, Leave
  <2>x. Goes(k, ~("awaiting_user_input" = "failed" /\ Stops(at[k])))
    BY <2>1 DEF Goes
  <2>2. PathInv' /\ Machine!Turn(at[k], "running", "awaiting_user_input")
    BY <1>1, <1>2, <1>3, <2>1, <2>x, TurnMoves DEF MayTurn
  <2>3. QED
    BY <1>1, <1>3, <2>1, <2>2, TurnKeeps DEF Keeps, Machine!Ask
<1>7. ASSUME SkipPrompt(k) PROVE Keeps
  <2>1. /\ states' = [states EXCEPT ![at[k]] = "skipped"] /\ steps[at[k]].kind = "user_prompt"
        /\ Goes(k, ~("skipped" = "failed" /\ Stops(at[k])))
    BY <1>3, <1>7 DEF SkipPrompt, AtStep, Continue, Goes
  <2>2. PathInv' /\ Machine!Turn(at[k], "running", "skipped")
    BY <1>1, <1>2, <1>3, <2>1, TurnMoves DEF MayTurn
  <2>3. Machine!Finish(at[k])
    BY <2>1, <2>2 DEF Machine!Finish, Machine!Results
  <2>4. QED
    BY <1>1, <1>3, <2>2, <2>3, TurnKeeps DEF Keeps
<1>8. QED
  BY <1>4, <1>5, <1>6, <1>7

LEMMA StillKeeps ==
  ASSUME PathInv, UNCHANGED <<steps, status, states>>,
         \A k \in Coroutines : pc'[k] \in {"loop", "abort"} => pc[k] = pc'[k]
  PROVE  Keeps
BY StillPath DEF Keeps, Promised

LEMMA MoveKeeps ==
  ASSUME TypeInv, PathInv, UNCHANGED <<steps, status, states>>, NEW k \in Coroutines,
         NEW p, p \notin {"loop", "abort"}, \E i, s : Go(k, p, i, s)
  PROVE  Keeps
<1>1. PICK i, s : Go(k, p, i, s)
  OBVIOUS
<1>2. \A l \in Coroutines : pc'[l] \in {"loop", "abort"} => pc[l] = pc'[l]
  BY <1>1, GoElsewhere
<1>3. QED
  BY <1>2, StillKeeps

(* The run ends, as its steps say.                                         *)
LEMMA CloseKeeps ==
  ASSUME TypeInv, DriverInv, PathInv, NEW k \in Coroutines, Finalize(k)
  PROVE  Keeps
<1> USE Facts
<1>1. /\ pc[k] \in {"abort", "loop"} /\ mine[k] = states /\ states' = states /\ UNCHANGED steps
      /\ Go(k, "idle", 0, Fresh)
      /\ status' = IF \E i \in DOMAIN steps : states[i] = "failed" THEN "failed" ELSE "complete"
  BY DEF Finalize, DriverInv, Stands, Leave
<1>2. status = "running"
  BY <1>1, DriverAlone, HolderRuns DEF DriverInv, Driving
<1>3. \A l \in Coroutines : pc'[l] \in {"loop", "abort"} => pc[l] = pc'[l]
  BY <1>1, GoElsewhere
<1>4. PathInv'
  BY <1>1, <1>3, StillPath
<1>5. steps # <<>> /\ ((\A i \in DOMAIN steps : Machine!Passed(i)) \/ (\E i \in DOMAIN steps : Machine!Aborts(i)))
  <2>1. CASE pc[k] = "abort"
    <3>1. PICK i \in DOMAIN steps : Aborted(i)
      BY <2>1 DEF PathInv, Clean
    <3>2. steps # <<>>
      OBVIOUS
    <3>3. QED
      BY <3>1, <3>2 DEF Aborted, Stops, Machine!Aborts
  <2>2. CASE pc[k] = "loop" /\ at[k] > Last
    <3>1. steps # <<>> /\ Clean /\ Past(at[k])
      BY <2>2 DEF PathInv, DriverInv, Stands
    <3>2. \A i \in DOMAIN steps : Machine!Passed(i)
      BY <2>2, <3>1 DEF Past, Clean, Aborted, Stops, Machine!Passed, Machine!Aborts, Machine!Ended, Ended
    <3>3. QED
      BY <3>1, <3>2
  <2>3. QED
    BY <2>1, <2>2 DEF Finalize
<1>6. Machine!Close
  BY <1>1, <1>2, <1>5 DEF Machine!Close
<1>7. QED
  BY <1>1, <1>4, <1>6 DEF Keeps, Promised

(* The driver goes on with a step, or ends the run.                        *)
LEMMA AdvanceKeeps ==
  ASSUME TypeInv, DriverInv, PathInv, NEW k \in Coroutines, Advance(k) \/ ForeachItem(k)
  PROVE  Keeps
<1>1. ASSUME NEW c \in Children, SpawnChild(k, c) PROVE Keeps
  <2>1. UNCHANGED <<steps, status, states>> /\ \E i, s : Go(k, "link", i, s)
    BY <1>1 DEF SpawnChild
  <2>2. QED
    BY <2>1, MoveKeeps
<1>2. ASSUME LinkChild(k) PROVE Keeps
  <2>1. states' = states /\ UNCHANGED <<steps, status>> /\ \E i, s : Go(k, "idle", i, s)
    BY <1>2 DEF LinkChild, Leave, DriverInv, Stands
  <2>2. QED
    BY <2>1, MoveKeeps
<1>3. ASSUME ForeachItem(k) PROVE Keeps
  <2>1. states' = states /\ UNCHANGED <<steps, status, pc>>
    BY <1>3 DEF ForeachItem, AtStep, DriverInv, Stands, locals
  <2>2. QED
    BY <2>1, StillKeeps
<1>4. QED
  BY <1>1, <1>2, <1>3, LoopKeeps, StepKeeps, CloseKeeps DEF Advance

(* The worker takes the row, and the run's coroutine gives it back,        *)
(* refuses an empty run, or begins.                                        *)
LEMMA BeginKeeps ==
  ASSUME TypeInv, DriverInv, PathInv, FetchRun \/ DeferRun \/ BeginRun
  PROVE  Keeps
<1> USE Facts
<1>1. UNCHANGED <<steps, states>>
  BY DEF FetchRun, DeferRun, BeginRun
<1>2. CASE FetchRun
  <2>1. Go(Run, "start", 0, Fresh) /\ Machine!Fetch
    BY <1>2 DEF FetchRun, Machine!Fetch
  <2>2. \A l \in Coroutines : pc'[l] \in {"loop", "abort"} => pc[l] = pc'[l]
    BY <2>1, GoElsewhere
  <2>3. QED
    BY <1>1, <2>1, <2>2, StillPath DEF Keeps, Promised
<1>3. CASE DeferRun \/ BeginRun
  <2>1. pc[Run] = "start" /\ Holds(Run)
    BY <1>3 DEF DeferRun, BeginRun, Holds
  <2>2. status = "running" /\ \A i \in DOMAIN steps : states[i] = "pending"
    BY <2>1, HolderRuns DEF DriverInv, Stands, Fresh
  <2>3. CASE Leave(Run)
    <3>1. \A l \in Coroutines : pc'[l] \in {"loop", "abort"} => pc[l] = pc'[l]
      BY <2>3, GoElsewhere DEF Leave
    <3>2. PathInv'
      BY <1>1, <3>1, StillPath
    <3>3. CASE status' = "pending"
      <4>1. Machine!Defer
        BY <1>1, <2>2, <3>3 DEF Machine!Defer
      <4>2. QED
        BY <1>1, <3>2, <4>1 DEF Keeps, Promised
    <3>4. CASE status' = "failed"
      <4>1. Machine!Break
        BY <1>1, <2>2, <3>4 DEF Machine!Break
      <4>2. QED
        BY <1>1, <3>2, <4>1 DEF Keeps, Promised
    <3>5. status' \in {"pending", "failed"} \/ (status' = "running" /\ \E i, s : Go(Run, "loop", i, s))
      BY <1>3 DEF DeferRun, BeginRun, Continue
    <3>6. ~ \E i, s : Go(Run, "loop", i, s)
      BY <2>3 DEF Leave, Go
    <3>7. QED
      BY <3>3, <3>4, <3>5, <3>6
  <2>4. CASE Last # 0 /\ status' = "running" /\ Continue(Run, states, 1)
    <3>1. steps # <<>> /\ Clean
      BY <2>2, <2>4 DEF Clean, Aborted, Last
    <3>2. \A l \in Coroutines \ {Run} : pc'[l] = pc[l]
      BY <2>4 DEF Continue, Go
    <3>3. pc'[Run] = "loop"
      BY <2>4 DEF Continue, Go
    <3>4. PathInv'
      BY <1>1, <3>1, <3>2, <3>3 DEF PathInv, Clean, Aborted, Stops, Behind
    <3>5. QED
      BY <1>1, <2>2, <2>4, <3>4 DEF Keeps, Promised
  <2>5. QED
    BY <1>3, <2>3, <2>4 DEF DeferRun, BeginRun
<1>4. QED
  BY <1>2, <1>3

(* A child is fetched, deferred or ends: the row stays.                    *)
LEMMA ChildKeeps ==
  ASSUME TypeInv, PathInv, NEW c \in Children,
         FetchChild(c) \/ DeferChild(c) \/ \E outcome \in Final : EndChild(c, outcome)
  PROVE  Keeps
<1>1. UNCHANGED <<steps, status, states>> /\ c \in Coroutines
  BY DEF FetchChild, DeferChild, EndChild, Coroutines
<1>2. PICK p \in {"working", "idle", "complete", "failed"} : \E i, s : Go(c, p, i, s)
  BY DEF FetchChild, DeferChild, EndChild, Leave, Final
<1>3. p \notin {"loop", "abort"}
  OBVIOUS
<1>4. QED
  BY <1>1, <1>2, <1>3, MoveKeeps

(* Its report is read, and ends the step.                                  *)
LEMMA ReportKeeps ==
  ASSUME TypeInv, DriverInv, PathInv, NEW k \in Coroutines, Report(k)
  PROVE  Keeps
<1> USE Facts
<1>1. ASSUME ReadRun(k) PROVE Keeps
  <2>1. UNCHANGED <<steps, status, states>> /\ \E i, s : Go(k, "record", i, s)
    BY <1>1 DEF ReadRun
  <2>2. "record" \notin {"loop", "abort"}
    OBVIOUS
  <2>3. QED
    BY <2>1, <2>2, MoveKeeps, ZenonT(30)
<1>2. ASSUME NEW failIf \in BOOLEAN, RecordStep(k, failIf) PROVE Keeps
  <2>1. pc[k] = "record" /\ UNCHANGED <<steps, status>>
    BY <1>2 DEF RecordStep
  <2>2. PICK v \in {"done", "failed"} : mine[k] = [states EXCEPT ![at[k]] = v]
    BY <2>1 DEF DriverInv, Stands
  <2>3. With(k, "failed") = [states EXCEPT ![at[k]] = "failed"]
    BY <2>2 DEF With
  <2>4. PICK w \in {"done", "failed"} : EndStep(k, [states EXCEPT ![at[k]] = w])
    BY <1>2, <2>2, <2>3 DEF RecordStep
  <2>5. steps[at[k]].kind = "agent"
    BY <2>1 DEF TypeInv, Positions, Reporting
  <2>6. w \in Machine!Results(steps[at[k]].kind) /\ steps[at[k]].kind # "unknown"
    BY <2>5 DEF Machine!Results
  <2>7. QED
    BY <2>1, <2>4, <2>6, EndKeeps
<1>3. QED
  BY <1>1, <1>2 DEF Report

(* The run breaks: its row is failed, and a step that runs may be too.     *)
LEMMA BreakKeeps ==
  ASSUME TypeInv, DriverInv, PathInv, UNCHANGED steps, status \in {"pending", "running"}, ~Asked,
         status' = "failed",
         \/ UNCHANGED states
         \/ states' = [i \in DOMAIN steps |-> IF states[i] = "running" THEN "failed" ELSE states[i]],
         \A k \in Coroutines : pc'[k] \in {"loop", "abort"} =>
              pc[k] = pc'[k] /\ UNCHANGED states
  PROVE  Keeps
<1> USE Facts
<1>1. Machine!Break
  BY DEF Machine!Break, Asked
<1>2. CASE UNCHANGED states
  <2>1. PathInv'
    BY <1>2, StillPath
  <2>2. QED
    BY <1>1, <2>1 DEF Keeps, Promised
<1>3. CASE states' # states
  <2>1. \A i \in DOMAIN steps : states'[i] = IF states[i] = "running" THEN "failed" ELSE states[i]
    BY <1>3
  <2>2. \A k \in Coroutines : pc'[k] \notin {"loop", "abort"}
    BY <1>3
  <2>3. ASSUME NEW i \in DOMAIN steps PROVE Aborted(i)' => Behind(i)'
    <3>1. Aborted(i)' => Behind(i)
      <4>1. CASE states[i] = "running"
        BY <4>1, InOrder DEF DriverInv, Ended
      <4>2. CASE states[i] # "running"
        BY <2>1, <4>2 DEF PathInv, Aborted, Stops
      <4>3. QED
        BY <4>1, <4>2
    <3>2. Behind(i) => Behind(i)'
      BY <2>1 DEF Behind
    <3>3. QED
      BY <3>1, <3>2
  <2>4. \A i \in DOMAIN steps : states'[i] # "awaiting_user_input"
    BY <2>1 DEF Asked
  <2>5. PathInv'
    BY <2>2, <2>3, <2>4 DEF PathInv
  <2>6. QED
    BY <1>1, <2>5 DEF Keeps, Promised
<1>4. QED
  BY <1>2, <1>3

(* Recovery that forks nothing fails a run nobody works for, or sends the  *)
(* worker to report for a child.                                           *)
LEMMA RecoverKeeps ==
  ASSUME TypeInv, DriverInv, PathInv, forks' = {}, Recover
  PROVE  Keeps
<1>1. CASE RecoverRun
  <2>1. /\ status = "running" /\ status' = "failed" /\ UNCHANGED <<steps, states, pc>>
        /\ ~Unfinished
    BY <1>1 DEF RecoverRun, locals
  <2>2. ~Asked
    BY <2>1 DEF Unfinished, Asked
  <2>3. QED
    BY <2>1, <2>2, BreakKeeps
<1>2. ASSUME NEW c \in Children, RecoverChild(c) PROVE Keeps
  <2>1. /\ UNCHANGED <<steps, status, states>> /\ Worker \in Coroutines
        /\ \E i, s : Go(Worker, "failed", i, s)
    BY <1>2 DEF RecoverChild, Coroutines
  <2>2. QED
    BY <2>1, MoveKeeps
<1>3. QED
  BY <1>1, <1>2 DEF Recover

(* A cancel fails a run that is queued; other runs stay.                   *)
LEMMA CancelKeeps ==
  ASSUME TypeInv, DriverInv, PathInv, CancelQueued
  PROVE  Keeps
<1>1. UNCHANGED <<steps, states, pc>> /\ status' = IF status = "pending" THEN "failed" ELSE status
  BY DEF CancelQueued, locals
<1>2. CASE status = "pending"
  <2>1. ~Asked
    BY <1>2 DEF DriverInv, StatusTrue, Fresh, Asked
  <2>2. QED
    BY <1>1, <1>2, <2>1, BreakKeeps
<1>3. CASE status # "pending"
  BY <1>1, <1>3, StillKeeps
<1>4. QED
  BY <1>2, <1>3

(* An exception breaks the run if it is raised in its own coroutine.       *)
LEMMA RaiseKeeps ==
  ASSUME TypeInv, DriverInv, PathInv, forks' = {}, NEW k \in Coroutines, Raise(k)
  PROVE  Keeps
<1> USE Facts
<1>1. pc[k] \in Driving /\ Go(k, "idle", 0, Fresh) /\ UNCHANGED steps
  BY DEF Raise, Leave
<1>2. CASE k = Run
  <2>1. /\ status' = "failed" /\ pc[k] # "link"
        /\ states' = [i \in DOMAIN steps |-> IF states[i] = "running" THEN "failed" ELSE states[i]]
    BY <1>2 DEF Raise
  <2>2. Holds(k) /\ \A l \in Coroutines \ {k} : ~Holds(l)
    BY <1>1, <2>1, DriverAlone
  <2>3. status = "running" /\ ~Asked
    BY <2>2, HolderRuns DEF DriverInv
  <2>4. \A l \in Coroutines : pc'[l] \notin {"loop", "abort"}
    BY <1>1, <2>2 DEF Go, Holds
  <2>5. QED
    BY <1>1, <2>1, <2>3, <2>4, BreakKeeps
<1>3. CASE k # Run
  <2>1. UNCHANGED <<steps, status, states>>
    BY <1>3 DEF Raise
  <2>2. "idle" \notin {"loop", "abort"} /\ \E i, s : Go(k, "idle", i, s)
    BY <1>1
  <2>3. QED
    BY <2>1, <2>2, MoveKeeps, ZenonT(30)
<1>4. QED
  BY <1>2, <1>3

(* The user answers the prompt that is open, and the run goes on.          *)
LEMMA ResolveKeeps ==
  ASSUME TypeInv, DriverInv, PathInv, forks' = {}, NEW u \in Users, Resolve(u)
  PROVE  Keeps
<1> USE Facts
<1>0. u \in Coroutines
  OBVIOUS
<1>1. ASSUME NEW i \in DOMAIN steps, ReadAnswer(u, i) PROVE Keeps
  <2>1. UNCHANGED <<steps, status, states>> /\ \E j, s : Go(u, "answer", j, s)
    BY <1>1 DEF ReadAnswer
  <2>2. QED
    BY <1>0, <2>1, MoveKeeps
<1>2. CASE StoreAnswer(u)
  <2>1. /\ pc[u] = "answer" /\ states' = With(u, "done") /\ Go(u, "resume", at[u], Fresh)
        /\ states[at[u]] = "awaiting_user_input" /\ UNCHANGED <<steps, status>>
    BY <1>2 DEF StoreAnswer
  <2>2. at[u] \in DOMAIN steps
    BY <1>0, <2>1 DEF Inside, Point
  <2>3. states' = [states EXCEPT ![at[u]] = "done"]
    BY <1>0, <2>1 DEF DriverInv, Stands, Ended, With
  <2>4. status = "running" /\ (\A k \in Coroutines : ~Holds(k)) /\ Behind(at[u])
    BY <2>1, <2>2, AskedAlone
  <2>5. \A k \in Coroutines : pc'[k] \notin {"loop", "abort"}
    BY <2>1, <2>4 DEF Go, Holds
  <2>6. steps[at[u]].kind = "user_prompt"
    BY <2>1, <2>2 DEF PathInv
  <2>7. \A j \in DOMAIN steps : j < at[u] => Machine!Passed(j)
    <3>1. states[at[u]] # "pending"
      BY <2>1
    <3>2. QED
      BY <2>2, <3>1, AllPassed
  <2>8. PathInv'
    <3>1. UNCHANGED steps /\ ("done" = "awaiting_user_input" => steps[at[u]].kind = "user_prompt")
      BY <2>1
    <3>2. QED
      BY <2>2, <2>3, <2>4, <2>5, <2>7, <3>1, TurnPath
  <2>9. Machine!Answer(at[u])
    BY <2>1, <2>3, <2>4, <2>6, <2>7 DEF Machine!Answer, Machine!Turn
  <2>10. QED
    BY <2>1, <2>2, <2>8, <2>9, TurnKeeps DEF Keeps
<1>3. CASE Resume(u)
  <2>1. pc[u] = "resume" /\ UNCHANGED <<steps, status, states>> /\ \E j, s : Go(u, "loop", j, s)
    BY <1>3 DEF Resume, Continue
  <2>2. at[u] \in DOMAIN steps /\ states[at[u]] = "done" /\ Behind(at[u])
    BY <1>0, <2>1 DEF DriverInv, Stands, Inside, Point, Driving
  <2>3. Clean
    <3>1. ASSUME NEW i \in DOMAIN steps, Aborted(i) PROVE FALSE
      <4>1. Behind(i) /\ states[i] = "failed"
        BY <3>1 DEF PathInv, Aborted
      <4>2. ~(i > at[u]) /\ ~(at[u] > i) /\ i # at[u]
        BY <2>2, <4>1 DEF Behind
      <4>3. QED
        BY <2>2, <4>2
    <3>2. QED
      BY <3>1 DEF Clean
  <2>4. steps # <<>>
    BY <2>2
  <2>5. pc'[u] = "loop" /\ \A k \in Coroutines \ {u} : pc'[k] = pc[k]
    BY <1>0, <2>1 DEF Go
  <2>6. PathInv'
    BY <2>1, <2>3, <2>4, <2>5 DEF PathInv, Clean, Aborted, Stops, Behind
  <2>7. QED
    BY <2>1, <2>6 DEF Keeps, Promised
<1>4. QED
  BY <1>1, <1>2, <1>3 DEF Resolve

LEMMA NextKeeps ==
  ASSUME TypeInv, DriverInv, PathInv, forks' = {}, [Next]_vars
  PROVE  Keeps
<1>1. CASE UNCHANGED vars
  BY <1>1, StillKeeps DEF vars, locals
<1>2. CASE Restart
  <2>1. UNCHANGED <<steps, status, states>> /\ \A k \in Coroutines : pc'[k] = "idle"
    BY <1>2 DEF Restart
  <2>2. QED
    BY <2>1, StillKeeps
<1>3. ASSUME NEW c \in Children,
             FetchChild(c) \/ DeferChild(c) \/ \E outcome \in Final : EndChild(c, outcome)
      PROVE  Keeps
  BY <1>3, ChildKeeps
<1>4. ASSUME NEW k \in Coroutines, Advance(k) \/ ForeachItem(k) \/ Report(k) \/ Raise(k) PROVE Keeps
  BY <1>4, AdvanceKeeps, ReportKeeps, RaiseKeeps
<1>5. QED
  BY <1>1, <1>2, <1>3, <1>4, BeginKeeps, RecoverKeeps, CancelKeeps, ResolveKeeps DEF Next

PathAlways == DriveInv /\ (forks = {} => PathInv)

LEMMA InitPath == Init => PathAlways
<1> SUFFICES ASSUME Init PROVE PathInv
  BY InitDrive DEF PathAlways
<1>1. \A i \in DOMAIN steps : states[i] = "pending"
  BY DEF Init, Fresh
<1>2. \A k \in Coroutines : pc[k] = "idle"
  BY DEF Init
<1>3. QED
  BY <1>1, <1>2 DEF PathInv, Aborted

(* The run is the machine, until it is let loose: from one step of two     *)
(* drivers on, only the types of its row are promised.                     *)
LEMMA MachineStep == PathAlways /\ [Next]_vars => PathAlways' /\ [Machine!Next]_Machine!vars
<1> SUFFICES ASSUME PathAlways, [Next]_vars PROVE PathAlways' /\ [Machine!Next]_Machine!vars
  OBVIOUS
<1>1. DriveInv /\ DriveInv' /\ TypeInv'
  BY NextDrive DEF PathAlways, DriveInv
<1>2. CASE forks' = {}
  <2>1. forks = {}
    BY <1>2, ForksStay
  <2>2. Keeps
    BY <1>1, <1>2, <2>1, NextKeeps DEF PathAlways, DriveInv
  <2>3. (forks # {})' = (forks # {})
    BY <1>2, <2>1
  <2>4. [Machine!Next]_Machine!vars
    BY <2>2, <2>3 DEF Keeps, Promised, Turns, Machine!Next, Machine!vars
  <2>5. QED
    BY <1>1, <2>2, <2>4 DEF PathAlways, Keeps
<1>3. CASE forks' # {}
  <2>1. UNCHANGED steps
    BY DEF Next, vars, FetchRun, DeferRun, BeginRun, FetchChild, DeferChild, EndChild, Advance, SkipStep,
           StartStep, UnknownStep, RunInline, AskUser, SkipPrompt, SpawnChild, LinkChild, Finalize,
           ForeachItem, Report, ReadRun, RecordStep, Raise, Recover, RecoverRun, RecoverChild,
           CancelQueued, Resolve, ReadAnswer, StoreAnswer, Resume, Restart
  <2>2. status' \in Machine!RunStatus /\ states' \in [DOMAIN steps -> Machine!StepStatus]
    BY <1>1, <2>1 DEF TypeInv, TypeOK, RowStatus, Final, StepStatus, Machine!RunStatus,
                      Machine!StepStatus, Machine!Ended
  <2>3. Machine!Next
    BY <1>3, <2>1, <2>2 DEF Machine!Next, Machine!LetLoose
  <2>4. QED
    BY <1>1, <1>3, <2>3 DEF PathAlways
<1>4. QED
  BY <1>2, <1>3

(* A run that none of the five events forked goes through its steps as     *)
(* StepMachine does, whatever coroutines, children, users, failures,       *)
(* recoveries and restarts take part (step_executor.py as a whole).        *)
THEOREM RunIsMachine == Spec => RunPromise
<1>1. Init => Machine!Init
  BY DEF Init, Machine!Init, Fresh
<1>2. QED
  BY <1>1, InitPath, MachineStep, PTL DEF Spec, RunPromise, Machine!Spec

===========================================================================
