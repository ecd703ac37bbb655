----------------------------- MODULE Pipeline -----------------------------
(***************************************************************************)
(* One run of a pipeline: a Task row with steps and step_states            *)
(* (app/services/step_executor.py), the child tasks of its agent steps,    *)
(* the task worker that fetches and recovers rows (app/agent/tasks.py) and *)
(* POST /tasks/{id}/steps/{i}/resolve (app/routers/api_v1_admin/tasks.py). *)
(*                                                                         *)
(* Whoever drives the run works on its own deep copy of step_states and    *)
(* writes the whole copy back at every commit; no row is locked.  A step   *)
(* is the code between two awaits of one coroutine.                        *)
(***************************************************************************)
EXTENDS Naturals, Sequences

CONSTANTS
    Children,     \* task rows available to agent steps, and their coroutines
    Users,        \* concurrent resolve requests
    Run, Worker,  \* the coroutines of run_task_pipeline and task_worker
    Definitions,  \* the pipelines to run: sequences of Step
    MaxDefers,    \* bound: deferrals of child tasks
    MaxFaults,    \* bound: exceptions raised while driving
    MaxRestarts   \* bound: process restarts

Coroutines == Children \cup Users \cup {Run, Worker}

Kinds == {"exec", "foreach", "agent", "user_prompt", "unknown"}
Step  == [kind : Kinds, abort : BOOLEAN, when : BOOLEAN]

ASSUME PipelineAssumption ==
    /\ Run # Worker /\ Children \cap Users = {}
    /\ {Run, Worker} \cap (Children \cup Users) = {}
    /\ Definitions \subseteq Seq(Step)
    /\ MaxDefers \in Nat /\ MaxFaults \in Nat /\ MaxRestarts \in Nat

VARIABLES
    steps,    \* Task.steps of the run; never changes
    status,   \* Task.status of the run
    states,   \* Task.step_states of the run, the statuses
    child,    \* [Children -> RowStatus]: Task.status of the child rows
    stepOf,   \* [Children -> Nat]: callback_config.pipeline_step_index
    pc,       \* [Coroutines -> Point]
    at,       \* [Coroutines -> Nat]: the step it is at, 0 when idle
    mine,     \* [Coroutines -> step statuses]: its copy of step_states
    started,  \* observer: steps marked running so far
    rerun,    \* observer: steps marked running again
    passed,   \* observer: steps answered by a user or skipped
    forks,    \* observer: the events that let a second coroutine drive
    dropped,  \* observer: a driver, or a report to the run, was lost
    defers, faults, restarts

locals == <<pc, at, mine>>
seen   == <<started, rerun, passed>>
bounds == <<defers, faults, restarts>>
vars   == <<steps, status, states, child, stepOf, locals, seen, forks, dropped, bounds>>

StepStatus == {"pending", "running", "awaiting_user_input", "done", "failed", "skipped"}
Ended      == {"done", "failed", "skipped"}
Final      == {"complete", "failed"}
RowStatus  == {"none", "pending", "running"} \cup Final

\* loop: at the top of _advance_pipeline's loop; step: inside the step;
\* link: child committed, its id not yet; complete, failed: inside
\* _fire_task_complete; record: the callback has read the run.
Driving == {"loop", "step", "link", "abort", "record"}
Point   == Driving \cup {"idle", "start", "working", "complete", "failed", "answer", "resume"}

Last    == Len(steps)
Fresh   == [i \in DOMAIN steps |-> "pending"]    \* _init_step_states

(* From i on, j is the first step _advance_pipeline does not skip over.    *)
IsNext(s, i, j) ==
    /\ j <= Last => s[j] \notin Ended
    /\ \A l \in i..(j - 1) : s[l] \in Ended

Init ==
    /\ steps \in Definitions
    /\ status = "pending" /\ states = Fresh
    /\ child = [c \in Children |-> "none"] /\ stepOf = [c \in Children |-> 0]
    /\ pc = [k \in Coroutines |-> "idle"] /\ at = [k \in Coroutines |-> 0]
    /\ mine = [k \in Coroutines |-> Fresh]
    /\ started = {} /\ rerun = {} /\ passed = {} /\ forks = {} /\ dropped = FALSE
    /\ defers = 0 /\ faults = 0 /\ restarts = 0

---------------------------------------------------------------------------
(* Local moves of a coroutine.                                             *)

Go(k, where, i, s) ==
    /\ pc' = [pc EXCEPT ![k] = where]
    /\ at' = [at EXCEPT ![k] = i]
    /\ mine' = [mine EXCEPT ![k] = s]

Leave(k) == Go(k, "idle", 0, Fresh)

Continue(k, s, i) == \E j \in i..(Last + 1) : IsNext(s, i, j) /\ Go(k, "loop", j, s)

With(k, value) == [mine[k] EXCEPT ![at[k]] = value]

---------------------------------------------------------------------------
(* _advance_pipeline.  Every commit overwrites states with the copy.       *)

AtStep(k, kinds) == pc[k] = "step" /\ steps[at[k]].kind \in kinds

(* A step whose when-condition is false.                                   *)
SkipStep(k) ==
    /\ pc[k] = "loop" /\ at[k] <= Last /\ steps[at[k]].when
    /\ states' = With(k, "skipped")
    /\ Continue(k, states', at[k] + 1)
    /\ passed' = passed \cup {at[k]}
    /\ UNCHANGED <<steps, status, child, stepOf, started, rerun, forks, dropped, bounds>>

StartStep(k) ==
    /\ pc[k] = "loop" /\ at[k] <= Last
    /\ states' = With(k, "running")
    /\ Go(k, "step", at[k], states')
    /\ started' = started \cup {at[k]}
    /\ rerun' = rerun \cup ({at[k]} \cap started)
    /\ UNCHANGED <<steps, status, child, stepOf, passed, forks, dropped, bounds>>

GoOnRegardless(k, s) ==                                     \* mutant
    states' = s /\ Continue(k, s, at[k] + 1)

(* A step has ended with s: stop at a failure unless it may continue.      *)
EndStep(k, s) ==
    /\ states' = s
    /\ IF s[at[k]] = "failed" /\ steps[at[k]].abort
         THEN Go(k, "abort", at[k], s)
         ELSE Continue(k, s, at[k] + 1)

(* exec, tool and evaluate steps end done or, by error or fail_if, failed; *)
(* a foreach over nothing ends skipped.                                    *)
RunInline(k, result) ==
    /\ AtStep(k, IF result = "skipped" THEN {"foreach"} ELSE {"exec", "foreach"})
    /\ EndStep(k, With(k, result))
    /\ UNCHANGED <<steps, status, child, stepOf, seen, forks, dropped, bounds>>

(* _run_foreach_step commits after every sub-step of every item.           *)
ForeachItem(k) ==
    /\ AtStep(k, {"foreach"})
    /\ states' = mine[k]
    /\ UNCHANGED <<steps, status, child, stepOf, locals, seen, forks, dropped, bounds>>

UnknownStep(k) ==
    /\ AtStep(k, {"unknown"})
    /\ states' = With(k, "failed")
    /\ Go(k, "abort", at[k], states')
    /\ UNCHANGED <<steps, status, child, stepOf, seen, forks, dropped, bounds>>

FallThrough(k) ==                                           \* mutant
    /\ AtStep(k, {"user_prompt"})
    /\ states' = With(k, "awaiting_user_input")
    /\ Continue(k, states', at[k] + 1)
    /\ UNCHANGED <<steps, status, child, stepOf, seen, forks, dropped, bounds>>

(* _run_user_prompt_step: wait for the user.                               *)
AskUser(k) ==
    /\ AtStep(k, {"user_prompt"})
    /\ states' = With(k, "awaiting_user_input")
    /\ Leave(k)
    /\ UNCHANGED <<steps, status, child, stepOf, seen, forks, dropped, bounds>>

ReturnAnyway(k) ==                                          \* mutant
    /\ AtStep(k, {"user_prompt"})
    /\ states' = With(k, "skipped")
    /\ Leave(k)
    /\ passed' = passed \cup {at[k]}
    /\ UNCHANGED <<steps, status, child, stepOf, started, rerun, forks, dropped, bounds>>

(* A multi_item prompt with no items is skipped, and the loop goes on.     *)
SkipPrompt(k) ==
    /\ AtStep(k, {"user_prompt"})
    /\ states' = With(k, "skipped")
    /\ Continue(k, states', at[k] + 1)
    /\ passed' = passed \cup {at[k]}
    /\ UNCHANGED <<steps, status, child, stepOf, started, rerun, forks, dropped, bounds>>

(* _spawn_agent_step commits the child row, then its id in step_states.    *)
SpawnChild(k, c) ==
    /\ AtStep(k, {"agent"}) /\ child[c] = "none"
    /\ child' = [child EXCEPT ![c] = "pending"]
    /\ stepOf' = [stepOf EXCEPT ![c] = at[k]]
    /\ Go(k, "link", at[k], mine[k])
    /\ UNCHANGED <<steps, status, states, seen, forks, dropped, bounds>>

LinkAndGoOn(k) ==                                           \* mutant
    /\ pc[k] = "link"
    /\ states' = mine[k]
    /\ Continue(k, states', at[k] + 1)
    /\ UNCHANGED <<steps, status, child, stepOf, seen, forks, dropped, bounds>>

LinkChild(k) ==
    /\ pc[k] = "link"
    /\ states' = mine[k]
    /\ Leave(k)
    /\ UNCHANGED <<steps, status, child, stepOf, seen, forks, dropped, bounds>>

(* _finalize_pipeline: past the last step, or aborted.                     *)
Finalize(k) ==
    /\ pc[k] = "abort" \/ (pc[k] = "loop" /\ at[k] > Last)
    /\ status' = IF \E i \in DOMAIN steps : mine[k][i] = "failed" THEN "failed" ELSE "complete"
    /\ states' = mine[k]
    /\ Leave(k)
    /\ UNCHANGED <<steps, child, stepOf, seen, forks, dropped, bounds>>

---------------------------------------------------------------------------
(* The run's own task: fetch_due_tasks, the deferral while its session is  *)
(* busy, run_task_pipeline.  The worker fetches only between recoveries.   *)

FetchRun ==
    /\ status = "pending" /\ pc[Worker] = "idle"
    /\ status' = "running"
    /\ Go(Run, "start", 0, Fresh)
    /\ UNCHANGED <<steps, states, child, stepOf, seen, forks, dropped, bounds>>

DeferRun ==
    /\ pc[Run] = "start"
    /\ status' = "pending"
    /\ Leave(Run)
    /\ UNCHANGED <<steps, states, child, stepOf, seen, forks, dropped, bounds>>

BeginRun ==
    /\ pc[Run] = "start"
    /\ IF Last = 0
         THEN status' = "failed" /\ Leave(Run)
         ELSE status' = "running" /\ Continue(Run, states, 1)
    /\ UNCHANGED <<steps, states, child, stepOf, seen, forks, dropped, bounds>>

---------------------------------------------------------------------------
(* Child tasks: run_task, and _fire_task_complete with its callback        *)
(* on_pipeline_step_completed.                                             *)

FetchChild(c) ==
    /\ child[c] = "pending" /\ pc[Worker] = "idle"
    /\ child' = [child EXCEPT ![c] = "running"]
    /\ Go(c, "working", stepOf[c], Fresh)
    /\ UNCHANGED <<steps, status, states, stepOf, seen, forks, dropped, bounds>>

(* Its session is busy, or the model's rate limit was hit: again later.    *)
DeferChild(c) ==
    /\ pc[c] = "working" /\ defers < MaxDefers
    /\ defers' = defers + 1
    /\ child' = [child EXCEPT ![c] = "pending"]
    /\ Leave(c)
    /\ UNCHANGED <<steps, status, states, stepOf, seen, forks, dropped, faults, restarts>>

(* The final status is written without looking at the row.                 *)
EndChild(c, outcome) ==
    /\ pc[c] = "working"
    /\ child' = [child EXCEPT ![c] = outcome]
    /\ Go(c, outcome, at[c], Fresh)
    /\ UNCHANGED <<steps, status, states, stepOf, seen, forks, dropped, bounds>>

ForgetEarlier(k) ==                                         \* mutant
    /\ pc[k] \in {"complete", "failed"}
    /\ Go(k, "record", at[k], [Fresh EXCEPT ![at[k]] = IF pc[k] = "complete" THEN "done" ELSE "failed"])
    /\ UNCHANGED <<steps, status, states, child, stepOf, seen, forks, dropped, bounds>>

(* The callback reads the run and sets its step in the copy.  A child that *)
(* ended before its spawner stored the id starts a second driver.          *)
ReadRun(k) ==
    /\ pc[k] \in {"complete", "failed"}
    /\ LET outcome == IF pc[k] = "complete" THEN "done" ELSE "failed"
       IN  Go(k, "record", at[k], [states EXCEPT ![at[k]] = outcome])
    /\ forks' = IF \E l \in Coroutines : pc[l] = "link" /\ at[l] = at[k]
                  THEN forks \cup {"outran"} ELSE forks
    /\ UNCHANGED <<steps, status, states, child, stepOf, seen, dropped, bounds>>

(* and commits it, after fail_if, then goes on or aborts.                  *)
RecordStep(k, failIf) ==
    /\ pc[k] = "record"
    /\ EndStep(k, IF failIf THEN With(k, "failed") ELSE mine[k])
    /\ UNCHANGED <<steps, status, child, stepOf, seen, forks, dropped, bounds>>

---------------------------------------------------------------------------
(* recover_stuck_tasks: any running row may be past its timeout.           *)

Unfinished ==   \* something still works for the run, or waits for its user
    \/ \E k \in Coroutines : pc[k] # "idle"
    \/ \E c \in Children : child[c] \in {"pending", "running"}
    \/ \E i \in DOMAIN steps : states[i] = "awaiting_user_input"

RecoverRun ==
    /\ status = "running" /\ pc[Worker] = "idle"
    /\ status' = "failed"
    /\ forks' = IF Unfinished THEN forks \cup {"overdue run"} ELSE forks
    /\ UNCHANGED <<steps, states, child, stepOf, locals, seen, dropped, bounds>>

(* The worker itself calls back, and drives the run from there.            *)
RecoverChild(c) ==
    /\ child[c] = "running" /\ pc[Worker] = "idle"
    /\ child' = [child EXCEPT ![c] = "failed"]
    /\ Go(Worker, "failed", stepOf[c], Fresh)
    /\ forks' = IF pc[c] = "idle" THEN forks ELSE forks \cup {"overdue child"}
    /\ UNCHANGED <<steps, status, states, stepOf, seen, dropped, bounds>>

---------------------------------------------------------------------------
(* admin_resolve_step and its background _resume_pipeline_background.      *)

ReadAnswer(u, i) ==
    /\ pc[u] = "idle" /\ states[i] = "awaiting_user_input"
    /\ Go(u, "answer", i, states)
    /\ UNCHANGED <<steps, status, states, child, stepOf, seen, forks, dropped, bounds>>

StoreAnswer(u) ==
    /\ pc[u] = "answer"
    /\ states' = With(u, "done")
    /\ Go(u, "resume", at[u], Fresh)
    /\ passed' = passed \cup {at[u]}
    /\ forks' = IF states[at[u]] = "awaiting_user_input" THEN forks ELSE forks \cup {"answers"}
    /\ UNCHANGED <<steps, status, child, stepOf, started, rerun, dropped, bounds>>

Resume(u) ==
    /\ pc[u] = "resume"
    /\ Continue(u, states, at[u] + 1)
    /\ UNCHANGED <<steps, status, states, child, stepOf, seen, forks, dropped, bounds>>

---------------------------------------------------------------------------
(* Failures.                                                               *)

(* POST /chat/cancel fails the queued rows of the session; nobody reports  *)
(* a child that ends this way.                                             *)
QueuedChildren == {c \in Children : child[c] = "pending"}

CancelQueued ==
    /\ status = "pending" \/ QueuedChildren # {}
    /\ status' = IF status = "pending" THEN "failed" ELSE status
    /\ child' = [c \in Children |-> IF c \in QueuedChildren THEN "failed" ELSE child[c]]
    /\ dropped' = (dropped \/ QueuedChildren # {})
    /\ UNCHANGED <<steps, states, stepOf, locals, seen, forks, bounds>>

(* An exception while driving.  run_task_pipeline marks the run and its    *)
(* running steps failed; callbacks and resumes only log it.                *)
Raise(k) ==
    /\ pc[k] \in Driving /\ faults < MaxFaults
    /\ faults' = faults + 1
    /\ IF k = Run
         THEN /\ status' = "failed"
              /\ states' = [i \in DOMAIN steps |->
                              IF states[i] = "running" THEN "failed" ELSE states[i]]
              /\ forks' = IF pc[k] = "link" THEN forks \cup {"orphan"} ELSE forks
              /\ UNCHANGED dropped
         ELSE dropped' = TRUE /\ UNCHANGED <<status, states, forks>>
    /\ Leave(k)
    /\ UNCHANGED <<steps, child, stepOf, seen, defers, restarts>>

(* All coroutines are lost, the rows stay.                                 *)
Restart ==
    /\ restarts < MaxRestarts
    /\ restarts' = restarts + 1
    /\ pc' = [k \in Coroutines |-> "idle"] /\ at' = [k \in Coroutines |-> 0]
    /\ mine' = [k \in Coroutines |-> Fresh]
    /\ dropped' = (dropped \/ \E k \in Coroutines : pc[k] \notin {"idle", "working", "answer"})
    /\ UNCHANGED <<steps, status, states, child, stepOf, seen, forks, defers, faults>>

---------------------------------------------------------------------------
Advance(k) ==
    \/ SkipStep(k) \/ StartStep(k) \/ UnknownStep(k)
    \/ \E result \in Ended : RunInline(k, result)
    \/ AskUser(k) \/ SkipPrompt(k)
    \/ \E c \in Children : SpawnChild(k, c)
    \/ LinkChild(k) \/ Finalize(k)

Report(k) == ReadRun(k) \/ \E failIf \in BOOLEAN : RecordStep(k, failIf)

Recover == RecoverRun \/ \E c \in Children : RecoverChild(c)

Resolve(u) == (\E i \in DOMAIN steps : ReadAnswer(u, i)) \/ StoreAnswer(u) \/ Resume(u)

Next ==
    \/ FetchRun \/ DeferRun \/ BeginRun
    \/ \E c \in Children : FetchChild(c) \/ DeferChild(c) \/ (\E outcome \in Final : EndChild(c, outcome))
    \/ \E k \in Coroutines : Advance(k) \/ ForeachItem(k) \/ Report(k) \/ Raise(k)
    \/ Recover \/ CancelQueued
    \/ \E u \in Users : Resolve(u)
    \/ Restart

Spec == Init /\ [][Next]_vars

(* Coroutines and the worker keep running; at some try the session is idle *)
(* and the model has capacity, and run_task's timeout ends the child; a    *)
(* row nobody works on is past its timeout some day.  Users may never      *)
(* answer.                                                                 *)
Fairness ==
    /\ WF_vars(FetchRun) /\ SF_vars(BeginRun)
    /\ \A c \in Children :
          /\ WF_vars(FetchChild(c)) /\ WF_vars(\E outcome \in Final : EndChild(c, outcome))
          /\ WF_vars(pc[c] = "idle" /\ RecoverChild(c))
    /\ \A k \in Coroutines : WF_vars(Advance(k)) /\ WF_vars(Report(k))
    /\ \A u \in Users : WF_vars(StoreAnswer(u) \/ Resume(u))

FairSpec == Spec /\ Fairness

---------------------------------------------------------------------------
(* Properties.                                                             *)

(* Every variable keeps its type.                                          *)
TypeOK ==
    /\ steps \in Definitions
    /\ status \in RowStatus \ {"none"}
    /\ states \in [DOMAIN steps -> StepStatus]
    /\ child \in [Children -> RowStatus] /\ stepOf \in [Children -> Nat]
    /\ pc \in [Coroutines -> Point] /\ at \in [Coroutines -> Nat]
    /\ mine \in [Coroutines -> [DOMAIN steps -> StepStatus]]
    /\ started \in SUBSET (DOMAIN steps) /\ rerun \in SUBSET (DOMAIN steps)
    /\ passed \in SUBSET (DOMAIN steps)
    /\ forks \in SUBSET {"outran", "overdue run", "overdue child", "answers", "orphan"}
    /\ dropped \in BOOLEAN /\ defers \in Nat /\ faults \in Nat /\ restarts \in Nat

(* Only five events let two coroutines drive one run: a child that ends    *)
(* before its id is stored, a run or a child recovered while it is alive,  *)
(* two answers read before either is stored, and an exception between the  *)
(* child's commit and its id's.                                            *)
OneDriver ==
    forks = {} => \A k, l \in Coroutines : pc[k] \in Driving /\ pc[l] \in Driving => k = l

(* Without those, steps run in order and once: a step that was touched has *)
(* only ended steps before it.                                             *)
StepsInOrder ==
    forks = {} =>
        /\ rerun = {}
        /\ \A i \in DOMAIN steps : states[i] # "pending" =>
              \A j \in 1..(i - 1) : states[j] \in Ended

(* and the status of a complete run tells the truth about its steps.       *)
CompleteMeansDone ==
    forks = {} /\ status = "complete" =>
        \A i \in DOMAIN steps : states[i] \in {"done", "skipped"}
OrderKept == StepsInOrder /\ CompleteMeansDone

(* A run that none of them forked is a StepMachine: whatever coroutines,   *)
(* copies, children, failures and restarts it takes, its row goes through  *)
(* the steps one by one, stops at one that aborts or waits for its user,   *)
(* and is never touched again once the run has ended.                      *)
Machine    == INSTANCE StepMachine WITH loose <- forks # {}
RunPromise == Machine!Spec

(* No step after a user prompt starts before the prompt was answered or    *)
(* skipped, whatever races there are, unless the crash handler marks the   *)
(* running prompt of another driver failed.                                *)
GateHolds ==
    faults = 0 \/ "outran" \notin forks =>
        \A i, j \in DOMAIN steps :
            steps[i].kind = "user_prompt" /\ i < j /\ j \in started => i \in passed

(* A running run ends, or waits for its user, without being recovered,     *)
(* unless a crash or an exception drops its driver.                        *)
Waiting == \E i \in DOMAIN steps : states[i] = "awaiting_user_input"
RunMovesOn ==
    status = "running" ~> status \in Final \/ Waiting \/ dropped \/ "outran" \in forks

(* With recovery every running run ends, after whatever failures.          *)
RunSettles == WF_vars(RecoverRun) => (status = "running" ~> status \in Final)

(* The two together: no running run stands still.                          *)
RunsProceed == RunMovesOn /\ RunSettles
===========================================================================
