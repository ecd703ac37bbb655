--------------------------- MODULE SessionTurns ---------------------------
(***************************************************************************)
(* One session's agent runs: the lock of app/services/session_locks.py,    *)
(* chat turns (turns.start_turn, turn_worker.run_turn), messages queued as *)
(* tasks while the session is busy (chat/_routes.py, app/agent/tasks.py    *)
(* fetch_due_tasks, run_task, recover_stuck_tasks), /chat/cancel and the   *)
(* lock janitor of main.py.                                                *)
(*                                                                         *)
(* Everything runs on one asyncio loop: a step is the code between two     *)
(* awaits.  A request is one posted message; it is answered by a chat turn *)
(* or, when the session was busy, by its queued task.                      *)
(***************************************************************************)
EXTENDS Naturals

CONSTANTS
    Requests, NoOne,
    RateLimitRetries,  \* settings.TASK_RATE_LIMIT_RETRIES
    MaxFaults,         \* bound: errors raised inside runs
    MaxCancels,        \* bound: /chat/cancel calls
    MaxRestarts        \* bound: process restarts

ASSUME TurnsAssumption ==
    /\ NoOne \notin Requests /\ RateLimitRetries \in Nat /\ MaxFaults \in Nat
    /\ MaxCancels \in Nat /\ MaxRestarts \in Nat

VARIABLES
    locked,     \* the session's key is in _active
    aged,       \* and has been for LOCK_TTL_SECONDS
    flag,       \* the key is in _cancel_requested
    pc,         \* [Requests -> Point]: where the request's coroutine stands
    task,       \* [Requests -> TaskStatus]: its Task row
    ready,      \* [Requests -> BOOLEAN]: scheduled_at is null or past
    retries,    \* [Requests -> Nat]: retry_count
    stored,     \* [Requests -> BOOLEAN]: pre_user_msg_id is known to the turn
    bound,      \* [Requests -> BOOLEAN]: _auto_injected_skills is assigned
    cancelling, \* a cancel set the flag and has not updated the tasks yet
    holder,     \* observer: whose run acquired the lock
    rows,       \* observer: [Requests -> Nat], user rows of the message
    began,      \* observer: [Requests -> Nat], TURN_STARTED published
    ended,      \* observer: [Requests -> Nat], TURN_ENDED published
    asked,      \* observer: runs that held the lock when a cancel came
    cancelled,  \* observer: runs that stopped at a cancellation check
    outlived,   \* observer: a run outlived LOCK_TTL_SECONDS
    faults, cancels, restarts

lock     == <<locked, aged, flag, holder>>
rowvars  == <<task, ready, retries>>
local    == <<stored, bound>>
seen     == <<rows, began, ended>>
stops    == <<cancelling, asked, outlived>>
bounds   == <<faults, cancels, restarts>>
vars == <<lock, pc, rowvars, local, seen, stops, cancelled, bounds>>

TurnPoint  == {"begin", "mention", "harness", "stream", "persist", "after",
               "unsaved", "rescue", "finish"}
TaskPoint  == {"lookup", "agent", "save", "complete", "limited", "failing"}
Point      == TurnPoint \cup TaskPoint
                 \cup {"new", "queued", "fetched", "defer", "leaked", "dead", "done"}
TaskStatus == {"none", "pending", "running", "complete", "failed"}

Holding(r) == pc[r] \in TurnPoint \cup TaskPoint    \* between acquire and release

Init ==
    /\ locked = FALSE /\ aged = FALSE /\ flag = FALSE /\ holder = NoOne
    /\ pc = [r \in Requests |-> "new"] /\ task = [r \in Requests |-> "none"]
    /\ ready = [r \in Requests |-> FALSE] /\ retries = [r \in Requests |-> 0]
    /\ stored = [r \in Requests |-> FALSE] /\ bound = [r \in Requests |-> FALSE]
    /\ rows = [r \in Requests |-> 0] /\ began = [r \in Requests |-> 0]
    /\ ended = [r \in Requests |-> 0]
    /\ cancelling = FALSE /\ asked = {} /\ cancelled = {} /\ outlived = FALSE
    /\ faults = 0 /\ cancels = 0 /\ restarts = 0

---------------------------------------------------------------------------
(* session_locks.                                                          *)

KeepCancel == UNCHANGED flag                                \* mutant

ForgetCancel == flag' = FALSE

Grab(r)  == locked' = TRUE /\ aged' = FALSE /\ holder' = r /\ ForgetCancel

AcquireAnyway(r, won, lost) == Grab(r) /\ won               \* mutant

(* acquire: take the free lock, or go on without it.                       *)
Acquire(r, won, lost) ==
    \/ ~locked /\ Grab(r) /\ won
    \/ locked /\ UNCHANGED lock /\ lost

KeepLock == UNCHANGED <<locked, aged, holder>> /\ ForgetCancel   \* mutant

(* release asks nobody's leave: it drops the key whoever acquired it.      *)
Release == locked' = FALSE /\ aged' = FALSE /\ holder' = NoOne /\ ForgetCancel

(* Two hours pass on one acquisition.                                      *)
Age ==
    /\ locked /\ ~aged
    /\ aged' = TRUE
    /\ outlived' = (outlived \/ \E r \in Requests : Holding(r))
    /\ UNCHANGED <<locked, flag, holder, pc, rowvars, local, seen, cancelling, asked, cancelled, bounds>>

(* sweep_stale, from the session cleanup worker.                           *)
Sweep ==
    /\ locked /\ aged
    /\ Release
    /\ UNCHANGED <<pc, rowvars, local, seen, stops, cancelled, bounds>>

---------------------------------------------------------------------------
(* A chat turn.                                                            *)

GoTo(r, where)  == pc' = [pc EXCEPT ![r] = where]
Add(f, r)       == [f EXCEPT ![r] = @ + 1]
Fault(failed)   == IF failed THEN faults < MaxFaults /\ faults' = faults + 1
                             ELSE UNCHANGED faults

(* POST /chat: start the turn, or store the message with a pending task.   *)
Post(r) ==
    /\ pc[r] = "new"
    /\ Acquire(r, GoTo(r, "begin") /\ UNCHANGED <<task, ready, rows>>,
                  /\ GoTo(r, "queued")
                  /\ task' = [task EXCEPT ![r] = "pending"]
                  /\ ready' = [ready EXCEPT ![r] = TRUE]
                  /\ rows' = Add(rows, r))
    /\ UNCHANGED <<retries, local, began, ended, stops, cancelled, bounds>>

(* run_turn up to the branch: store the user message, publish TURN_STARTED *)
(* A failure of the former is swallowed, before or after its commit.       *)
BeginTurn(r, committed, known, harness) ==
    /\ pc[r] = "begin" /\ (known => committed)
    /\ Fault(~known)
    /\ rows' = IF committed THEN Add(rows, r) ELSE rows
    /\ stored' = [stored EXCEPT ![r] = known]
    /\ began' = Add(began, r)
    /\ bound' = [bound EXCEPT ![r] = harness]
    /\ GoTo(r, IF harness THEN "harness" ELSE "mention")
    /\ UNCHANGED <<lock, rowvars, ended, stops, cancelled, cancels, restarts>>

(* An external harness owns the loop and persists its own turn.            *)
HarnessTurn(r, ok) ==
    /\ pc[r] = "harness"
    /\ Fault(~ok)
    /\ rows' = IF ok /\ ~stored[r] THEN Add(rows, r) ELSE rows
    /\ GoTo(r, "finish")
    /\ UNCHANGED <<lock, rowvars, local, began, ended, stops, cancelled, cancels, restarts>>

(* The @-mention lookup; from_index and the skill list come after it.      *)
DetectMentions(r, ok) ==
    /\ pc[r] = "mention"
    /\ Fault(~ok)
    /\ bound' = [bound EXCEPT ![r] = ok]
    /\ GoTo(r, IF ok THEN "stream" ELSE "finish")
    /\ UNCHANGED <<lock, rowvars, stored, seen, stops, cancelled, cancels, restarts>>

(* The agent loop answers, raises, or stops at a check that sees the flag. *)
AgentLoop(r, from, stop, answer, raise) ==
    /\ pc[r] = from
    /\ \/ flag /\ cancelled' = cancelled \cup {r} /\ GoTo(r, stop) /\ UNCHANGED faults
       \/ GoTo(r, answer) /\ UNCHANGED <<cancelled, faults>>
       \/ Fault(TRUE) /\ GoTo(r, raise) /\ UNCHANGED cancelled
    /\ UNCHANGED <<lock, rowvars, local, seen, stops, cancels, restarts>>

Stream(r) == AgentLoop(r, "stream", "persist", "persist", "rescue")

StoreTwice(r) == Add(rows, r)                               \* mutant

(* persist_turn skips the user message only when it was given its id.      *)
StoreTurn(r) == IF stored[r] THEN rows ELSE Add(rows, r)

(* persist_turn may fail before its commit or after it.                    *)
Store(r, committed) == rows' = IF committed THEN StoreTurn(r) ELSE rows

(* The turn's persist: a failure is kept as its error and the turn goes on *)
(* unsaved, which skips the supervisors.                                   *)
Persist(r, committed, ok) ==
    /\ pc[r] = "persist" /\ (ok => committed)
    /\ Fault(~ok)
    /\ Store(r, committed)
    /\ GoTo(r, IF ok THEN "after" ELSE "unsaved")
    /\ UNCHANGED <<lock, rowvars, local, began, ended, stops, cancelled, cancels, restarts>>

(* Supervisors, background compaction, bot-to-bot fanout.                  *)
AfterTurn(r, ok) ==
    /\ pc[r] \in {"after", "unsaved"}
    /\ Fault(~ok)
    /\ GoTo(r, IF ok \/ pc[r] = "after" THEN "finish" ELSE "rescue")
    /\ UNCHANGED <<lock, rowvars, local, seen, stops, cancelled, cancels, restarts>>

(* The except branch stores an unsaved turn with an error row, if it can.  *)
Rescue(r, committed, ok) ==
    /\ pc[r] = "rescue" /\ (ok => committed)
    /\ Fault(~ok)
    /\ Store(r, committed)
    /\ GoTo(r, "finish")
    /\ UNCHANGED <<lock, rowvars, local, began, ended, stops, cancelled, cancels, restarts>>

(* finally: TURN_ENDED, whose payload reads the skill list, then release.  *)
Finish(r) ==
    /\ pc[r] = "finish"
    /\ ended' = IF bound[r] THEN Add(ended, r) ELSE ended
    /\ Release
    /\ GoTo(r, "done")
    /\ UNCHANGED <<rowvars, local, rows, began, stops, cancelled, bounds>>

---------------------------------------------------------------------------
(* A queued task.                                                          *)

(* scheduled_at passes.                                                    *)
BecomeReady(r) ==
    /\ task[r] = "pending" /\ ~ready[r]
    /\ ready' = [ready EXCEPT ![r] = TRUE]
    /\ UNCHANGED <<lock, pc, task, retries, local, seen, stops, cancelled, bounds>>

DueTasks == {r \in Requests : task[r] = "pending" /\ ready[r]}

(* fetch_due_tasks marks every due row running; each gets a coroutine.     *)
FetchDue ==
    /\ DueTasks # {}
    /\ task' = [r \in Requests |-> IF r \in DueTasks THEN "running" ELSE task[r]]
    /\ pc' = [r \in Requests |-> IF r \in DueTasks THEN "fetched" ELSE pc[r]]
    /\ UNCHANGED <<lock, ready, retries, local, seen, stops, cancelled, bounds>>

(* run_task tries the lock after it resolved the channel's session.        *)
LockTask(r) ==
    /\ pc[r] = "fetched"
    /\ Acquire(r, GoTo(r, "lookup"), GoTo(r, "defer"))
    /\ UNCHANGED <<rowvars, local, seen, stops, cancelled, bounds>>

(* The session is busy: back to pending, due again in 10 s.                *)
Defer(r) ==
    /\ pc[r] = "defer"
    /\ task' = [task EXCEPT ![r] = "pending"] /\ ready' = [ready EXCEPT ![r] = FALSE]
    /\ GoTo(r, "queued")
    /\ UNCHANGED <<lock, retries, local, seen, stops, cancelled, bounds>>

(* A database error before the try, or while deferring: the coroutine dies *)
(* and its row stays running.                                              *)
DieUnlocked(r) ==
    /\ pc[r] \in {"fetched", "defer"}
    /\ Fault(TRUE)
    /\ GoTo(r, "dead")
    /\ UNCHANGED <<lock, rowvars, local, seen, stops, cancelled, cancels, restarts>>

(* The existence check sits between the acquire and the try: an error in   *)
(* it leaks the lock.  Then TURN_STARTED.                                  *)
LookUp(r, ok) ==
    /\ pc[r] = "lookup"
    /\ Fault(~ok)
    /\ began' = IF ok THEN Add(began, r) ELSE began
    /\ GoTo(r, IF ok THEN "agent" ELSE "leaked")
    /\ UNCHANGED <<lock, rowvars, local, rows, ended, stops, cancelled, cancels, restarts>>

RunAgent(r) ==
    \/ AgentLoop(r, "agent", "save", "save", "failing")
    \/ AgentLoop(r, "agent", "save", "save", "limited")

(* persist_turn without a pre_user_msg_id, then TURN_ENDED.                *)
Save(r, committed, ok) ==
    /\ pc[r] = "save" /\ (ok => committed)
    /\ Fault(~ok)
    /\ Store(r, committed)
    /\ ended' = IF ok THEN Add(ended, r) ELSE ended
    /\ GoTo(r, IF ok THEN "complete" ELSE "failing")
    /\ UNCHANGED <<lock, rowvars, local, began, stops, cancelled, cancels, restarts>>

(* finally: release, and the coroutine ends at where.                      *)
Leave(r, status, where) ==
    /\ task' = [task EXCEPT ![r] = status]
    /\ GoTo(r, where)
    /\ Release

Complete(r, ok) ==
    /\ pc[r] = "complete"
    /\ Fault(~ok)
    /\ IF ok THEN Leave(r, "complete", "done")
             ELSE GoTo(r, "failing") /\ UNCHANGED <<task, lock>>
    /\ UNCHANGED <<ready, retries, local, seen, stops, cancelled, cancels, restarts>>

(* RateLimitError with retries left: pending again, no TURN_ENDED.         *)
RetryLater(r) ==
    /\ retries' = Add(retries, r)
    /\ ready' = [ready EXCEPT ![r] = FALSE]
    /\ Leave(r, "pending", "queued")
    /\ UNCHANGED ended

GiveUp(r) ==
    /\ retries[r] >= RateLimitRetries
    /\ Leave(r, "failed", "done")
    /\ ended' = Add(ended, r) /\ UNCHANGED <<ready, retries, faults>>

RateLimited(r) ==
    /\ pc[r] = "limited"
    /\ \/ retries[r] < RateLimitRetries /\ RetryLater(r) /\ UNCHANGED faults
       \/ GiveUp(r)
       \/ Fault(TRUE) /\ Leave(r, task[r], "done") /\ UNCHANGED <<ready, retries, ended>>
    /\ UNCHANGED <<local, rows, began, stops, cancelled, cancels, restarts>>

(* Timeout or error: failed and TURN_ENDED, unless marking it fails too.   *)
FailTask(r, ok) ==
    /\ pc[r] = "failing"
    /\ Fault(~ok)
    /\ ended' = IF ok THEN Add(ended, r) ELSE ended
    /\ Leave(r, IF ok THEN "failed" ELSE task[r], "done")
    /\ UNCHANGED <<ready, retries, local, rows, began, stops, cancelled, cancels, restarts>>

Requeue(r) ==                                               \* mutant
    /\ task' = [task EXCEPT ![r] = "pending"] /\ pc' = [pc EXCEPT ![r] = "queued"]

MarkStuck(r) == task' = [task EXCEPT ![r] = "failed"] /\ UNCHANGED pc

(* recover_stuck_tasks: running past the timeout, which is counted from    *)
(* the fetch, so that the coroutine may still be about to finish.          *)
RecoverStuck(r) ==
    /\ task[r] = "running" /\ pc[r] \in (TaskPoint \ {"lookup"}) \cup {"leaked", "dead", "done"}
    /\ MarkStuck(r)
    /\ UNCHANGED <<lock, ready, retries, local, seen, stops, cancelled, bounds>>

---------------------------------------------------------------------------
(* POST /chat/cancel: the flag at once, the pending rows after an await.   *)

Cancel ==
    /\ cancels < MaxCancels /\ ~cancelling
    /\ cancels' = cancels + 1
    /\ cancelling' = TRUE
    /\ flag' = (flag \/ locked)
    /\ asked' = IF locked THEN asked \cup {holder} ELSE asked
    /\ UNCHANGED <<locked, aged, holder, pc, rowvars, local, seen, outlived, cancelled, faults, restarts>>

CancelTasks ==
    /\ cancelling /\ cancelling' = FALSE
    /\ task' = [r \in Requests |-> IF task[r] = "pending" THEN "failed" ELSE task[r]]
    /\ UNCHANGED <<lock, pc, ready, retries, local, seen, asked, outlived, cancelled, bounds>>

(* The process restarts: locks, flags and coroutines are gone.             *)
Restart ==
    /\ restarts < MaxRestarts /\ restarts' = restarts + 1
    /\ Release
    /\ cancelling' = FALSE
    /\ pc' = [r \in Requests |-> IF Holding(r) \/ pc[r] \in {"fetched", "defer", "leaked"}
                                 THEN "dead" ELSE pc[r]]
    /\ UNCHANGED <<rowvars, local, seen, asked, outlived, cancelled, faults, cancels>>

---------------------------------------------------------------------------
TurnStep(r) ==
    \/ \E committed, known, harness \in BOOLEAN : BeginTurn(r, committed, known, harness)
    \/ \E ok \in BOOLEAN :
          \/ HarnessTurn(r, ok) \/ DetectMentions(r, ok) \/ AfterTurn(r, ok)
          \/ \E committed \in BOOLEAN : Persist(r, committed, ok) \/ Rescue(r, committed, ok)
    \/ Stream(r)
    \/ Finish(r)

TaskStep(r) ==
    \/ LockTask(r) \/ Defer(r) \/ DieUnlocked(r) \/ RunAgent(r) \/ RateLimited(r)
    \/ \E ok \in BOOLEAN :
          \/ LookUp(r, ok) \/ Complete(r, ok) \/ FailTask(r, ok)
          \/ \E committed \in BOOLEAN : Save(r, committed, ok)

Next ==
    \/ \E r \in Requests : Post(r) \/ TurnStep(r) \/ TaskStep(r) \/ BecomeReady(r) \/ RecoverStuck(r)
    \/ FetchDue \/ Age \/ Sweep
    \/ Cancel \/ CancelTasks
    \/ Restart

Spec == Init /\ [][Next]_vars

(* Coroutines run, timers fire, the task worker and the janitor poll.      *)
Fairness ==
    /\ \A r \in Requests :
          /\ WF_vars(TurnStep(r)) /\ WF_vars(TaskStep(r))
          /\ WF_vars(BecomeReady(r)) /\ WF_vars(RecoverStuck(r))
    /\ WF_vars(FetchDue) /\ WF_vars(Age) /\ WF_vars(Sweep) /\ WF_vars(CancelTasks)

FairSpec == Spec /\ Fairness

---------------------------------------------------------------------------
(* Properties.                                                             *)

(* Every variable keeps its type.                                          *)
TypeOK ==
    /\ locked \in BOOLEAN /\ aged \in BOOLEAN /\ flag \in BOOLEAN
    /\ holder \in Requests \cup {NoOne}
    /\ pc \in [Requests -> Point] /\ task \in [Requests -> TaskStatus]
    /\ ready \in [Requests -> BOOLEAN] /\ retries \in [Requests -> Nat]
    /\ stored \in [Requests -> BOOLEAN] /\ bound \in [Requests -> BOOLEAN]
    /\ rows \in [Requests -> Nat] /\ began \in [Requests -> Nat] /\ ended \in [Requests -> Nat]
    /\ cancelling \in BOOLEAN /\ asked \in SUBSET Requests
    /\ cancelled \in SUBSET Requests /\ outlived \in BOOLEAN
    /\ faults \in Nat /\ cancels \in Nat /\ restarts \in Nat

(* Agent runs of a session are serialized: a run between its acquire and   *)
(* its release owns the lock, and a lock nobody owns was leaked by a task  *)
(* that died before its try; unless a run outlived LOCK_TTL_SECONDS.       *)
RunsAreSerial ==
    ~outlived => \A r \in Requests : Holding(r) => locked /\ holder = r
LockHasItsRun ==
    ~outlived /\ locked => Holding(holder) \/ pc[holder] = "leaked"

(* Lock and run go together.                                               *)
LockIsTheRun == RunsAreSerial /\ LockHasItsRun

(* A cancel stops no run but the one that held the lock when it came: the  *)
(* flag never outlives its run (session_locks acquire, release, sweep).    *)
CancelHitsItsRun == ~outlived => cancelled \subseteq asked

(* A task starts once, plus once per rate-limit retry it spent: deferral,  *)
(* recovery and restarts never run a message's task again.                 *)
StartsAccounted ==
    \A r \in Requests : began[r] <= 1 + retries[r] /\ retries[r] <= RateLimitRetries

(* A chat turn that meets no error leaves its user message stored once,    *)
ChatStoredOnce ==
    faults = 0 => \A r \in Requests :
        task[r] = "none" => rows[r] <= 1 /\ (pc[r] = "done" => rows[r] = 1)

(* and one that ends, by whatever error, has said so: turn_worker.py's     *)
(* "Always publish TURN_ENDED", but for an error before                    *)
(* _auto_injected_skills is bound, which makes the publish itself raise.   *)
ChatEndsTold ==
    \A r \in Requests :
        task[r] = "none" /\ pc[r] = "done" /\ bound[r] => ended[r] = began[r]
ChatTurnsWhole == ChatStoredOnce /\ ChatEndsTold

(* The task of a queued message completes or fails, whatever errors,       *)
(* deferrals, rate limits and restarts it meets, and a chat turn tells     *)
(* that it ended; a leaked lock only delays them.  Two chat turns end with *)
(* nothing told: nothing resumes one that ran when the process restarted,  *)
(* and an error before the skill list is bound keeps TURN_ENDED back.      *)
Settled(r) ==
    \/ /\ task[r] \in {"complete", "failed"}
       /\ pc[r] \in {"queued", "leaked", "dead", "done"}
    \/ task[r] = "none" /\ pc[r] = "done" /\ ended[r] = 1
CutShort(r) ==
    task[r] = "none" /\ ended[r] = 0 /\ \/ pc[r] = "dead" /\ restarts > 0
                                        \/ pc[r] = "done" /\ ~bound[r]
EveryMessageSettles ==
    \A r \in Requests : (pc[r] # "new") ~> (Settled(r) \/ CutShort(r))
=============================================================================
