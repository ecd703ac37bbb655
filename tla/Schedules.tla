----------------------------- MODULE Schedules -----------------------------
(***************************************************************************)
(* What the clock fires: a channel's heartbeat (app/services/heartbeat.py, *)
(* with an agent prompt or a workflow), a recurring task and a pipeline    *)
(* subscription (app/agent/tasks.py).  A behaviour has one row of one      *)
(* kind.  Time is counted in slots: the row is due at a slot, and the next *)
(* aligned time, cron time or interval is the slot after.                  *)
(*                                                                         *)
(* A fire is what one poll, one click on "fire now" or one memory flush of *)
(* compaction starts: a coroutine with its HeartbeatRun row, or the Task   *)
(* row it leaves.  A step is the code between two awaits; a transaction    *)
(* that writes what it did not compute from its reads is one step.         *)
(***************************************************************************)
EXTENDS Integers, FiniteSets

CONSTANTS
    MaxTime,   \* bound: slots of the clock
    MaxFires,  \* bound: fires, numbered as they start
    MaxAsked,  \* bound: fires by hand and by memory flushes
    MaxEdits,  \* bound: edits of the row by its owner
    MaxMishaps \* bound: errors, fires that give up and restarts

Kinds == {"heartbeat", "schedule", "subscription"}
Never == MaxTime + 2                      \* no next run: NULL
Slots == 0..Never
Fires == 1..MaxFires

ASSUME ScheduleAssumption ==
    /\ MaxTime \in Nat /\ MaxFires \in Nat /\ MaxAsked \in Nat
    /\ MaxEdits \in Nat /\ MaxMishaps \in Nat

VARIABLES
    kind,    \* what the row is
    now,     \* the clock
    enabled, \* enabled, or the task is active
    due,     \* next_run_at, scheduled_at or next_fire_at
    first,   \* observer: the slot due after the last edit
    booting, \* the process has not yet reset the runs of the last one
    worker,  \* where the poll stands
    seen,    \* what the poll read
    marked,  \* the heartbeat is in _inflight_heartbeats
    made,    \* fires started
    fire,    \* [Fires -> Fire]
    edits, mishaps,
    cleared,   \* observer: fires whose in-flight mark another fire took
    early,     \* observer: fires whose row was there before the reset
    stranded,  \* observer: rows nothing will finish in this process
    lost,      \* observer: subscriptions advanced, and never spawned
    setback,   \* observer: a slow fire moved the next run back
    overrode   \* observer: a spawn wrote over the last edit of the next run

clock  == <<kind, now>>
plan   == <<enabled, due, first>>
poll   == <<worker, seen>>
budget == <<edits, mishaps>>
seenBy == <<cleared, early, stranded, lost, setback, overrode>>
vars == <<clock, plan, booting, poll, marked, made, fire, budget, seenBy>>

(* by: who started it; slot, edit: the slot it is for, and of which edit;  *)
(* stale: polled while another was in flight; at: its time of start; row:  *)
(* its HeartbeatRun, or its Task.                                          *)
Fire == [by : {"none", "worker", "hand", "flush"}, slot : Slots, edit : 0..MaxEdits,
         stale : BOOLEAN, pc : {"none", "wait", "begin", "run", "done", "dead"},
         row : {"none", "running", "finished", "cancelled", "pending"},
         at : 0..MaxTime]
NoFire == [by |-> "none", slot |-> 0, edit |-> 0, stale |-> FALSE, pc |-> "none",
           row |-> "none", at |-> 0]

Slot == [slot : Slots, edit : 0..MaxEdits, stale : BOOLEAN]
NoSlot == [slot |-> 0, edit |-> 0, stale |-> FALSE]

HasRuns == kind = "heartbeat"            \* there are HeartbeatRun rows
Alive(f) == fire[f].pc \in {"wait", "begin", "run"}
Polled(f) == fire[f].by = "worker"
Spawned == {f \in Fires : Polled(f) /\ fire[f].edit = edits}
Asked == Cardinality({f \in Fires : fire[f].by \in {"hand", "flush"}})
Due == enabled /\ due <= now
Mishap == mishaps < MaxMishaps /\ mishaps' = mishaps + 1

Init ==
    /\ kind \in Kinds /\ now = 0 /\ enabled = TRUE
    /\ due \in {0, 1} /\ first = due
    /\ booting = HasRuns
    /\ worker = "idle" /\ seen = NoSlot /\ marked = FALSE
    /\ made = 0 /\ fire = [f \in Fires |-> NoFire]
    /\ edits = 0 /\ mishaps = 0
    /\ cleared = {} /\ early = {} /\ stranded = {}
    /\ lost = 0 /\ setback = FALSE /\ overrode = FALSE

(* A fire starts, with what the poll read or with nothing.                 *)
Start(by, slot, pc, row) ==
    /\ made < MaxFires
    /\ made' = made + 1
    /\ fire' = [fire EXCEPT ![made + 1] =
                  [by |-> by, slot |-> slot.slot, edit |-> slot.edit, stale |-> slot.stale,
                   pc |-> pc, row |-> row, at |-> IF pc = "begin" THEN now ELSE 0]]

PollDone == worker' = "idle" /\ seen' = NoSlot

---------------------------------------------------------------------------
(* The environment: time passes, and the owner edits the row.              *)

Tick ==
    /\ now < MaxTime
    /\ now' = now + 1
    /\ UNCHANGED <<kind, plan, booting, poll, marked, made, fire, budget, seenBy>>

Edit(on, d) ==
    /\ edits < MaxEdits /\ edits' = edits + 1
    /\ enabled' = on /\ due' = d /\ first' = d /\ overrode' = FALSE
    /\ UNCHANGED <<clock, booting, poll, marked, made, fire, mishaps, cleared, early,
                   stranded, lost, setback>>

(* The toggle of a heartbeat: a next run left from before is kept.         *)
Toggle ==
    /\ kind = "heartbeat"
    /\ Edit(~enabled, IF enabled THEN Never ELSE IF due = Never THEN now + 1 ELSE due)

PatchSubscription ==
    /\ kind = "subscription"
    /\ \E on \in BOOLEAN : Edit(on, IF on THEN now + 1 ELSE Never)

(* A schedule is moved, cancelled or made active again.                    *)
PatchTask ==
    /\ kind = "schedule"
    /\ \E on \in BOOLEAN, d \in now..MaxTime : Edit(on, d)

---------------------------------------------------------------------------
(* The polls: heartbeat_worker and task_worker ask for what is due, and    *)
(* act on the answer later.                                                *)

PollRead ==                  \* fetch_due_heartbeats, spawn_due_*: the query
    /\ worker = "idle" /\ Due
    /\ worker' = "read"
    /\ seen' = [slot |-> due, edit |-> edits, stale |-> \E f \in Fires : Polled(f) /\ Alive(f)]
    /\ UNCHANGED <<clock, plan, booting, marked, made, fire, budget, seenBy>>

PollAgain ==                                                    \* mutant
    /\ kind = "heartbeat" /\ worker = "read"
    /\ marked' = TRUE /\ Start("worker", seen, "wait", "none")
    /\ PollDone
    /\ UNCHANGED <<clock, plan, booting, budget, seenBy>>

PollHeartbeat ==
    /\ kind = "heartbeat" /\ worker = "read"
    /\ IF marked
       THEN UNCHANGED <<marked, made, fire>>
       ELSE marked' = TRUE /\ Start("worker", seen, "wait", "none")
    /\ PollDone
    /\ UNCHANGED <<clock, plan, booting, budget, seenBy>>

(* _spawn_from_schedule: the row is read again, but not whether it is due. *)
ReadSchedule ==
    /\ kind = "schedule" /\ worker = "read"
    /\ IF enabled
       THEN worker' = "spawn" /\ seen' = [slot |-> due, edit |-> edits, stale |-> FALSE]
       ELSE PollDone
    /\ UNCHANGED <<clock, plan, booting, marked, made, fire, budget, seenBy>>

CronSpawn ==                                                    \* mutant
    /\ kind = "schedule" /\ worker = "spawn"
    /\ Start("worker", seen, "done", "pending")
    /\ due' = now + 1
    /\ overrode' = (overrode \/ seen.edit # edits)
    /\ PollDone
    /\ UNCHANGED <<clock, enabled, first, booting, marked, budget, cleared, early, stranded,
                   lost, setback>>

(* The task and the next run, computed from what was read before the       *)
(* prompt was resolved, in one commit.                                     *)
SpawnSchedule ==
    /\ kind = "schedule" /\ worker = "spawn"
    /\ Start("worker", seen, "done", "pending")
    /\ due' = seen.slot + 1
    /\ overrode' = (overrode \/ seen.edit # edits)
    /\ PollDone
    /\ UNCHANGED <<clock, enabled, first, booting, marked, budget, cleared, early, stranded,
                   lost, setback>>

(* A prompt that cannot be resolved rolls the transaction back.            *)
SpawnFails ==
    /\ kind = "schedule" /\ worker = "spawn" /\ Mishap
    /\ PollDone
    /\ UNCHANGED <<clock, plan, booting, marked, made, fire, edits, seenBy>>

NoAdvance ==                                                    \* mutant
    /\ kind = "subscription" /\ worker = "read"
    /\ IF enabled THEN worker' = "spawn" /\ UNCHANGED seen ELSE PollDone
    /\ UNCHANGED <<clock, plan, booting, marked, made, fire, budget, seenBy>>

(* _fire_subscription: the next time is committed first ...                *)
AdvanceSubscription ==
    /\ kind = "subscription" /\ worker = "read"
    /\ IF enabled
       THEN worker' = "spawn" /\ due' = now + 1 /\ UNCHANGED seen
       ELSE PollDone /\ UNCHANGED due
    /\ UNCHANGED <<clock, enabled, first, booting, marked, made, fire, budget, seenBy>>

(* ... and the run is spawned in a transaction of its own, or never.       *)
SpawnChild ==
    /\ kind = "subscription" /\ worker = "spawn"
    /\ \/ /\ Start("worker", seen, "done", "pending")
          /\ UNCHANGED <<mishaps, lost>>
       \/ /\ Mishap /\ lost' = lost + 1
          /\ UNCHANGED <<made, fire>>
    /\ PollDone
    /\ UNCHANGED <<clock, plan, booting, marked, edits, cleared, early, stranded,
                   setback, overrode>>

---------------------------------------------------------------------------
(* A heartbeat's fire.                                                     *)

(* The admin endpoint starts the wrapper without the mark; compaction's    *)
(* memory flush calls fire_heartbeat itself, if the row is enabled.        *)
FireByHand ==
    /\ kind = "heartbeat" /\ Asked < MaxAsked
    /\ Start("hand", NoSlot, "wait", "none")
    /\ UNCHANGED <<clock, plan, booting, poll, marked, budget, seenBy>>

FireByFlush ==
    /\ kind = "heartbeat" /\ enabled /\ Asked < MaxAsked
    /\ Start("flush", NoSlot, "begin", "none")
    /\ UNCHANGED <<clock, plan, booting, poll, marked, budget, seenBy>>

(* _heartbeat_semaphore lets the fire in, whatever became of the row.      *)
Enter(f) ==
    /\ fire[f].pc = "wait"
    /\ fire' = [fire EXCEPT ![f].pc = "begin", ![f].at = now]
    /\ UNCHANGED <<clock, plan, booting, poll, marked, made, budget, seenBy>>

OverWhenDone(f, row) ==                                         \* mutant
    /\ fire' = [fire EXCEPT ![f].pc = "done", ![f].row = row, ![f].at = 0]
    /\ IF fire[f].by = "flush" \/ row # "finished"
       THEN UNCHANGED <<marked, cleared>>
       ELSE /\ marked' = FALSE
            /\ cleared' = cleared \cup {g \in Fires \ {f} : Polled(g) /\ Alive(g)}

(* The coroutine is over: the wrapper's finally drops the mark, whoever    *)
(* set it.                                                                 *)
Over(f, row) ==
    /\ fire' = [fire EXCEPT ![f].pc = "done", ![f].row = row, ![f].at = 0]
    /\ IF fire[f].by = "flush"
       THEN UNCHANGED <<marked, cleared>>
       ELSE /\ marked' = FALSE
            /\ cleared' = cleared \cup {g \in Fires \ {f} : Polled(g) /\ Alive(g)}

(* The fire gives up before its row is there: an error, a channel that is  *)
(* gone, or a workflow that is still active.  The row stays due.           *)
GiveUp(f) ==
    /\ fire[f].pc = "begin" /\ Mishap
    /\ Over(f, "none")
    /\ UNCHANGED <<clock, plan, booting, poll, made, edits, early, stranded,
                   lost, setback, overrode>>

(* One transaction: the run's row, and the next run from the time at which *)
(* the fire started.                                                       *)
Insert(f) ==
    /\ fire[f].pc = "begin"
    /\ fire' = [fire EXCEPT ![f].pc = "run", ![f].row = "running", ![f].at = 0]
    /\ due' = fire[f].at + 1
    /\ early' = IF booting THEN early \cup {f} ELSE early
    /\ setback' = IF due # Never /\ fire[f].at + 1 < due THEN TRUE ELSE setback
    /\ UNCHANGED <<clock, enabled, first, booting, poll, marked, made, budget,
                   cleared, stranded, lost, overrode>>

(* The agent's run, its timeout, the harness hint or the trigger of the    *)
(* workflow comes to an end; the outcome overwrites whatever status the    *)
(* row has.                                                                *)
Finish(f) ==
    /\ fire[f].pc = "run"
    /\ Over(f, "finished")
    /\ UNCHANGED <<clock, plan, booting, poll, made, budget, early, stranded, lost, setback,
                   overrode>>

FinishFails(f) ==
    /\ fire[f].pc = "run" /\ Mishap
    /\ Over(f, fire[f].row)
    /\ stranded' = stranded \cup {f}
    /\ UNCHANGED <<clock, plan, booting, poll, made, edits, early, 
                   lost, setback, overrode>>

---------------------------------------------------------------------------
(* The process: a crash loses every coroutine and the marks.  main.py      *)
(* starts the worker, and resets the running rows afterwards.              *)

Restart ==
    /\ Mishap
    /\ fire' = [f \in Fires |->
                  IF Alive(f) THEN [fire[f] EXCEPT !.pc = "dead", !.at = 0]
                              ELSE fire[f]]
    /\ marked' = FALSE /\ booting' = HasRuns
    /\ lost' = IF kind = "subscription" /\ worker = "spawn" THEN lost + 1 ELSE lost
    /\ stranded' = {} /\ early' = {}
    /\ PollDone
    /\ UNCHANGED <<clock, plan, made, edits, cleared, setback,
                   overrode>>

ResetRuns ==                                     \* reset_stale_running_runs
    /\ booting
    /\ booting' = FALSE
    /\ fire' = [f \in Fires |-> IF fire[f].row = "running"
                                THEN [fire[f] EXCEPT !.row = "cancelled"] ELSE fire[f]]
    /\ stranded' = {}
    /\ UNCHANGED <<clock, plan, poll, marked, made, budget, cleared, early,
                   lost, setback, overrode>>

ResetFails ==                                    \* the process goes on
    /\ booting /\ Mishap
    /\ booting' = FALSE
    /\ stranded' = stranded \cup {f \in Fires : fire[f].row = "running" /\ ~Alive(f)}
    /\ UNCHANGED <<clock, plan, poll, marked, made, fire, edits, cleared, early,
                   lost, setback, overrode>>

---------------------------------------------------------------------------
PollStep == \/ PollRead \/ PollHeartbeat \/ ReadSchedule \/ SpawnSchedule \/ SpawnFails
            \/ AdvanceSubscription \/ SpawnChild

FireStep(f) == Enter(f) \/ GiveUp(f) \/ Insert(f) \/ Finish(f) \/ FinishFails(f)

Next ==
    \/ Tick \/ Toggle \/ PatchSubscription \/ PatchTask
    \/ PollStep
    \/ FireByHand \/ FireByFlush
    \/ \E f \in Fires : FireStep(f)
    \/ Restart \/ ResetRuns \/ ResetFails

Spec == Init /\ [][Next]_vars

(* The polls loop, a coroutine is scheduled, the agent's run has a timeout *)
(* and the slots of the semaphore are given back; time need not pass, and  *)
(* nobody need edit or click.                                              *)
FairSpec ==
    /\ Spec
    /\ WF_vars(PollStep)
    /\ \A f \in Fires : WF_vars(FireStep(f))
    /\ WF_vars(ResetRuns)

---------------------------------------------------------------------------
(* Every variable keeps its type.                                          *)
TypeOK ==
    /\ kind \in Kinds /\ now \in 0..MaxTime /\ enabled \in BOOLEAN
    /\ due \in Slots /\ first \in Slots /\ booting \in BOOLEAN
    /\ worker \in {"idle", "read", "spawn"} /\ seen \in Slot /\ marked \in BOOLEAN
    /\ made \in 0..MaxFires /\ fire \in [Fires -> Fire]
    /\ edits \in 0..MaxEdits /\ mishaps \in 0..MaxMishaps
    /\ cleared \subseteq Fires /\ early \subseteq Fires /\ stranded \subseteq Fires
    /\ lost \in Nat /\ setback \in BOOLEAN /\ overrode \in BOOLEAN

(* Two polls never fire the same slot.  A schedule and a subscription make *)
(* sure of it by moving on in or before the transaction that spawns; a     *)
(* heartbeat can fail it in two ways, each named: its poll read the row    *)
(* while another fire was in flight, or a slow fire wrote a next run       *)
(* computed from its start.                                                *)
SlotOnce ==
    \A f, g \in Fires :
        /\ f < g /\ Polled(f) /\ Polled(g)
        /\ fire[f].row # "none" /\ fire[g].row # "none"
        /\ fire[f].slot = fire[g].slot /\ fire[f].edit = fire[g].edit
        => fire[g].stale \/ setback

(* A schedule runs every slot, the missed ones too: what was spawned since *)
(* the last edit are the slots from that edit's up to the next one, each   *)
(* once, whatever fails or crashes between, unless a spawn wrote over the  *)
(* edit (tasks.py:310 adds to the time it read before it awaited).         *)
ScheduleGapless ==
    kind = "schedule" /\ ~overrode =>
        /\ {fire[f].slot : f \in Spawned} = first..(due - 1)
        /\ \A f, g \in Spawned : fire[f].slot = fire[g].slot => f = g

(* The worker runs a heartbeat once at a time, unless the mark of a run in *)
(* flight was taken.                                                       *)
NoOverlap ==
    \A f, g \in Fires :
        f < g /\ Polled(f) /\ Polled(g) /\ Alive(f) /\ Alive(g) => f \in cleared

(* A run that looks alive is alive: its coroutine runs, or its outcome or  *)
(* its reset could not be written, or the process is still starting.       *)
RunningIsOwned ==
    \A f \in Fires : fire[f].row = "running" =>
        \/ fire[f].pc = "run"
        \/ f \in stranded \/ booting

(* The reset cancels the runs of a process that is gone, and those the new *)
(* worker started before it.                                               *)
CancelledIsDead ==
    \A f \in Fires : fire[f].row = "cancelled" => fire[f].pc \in {"dead", "done"} \/ f \in early

(* The three together.                                                     *)
RunsAreTracked == NoOverlap /\ RunningIsOwned /\ CancelledIsDead

(* What is due is fired or no longer due, within the fires of the bound.   *)
DueIsServed ==
    Due ~> (~Due \/ made = MaxFires)

(* A running row ends, in this process or the next.                        *)
RunsSettle ==
    \A f \in Fires : (fire[f].row = "running") ~> (fire[f].row # "running" \/ f \in stranded)

(* The two together.                                                       *)
FiresProceed == DueIsServed /\ RunsSettle
=============================================================================
