# Spindrel: verification project

TLA+ models of the parts of Spindrel whose correctness depends on order,
failure and concurrency, model-checked with TLC and, where marked, proved with
TLAPS. Paths are relative to the repository (`src/` in `PROJECT.json`).

## 1. The system

Spindrel is a FastAPI server on one asyncio loop with a PostgreSQL database. A
message is posted to a channel's session; an agent loop answers it; the answer
is stored, pushed to browsers and widgets over server-sent events, and delivered
to integrations (Slack, Discord, ...). Background workers poll the database:
tasks, outbox, heartbeats, workflows, schedules.

| Component | State it keeps | Operations | What makes it correct |
|---|---|---|---|
| Outbox and drainer (`services/outbox.py`, `outbox_drainer.py`, `outbox_publish.py`) | `outbox` rows: state, attempts, defer count, due time; the drainer's batch in memory | enqueue in the message transaction, claim, render, mark delivered / failed / deferred, announce, reset at start-up | no accepted row is lost; duplicates and retries are bounded; what is claimed belongs to the drainer; dead letters are announced |
| Event bus (`services/channel_events.py`) | next sequence number and replay ring per channel, bounded queue per subscriber, shutdown event | publish, subscribe with replay, overflow, shutdown | a gap is always told, never silent; order per channel |
| Stream clients (`api_v1_channels.py`, `widget_action_stream.py`, `useChannelEvents.ts`, `InteractiveHtmlRenderer.tsx`) | cursor | connect, read, reconnect | a client resumes where it was, and comes to know, or is told that it may lack, everything published since its first frame |
| Renderer dispatchers (`services/channel_renderers.py`) | one global queue, a context per channel | dispatch, resubscribe, stop | a context lives as long as its turn |
| Session locks (`services/session_locks.py`) | active keys with age, cancel flags | acquire, release, request_cancel, sweep | runs of a session are serialized; a cancel stops the run it was aimed at |
| Chat turns (`services/turns.py`, `turn_worker.py`, `routers/chat/_routes.py`) | the running coroutine; message rows | start or queue, run, persist, end, cancel | each message is stored once, each turn that starts ends |
| Task worker (`agent/tasks.py`) | `tasks` rows: status, due time, retry count | fetch, lock or defer, run, complete, retry, recover | each message settles; each task runs no more often than its retries allow |
| Pipeline step executor (`services/step_executor.py`, resolve in `api_v1_admin/tasks.py`) | step definitions and step states inside a task row; a child task per agent step | run, skip, ask, answer, spawn, report, finalize, recover | steps run in order and once, with one driver; a prompt holds what is behind it; a run ends |
| Workflow executor (`services/workflow_executor.py`) | a run row with step states, a task per running step | trigger, advance, complete, approve, skip, retry, cancel, recover | deprecated and dormant (`docs/guides/ubiquitous-language.md:217`), replaced by pipelines |
| Compaction (`services/compaction.py`) | summary, watermark and sections of a session; queued and running rows of requests; a registry of asyncio tasks | request, queue, drain when a turn ends; compact after a turn, by request, or inside an HTTP call | what the watermark passes is in the summary and in a section; requests end and are told how |
| Schedules, subscriptions, heartbeats (`agent/tasks.py`, `services/task_ops.py`, `services/heartbeat.py`) | next-run times, heartbeat runs, in-flight marks | poll, fire, advance, fire by hand, edit, reset at start-up | a slot is fired once and not left out; runs do not overlap and end |
| Approvals and harness questions (`agent/approval_pending.py`, `agent/loop_dispatch.py`, `agent/tool_dispatch.py`, `routers/api_v1_approvals.py`, `services/agent_harnesses/`) | approval and tool-call rows, futures, session and turn allows | ask, decide, answer, time out, stop, sweep | a tool runs on consent only; row, call and asker agree; asks end |
| Session plan mode (`services/session_plan_mode.py`, its routes, tools and guard) | a Markdown file per plan; mode, revision, accepted revision and marks in the session's metadata | draft, publish, revise, approve, set steps, record progress, replan, exit, resume; guard a tool; mark a turn | mutating tools run only under an approved plan; file and metadata agree; a turn without outcome stays marked |
| Agent loop and its history (`agent/loop.py`, `loop_dispatch.py`, `loop_helpers.py`, `services/sessions.py`, `session_writes.py`) | the run's messages, the tool calls at hand, the stored rows | load, ask the model, dispatch one by one or in parallel, wait for an approval, collapse, store | the model is asked with whole transcripts; results of tools are not forgotten; a call told as cancelled never began |
| Context assembly, model providers | prompts | fill a prompt, retry, fall back | not modelled: a call of a model answers, is cut off or fails |
| Widgets, memory, indexing, integrations, UI, admin API | many small tables | mostly CRUD and rendering | not modelled |

How they interact: a chat turn (or a queued task) holds the session lock, runs
the agent loop, publishes turn events on the bus, and calls `persist_turn`,
which writes messages and outbox rows in one transaction. Browsers and
dispatchers read the bus; the drainer reads the outbox; the bus carries the
ephemeral kinds, the outbox the durable ones. `release` of a session lock also
schedules a queued compaction. A tool call that needs consent makes the turn wait
on a future that a request of a user resolves; in a session with a plan, the plan's
mode decides which calls may run at all. Heartbeats, schedules and
subscriptions start turns, tasks and pipelines by the clock. A pipeline run is a task whose agent steps are
child tasks: the worker runs both, and the end of a child calls back into the
executor, which drives the run on in that child's coroutine.

The hard behaviours (the list with lines is `hazards` in `PROJECT.json`): two
requests racing for a session; a cancel, a janitor's sweep or a stuck-task
recovery landing between two awaits; crashes between claim, render and mark;
retries and deferrals sharing counters; queues that overflow and rings that lag;
a restart under clients that keep their cursors; errors inside error handling;
several coroutines driving one pipeline run from copies of its step states;
compactions that overlap on one session; a decision racing a time-out, a stop
and a sweep; a poll that acts on rows it read before; handlers that each commit
the whole metadata they read; a cancel that lands among parallel tools; a history
that was loaded before another run ended.

## 2. Modules

| Module | Models | Needs |
|---|---|---|
| `DurableDelivery` | what the outbox promises: owed until shown or given up | |
| `Outbox` | table, publishers' transactions, drainer, crash and start-up | `DurableDelivery` (refined) |
| `ChannelBus` | bus, SSE clients, dispatchers, shutdown and restart | |
| `DeliveryProofs` | theorems about `Outbox` and `ChannelBus` | `Outbox`, `ChannelBus` |
| `SessionTurns` | session lock, chat turns, queued tasks, cancel, janitor, recovery | |
| `SessionTurnsProofs` | theorems about `SessionTurns` | `SessionTurns` |
| `StepMachine` | what a pipeline run promises: its steps one by one, in order, until a fork lets it loose | |
| `Pipeline` | a pipeline run, its children, the worker, resolve requests, recovery | `StepMachine` (refined) |
| `PipelineProofs` | theorems about `Pipeline` | `Pipeline` |
| `Approvals` | asks of an agent's or harness's tool and of a harness's question, deciders, sweep, stop | |
| `ApprovalsProofs` | theorems about `Approvals` | `Approvals` |
| `Compaction` | automatic, manual and direct compactions of one session, with its lock | |
| `CompactionProofs` | theorems about `Compaction` | `Compaction` |
| `Schedules` | a heartbeat, a recurring task or a subscription, its poll and its fires | |
| `SchedulesProofs` | theorems about `Schedules` | `Schedules` |
| `PlanMode` | the plan of one session: its file, its metadata, handlers, turns and their tools | |
| `PlanModeProofs` | theorems about `PlanMode` | `PlanMode` |
| `AgentLoop` | the runs of one session from the history they load to the rows they store | |
| `AgentLoopProofs` | theorems about `AgentLoop` | `AgentLoop` |
| `MCOutbox`, `MCChannelBus`, `MCSessionTurns`, `MCPipeline`, `MCApprovals`, `MCCompaction`, `MCSchedules`, `MCPlanMode`, `MCAgentLoop` | finite instances | |

Definitions marked `\* mutant` are deliberately broken variants of the
definition that follows them. Nothing uses them; they document, for each
property, a plausible bug of the code that the property catches.

### Outbox

A row is a triple (turn, record, target) and each column is a function on rows.
`available_at` is a Boolean: backoff and the 30 s requeue clear it, `BecomeDue`
sets it. `CommitTurn` inserts a row per record and target in the turn's
transaction; the records are any subset, since suppressed ones get no row, and the
targets are those the channel is bound to then (`Bindings`).
`created_at` defaults to the database's `now()`, the *begin* of the transaction,
so rows of one turn tie and a long turn's rows sort before its commit.
`ClaimBatch` is `fetch_pending` with `mark_in_flight`; the loop then handles one
row at a time: `DeferNoRenderer`, `FailReconstitution`, `SkipIncapable`, or
`Render` followed, in another transaction, by `MarkOutcome`. `MarkError` is a
database error in such a transaction. `PublishDeliveryFailed` is a step of its
own, because the dead letter is committed before it is announced. `Crash` loses
the batch and open transactions; `Startup` is the lifespan code: renderers load,
`reset_stale_in_flight` runs (or fails and is logged), the drainer starts.
The repository runs one server process, so there is one drainer.

### ChannelBus

An event is its channel, sequence number and kind. `Publish` numbers,
remembers and fans out in one step, as the code does without an await.
`Connect` registers the queue and copies the ring in one step for the same
reason. The browser and the widget differ exactly where their code differs:
after a lapse the browser forgets its cursor (and refetches over REST, which is not
modelled), the widget goes on from the sentinel's number and calls its author; on a
shutdown frame the widget stops for good.
A frame lost on the wire is a `Disconnect` before the read. A dispatcher's `target`
is what its lookup finds for the event at hand; `Passed` collects the early returns of
`_dispatch`. `at`, `have`, `base`, `missed` and `leaked` are observers; no guard reads
them. `have` is what a client got or was told it may lack, `base` where the connection
began on which it read its first frame, `leaked` the contexts whose turn's end was
passed over. `at` is the last event a subscriber
took or was told to have lost. It is not the cursor: a widget that was told of a gap
in the ring and is cut off before the first event behind it comes back with its cursor
before the gap, and is told once more; it was past the gap and stays past it.
Its names begin with `Bus`, because one module has the proofs of both ways out of
the server, the outbox and the bus.

### SessionTurns

One session. `pc[r]` is where the coroutine of request `r` stands; a step is the
code between two awaits that other coroutines can tell apart. `Post` is the
acquire in `start_turn` or the busy branch that stores the message and a pending
task. The turn's points follow `run_turn`; the task's follow `run_task`.
Database calls in them may fail before or after their commit (`committed`,
`ok`). `Age` says that two hours passed on one acquisition; the observer
`outlived` remembers that this happened while a run held the lock, which the
comment in `session_locks.py` rules out and the code does not. `RecoverStuck` is
`recover_stuck_tasks`; its clock starts at the fetch, so the coroutine may still
be running. `Cancel` and `CancelTasks` are the two halves of `/chat/cancel`
around its await.

### Pipeline

One run. `steps` is the definition: a sequence of steps with their kind, whether
a failure aborts, and whether there is a `when`. `states` is the status column
of `Task.step_states`; `child` holds the rows of agent steps. `mine[k]` is the
deep copy of the step states a coroutine drives from, and every commit writes
that copy back whole (`_persist_step_states`): that is what makes a second
driver dangerous. `pc[k]` is where the coroutine of the run, of a child, of the
worker or of a resolve request stands; `Driving` lists the points inside
`_advance_pipeline` and the callback. `Continue` is the loop's skipping of ended
steps. What a tool, a template, a condition, `fail_if` or a model returns is
chosen freely; `exec`, `tool` and `evaluate` steps differ only in that and are
one kind, `exec`. `SpawnChild` and `LinkChild` are the two transactions of
`_spawn_agent_step`; `EndChild`, `ReadRun` and `RecordStep` the three of a
child's end. `RecoverRun` and `RecoverChild` may act on any running row: that
the row is past its timeout is a matter of time, and a live coroutine may be
behind it. `CancelQueued` is the half of `/chat/cancel` that fails pending rows.
`Raise` is an exception at any point of driving; only `run_task_pipeline`
handles it. `SYSTEM_PAUSED` and nested pipelines are left out, and so are the
envelope anchor and the step-output messages, which no step reads.

Three kinds of observer state the properties. `forks` collects the events after
which two coroutines may drive the run; finding them was the point of
`OneDriver`, and each is a hazard in `PROJECT.json`. `dropped` says that a driver
or a report was lost. `started`, `rerun` and `passed` remember which steps were
started, started again, and answered or skipped. No guard reads them.

`StepMachine` is what is left when coroutines, copies, children and requests are
taken away: the row alone. A run is fetched or deferred; a step begins, is
skipped, ends as its kind can end, or asks and is answered, and only when every
step before it has passed; the run is closed behind its last step or behind one
that aborted, with the status that its steps give it. `RunPromise` maps `steps`,
`status` and `states` to themselves and `loose` to `forks # {}`. `Break` is what
the crash handler, the recovery of a stuck run and `/chat/cancel` do to the row; it
may happen at any time but while the run waits for its user, whom no sweep
overtakes. Once loose, nothing is promised but the types.

### Approvals

An ask is a tool call of the agent loop (`tool`), a tool of a harness
(`harness`), or a question of a harness (`question`). `Ask` writes the approval
row and, for a tool, the call's row; `Register` makes the future; then the asker
waits (`pc`) and is woken, times out, or is stopped. A decision is read, changed
in memory (`DecideReconcile`, where a session or turn allow is registered) and
committed in steps of their own, and only then resolves the future; an answer to
a question that nobody waits for starts a task instead. `Timeout`, the stop of a
turn and the sweep of `heartbeat_worker` race with it. Every commit writes what
it computed from the row it had read, so it may overwrite a newer row; the
observers `overwritten`, `undone`, `unheard` and `lost` name the cases the code
leaves open. Ages and the sweep's limit of 100 rows are left out, and so are
rules created with a decision and events to the user interface.

### Compaction

Messages are numbered; the summary and the archive of sections are sets of
messages, the watermark is a number. `pc[c]` is where a compaction stands: `0` is
the one slot of `_MANUAL_COMPACTION_TASKS`, then the turns (an automatic
compaction each) and the HTTP calls. `view` is what it read before its last
await. `rpc` and `found` are the same for a request to the manual queue. `Write`
makes the section, which is committed for an automatic compaction and only
flushed for a forced one, and extends the summary or leaves it to
`Regenerate`, which reads committed sections only. `Commit` sets summary,
watermark and sections at once. `TurnEnd` is `release` with the drain it
schedules. Rows are looked for among the hundred newest messages of the session;
`Bury` says that one more row has left them (`hidden`), which a long turn does to the row
that waits for it. An error on the way to a row strikes before its commit or in the
refresh or publication after it (`ReqFail` and `ReqCut`, `DrainFail`, `TellFail`). The
lock is that of `SessionTurns`, seen from outside. `outrun` and
`omitted` name the messages the code forgets; `joined`, `revived`, `missed`,
`stuck`, `mistold` and `hidden` the excuses of the other properties. A regeneration that
fails appends instead, which is the same as not regenerating.

### Schedules

A behaviour has one row of one kind. Time is counted in slots of the row. The
poll reads due rows (`PollRead`) and acts on them later: `PollHeartbeat` starts a
coroutine unless the heartbeat is marked in flight; `ReadSchedule` and
`SpawnSchedule` are `_spawn_from_schedule` around its await;
`AdvanceSubscription` and `SpawnChild` are the two transactions of
`_fire_subscription`. A heartbeat's fire waits for the semaphore (`Enter`), gives
up or inserts its run row and moves the next run (`Insert`), and ends (`Finish`).
`Restart` loses coroutines and marks; `ResetRuns` is the reset that `main.py`
calls after it started the worker (`booting`). Observers name each way in which
the code lets a property go: `stale` polls, `setback`, `cleared` marks, `early`
and `stranded` rows, `overrode`.

### PlanMode

One session. `meta` is the committed metadata, `file[s]` the plan file of a task
slug. A handler is a route, a tool call, a background record or the turn
supervisor; each reads the session (`Read`), works without an await on the file
and on its `copy` of the metadata, and commits the copy as a whole. `Note` is the
middle of a handler that changes only metadata, `Save` (`save_session_plan`) of
one that writes the file too, at once, long before its `Commit`, which may `Fail`.
A tool call whose own work is not on the plan is `RunTool`: the guard allows it.
The guard's session and the tool's are two reads in the code and one here. Calls
belong to the turn in `phase` "run"; the supervisor acts when it ended. Steps that
a client or the model may draft are given (`Drafted`), whether a plan passes
validation is chosen freely. `Remark` stands for what rewrites the metadata
without touching what decisions read: notes, answers, evidence, reviews, leases.
The code keeps the last 20 outcomes; the model keeps all. The text of a plan is a
number that counts the texts its file has had; it, `approved`, `ran`, `marked` and
the flaws `overwritten`, `torn` and `reused` are observers that no guard reads.

### AgentLoop

One session. A message is a row with its role and its calls or its answer; system
rows, texts, images and usage are left out. `store` is the session's rows, `msgs`
the list a run works on, of which the first `from` rows are history. `LoadHistory`
and `StartTurn` are apart because a chat request loads before it takes the lock;
a queued task (`StartTask`) loads under it and trims. A chat loads the rows behind
the watermark `mark`, and in plan mode only the last `LiveTurns` turns of them;
`skips` counts the rows a load left out. `MoveMark` is all that is seen of a
compaction here: it puts the watermark before the oldest turn it keeps, whichever
that is (`Compaction` has the rest). `who` is the holder of the
lock, whose failures are in `SessionTurns`. `CallModel` to `ForcedFails` are the
iteration of `run_agent_tool_loop`, `_handle_no_tool_calls_path` and
`_handle_loop_exit_forced_response`; `StartNext` to `EndIteration` are
`dispatch_iteration_tool_calls`, one by one (`single`) or in parallel (`batch`),
where `Acquire` is a tool that gets the semaphore and reads the cancel flag.
`Decide` is the verdict of an approval (its row and future are in `Approvals`).
`Collapse`, `Visible`, `Recent`, `Sanitize` and `Prune` are the functions that
rewrite the list, translated as functions of a sequence. `Persist` stores what
`persist_turn` stores (`Stored`). What a model answers is chosen freely, also a
call where it was asked for none. Observers: `ran`, `begun`, `lost`, `overtaken`.

## 3. Runs

Passing runs:

| Run | Instance | Shows |
|---|---|---|
| `outbox_order` | 2 turns of one message on a channel bound to an integration that can show it or to one that cannot, batch of 2, 2 attempts, 1 defer, 1 crash, 1 fault | `InFlightIsHeld`, `RetriesBounded`, `DeadLettersTold`, `FirstTriesInOrder`, `DeliveryPromise` (`Outbox` implements `DurableDelivery`), and under fairness `EveryRowSettles` |
| `bus_clients` | a browser and a widget, queue 2, ring 2, 4 events, 1 break, 1 restart | `OverflowTold`, `NeverGoesBack`, and under fairness `EventuallyKnown` |
| `bus_dispatch` | a dispatcher, 2 channels of 3 events, queue 2, 1 exception, 1 restart | `ContextsFollowTurns` |
| `turns_serial` | 2 requests, 2 faults, 1 cancel, 1 restart, 1 retry, a lock that may be outlived | `LockIsTheRun`, `CancelHitsItsRun`, `StartsAccounted`, `ChatTurnsWhole`, and under fairness `EveryMessageSettles` |
| `pipeline_steps` | all pipelines of at most 2 unconditional steps (behind an agent only short ones), two agents, 3 with conditions; 2 children, 2 users (symmetric), 1 deferral, 1 exception, 1 restart | `OneDriver`, `OrderKept`, `GateHolds`, `RunPromise` (`Pipeline` implements `StepMachine` until forked) |
| `pipeline_live` | 6 pipelines, up to agent, prompt, exec; 2 children, 1 user, 1 restart | under fairness `RunsProceed`: a run ends or waits for its user by itself unless its driver is lost, and recovery ends it in any case |
| `approvals_human` | 2 asks of any kind in 2 turns, 2 decisions, 1 stop, 1 error or restart, 3 deciders, stops and sweeps in all | `RunsOnConsent`, `RecordsAgree`, `AnswersContinueOnce`, and under fairness `AsksClose` |
| `compaction_overlap` | 3 messages of which 1 stays live, 3 turns, 1 call, 2 requests, 2 compactions of turns, calls and requests together (and the drains they cause), 1 mishap | `MessagesCovered`, `RowsOwned`, `RowTellsTruth`, `ManualWhenIdle`, `WatermarkForward`, and under fairness `RequestsSettle` |
| `schedules_fires` | one row of any kind, 3 slots, 2 fires, 2 clicks or flushes, 1 edit, 2 mishaps | `SlotOnce`, `ScheduleGapless`, `RunsAreTracked`, and under fairness `FiresProceed`: what is due is served, and runs settle |
| `loop_history` | 3 requests (symmetric), at most 4 requests and tool calls together, a watermark before any turn, chats that load all behind it or one turn (`LiveTurns`), answers of up to 3 calls, 2 at a time, 2 iterations, 1 cancel, 1 exception or restart | `PromptsWhole`, `ResultsKnown`, `CancelHonest` |
| `plan_session` | 1 plan of 2 steps, 2 routes (symmetric), 1 call at a time and the supervisor, 4 handlers in all, 2 turns, 1 failed commit or restart | `WorkIsApproved`, `PlanAgrees`, `MarkedTurnsOwe` |

A property with several parts (`InFlightIsHeld`, `RetriesBounded`,
`DeadLettersTold`, `OverflowTold`, `LockIsTheRun`, `ChatTurnsWhole`, `OrderKept`,
`RecordsAgree`, `RunsAreTracked`, `AsksClose`, `RunsProceed`, `FiresProceed`,
`CancelHonest`) is the conjunction of the named formulas above it. The type
invariants are proved, that of `AgentLoop` as a part of `ResultsKnown` and that of
`ChannelBus` as a part of `OverflowTold`.

The run that refutes what a document says (quoted under `findings`):

| Run | Refuted claim | Shortest story |
|---|---|---|
| `compaction_forgets` | compaction summarizes the exact range its watermark passes (`context-management.md:319`) | a forced compaction regenerates the summary in a database session that cannot see the section it has only flushed; the watermark then passes messages the summary does not tell of |

Divergences met while modelling that have no run of their own, because the line
itself, or one path through the model, shows them.

*Outbox and bus.* `_deliver_one` drops the state that `mark_failed` returns when
the renderer raised or the row did not parse (`outbox_drainer.py:144`), so such a
dead letter is never announced, though `delivery_state.py:40` says it is.
`count_pending_for_target` (`outbox.py:292`) does not count the row being
rendered, though its docstring says it counts everything the drainer still works
on. A restart numbers events from 1 again (`channel_events.py:77`) below the
cursor of a client, which then misses events without a `replay_lapsed`, though
`api_v1_channels.py:1796` promises one or the other. The web client drops its
cursor on a lapse (`useChannelEvents.ts:761`), though `channel_events.py:314`
expects it to resume with `since`; it refetches and reconnects in parallel, and
what is published in between is in neither answer. A widget that is cut off before
its first frame reconnects without `since` (`InteractiveHtmlRenderer.tsx:1302`) and is
told nothing of what was queued for it. A dispatcher's gap loses
ephemeral events, which the outbox does not cover (`channel_renderers.py:165`). A
`TURN_ENDED` that finds its channel unbound (224), or a renderer without its capability
(204), is passed over and leaves the context, though 272 says that renderers can rely
on the drop.

*Turns and tasks.* A message queued on a busy session is stored by the request
(`chat/_routes.py:445`) and again by its task, though `tasks.py:1243` is there so
that it is not. The rate-limit retry (`tasks.py:1418`) publishes no `TURN_ENDED`.
A chat turn has no overall timeout, so the sweep may free a running turn's lock
(`session_locks.py:92`), though line 10 says that a healthy long run is never
swept. A task that was fetched but has not passed the lock survives a cancel
(`chat/_routes.py:695`), though line 673 says queued tasks are cancelled.
`run_task` writes its final status without looking at the row (`tasks.py:1383`),
so a task recovered as stuck may become complete again. When the mention lookup
(`turn_worker.py:634`) raises, a local of the `finally` (`_auto_injected_skills`,
690) is unbound at 990, 996 swallows the error, and the turn publishes no
`TURN_ENDED`, though 967 says that it always does. A chat turn that runs when the
process restarts is neither resumed nor failed nor told as ended; a queued message is
recovered. `EveryMessageSettles` names these two as `CutShort`.

*Pipelines.* `recover_stuck_tasks` (`tasks.py:1511`) fails a run that waits at a
`user_prompt` longer than its timeout (20 minutes by default), though
`docs/guides/pipelines.md:108` says that a prompt pauses the pipeline until
somebody resolves it. `tasks.py:823` says that pipeline children skip the session
lock, but `_skip_lock` (890) is true of delegations only. A child that ends after
its run was recovered drives the failed run on (`step_executor.py:1446`), though
`docs/guides/pipelines.md:229` says an abort stops the pipeline.

*Approvals.* The sweep leaves the tool call's row at `awaiting_approval`
(`heartbeat.py:986`). An answer given while the question's card is still being
published pops the future, and the asker then waits on a new one until it times
out (`agent_harnesses/interactions.py:284`, `api_v1_sessions.py:1074`). A
session's allow is registered before the decision commits
(`api_v1_approvals.py:232`).

*Compaction.* A forced compaction reads the messages (`compaction.py:1979`),
flushes memory, and computes the watermark (2001) of the messages there are then:
what came between is behind the watermark and in no summary. It summarizes the
live window too, though `docs/guides/context-management.md` says that the two
never overlap. `_start_manual_compaction_task` (1842) ignores a second start, and
the row of that request stays running. `_find_latest_compaction_run` reads the hundred
newest messages (400): a request that is queued behind a turn which stores as many is
never found by the drain, and an active one no longer keeps others away. Where turns
follow each other for ever, so may drains that find the lock taken again (1925);
`RequestsSettle` holds as turns are bounded.

*Schedules.* "Fire now" (`api_v1_admin/channels.py:1534`) goes through
`_safe_fire_heartbeat`, whose `finally` (`heartbeat.py:1054`) drops the mark of
the worker's own fire, though 965 says the set keeps a running heartbeat from
being queued again. `main.py:738` says the running rows are reset before the
worker starts; 650 starts it first. The next run is counted from the start of a
fire (`heartbeat.py:735`), so a slow fire moves it back. A poll fires a heartbeat
that was disabled after it was read. `run_count` is read, awaited and written
(958), so increments are lost. A crash between the two transactions of
`_fire_subscription` (`tasks.py:371`) loses the run. An edit of a schedule while
it is spawned is written over (310). `tools/local/tasks.py:849` says that clearing
the time runs a schedule at the next poll, but `spawn_due_schedules` never selects
a row without a time. `_spawn_from_schedule` does not copy the steps of a
pipeline, which `spawn_child_run` does.

*Plan mode.* `request_plan_replan` sets the runtime's `replan` (`session_plan_mode.py:1804`),
every later capsule copies it (668), and nothing clears it: after a replan was
revised and approved again, mutating tools stay denied (2132), though the denial
says "until the plan is revised and approved again" (2160). A second plan starts at
revision 1 and keeps the accepted revision of the first (1341): when its drafts
reach that number they count as approved. Its first snapshot does not replace one
of the same slug (1318). `step_done` may leave two steps in progress, or mark a plan
done while a step is blocked (1735). An outcome that is recorded while an older turn
is marked goes to that turn (925), and the current one is marked in its place. While
planning, MCP tools of any tier may run (2115), though `tool_dispatch.py:856` says
no network and no write paths. A semantic review commits the metadata that was read
before its model call.

*Agent loop.* An injected skill is a call whose id is a hash of the skill
(`loop.py:1137`), so two stored injections share an id; when one of them is hidden or
trimmed, `_sanitize_tool_messages`, which looks for the last of an id, may leave a
transcript with two answers, though it says that it makes every one valid
(`sessions.py:991`). A request that loaded its history before a run that has ended
since answers without that run's messages. `last_fallback_info` is set inside a
streaming call's own task (`llm.py:536`), so `loop.py:523` does not see it. `run` has
no branch for a cancelled run (`loop.py:1324`): a cancelled task is marked complete,
with an empty result. `/chat/cancel` does not end the wait for the approval of a tool,
and a tool that is then approved runs after the cancel (`loop_dispatch.py:246`).

**Bounds.** Crashes, faults, restarts, breaks, cancels and events per channel
are capped (`Max...`); each is at least one in the runs where it matters, and
the interesting orders need one or two of each. Queues and rings of two already
overflow and lag independently. Retry limits of one or two separate "first",
"again" and "exhausted". In a pipeline two steps have a before and an after, a
third is needed behind a prompt behind an agent; two children let a recovered
child race a live one, two users answer at once. Two asks let an allow given for
one decide the other; two decisions race. Two compactions overlap, with a third
from the queue, over three messages: one summarized, one between, one live. Three
slots and two fires make a missed slot, its catch-up and a duplicate. Four handlers
create, approve, redraft and replan beside a tool call and two turns, with two of
them overlapping. At most four messages and calls together (`MaxWork`): three
messages and a call make a history of a history, one message and three calls a batch
with one tool at work, one that waits and one behind it; the 2 and 4 turns that plan
mode loads are one there (`LiveTurns`), so that two turns already make a trim. The
proofs remove the bounds for all safety properties.
`CHECK_DEADLOCK FALSE` everywhere: when all turns are done and
the bounds are spent, these systems rest.

**Fairness.** `Outbox`: the worker loop never exits (`outbox_drainer_worker`
catches everything), time makes rows due, and docker-compose restarts the
container. `ChannelBus`: a client retries its connection for ever. Publishing
and breaking are never fair. `SessionTurns`: coroutines are scheduled, the task
worker and the session janitor poll for ever, timers fire. `Pipeline`: the same;
a run or a child meets an idle session some day (strong fairness of `BeginRun`,
as it may be deferred again and again), `run_task` times its child out, a row
nobody works on is recovered. `RunSettles` (in `RunsProceed`) assumes in addition that the run's
own row is recovered some day, live or not. A user need never answer.
`Approvals`: coroutines go on, time-outs fire, the sweep polls; nobody need
decide. `Compaction`: a turn ends, the manual coroutine and a request that was
accepted go on; model calls may fail, which the code handles. `Schedules`: the
polls loop, coroutines go on (a run has its timeout), the reset runs. `PlanMode` and
`AgentLoop` have safety properties only and assume none. No
fairness is assumed for faults, cancels, crashes or users.

## 4. Proofs

`DeliveryProofs`, of `Outbox`, for any finite set of turns, any records, targets and
limits (`OutboxAssumption`):

* `TypeCorrect`. The type invariant needs `DrainerShape`: the stage says whether
  the drainer has a current row, and it is not in the batch.
* `DrainerOwnsInFlight`, `RepostsAndRetriesBounded`. None of the
  checked invariants is inductive alone. `IInv` adds: a row exists only if its
  turn committed (else a late commit could overwrite a live row); a stronger
  count of posts that distinguishes whether a row is in the middle of an
  attempt (`RepostSlack`); the budget for every row in its class (`Budget`); and
  that the outcome held in memory says that the row was shown (`OutcomeTrue`).
* `DeadLettersAnnounced`: only dead rows are announced, and without crashes and errors
  every dead row of a failed receipt is announced before the drainer turns to another.
* `FirstTriesOrdered`: `OrderInv` says that a row nobody tried is due, so a batch that
  has a row of a later turn has it too (`ClaimedFirst`), and takes it up first; begins
  and commits are stamped with a clock that never goes back (`Stamped`).
* `OutboxDelivers`: `Spec => Promise!Spec`. Each action maps to a step of
  `DurableDelivery` or to a stutter; commits are `Accept`, channel deletes
  `Withdraw`, renders `Show`, marks `Finish` or `Abandon`. The case that needs
  the invariant is a mark: it acts on a row that must still be owed, which is
  `HeldIsInFlight`, and finishing needs that it was shown, which is `OutcomeTrue`.

`DeliveryProofs`, of `ChannelBus`, for any channels, clients, dispatchers, kinds, and
sizes of queue and ring (`BusAssumption`). One invariant, `BusInv`, shows all three
properties, none of which is inductive:

* `OverflowIsTold`. The ring is the end of what was published, without a hole
  (`RingHolds`). Of each subscriber the invariant says what is still ahead of it, in two
  pieces. What is replayed goes on where the client is, or behind the gap its sentinel
  tells of (`ReplayFlows`); what is queued goes on where the replay ends, up to the
  last event, in order (`QueueFlows`, with `Runs`), as the queue is registered and the
  ring copied in one step. An overflow empties the queue but for a sentinel, which so is
  the first item and lies behind everything replayed. The check on
  `replayed_seqs` never swallows an event the client lacks, as replayed numbers are
  behind the client by then and queued ones before it. `WidgetHas` follows the widget
  through its reconnections: what it is past, it got or was told of.
* `NeverBack`. A client comes back with its cursor, so the invariant must say where
  that is, also while it has no stream: where the client is, or before a gap in the
  ring it was told of (`CursorFlows`), so that the replay tells of that gap again.
* `ContextsFollow`. The context goes by the kind of what was handled, the property by
  that of what is in the ring. `Agrees` says that the two are the same events, and
  `Opens` that of those a dispatcher with a context has taken, none that
  closes a turn is the last that counts, unless that one was passed over (`leaked`). A dispatcher that lost an event is excluded,
  so the invariant says who cannot have: one that never overflowed or raised.

Most steps are one subscriber's own; `OneSteps` shows once that such a step leaves the
rest of the invariant alone. The position of an event in the ring is its number less a
constant, so that what `Newer` gives is found by counting (`Cardinality` of an initial
segment) and not by induction over `SelectSeq`.

`SessionTurnsProofs`, for any set of requests and any number of faults, cancels
and restarts (`TurnsAssumption`):

* `TurnsTypeCorrect`.
* `StartsCounted`. Strengthened by where a request may be when its count is not
  yet spent (`Starts`).
* `TurnsSerialized`: while no run has outlived the lock. `Serial` says who holds the lock
  and that an aged lock has no run inside; every step either keeps the lock with
  its run, takes it, or drops it while leaving (`Keeps`, `Takes`, `Drops`).
* `CancelsAimed`: the flag is up only while the run it was aimed at holds the
  lock.
* `ChatStoredAndTold`. `WholeInv`: a request without a task is a chat turn, which
  stores its message and says that it began in one step, after which neither happens
  again while nothing raises, and which, done, has said that it ended as often as that
  it began, but for the error before the skill list is bound.

`PipelineProofs`, for any pipelines, children, users and bounds
(`PipelineAssumption`):

* `PipelineTypeCorrect`. `TypeOK` needs `Positions`: a driving coroutine is at a
  step the run has, or one past the last.
* `GateHeld`: no step behind a prompt starts before the prompt was answered or
  skipped, even when several coroutines drive. It is not inductive, because a
  step starts from a copy that may be stale. The invariant (`GateIInv`) says of
  every copy, of the row and of every child that they are `Honest`: they show no
  prompt ended that is not in `passed`, and stand only behind such prompts
  (`Clear`). `passed` only grows, so stale copies stay honest. The one action
  that could make a prompt ended without an answer is the crash handler, which
  turns a running step into a failed one. The phases of the run's own coroutine
  (`Before`, `First`, `Linking`, `Gone`) show that when it crashes either nobody
  else has taken part, so the run is `Over`, or its child outran it, which the
  property excludes.
* `DriverIsOne`, `OrderIsKept`, `FinishedUntouched`: while none of the five forks has
  happened. One invariant, `DriverInv`, gives all three, and none is inductive without
  it. Driving is not the right notion to count: a run is also held by its coroutine
  before it begins, by a child that is queued, at work or reporting, and by an answer
  on its way (`Holds`). Two may hold it only while a spawner has not stored its child's
  id (`Linked`), nobody does while a prompt is open or the run has ended (`Halted`). A
  sole holder's copy of the steps is the row (`Stands`), so what it writes back keeps
  the order; an answer that was read by another request is of a step that has ended.
  Each action but the five forking ones then has a sole holder (`DriverAlone`,
  `ReportAlone`, `AskedAlone`) that moves (`Moved`), turns its step (`Turned`) or ends
  the run (`RunEnds`).
* `RunIsMachine`: `Pipeline` implements `StepMachine`. The refinement needs more than
  the order, namely why a step may be passed, so `PathInv` stands beside `DriverInv`: only
  prompts wait for a user, behind a step that aborted nothing has begun and whoever
  holds the run is about to abort it, and a driver in its loop has no aborted step in
  its copy. Then every action is a step of the machine or a stutter
  (`MachineStep`): it turns one step whose predecessors have all passed, closes the
  run, breaks it where no prompt is open, or forks it.

`ApprovalsProofs`, for any number of asks, turns, decisions and stops
(`ApprovalsAssumption`):

* `ApprovalsTypeCorrect`.
* `ToolsRunOnConsent`: a tool that needs consent ran only after somebody
  approved it or allowed it for the session or the turn. `ConsentInv` follows the
  consent through every place that can carry it: the decision in memory, the
  future, the row, and the allows.
* `RecordsTellTheSame`. Both rows are read, decided in memory and written by whoever
  comes, so the invariant (`RecordInv`) says, while nobody has overwritten the row, what
  each decider, stop, sweep and asker may still hold in its hand (`RowKept`), and where
  the call's row stands against the approval's (`CallKept`).
* `AnswersActedOnOnce`. `AnswerInv` counts an accepted answer with whoever has it: the
  request that committed it and has not passed it on (`Due`), the asker it woke
  (`Told`), or the task made of it; that none is counted twice is finite-set
  arithmetic over the requests.

`SchedulesProofs`, for any clock and any number of fires, edits and mishaps
(`ScheduleAssumption`):

* `SchedulesTypeCorrect`, with `Bounded` (a row found due is within the clock)
  and `OfHeartbeat` (only a heartbeat has coroutines).
* `RunsTracked`: `Owned` says of every fire, by its point, what its row may be,
  and that a live fire of the worker has the mark or lost it to another.
* `SlotsFiredOnce`: a fire with a row has moved the next run past its slot
  (`KnownFire`), so a later poll sees another slot or another edit; what the poll
  holds in its hand is kept apart from what was fired (`ApartSeen`).
* `SchedulesLeaveNoGap`: what was spawned since the last edit is the range from
  that edit's slot to the next run (`Gapless`). It needs that the row cannot have
  changed behind a spawn whose edit is the row's (`Known`).

`CompactionProofs`, for any number of messages, turns, calls, requests and mishaps
(`CompactionAssumption`):

* `CompactionTypeCorrect`. The last row (`WaitingRow` takes the first, a turn's end
  adds one) exists because rows never outnumber the requests that were made (`Shape`).
* `MessagesStayCovered`. A message behind the watermark may be told of by a
  compaction that has not committed yet, so the invariant speaks of what each
  coroutine has in hand at each point (`CoverInv`, `Knows`), and of where a
  coroutine may stand at all (`Placed`).
* `WatermarkNotBack`: the watermark moves back only when a coroutine commits that
  had read another one; each aims at or past what it read (`AimInv`).
* `ManualRunsWhenIdle` (`IdleInv`), `RowsAreOwned` (`RowInv`), `RowsTellTruth`
  (`TruthInv`, `NoteInv`): by the point of the manual coroutine, what the lock,
  the row and its outcome may be. `RowsAreOwned` excepts the rows behind a hundred newer
  messages, whenever they got there.

`PlanModeProofs`, for any plans, handlers, turns and failures (`PlanAssumption`):

* `PlanTypeCorrect`.
* `WorkApproved`. What makes it true is that a file's revision never falls, but
  when a plan is created: whatever copy of the metadata says "accepted", committed,
  stale or not, either the file has left that revision for good or its text is one
  that was approved (`Backed`, `ApprovedInv`).
* `MarksOwed`. A copy that is not stale `Extends` the committed metadata: it has
  the outcomes, and the mark or an outcome for it (`MarkInv`).
* `PlanAndFileAgree`. Between the write of the file and the commit the two differ, so
  `AgreeInv` names the one handler that may be there, says what its copy must be for
  the commit to bring the two together, and that every copy that is not stale is
  `Near` the committed metadata.

`AgentLoopProofs`, for any requests, calls, batches, limits, cancels and faults
(`AgentLoopAssumption`), any watermark and any profile's trim:

* `CutNeverBegan`: nothing at hand that is or will be told as cancelled has begun.
  `DispatchHolds` strengthens it: a batch is taken up in order (`InOrder`), and a
  call of it is cut only after the cancel, which stays until the run ends
  (`CutLate`); so nothing behind a cut call can have begun.
* `AgentHolds`. The invariant of the rows (`AgentInv`) has the values and the calls
  at hand (`Scalars`, `Batched`, `DispatchInv`), the stored rows (`StoreInv`), the rows
  of the run (`RunInv`) and what its tools did (`KnownInv`). A row is good (`Rows`)
  when, cut, its id is of a call that was given, has not begun and is not at hand
  (`CutIds`, which only grows); good rows stay good through everything that selects,
  moves or hides them, so the model's functions on sequences need lemmas but no
  invariant of their own.
* `CancelIsHonest` follows from it: ids in `CutIds` have not begun.
* `ResultsAreKnown`, with the types. A result is lost where a history is cut, so
  `StoreInv` says that an answer and a row that shows its call lie in one turn
  (`InTurn`): `Recent` keeps or drops both, and `Sanitize` strips neither. A collapse
  hides the rows that call, so it must give all their calls to the last row (`Shown`
  is kept). A chat turn's history is as old as its load: behind what a request loaded
  there are only users, unless a run ended since (`KnownInv`). Where it begins, behind
  the watermark or at the first turn kept of those, a user's row stands or nothing was
  left out (`Opens`, kept for `mark` and `skips` by `WindowInv`), so no turn is split
  there either, and what the load lacks is in the rows it left out. Each action of a run
  is one of two kinds of step, rows that come behind its own (`Goes`) and what it
  learns from its tools (`Learns`), for which the invariant is proved once.
* `PromptsAreWhole`. The order of the rows is a second invariant, `PromptInv`, beside
  `AgentInv`. A stored history need not be whole: another run may have stored its
  rows in between, a call may be hidden or its answer lost. It is `Mendable`: no call
  is shown twice or answered twice, and an answer has a shown row that calls it such that, if
  that row stands before it, only answers and hidden rows stand between. `Sanitize` makes of
  mendable rows `Framed` ones, each answer behind its call and each call answered
  (`SanitizeFramed`), and a trimmed history stays framed (`RecentFramed`). Behind the
  history a run's own rows are `InPlace`, and each call in them is answered or still at
  hand (`Left`), with the row that made it the last one but answers
  (`RunPrompts`), so that when the model is asked again nothing is left open. Ids tie the two
  together: calls of a run are never calls of the store (`Named`), so that joining
  them repeats nothing (`MendableJoins`). When a run ends its rows may be collapsed,
  which gives all calls to the last row, behind their answers: no longer in place, but
  still mendable (`CollapsedMendable`), which is all the store asks for. As before,
  each action of a run is a step that tells rows behind its own (`Tells`) or leaves
  the rows alone.

`Only`, `Sanitize` and `Collapse` join sequences by the library's `FlattenSeq`, a fold,
about which no fact can be had by induction over its definition with the provers here.
The lemmas get at it through its recursive function and the least place where a claim
fails (`Least`, from `WFMin` on `<` of the naturals): the pieces lie one behind the
other (`FlattenLaid`), so an element of the result has a place in a piece and the
other way round, in the same order.

Only model-checked is liveness, which is outside the prover: `EveryRowSettles`,
`EventuallyKnown`, `EveryMessageSettles`, `RunsProceed`, `AsksClose`, `RequestsSettle`
and `FiresProceed`, at the bounds of section 3. Every safety invariant and action
property of the runs is a theorem.

## 5. Not modelled

Payloads and their (de)serialisation beyond success and failure; what context
assembly puts into a prompt, pruning and budgets, retries and fallbacks inside a
model call, images and audio; several server processes (the repository runs one); the
row limits of polls; re-resolution of a channel's active session; task creation
and deletion; member-bot and sub-session turns; harness drivers; other task
types; workflows (dormant); widget crons, standing orders and event triggers;
modal waiters; quiet hours; compaction in history mode `summary`, its pruning and
backfill; the text of plans and their revisions' diffs; all user interfaces but the event hook. The reasons are with each
component in `PROJECT.json`. Most of the repository's lines are request handlers,
rendering, tools and clients of third-party services: sequential code over one
row or one reply, whose correctness is in its data and not in its order.

## 6. Plan

1. Multi-bot fanout in `SessionTurns`: member turns share the primary's cancel
   flag and do not take its lock.
2. Widget crons, standing orders and modal waiters, as further kinds of
   `Schedules` and `Approvals`.
3. In `AgentLoop`, old heartbeats and passive messages in a history, and a
   watermark whose message was deleted (the load then begins at the first row, as
   with `mark = 0`); its composition with `Compaction`, whose watermark it takes as
   given.
4. Integration processes, machine leases.
5. `Workflow` only if the dormant executor is revived.
