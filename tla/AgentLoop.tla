----------------------------- MODULE AgentLoop -----------------------------
(***************************************************************************)
(* The agent loop (app/agent/loop.py, loop_dispatch.py, loop_helpers.py)   *)
(* between the history it is given and the history it leaves: what a       *)
(* request loads (sessions._load_messages), the model calls and tool calls *)
(* of its run, and what persist_turn stores of them.                       *)
(*                                                                         *)
(* A message is a row: its role, the tool calls an assistant row makes,    *)
(* the call a tool row answers.  System rows, which no step here reads and *)
(* which are never stored, are left out; so are texts, images and usage.   *)
(* The session lock is only whether a run is under way (SessionTurns has   *)
(* its failures); approvals are their verdict (Approvals has them).        *)
(***************************************************************************)
EXTENDS Naturals, Sequences, FiniteSets, SequencesExt

CONSTANTS
    Requests,        \* messages sent to one session
    NoOne,
    Injects,         \* SKILL_ENROLLED_AUTO_INJECT_MAX > 0
    Concurrent,      \* PARALLEL_TOOL_MAX_CONCURRENT
    MaxIterations,   \* AGENT_MAX_ITERATIONS
    LiveTurns,       \* live_history_turns of the profiles that limit a chat
    TaskTurns,       \* HEARTBEAT_MAX_HISTORY_TURNS
    MaxBatch,        \* bound: tool calls of one answer
    MaxWork,         \* bound: requests that came and tool calls, together
    MaxCancels,      \* bound
    MaxFaults        \* bound: exceptions and restarts

ASSUME AgentLoopAssumption ==
    /\ IsFiniteSet(Requests) /\ NoOne \notin Requests
    /\ Injects \in BOOLEAN
    /\ Concurrent \in Nat \ {0} /\ MaxIterations \in Nat \ {0}
    /\ LiveTurns \subseteq Nat \ {0} /\ TaskTurns \in Nat
    /\ MaxBatch \in Nat /\ MaxWork \in Nat /\ MaxCancels \in Nat /\ MaxFaults \in Nat

VARIABLES
    phase,       \* [Requests -> Phase]
    seen,        \* [Requests -> Nat]: the rows stored when a waiting request loaded
    skips,       \* [Requests -> Nat]: and the first ones of them, which it left out
    store,       \* the session's rows, ORDER BY created_at
    mark,        \* the rows up to the watermark (summary_message_id)
    who, kind,   \* the request that runs, as a chat turn or a queued task
    msgs, from,  \* messages, and how many of them are history
    pc, iter,    \* where run_agent_tool_loop is
    calls, at,   \* the tool calls of one answer, the next to process
    mode,        \* how they are dispatched: "single" or "batch"
    made,        \* the run has processed a tool call
    outcome,     \* how the loop ended
    cancel,      \* a cancel was requested of the run
    ids,         \* tool call ids given so far
    ran, lost,   \* tools that took effect; calls whose result was lost
    overtaken,   \* requests that loaded before a run that ended since
    begun,       \* calls whose dispatch began
    cancels, faults

run  == <<who, kind, msgs, from, pc, iter, calls, at, mode, made, outcome>>
facts == <<ran, lost, overtaken, begun>>
vars == <<phase, seen, skips, store, mark, run, cancel, ids, facts, cancels, faults>>

Phase   == {"new", "loaded", "queued", "running", "done"}
Skill   == 0                       \* auto_inject_<md5 of the skill>: always the same
Given   == 1..MaxWork              \* other ids are unique

User         == [role |-> "user"]
Assistant(s) == [role |-> "assistant", calls |-> s, hidden |-> FALSE]
Told(c)      == [role |-> "tool", id |-> c, cut |-> FALSE]
Cut(c)       == [role |-> "tool", id |-> c, cut |-> TRUE]   \* "[Cancelled by user]"

Is(row, role) == row.role = role
CallsOf(row)  == IF Is(row, "assistant") THEN Range(row.calls) ELSE {}

Called(s)   == UNION {CallsOf(s[i]) : i \in DOMAIN s}
Answered(s) == {s[i].id : i \in {j \in DOMAIN s : Is(s[j], "tool")}}
Results(s)  == {s[i].id : i \in {j \in DOMAIN s : Is(s[j], "tool") /\ ~s[j].cut}}

---------------------------------------------------------------------------
(* From the stored rows to a history.                                      *)

LastOf(S) == CHOOSE i \in S : \A j \in S : j <= i
Callers(s, c)   == {i \in DOMAIN s : c \in CallsOf(s[i])}
Answerers(s, c) == {i \in DOMAIN s : Is(s[i], "tool") /\ s[i].id = c}

(* The answer that is kept for a call and stands before the call.          *)
Misordered(s) == {c \in Called(s) \cap Answered(s) :
                     LastOf(Callers(s, c)) > LastOf(Answerers(s, c))}

(* The elements of s at the places in P, in order.                         *)
Only(s, P) == FlattenSeq([i \in DOMAIN s |-> IF i \in P THEN <<s[i]>> ELSE <<>>])

(* The calls of row i that are answered, as the row keeps them.            *)
Kept(s, i) ==
    LET cs == s[i].calls IN Only(cs, {k \in DOMAIN cs : cs[k] \in Answered(s)})

StripOrphans(s) ==                                          \* mutant
    FlattenSeq([i \in DOMAIN s |->
        IF Is(s[i], "tool") /\ s[i].id \notin Called(s) THEN <<>>
        ELSE IF Is(s[i], "assistant") THEN <<[s[i] EXCEPT !.calls = Kept(s, i)]>>
        ELSE <<s[i]>>])

(* The answers that move behind row i, the first that makes their calls.   *)
Behind(s, i) ==
    LET first(c) == c \in Misordered(s) /\ \A j \in Callers(s, c) : i <= j
        cs == Only(Kept(s, i), {k \in DOMAIN Kept(s, i) : first(Kept(s, i)[k])})
    IN  [k \in DOMAIN cs |-> s[LastOf(Answerers(s, cs[k]))]]

(* Answer i has no call, or is one that moves.                             *)
Gone(s, i) ==
    \/ s[i].id \notin Called(s)
    \/ s[i].id \in Misordered(s) /\ i = LastOf(Answerers(s, s[i].id))

(* _sanitize_tool_messages: answers without a call and calls without an    *)
(* answer go, an answer before its call moves behind the first row that    *)
(* makes the call.  (A row left without calls keeps its text, if any.)     *)
Sanitize(s) ==
    FlattenSeq([i \in DOMAIN s |->
        IF Is(s[i], "tool") THEN IF Gone(s, i) THEN <<>> ELSE <<s[i]>>
        ELSE IF Is(s[i], "assistant")
        THEN <<[s[i] EXCEPT !.calls = Kept(s, i)]>> \o Behind(s, i)
        ELSE <<s[i]>>])

(* trim_messages_to_recent_turns: the last n turns a user started.         *)
Recent(s, n) ==
    LET users == {i \in DOMAIN s : Is(s[i], "user")}
        starts == {i \in users : Cardinality({j \in users : j >= i}) <= n}
    IN  IF n = 0 THEN <<>>
        ELSE IF n >= Cardinality(users) THEN s
        ELSE SubSeq(s, CHOOSE i \in starts : \A j \in starts : i <= j, Len(s))

Hides(row) == Is(row, "assistant") /\ row.hidden
Visible(s) == Only(s, {i \in DOMAIN s : ~Hides(s[i])})

History(s) == Sanitize(Visible(s))

(* The in-loop _sanitize_messages.                                         *)
Prune(s) == Only(s, {i \in DOMAIN s : Is(s[i], "tool") => s[i].id \in Called(s)})

JustHide(s, n) ==                                           \* mutant
    [i \in DOMAIN s |-> IF i > n /\ i < Len(s) /\ CallsOf(s[i]) # {}
                        THEN [s[i] EXCEPT !.hidden = TRUE] ELSE s[i]]

(* _collapse_final_assistant_tool_turn: the last row of the run takes over *)
(* the calls of the run's other assistant rows, which are hidden.          *)
Collapse(s, n) ==
    LET final == Len(s)
        mine  == SubSeq(s, n + 1, final)
        all   == FlattenSeq([i \in DOMAIN mine |->
                     IF Is(mine[i], "assistant") THEN mine[i].calls ELSE <<>>])
    IN  IF ~Is(s[final], "assistant") THEN s
        ELSE [i \in DOMAIN s |->
                IF i = final THEN [s[i] EXCEPT !.calls = all]
                ELSE IF i > n /\ CallsOf(s[i]) # {} THEN [s[i] EXCEPT !.hidden = TRUE]
                ELSE s[i]]

---------------------------------------------------------------------------
Init ==
    /\ phase = [r \in Requests |-> "new"]
    /\ seen = [r \in Requests |-> 0] /\ skips = [r \in Requests |-> 0]
    /\ store = <<>> /\ mark = 0 /\ cancel = FALSE /\ ids = 0
    /\ who = NoOne /\ kind = "none" /\ msgs = <<>> /\ from = 0 /\ pc = "idle"
    /\ iter = 0 /\ calls = <<>> /\ at = 0 /\ mode = "none" /\ made = FALSE
    /\ outcome = "none"
    /\ ran = {} /\ lost = {} /\ overtaken = {} /\ begun = {}
    /\ cancels = 0 /\ faults = 0

---------------------------------------------------------------------------
(* Bound: n more requests or tool calls.                                   *)
Room(n) == Cardinality({r \in Requests : phase[r] # "new"}) + ids + n <= MaxWork

(* A compaction sets the watermark before the oldest turn that it keeps.   *)
MoveMark ==
    /\ \E i \in DOMAIN store : Is(store[i], "user") /\ i > 1 /\ mark' = i - 1
    /\ UNCHANGED <<phase, seen, skips, store, run, cancel, ids, facts, cancels, faults>>

Unmarked == SubSeq(store, mark + 1, Len(store))

(* POST /chat loads the history, then awaits for its context: the rows     *)
(* behind the watermark, the last turns of them in plan mode, else all.    *)
(* (Hiding rows drops no user's, so it may as well come behind the trim.)  *)
LoadHistory(r) ==
    /\ phase[r] = "new" /\ Room(1)
    /\ phase' = [phase EXCEPT ![r] = "loaded"]
    /\ seen' = [seen EXCEPT ![r] = Len(store)]
    /\ \E n \in LiveTurns \cup {Len(store)} :
          skips' = [skips EXCEPT ![r] = Len(store) - Len(Recent(Unmarked, n))]
    /\ UNCHANGED <<store, mark, run, cancel, ids, facts, cancels, faults>>

(* A skill is injected as a call and its answer unless the history has it. *)
Injected(h) ==
    {<<>>} \cup IF Injects /\ Skill \notin Called(h)
                THEN {<<Assistant(<<Skill>>), Told(Skill)>>} ELSE {}

Begin(r, as, history) ==
    /\ who' = r /\ kind' = as
    /\ \E rows \in Injected(history) : msgs' = history \o <<User>> \o rows
    /\ from' = Len(history)
    /\ pc' = "head"
    /\ phase' = [phase EXCEPT ![r] = "running"]
    /\ UNCHANGED <<iter, calls, at, mode, made, outcome>>

(* start_turn: the lock is free, and run_turn stores the user's message.   *)
StartTurn(r) ==
    /\ phase[r] = "loaded" /\ who = NoOne
    /\ Begin(r, "chat", History(SubSeq(store, skips[r] + 1, seen[r])))
    /\ store' = Append(store, User)
    /\ seen' = [seen EXCEPT ![r] = 0]
    /\ UNCHANGED <<skips, mark, cancel, ids, facts, cancels, faults>>

(* The session is busy: the message is stored and a task queued.           *)
Queue(r) ==
    /\ phase[r] = "loaded" /\ who # NoOne
    /\ phase' = [phase EXCEPT ![r] = "queued"]
    /\ store' = Append(store, User)
    /\ seen' = [seen EXCEPT ![r] = 0] /\ skips' = [skips EXCEPT ![r] = 0]
    /\ UNCHANGED <<mark, run, cancel, ids, facts, cancels, faults>>

(* run_task loads for itself, under the lock, and trims.                   *)
StartTask(r) ==
    /\ phase[r] = "queued" /\ who = NoOne
    /\ Begin(r, "task", Recent(History(Unmarked), TaskTurns))
    /\ UNCHANGED <<seen, skips, store, mark, cancel, ids, facts, cancels, faults>>

(* /chat/cancel flags the run and fails the queued tasks.                  *)
Cancel ==
    /\ cancels < MaxCancels /\ who # NoOne /\ ~cancel
    /\ cancels' = cancels + 1 /\ cancel' = TRUE
    /\ phase' = [r \in Requests |-> IF phase[r] = "queued" THEN "done" ELSE phase[r]]
    /\ UNCHANGED <<seen, skips, store, mark, run, ids, facts, faults>>

---------------------------------------------------------------------------
(* The loop.                                                               *)

Fixed == <<phase, seen, skips, store, mark, who, kind, from, cancel, cancels, lost,
           overtaken>>
Batch == <<calls, at, mode>>
Acts  == <<ids, ran, begun>>

Leave(how) == pc' = "persist" /\ outcome' = how

Finalize(s) == msgs' = Collapse(s, from) /\ Leave("answered")

Start(c) == begun' = begun \cup {c}

StopAtHead ==
    /\ pc = "head" /\ cancel
    /\ Leave("cancelled")
    /\ UNCHANGED <<Fixed, Batch, Acts, msgs, iter, made, faults>>

(* run_stream: the usage limit is reached, the loop is not entered.        *)
OverLimit ==
    /\ pc = "head" /\ iter = 0
    /\ Leave("answered")
    /\ UNCHANGED <<Fixed, Batch, Acts, msgs, iter, made, faults>>

(* The prompt does not fit the model's window.                             *)
Refuse ==
    /\ pc = "head" /\ ~cancel
    /\ msgs' = Append(msgs, Assistant(<<>>)) /\ Leave("answered")
    /\ UNCHANGED <<Fixed, Batch, Acts, iter, made, faults>>

CallModel ==
    /\ pc = "head" /\ ~cancel
    /\ msgs' = Prune(msgs) /\ pc' = "calling"
    /\ UNCHANGED <<Fixed, Batch, Acts, iter, made, outcome, faults>>

(* The flag is read again when the answer arrives: the answer is dropped.  *)
DropAnswer ==
    /\ pc = "calling" /\ cancel
    /\ Leave("cancelled")
    /\ UNCHANGED <<Fixed, Batch, Acts, msgs, iter, made, faults>>

(* An answer with n tool calls, native or recovered from its text.         *)
AnswerCalls(n, how) ==
    /\ pc = "calling" /\ ~cancel
    /\ Room(n) /\ (how = "batch" => n > 1)
    /\ msgs' = Append(msgs, Assistant([k \in 1..n |-> ids + k]))
    /\ calls' = [k \in 1..n |-> [id |-> ids + k, st |-> "waiting"]]
    /\ ids' = ids + n /\ at' = 1 /\ mode' = how /\ pc' = "tools"
    /\ UNCHANGED <<Fixed, iter, made, outcome, ran, begun, faults>>

AnswerText ==
    /\ pc = "calling" /\ ~cancel
    /\ Finalize(Append(msgs, Assistant(<<>>)))
    /\ UNCHANGED <<Fixed, Batch, Acts, iter, made, faults>>

(* Nothing to say after tools: the empty row is popped.                    *)
AnswerSilent ==
    /\ pc = "calling" /\ ~cancel /\ made
    /\ Finalize(msgs)
    /\ UNCHANGED <<Fixed, Batch, Acts, iter, made, faults>>

(* An empty answer of a model that failed: ask again, without tools.       *)
AnswerEmpty ==
    /\ pc = "calling" /\ ~cancel
    /\ pc' = "retry"
    /\ UNCHANGED <<Fixed, Batch, Acts, msgs, iter, made, outcome, faults>>

(* Every model of the fallback chain failed.                               *)
ModelRaises ==
    /\ pc = "calling" /\ faults < MaxFaults
    /\ faults' = faults + 1
    /\ Leave("raised")
    /\ UNCHANGED <<Fixed, Batch, Acts, msgs, iter, made>>

(* The forced answers, behind an empty answer and behind the loop.  The    *)
(* model may call a tool all the same: the call is stored, not dispatched. *)
ForcedAnswer(stray) ==
    /\ pc \in {"retry", "final"} /\ Room(stray)
    /\ ids' = ids + stray
    /\ Finalize(Append(msgs, Assistant([k \in 1..stray |-> ids + k])))
    /\ UNCHANGED <<Fixed, Batch, iter, made, ran, begun, faults>>

ForcedFails ==
    /\ pc \in {"retry", "final"} /\ faults < MaxFaults
    /\ faults' = faults + 1
    /\ LET s == Append(msgs, Assistant(<<>>))
       IN  IF pc = "retry" THEN Finalize(s) ELSE msgs' = s /\ Leave("answered")
    /\ UNCHANGED <<Fixed, Batch, Acts, iter, made>>

---------------------------------------------------------------------------
(* dispatch_iteration_tool_calls.                                          *)

InTools == pc = "tools"
Mark(i, st) == calls' = [calls EXCEPT ![i].st = st]
Mine  == SubSeq(msgs, from + 1, Len(msgs))
Ended == {"told", "held", "cut"}

(* One after the other: the cancel is read before each tool, and answers   *)
(* for all that are left.                                                  *)
StartNext ==
    /\ InTools /\ mode = "single" /\ at <= Len(calls) /\ calls[at].st = "waiting"
    /\ ~cancel
    /\ Mark(at, "running") /\ Start(calls[at].id)
    /\ UNCHANGED <<Fixed, msgs, pc, iter, at, mode, made, outcome, ids, ran, faults>>

StopNext ==
    /\ InTools /\ mode = "single" /\ at <= Len(calls) /\ calls[at].st = "waiting"
    /\ cancel
    /\ msgs' = msgs \o [k \in 1..(Len(calls) - at + 1) |-> Cut(calls[at + k - 1].id)]
    /\ Leave("cancelled")
    /\ UNCHANGED <<Fixed, Batch, Acts, iter, made, faults>>

(* In a batch the tools wait for a semaphore, which serves them in order;  *)
(* one that gets it reads the cancel before it works.                      *)
AnyTurn(i) ==                                               \* mutant
    /\ calls[i].st = "waiting"
    /\ Cardinality({j \in DOMAIN calls : calls[j].st = "running"}) < Concurrent

Turn(i) ==
    /\ calls[i].st = "waiting"
    /\ \A j \in 1..(i - 1) : calls[j].st # "waiting"
    /\ Cardinality({j \in DOMAIN calls : calls[j].st = "running"}) < Concurrent

Acquire(i) ==
    /\ InTools /\ mode = "batch" /\ i \in DOMAIN calls /\ Turn(i)
    /\ IF cancel THEN Mark(i, "cut") /\ begun' = begun
       ELSE Mark(i, "running") /\ Start(calls[i].id)
    /\ UNCHANGED <<Fixed, msgs, pc, iter, at, mode, made, outcome, ids, ran, faults>>

(* A tool has worked, or waits for an approval.  (An error is a result.)   *)
ToolEnds(i, st) ==
    /\ InTools /\ i \in DOMAIN calls /\ calls[i].st = "running"
    /\ Mark(i, st)
    /\ ran' = ran \cup (IF st = "told" THEN {calls[i].id} ELSE {})
    /\ UNCHANGED <<Fixed, msgs, pc, iter, at, mode, made, outcome, ids, begun, faults>>

(* The dispatch raises: alone it ends the run, in a batch it is an error.  *)
ToolRaises ==
    /\ InTools /\ mode = "single" /\ at <= Len(calls) /\ calls[at].st = "running"
    /\ faults < MaxFaults /\ faults' = faults + 1
    /\ Leave("raised")
    /\ UNCHANGED <<Fixed, Batch, Acts, msgs, iter, made>>

Settled == IF mode = "batch" THEN \A i \in DOMAIN calls : calls[i].st \in Ended
           ELSE calls[at].st \in Ended

(* The results are taken in order; behind one that was cut every other is  *)
(* told as cut.                                                            *)
IsCut(i) == \E j \in 1..i : calls[j].st = "cut"

Process ==
    /\ InTools /\ at <= Len(calls) /\ Settled
    /\ IsCut(at) \/ calls[at].st = "told"
    /\ msgs' = Append(msgs, IF IsCut(at) THEN Cut(calls[at].id) ELSE Told(calls[at].id))
    /\ made' = (made \/ ~IsCut(at))
    /\ at' = at + 1
    /\ UNCHANGED <<Fixed, Acts, pc, iter, calls, mode, outcome, faults>>

(* _process_tool_call_result waits for the verdict; /chat/cancel does not  *)
(* end the wait, and an approved tool works whatever was cancelled.        *)
Decide(approved) ==
    /\ InTools /\ at <= Len(calls) /\ Settled /\ calls[at].st = "held" /\ ~IsCut(at)
    /\ IF approved THEN Mark(at, "granted") /\ Start(calls[at].id)
       ELSE Mark(at, "told") /\ begun' = begun
    /\ UNCHANGED <<Fixed, msgs, pc, iter, at, mode, made, outcome, ids, ran, faults>>

GrantedEnds ==
    /\ InTools /\ at <= Len(calls) /\ calls[at].st = "granted"
    /\ Mark(at, "told")
    /\ ran' = ran \cup {calls[at].id}
    /\ UNCHANGED <<Fixed, msgs, pc, iter, at, mode, made, outcome, ids, begun, faults>>

GrantedRaises ==
    /\ InTools /\ at <= Len(calls) /\ calls[at].st = "granted"
    /\ faults < MaxFaults /\ faults' = faults + 1
    /\ Leave("raised")
    /\ UNCHANGED <<Fixed, Batch, Acts, msgs, iter, made>>

(* All are processed: the run stops, goes on, or is told to end.           *)
Traced == Cardinality(Results(Mine) \ {Skill})

StopBatch ==
    /\ InTools /\ at > Len(calls) /\ IsCut(Len(calls))
    /\ Leave("cancelled")
    /\ UNCHANGED <<Fixed, Batch, Acts, msgs, iter, made, faults>>

EndIteration(cycle) ==
    /\ InTools /\ at > Len(calls) /\ ~IsCut(Len(calls))
    /\ cycle => Traced >= 3
    /\ IF cycle \/ iter + 1 = MaxIterations
       THEN pc' = "final" /\ iter' = iter ELSE pc' = "head" /\ iter' = iter + 1
    /\ calls' = <<>> /\ at' = 0 /\ mode' = "none"
    /\ UNCHANGED <<Fixed, Acts, msgs, made, outcome, faults>>

(* A task's run is cut off by its time limit.                              *)
TaskTimesOut ==
    /\ kind = "task" /\ pc \in {"calling", "tools", "retry", "final"}
    /\ faults < MaxFaults /\ faults' = faults + 1
    /\ Leave("raised")
    /\ UNCHANGED <<Fixed, Batch, Acts, msgs, iter, made>>

---------------------------------------------------------------------------
(* From the run's messages to stored rows.                                 *)

(* A chat turn's user row is stored already; a queued task does not know   *)
(* of its own (no pre_user_msg_id) and stores a second.  A cancelled task  *)
(* goes unnoticed (run() has no branch for the event); a raised one stores *)
(* nothing.                                                                *)
Stored ==
    IF kind = "task" THEN IF outcome = "raised" THEN <<>> ELSE Mine
    ELSE Tail(Mine) \o (CASE outcome = "cancelled" -> <<User, Assistant(<<>>)>>
                          [] outcome = "raised"    -> <<Assistant(<<>>)>>
                          [] outcome = "answered"  -> <<>>)

(* The lock is released with its cancel.                                   *)
Release ==
    /\ who' = NoOne /\ kind' = "none" /\ msgs' = <<>> /\ from' = 0 /\ pc' = "idle"
    /\ iter' = 0 /\ calls' = <<>> /\ at' = 0 /\ mode' = "none" /\ made' = FALSE
    /\ outcome' = "none" /\ cancel' = FALSE

EndRun ==
    /\ phase' = [phase EXCEPT ![who] = "done"]
    /\ overtaken' = overtaken \cup {r \in Requests : phase[r] = "loaded"}
    /\ skips' = [skips EXCEPT ![who] = 0]
    /\ Release
    /\ UNCHANGED <<seen, mark, ids, ran, begun, cancels>>

(* Results a raised run does not store: a task's, and those of the batch   *)
(* that were not processed yet.                                            *)
Dropped ==
    IF outcome # "raised" THEN {}
    ELSE IF kind = "task" THEN Called(Mine) ELSE {calls[k].id : k \in {j \in DOMAIN calls : j >= at}}

Lose(S) == lost' = lost \cup (ran \cap S)

Persist ==
    /\ pc = "persist"
    /\ store' = store \o Stored /\ Lose(Dropped)
    /\ EndRun /\ UNCHANGED faults

PersistFails ==
    /\ pc = "persist" /\ faults < MaxFaults
    /\ faults' = faults + 1 /\ Lose(Called(Mine))
    /\ EndRun /\ UNCHANGED store

(* The process dies: what was not stored is gone.                          *)
Die ==
    /\ faults < MaxFaults /\ who # NoOne
    /\ faults' = faults + 1
    /\ phase' = [r \in Requests |->
                    IF phase[r] \in {"loaded", "running"} THEN "done" ELSE phase[r]]
    /\ seen' = [r \in Requests |-> 0] /\ skips' = [r \in Requests |-> 0]
    /\ Lose(Called(Mine)) /\ Release
    /\ UNCHANGED <<store, mark, ids, ran, overtaken, begun, cancels>>

---------------------------------------------------------------------------
Hows == {"single", "batch"}

Loop ==
    \/ StopAtHead \/ OverLimit \/ Refuse \/ CallModel
    \/ DropAnswer \/ AnswerText \/ AnswerSilent \/ AnswerEmpty \/ ModelRaises
    \/ \E n \in 1..MaxBatch, how \in Hows : AnswerCalls(n, how)
    \/ \E stray \in 0..1 : ForcedAnswer(stray)
    \/ ForcedFails

Dispatch ==
    \/ StartNext \/ StopNext \/ ToolRaises \/ GrantedRaises
    \/ \E i \in 1..MaxBatch : \/ Acquire(i)
                              \/ \E st \in {"told", "held"} : ToolEnds(i, st)
    \/ Process \/ \E b \in BOOLEAN : Decide(b)
    \/ GrantedEnds \/ StopBatch \/ \E cycle \in BOOLEAN : EndIteration(cycle)

Next ==
    \/ \E r \in Requests : LoadHistory(r) \/ StartTurn(r) \/ Queue(r) \/ StartTask(r)
    \/ MoveMark \/ Cancel \/ Loop \/ Dispatch \/ TaskTimesOut
    \/ Persist \/ PersistFails \/ Die

Spec == Init /\ [][Next]_vars
---------------------------------------------------------------------------
(* Correctness.                                                            *)

(* TypeOK: every variable keeps to its range; a run has a request, an idle *)
(* session none; ids are given in order.                                   *)
CallSt == Ended \cup {"waiting", "running", "granted"}
Ids    == {Skill} \cup Given
Row    == [role : {"user"}]
            \cup [role : {"assistant"}, calls : Seq(Ids), hidden : BOOLEAN]
            \cup [role : {"tool"}, id : Ids, cut : BOOLEAN]

TypeOK ==
    /\ phase \in [Requests -> Phase]
    /\ seen \in [Requests -> Nat] /\ skips \in [Requests -> Nat] /\ mark \in Nat
    /\ store \in Seq(Row) /\ msgs \in Seq(Row) /\ from \in 0..Len(msgs)
    /\ who \in Requests \cup {NoOne} /\ kind \in {"none", "chat", "task"}
    /\ pc \in {"idle", "head", "calling", "tools", "retry", "final", "persist"}
    /\ iter \in 0..(MaxIterations - 1)
    /\ calls \in Seq([id : Given, st : CallSt])
    /\ at \in 0..(Len(calls) + 1) /\ mode \in Hows \cup {"none"}
    /\ made \in BOOLEAN /\ cancel \in BOOLEAN
    /\ outcome \in {"none", "answered", "cancelled", "raised"}
    /\ ids \in 0..MaxWork /\ cancels \in 0..MaxCancels /\ faults \in 0..MaxFaults
    /\ lost \subseteq ran /\ begun \subseteq Given /\ ran \subseteq begun
    /\ overtaken \subseteq Requests
    /\ (who = NoOne) = (pc = "idle")

Asking == pc \in {"calling", "retry", "final"}

(* PromptsWhole: whatever was hidden, cut, trimmed or left over by a run   *)
(* that failed, the model is only asked with a transcript a provider takes:*)
(* every result stands behind the row that calls it, with only results in  *)
(* between, and every call is answered once.  (_sanitize_tool_messages,    *)
(* sessions.py:991-1001.)  An injected skill, whose call has the same id   *)
(* each time, is excepted: stored twice, it is not always mended.          *)
PromptsWhole ==
    Asking =>
        /\ \A i \in DOMAIN msgs : Is(msgs[i], "tool") /\ msgs[i].id # Skill =>
              \E j \in 1..(i - 1) :
                 /\ msgs[i].id \in CallsOf(msgs[j])
                 /\ \A k \in (j + 1)..i : Is(msgs[k], "tool")
        /\ \A c \in Called(msgs) \ {Skill} : Cardinality(Answerers(msgs, c)) = 1

(* ResultsKnown: what a tool has done is never forgotten: its result is in *)
(* the run that called it or stored, unless that run raised, died or was   *)
(* not stored, and of the rows a chat turn loads - those behind the        *)
(* watermark, or the last turns of them in plan mode (sessions.py:463-545) *)
(* - it asks the model with every result: wherever the watermark and the   *)
(* trim cut, however rows were collapsed and hidden, no result of a turn   *)
(* that is kept loses its call to the rows left out.  Excepted is a turn   *)
(* that loaded before a run that ended since (routers/chat/_helpers.py:162)*)
(* and lacks that run's.  (With the types: every row is well-formed.)      *)
LeftOut == SubSeq(store, 1, skips[who])
ResultsKnown ==
    /\ TypeOK
    /\ ran \ lost \subseteq Results(store) \cup Results(msgs)
                                \cup {calls[i].id : i \in DOMAIN calls}
    /\ Asking /\ kind = "chat" /\ who \notin overtaken =>
          ran \ lost \subseteq Results(msgs) \cup Results(LeftOut)

(* What is or will be told as cancelled of the calls at hand never began:  *)
(* when one tool of a batch meets the cancel, those behind it, which are   *)
(* told as cancelled with it, have met it too.                             *)
CutNotBegun ==
    \A i \in DOMAIN calls :
       IsCut(i) \/ calls[i].st = "waiting" => calls[i].id \notin begun

(* CancelHonest: and so it is for every row the session keeps: a call that *)
(* is told as cancelled never began (loop_dispatch.py:446-458).            *)
CancelHonest ==
    /\ CutNotBegun
    /\ \A s \in {store, msgs} : \A i \in DOMAIN s :
          Is(s[i], "tool") /\ s[i].cut => s[i].id \notin begun
============================================================================
