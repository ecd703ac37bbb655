---------------------------- MODULE Approvals ----------------------------
(***************************************************************************)
(* An agent turn asks a human and waits: tool approvals                    *)
(* (app/agent/approval_pending.py, loop_dispatch.py, tool_dispatch.py),    *)
(* approvals of external harnesses and their questions                     *)
(* (app/services/agent_harnesses), decided over HTTP                       *)
(* (api_v1_approvals.py, api_v1_sessions.py), swept by the heartbeat       *)
(* worker, expired by /chat/cancel.                                        *)
(*                                                                         *)
(* Every ask is a row in the database and a future in the memory of the    *)
(* process.  A step is the code between two awaits; a transaction reads    *)
(* and commits in different steps and the last commit wins.                *)
(***************************************************************************)
EXTENDS Naturals, FiniteSets

CONSTANTS
    MaxAsks,     \* bound: asks of the turn, numbered as it asks
    Turns,       \* the kinds of the asks a turn may make, "none" for none
    MaxDecisions,\* bound: HTTP requests that decide or answer, as they come
    MaxWork,     \* bound: asks made and requests together
    Stoppers,    \* /chat/cancel and dismissals, one ask each
    MaxMishaps   \* bound: commits that fail, and process restarts

Asks     == 1..MaxAsks
Deciders == 1..MaxDecisions
NoAsk    == 0
Kind     == {"none", "tool", "harness", "question"}

ASSUME ApprovalsAssumption ==
    /\ MaxAsks \in Nat /\ MaxDecisions \in Nat /\ MaxWork \in Nat /\ MaxMishaps \in Nat
    /\ Turns \subseteq [Asks -> Kind]

VARIABLES
    kind,        \* [Asks -> Kind]: what the turn asks
    row,         \* [Asks -> RowStatus]: ToolApproval.status, or the question's
    call,        \* [Asks -> CallStatus]: the linked ToolCall.status
    registered,  \* asks in _pending / _PENDING_QUESTIONS
    answer,      \* [Asks -> Answer]: the asker's future
    pc,          \* [Asks -> Point]: where the asker stands
    sawcall,     \* askers whose late read found the call awaiting approval
    verdict,     \* [Asks -> Verdict]: what the asker acted on
    allows,      \* the turn and tool are in session_allows._allows
    bypass,      \* the turn is in _TURN_BYPASS
    dpc,         \* [Deciders -> DeciderPoint]
    target,      \* [Deciders -> Asks \cup {NoAsk}]
    choice,      \* [Deciders -> Decision]
    touches,     \* deciders that read a call they may still change
    spc,         \* [Stoppers -> {"idle", "read", "committed", "done"}]
    goal,        \* [Stoppers -> Asks \cup {NoAsk}]
    sweeping,    \* rows the sweeper has marked and not committed
    tasks,       \* [Asks -> Nat]: tasks that continue from an answer
    consent,     \* observer: asks for which an approval was committed
    hasty,       \* observer: an approval allowed its tool and never committed
    overwritten, \* observer: asks whose row changed between read and commit
    unheard,     \* observer: asks whose decision found no future
    swept,       \* observer: asks the sweeper marked
    undone,      \* observer: asks whose expiry was never committed
    answers,     \* observer: [Asks -> Nat], answers committed
    lost,        \* observer: asks an answer of which died with its coroutine
    mishaps

asker   == <<kind, pc, sawcall, verdict>>
futures == <<registered, answer>>
rows    == <<row, call>>
grants  == <<allows, bypass>>
decider == <<dpc, target, choice, touches>>
stopper == <<spc, goal>>
seen    == <<consent, hasty, overwritten, unheard, swept, undone, answers, lost>>
vars == <<asker, futures, rows, grants, decider, stopper, sweeping, tasks, seen, mishaps>>

RowStatus    == {"none", "pending", "approved", "denied", "expired",
                 "submitted", "cancelled"}
CallTerminal == {"done", "denied", "expired"}
CallStatus   == {"none", "awaiting", "running"} \cup CallTerminal
Answer       == {"none", "open", "timeout", "approved", "denied", "expired",
                 "submitted", "failed"}
Point        == {"idle", "asked", "publishing", "waiting", "late", "reread",
                 "expiring", "closing", "running", "ended", "gone"}
Verdict      == RowStatus \cup {"allowed", "failed", "skipped"}
DeciderPoint == {"idle", "read", "reconciled", "committed", "stale", "done"}
Decision     == {"none", "approved", "denied", "submitted"}

Over(a) == pc[a] \in {"ended", "gone"}

(* A turn is one coroutine, of the agent loop or of a harness.  The loop   *)
(* makes the asks of a batch of tool calls together and then waits for one *)
(* at a time.                                                              *)
Waits(a) == pc[a] \notin {"idle", "asked"} /\ ~Over(a) /\ verdict[a] # "allowed"
Work == Cardinality({b \in Asks : pc[b] # "idle"})
          + Cardinality({d \in Deciders : dpc[d] # "idle"})
IsNext(a) ==
    /\ pc[a] = "idle" /\ kind[a] # "none" /\ Work < MaxWork
    /\ \A b \in Asks :
        /\ ~Waits(b)
        /\ b < a => pc[b] # "idle"
        /\ pc[b] = "asked" => kind[a] = "tool"

Init ==
    /\ kind \in Turns /\ row = [a \in Asks |-> "none"]
    /\ call = [a \in Asks |-> "none"] /\ registered = {}
    /\ answer = [a \in Asks |-> "none"] /\ pc = [a \in Asks |-> "idle"]
    /\ sawcall = {} /\ verdict = [a \in Asks |-> "none"]
    /\ allows = FALSE /\ bypass = FALSE
    /\ dpc = [d \in Deciders |-> "idle"] /\ target = [d \in Deciders |-> NoAsk]
    /\ choice = [d \in Deciders |-> "none"] /\ touches = {}
    /\ spc = [s \in Stoppers |-> "idle"] /\ goal = [s \in Stoppers |-> NoAsk]
    /\ sweeping = {} /\ tasks = [a \in Asks |-> 0]
    /\ consent = {} /\ hasty = FALSE /\ overwritten = {} /\ unheard = {}
    /\ swept = {} /\ undone = {} /\ answers = [a \in Asks |-> 0] /\ lost = {}
    /\ mishaps = 0

(* resolve_approval, cancel_approval, _resolve_pending: pop the future and *)
(* set it if it is not done.                                               *)
Resolved(S, v) ==
    [a \in Asks |-> IF a \in S \cap registered /\ answer[a] = "open" THEN v ELSE answer[a]]

---------------------------------------------------------------------------
(* Asking.                                                                 *)

(* The policy guard, or a harness's turn bypass, lets the call through.    *)
AskAllowed(a) ==
    /\ IsNext(a)
    /\ \/ kind[a] = "tool" /\ allows
       \/ kind[a] = "harness" /\ bypass
    /\ verdict' = [verdict EXCEPT ![a] = "allowed"]
    /\ pc' = [pc EXCEPT ![a] = IF kind[a] = "tool" THEN "running" ELSE "ended"]
    /\ call' = [call EXCEPT ![a] = IF kind[a] = "tool" THEN "running" ELSE "none"]
    /\ UNCHANGED <<kind, sawcall, futures, row, grants, decider, stopper, sweeping, tasks,
                   seen, mishaps>>

(* The row, and a tool's call row, are committed; nobody waits yet.        *)
Ask(a) ==
    /\ IsNext(a)
    /\ ~(kind[a] = "tool" /\ allows) /\ ~(kind[a] = "harness" /\ bypass)
    /\ row' = [row EXCEPT ![a] = "pending"]
    /\ call' = [call EXCEPT ![a] = IF kind[a] = "tool" THEN "awaiting" ELSE "none"]
    /\ pc' = [pc EXCEPT ![a] = "asked"]
    /\ UNCHANGED <<kind, sawcall, verdict, futures, grants, decider, stopper, sweeping,
                   tasks, seen, mishaps>>

(* The calls of a batch wait one after the other; a cancel skips the rest. *)
Skip(a) ==
    /\ pc[a] = "asked" /\ kind[a] = "tool"
    /\ pc' = [pc EXCEPT ![a] = "ended"]
    /\ verdict' = [verdict EXCEPT ![a] = "skipped"]
    /\ UNCHANGED <<kind, sawcall, futures, rows, grants, decider, stopper, sweeping,
                   tasks, seen, mishaps>>

(* create_approval_pending, create_question_pending.                       *)
Register(a) ==
    /\ pc[a] = "asked" /\ \A b \in Asks : ~Waits(b)
    /\ registered' = registered \cup {a}
    /\ answer' = [answer EXCEPT ![a] = "open"]
    /\ pc' = [pc EXCEPT ![a] = IF kind[a] = "question" THEN "publishing" ELSE "waiting"]
    /\ UNCHANGED <<kind, sawcall, verdict, rows, grants, decider, stopper, sweeping,
                   tasks, seen, mishaps>>

(* wait_for_harness_question, after the card was published: it waits on    *)
(* the registered future, or on a new one if that has been popped.         *)
WaitQuestion(a) ==
    /\ pc[a] = "publishing"
    /\ pc' = [pc EXCEPT ![a] = "waiting"]
    /\ registered' = registered \cup {a}
    /\ IF a \in registered
       THEN UNCHANGED <<answer, lost>>
       ELSE /\ answer' = [answer EXCEPT ![a] = "open"]
            /\ lost' = IF answer[a] = "submitted" THEN lost \cup {a} ELSE lost
    /\ UNCHANGED <<kind, sawcall, verdict, rows, grants, decider, stopper, sweeping,
                   tasks, consent, hasty, overwritten, unheard, swept, undone, answers, mishaps>>

(* The future was set: the asker acts on its value.                        *)
Wake(a) ==
    /\ pc[a] = "waiting" /\ answer[a] \notin {"none", "open", "timeout"}
    /\ verdict' = [verdict EXCEPT ![a] = answer[a]]
    /\ pc' = [pc EXCEPT ![a] =
                IF kind[a] = "tool" /\ answer[a] = "approved" THEN "running" ELSE "ended"]
    /\ registered' = IF kind[a] = "question" THEN registered \ {a} ELSE registered
    /\ UNCHANGED <<kind, sawcall, answer, rows, grants, decider, stopper, sweeping,
                   tasks, seen, mishaps>>

(* The approved or allowed tool runs; _complete_tool_call writes its row.  *)
Finish(a) ==
    /\ pc[a] = "running"
    /\ call' = [call EXCEPT ![a] = "done"]
    /\ pc' = [pc EXCEPT ![a] = "ended"]
    /\ UNCHANGED <<kind, sawcall, verdict, futures, row, grants, decider, stopper,
                   sweeping, tasks, seen, mishaps>>

---------------------------------------------------------------------------
(* Running out of time.  wait_for cancels the future; a tool call pops it  *)
(* at once, a harness when its row is expired.                             *)

TimeoutIfApproval(a) ==                                         \* mutant
    /\ pc[a] = "waiting" /\ answer[a] = "open" /\ kind[a] # "question"
    /\ answer' = [answer EXCEPT ![a] = "timeout"]
    /\ registered' = registered \ {a}
    /\ pc' = [pc EXCEPT ![a] = "late"]
    /\ UNCHANGED <<kind, sawcall, verdict, rows, grants, decider, stopper, sweeping,
                   tasks, seen, mishaps>>

Timeout(a) ==
    /\ pc[a] = "waiting" /\ answer[a] = "open"
    /\ answer' = [answer EXCEPT ![a] = "timeout"]
    /\ registered' = IF kind[a] = "tool" THEN registered \ {a} ELSE registered
    /\ pc' = [pc EXCEPT ![a] = "late"]
    /\ UNCHANGED <<kind, sawcall, verdict, rows, grants, decider, stopper, sweeping,
                   tasks, seen, mishaps>>

(* A late asker that gives up, with what its ask is taken to be.           *)
GiveUp(a, v) ==
    /\ verdict' = [verdict EXCEPT ![a] = v]
    /\ registered' = IF kind[a] = "question" THEN registered \ {a} ELSE registered

LateReadBlind(a) ==                                             \* mutant
    /\ pc[a] = "late"
    /\ IF row[a] = "pending"
       THEN /\ pc' = [pc EXCEPT ![a] = IF kind[a] = "tool" THEN "reread" ELSE "expiring"]
            /\ UNCHANGED <<verdict, registered>>
       ELSE /\ GiveUp(a, "expired")
            /\ pc' = [pc EXCEPT ![a] = "ended"]
    /\ UNCHANGED <<kind, sawcall, answer, rows, grants, decider, stopper, sweeping,
                   tasks, seen, mishaps>>

(* The row is read again.  A tool call obeys what it finds; a harness and  *)
(* a question give up, and expire the row if it is still open.             *)
LateRead(a) ==
    /\ pc[a] = "late"
    /\ \/ /\ row[a] = "pending" \/ (kind[a] = "question" /\ row[a] # "submitted")
          /\ pc' = [pc EXCEPT ![a] = IF kind[a] = "tool" THEN "reread" ELSE "expiring"]
          /\ UNCHANGED <<verdict, registered>>
       \/ /\ kind[a] = "tool" /\ row[a] # "pending"
          /\ verdict' = [verdict EXCEPT ![a] = row[a]]
          /\ pc' = [pc EXCEPT ![a] = IF row[a] = "approved" THEN "running" ELSE "ended"]
          /\ UNCHANGED registered
       \/ /\ kind[a] = "harness" /\ row[a] # "pending"
          /\ GiveUp(a, "expired")
          /\ pc' = [pc EXCEPT ![a] = "ended"]
       \/ /\ kind[a] = "question" /\ row[a] = "submitted"
          /\ GiveUp(a, "failed")
          /\ pc' = [pc EXCEPT ![a] = "ended"]
    /\ UNCHANGED <<kind, sawcall, answer, rows, grants, decider, stopper, sweeping,
                   tasks, seen, mishaps>>

LateReadCall(a) ==
    /\ pc[a] = "reread"
    /\ pc' = [pc EXCEPT ![a] = "expiring"]
    /\ sawcall' = IF call[a] = "awaiting" THEN sawcall \cup {a} ELSE sawcall
    /\ UNCHANGED <<kind, verdict, futures, rows, grants, decider, stopper, sweeping,
                   tasks, seen, mishaps>>

(* The expiry is committed, over whatever the row has become.              *)
LateCommit(a) ==
    /\ pc[a] = "expiring"
    /\ row' = [row EXCEPT ![a] = "expired"]
    /\ call' = IF a \in sawcall THEN [call EXCEPT ![a] = "expired"] ELSE call
    /\ overwritten' = IF row[a] \in {"pending", "cancelled", "expired"}
                      THEN overwritten ELSE overwritten \cup {a}
    /\ IF kind[a] = "tool"
       THEN /\ verdict' = [verdict EXCEPT ![a] = "expired"]
            /\ pc' = [pc EXCEPT ![a] = "ended"]
       ELSE /\ pc' = [pc EXCEPT ![a] = "closing"]
            /\ UNCHANGED verdict
    /\ UNCHANGED <<kind, sawcall, futures, grants, decider, stopper, sweeping, tasks,
                   consent, hasty, unheard, swept, undone, answers, lost, mishaps>>

(* After its commit a harness or a question pops its future and gives up.  *)
LateClose(a) ==
    /\ pc[a] = "closing"
    /\ registered' = registered \ {a}
    /\ verdict' = [verdict EXCEPT ![a] = IF kind[a] = "harness" THEN "expired" ELSE "failed"]
    /\ pc' = [pc EXCEPT ![a] = "ended"]
    /\ UNCHANGED <<kind, sawcall, answer, rows, grants, decider, stopper, sweeping,
                   tasks, seen, mishaps>>

(* The commit fails: a tool call counts as expired, the others raise.      *)
LateFail(a) ==
    /\ pc[a] = "expiring" /\ mishaps < MaxMishaps
    /\ GiveUp(a, IF kind[a] = "tool" THEN "expired" ELSE "failed")
    /\ pc' = [pc EXCEPT ![a] = "ended"]
    /\ undone' = undone \cup {a}
    /\ mishaps' = mishaps + 1
    /\ UNCHANGED <<kind, sawcall, answer, rows, grants, decider, stopper, sweeping, tasks,
                   consent, hasty, overwritten, unheard, swept, answers, lost>>

---------------------------------------------------------------------------
(* Deciding: decide_approval, and answer_harness_question with its router. *)

(* The row is open, else 404 or 409.  A tool's call row is read next; an   *)
(* approval allows the tool for the session just before the commit.        *)
DecideRead(d, a, c) ==
    /\ dpc[d] = "idle" /\ Work < MaxWork /\ \A e \in Deciders : e < d => dpc[e] # "idle"
    /\ row[a] = "pending"
    /\ c \in IF kind[a] = "question" THEN {"submitted"} ELSE {"approved", "denied"}
    /\ target' = [target EXCEPT ![d] = a]
    /\ choice' = [choice EXCEPT ![d] = c]
    /\ dpc' = [dpc EXCEPT ![d] = IF kind[a] = "tool" THEN "read" ELSE "reconciled"]
    /\ allows' = (allows \/ (kind[a] = "harness" /\ c = "approved"))
    /\ UNCHANGED <<bypass, touches, asker, futures, rows, stopper, sweeping, tasks,
                   seen, mishaps>>

WakeBeforeCommit(d) ==                                          \* mutant
    /\ dpc[d] = "read"
    /\ answer' = Resolved({target[d]}, choice[d])
    /\ registered' = registered \ {target[d]}
    /\ touches' = IF call[target[d]] \notin CallTerminal THEN touches \cup {d} ELSE touches
    /\ allows' = (allows \/ choice[d] = "approved")
    /\ dpc' = [dpc EXCEPT ![d] = "reconciled"]
    /\ UNCHANGED <<bypass, target, choice, asker, rows, stopper, sweeping, tasks, seen,
                   mishaps>>

DecideReconcile(d) ==
    /\ dpc[d] = "read"
    /\ touches' = IF call[target[d]] \notin CallTerminal THEN touches \cup {d} ELSE touches
    /\ allows' = (allows \/ choice[d] = "approved")
    /\ dpc' = [dpc EXCEPT ![d] = "reconciled"]
    /\ UNCHANGED <<bypass, target, choice, asker, futures, rows, stopper, sweeping,
                   tasks, seen, mishaps>>

DecideCommit(d) ==
    /\ dpc[d] = "reconciled"
    /\ LET a == target[d]
       IN  /\ row' = [row EXCEPT ![a] = choice[d]]
           /\ call' = IF d \notin touches THEN call
                      ELSE [call EXCEPT ![a] =
                               IF choice[d] = "approved" THEN "running" ELSE "denied"]
           /\ overwritten' = IF row[a] = "pending" THEN overwritten
                             ELSE overwritten \cup {a}
           /\ consent' = IF choice[d] = "approved" THEN consent \cup {a} ELSE consent
           /\ answers' = IF choice[d] = "submitted"
                         THEN [answers EXCEPT ![a] = @ + 1] ELSE answers
    /\ touches' = touches \ {d}
    /\ dpc' = [dpc EXCEPT ![d] = "committed"]
    /\ UNCHANGED <<target, choice, asker, futures, grants, stopper, sweeping, tasks,
                   hasty, unheard, swept, undone, lost, mishaps>>

Done(d) ==
    /\ dpc' = [dpc EXCEPT ![d] = "done"]
    /\ target' = [target EXCEPT ![d] = NoAsk]
    /\ choice' = [choice EXCEPT ![d] = "none"]

(* The commit fails: nothing is stored, but an approval's allow stays.     *)
DecideFail(d) ==
    /\ dpc[d] = "reconciled" /\ mishaps < MaxMishaps
    /\ hasty' = (hasty \/ choice[d] = "approved")
    /\ touches' = touches \ {d}
    /\ Done(d)
    /\ mishaps' = mishaps + 1
    /\ UNCHANGED <<asker, futures, rows, grants, stopper, sweeping, tasks, consent,
                   overwritten, unheard, swept, undone, answers, lost>>

AlwaysTask(d, all) ==                                           \* mutant
    /\ dpc[d] = "committed" /\ ~all
    /\ answer' = Resolved({target[d]}, choice[d])
    /\ registered' = registered \ {target[d]}
    /\ IF kind[target[d]] = "question"
       THEN /\ dpc' = [dpc EXCEPT ![d] = "stale"]
            /\ UNCHANGED <<target, choice>>
       ELSE Done(d)
    /\ UNCHANGED <<touches, grants, asker, rows, stopper, sweeping, tasks, seen, mishaps>>

(* "Approve all this turn" (all) grants the bypass before the harness      *)
(* wakes.  An answer that finds nobody waiting is continued by a task.     *)
DecideResolve(d, all) ==
    /\ dpc[d] = "committed"
    /\ LET a == target[d]
           live == a \in registered /\ answer[a] = "open"
       IN  /\ all => kind[a] = "harness" /\ choice[d] = "approved"
           /\ bypass' = (bypass \/ all)
           /\ answer' = Resolved({a}, choice[d])
           /\ registered' = registered \ {a}
           /\ unheard' = IF live THEN unheard ELSE unheard \cup {a}
           /\ IF kind[a] = "question" /\ ~live
              THEN /\ dpc' = [dpc EXCEPT ![d] = "stale"]
                   /\ UNCHANGED <<target, choice>>
              ELSE Done(d)
    /\ UNCHANGED <<touches, allows, asker, rows, stopper, sweeping, tasks, consent, hasty,
                   overwritten, swept, undone, answers, lost, mishaps>>

AnswerTask(d) ==
    /\ dpc[d] = "stale"
    /\ tasks' = [tasks EXCEPT ![target[d]] = @ + 1]
    /\ Done(d)
    /\ UNCHANGED <<touches, asker, futures, rows, grants, stopper, sweeping, seen, mishaps>>

AnswerTaskFail(d) ==
    /\ dpc[d] = "stale" /\ mishaps < MaxMishaps
    /\ lost' = lost \cup {target[d]}
    /\ Done(d)
    /\ mishaps' = mishaps + 1
    /\ UNCHANGED <<touches, asker, futures, rows, grants, stopper, sweeping, tasks,
                   consent, hasty, overwritten, unheard, swept, undone, answers>>

---------------------------------------------------------------------------
(* expire_harness_approval and expire_harness_question on behalf of        *)
(* /chat/cancel or of a dismissal.                                         *)

StopRead(s, a) ==
    /\ spc[s] = "idle"
    /\ \/ kind[a] = "harness" /\ row[a] = "pending"
       \/ kind[a] = "question" /\ row[a] \notin {"none", "submitted"}
    /\ spc' = [spc EXCEPT ![s] = "read"]
    /\ goal' = [goal EXCEPT ![s] = a]
    /\ UNCHANGED <<asker, futures, rows, grants, decider, sweeping, tasks, seen, mishaps>>

StopCommit(s) ==
    /\ spc[s] = "read"
    /\ LET a == goal[s]
       IN  /\ row' = [row EXCEPT ![a] = IF kind[a] = "question" THEN "cancelled" ELSE "expired"]
           /\ overwritten' = IF row[a] \in {"pending", "cancelled", "expired"}
                             THEN overwritten ELSE overwritten \cup {a}
    /\ spc' = [spc EXCEPT ![s] = "committed"]
    /\ UNCHANGED <<goal, call, asker, futures, grants, decider, sweeping, tasks, consent,
                   hasty, unheard, swept, undone, answers, lost, mishaps>>

StopFail(s) ==
    /\ spc[s] = "read" /\ mishaps < MaxMishaps
    /\ spc' = [spc EXCEPT ![s] = "done"] /\ goal' = [goal EXCEPT ![s] = NoAsk]
    /\ mishaps' = mishaps + 1
    /\ UNCHANGED <<asker, futures, rows, grants, decider, sweeping, tasks, seen>>

StopResolve(s) ==
    /\ spc[s] = "committed"
    /\ LET a == goal[s]
       IN  /\ answer' = Resolved({a}, IF kind[a] = "question" THEN "failed" ELSE "expired")
           /\ registered' = registered \ {a}
    /\ spc' = [spc EXCEPT ![s] = "done"] /\ goal' = [goal EXCEPT ![s] = NoAsk]
    /\ UNCHANGED <<asker, rows, grants, decider, sweeping, tasks, seen, mishaps>>

---------------------------------------------------------------------------
(* heartbeat._expire_stale_approvals: it cancels the futures of the rows   *)
(* it read before it commits, and leaves the call rows alone.  Which rows  *)
(* are old enough is open.                                                 *)

SweepRead(S) ==
    /\ sweeping = {} /\ S # {}
    /\ \A a \in S : row[a] = "pending" /\ kind[a] \in {"tool", "harness"}
    /\ sweeping' = S
    /\ answer' = Resolved(S, "expired")
    /\ registered' = registered \ S
    /\ swept' = swept \cup S
    /\ UNCHANGED <<asker, rows, grants, decider, stopper, tasks, consent, hasty,
                   overwritten, unheard, undone, answers, lost, mishaps>>

SweepCommit ==
    /\ sweeping # {}
    /\ row' = [a \in Asks |-> IF a \in sweeping THEN "expired" ELSE row[a]]
    /\ overwritten' = overwritten \cup {a \in sweeping : row[a] \notin {"pending", "expired"}}
    /\ sweeping' = {}
    /\ UNCHANGED <<call, asker, futures, grants, decider, stopper, tasks, consent, hasty,
                   unheard, swept, undone, answers, lost, mishaps>>

SweepFail ==
    /\ sweeping # {} /\ mishaps < MaxMishaps
    /\ sweeping' = {}
    /\ undone' = undone \cup sweeping
    /\ mishaps' = mishaps + 1
    /\ UNCHANGED <<asker, futures, rows, grants, decider, stopper, tasks, consent, hasty,
                   overwritten, unheard, swept, answers, lost>>

---------------------------------------------------------------------------
(* Everything but the rows is in memory.  An answer that was committed and *)
(* not yet acted on dies with the process.                                 *)
Restart ==
    /\ mishaps < MaxMishaps
    /\ pc' = [a \in Asks |-> IF pc[a] \in {"idle", "ended"} THEN pc[a] ELSE "gone"]
    /\ registered' = {} /\ answer' = [a \in Asks |-> "none"] /\ sawcall' = {}
    /\ allows' = FALSE /\ bypass' = FALSE
    /\ dpc' = [d \in Deciders |-> IF dpc[d] = "idle" THEN "idle" ELSE "done"]
    /\ target' = [d \in Deciders |-> NoAsk]
    /\ choice' = [d \in Deciders |-> "none"] /\ touches' = {}
    /\ spc' = [s \in Stoppers |-> IF spc[s] = "idle" THEN "idle" ELSE "done"]
    /\ goal' = [s \in Stoppers |-> NoAsk]
    /\ sweeping' = {}
    /\ undone' = undone \cup sweeping
    /\ unheard' = unheard \cup {target[d] : d \in {e \in Deciders : dpc[e] = "committed"}}
    /\ lost' = lost \cup {a \in Asks : answer[a] = "submitted" /\ ~Over(a)}
                    \cup {target[d] : d \in {e \in Deciders : choice[e] = "submitted" /\
                                                   dpc[e] \in {"committed", "stale"}}}
    /\ hasty' = (hasty \/ \E d \in Deciders : dpc[d] = "reconciled" /\ choice[d] = "approved")
    /\ mishaps' = mishaps + 1
    /\ UNCHANGED <<kind, verdict, rows, tasks, consent, overwritten, swept, answers>>

AskerStep(a) ==
    \/ Register(a) \/ WaitQuestion(a) \/ Wake(a) \/ Finish(a) \/ Timeout(a)
    \/ LateRead(a) \/ LateReadCall(a) \/ LateCommit(a) \/ LateClose(a)

DeciderStep(d) ==
    DecideReconcile(d) \/ DecideCommit(d) \/ DecideResolve(d, FALSE) \/ AnswerTask(d)

Next ==
    \/ \E a \in Asks : \/ AskerStep(a) \/ Skip(a) \/ LateFail(a)
                       \/ AskAllowed(a) \/ Ask(a)
    \/ \E d \in Deciders : \/ DeciderStep(d) \/ DecideResolve(d, TRUE)
                           \/ DecideFail(d) \/ AnswerTaskFail(d)
                           \/ \E a \in Asks, c \in Decision : DecideRead(d, a, c)
    \/ \E s \in Stoppers : \/ StopCommit(s) \/ StopFail(s) \/ StopResolve(s)
                           \/ \E a \in Asks : StopRead(s, a)
    \/ \E S \in SUBSET Asks : SweepRead(S)
    \/ SweepCommit \/ SweepFail
    \/ Restart

Spec == Init /\ [][Next]_vars

(* The loop runs a coroutine that can go on and fires its timers; the      *)
(* heartbeat worker sweeps at every turn of its loop.                      *)
Fairness ==
    /\ \A a \in Asks : WF_vars(AskerStep(a))
    /\ \A a \in Asks : WF_vars(\E S \in SUBSET Asks : a \in S /\ SweepRead(S))
    /\ WF_vars(SweepCommit)
FairSpec == Spec /\ Fairness

---------------------------------------------------------------------------
(* Properties.                                                             *)

(* Every variable has its type (the shapes of approval_pending._pending,   *)
(* the rows of db/models.py and the locals of the handlers).               *)
TypeOK ==
    /\ kind \in [Asks -> Kind] /\ row \in [Asks -> RowStatus]
    /\ call \in [Asks -> CallStatus] /\ registered \subseteq Asks
    /\ answer \in [Asks -> Answer] /\ pc \in [Asks -> Point]
    /\ sawcall \subseteq Asks /\ verdict \in [Asks -> Verdict]
    /\ allows \in BOOLEAN /\ bypass \in BOOLEAN
    /\ dpc \in [Deciders -> DeciderPoint]
    /\ target \in [Deciders -> Asks \cup {NoAsk}]
    /\ choice \in [Deciders -> Decision] /\ touches \subseteq Deciders
    /\ \A d \in Deciders : dpc[d] \notin {"idle", "done"} => target[d] \in Asks
    /\ spc \in [Stoppers -> {"idle", "read", "committed", "done"}]
    /\ goal \in [Stoppers -> Asks \cup {NoAsk}]
    /\ \A s \in Stoppers : spc[s] \notin {"idle", "done"} => goal[s] \in Asks
    /\ sweeping \subseteq Asks /\ tasks \in [Asks -> Nat]
    /\ consent \subseteq Asks /\ hasty \in BOOLEAN /\ overwritten \subseteq Asks
    /\ unheard \subseteq Asks /\ swept \subseteq Asks /\ undone \subseteq Asks
    /\ answers \in [Asks -> Nat] /\ lost \subseteq Asks
    /\ mishaps \in 0..MaxMishaps

(* Nobody is working on the ask any more.                                  *)
Quiet(a) ==
    /\ Over(a) /\ a \notin sweeping
    /\ \A d \in Deciders : target[d] # a
    /\ \A s \in Stoppers : goal[s] # a

(* A tool runs only if a human approved this very call, or an approval in  *)
(* its turn covers it.  An approval covers its turn before it is committed *)
(* (api_v1_approvals.py:232), so it may be one that is being committed or  *)
(* whose request died.                                                     *)
RunsOnConsent ==
    \A a \in Asks :
        /\ verdict[a] = "approved" => a \in consent
        /\ verdict[a] = "allowed" =>
              \/ consent # {} \/ hasty
              \/ \E d \in Deciders : dpc[d] = "reconciled" /\ choice[d] = "approved"

(* What the asker did is what the row says for ever after, unless a commit *)
(* overwrote a row that had changed since it was read, an expiry acted on  *)
(* was not committed (heartbeat.py:988 cancels first), or the decision     *)
(* reached a harness that was not waiting (it does not read its row again, *)
(* agent_harnesses/approvals.py:233).                                      *)
VerdictMatchesRow ==
    \A a \in Asks :
        Quiet(a) /\ a \notin undone /\ kind[a] \in {"tool", "harness"}
          /\ verdict[a] \in {"approved", "denied", "expired"}
        => \/ row[a] = verdict[a]
           \/ a \in overwritten
           \/ kind[a] = "harness" /\ a \in unheard

(* The call row of a tool ends as its approval did, unless the sweeper     *)
(* expired the approval, a decision was overwritten, or the batch dropped  *)
(* the call.                                                               *)
CallFollowsApproval ==
    \A a \in Asks :
        Quiet(a) /\ pc[a] = "ended" /\ kind[a] = "tool" /\ verdict[a] # "skipped"
          /\ a \notin swept \cup overwritten \cup undone
        => call[a] = IF verdict[a] \in {"approved", "allowed"} THEN "done" ELSE verdict[a]

(* The approval's row, its call's row and the asker tell the same story.   *)
RecordsAgree == VerdictMatchesRow /\ CallFollowsApproval

(* Every accepted answer to a question is acted on once, by the harness    *)
(* that waits or by a new task, unless it died with its coroutine or fell  *)
(* on the future the asker replaced (interactions.py:284).                 *)
AnswersContinueOnce ==
    \A a \in Asks :
        Quiet(a) /\ a \notin lost
        => tasks[a] + (IF verdict[a] = "submitted" THEN 1 ELSE 0) = answers[a]

(* No ask waits for ever: a decision, the sweeper or the timeout ends it.  *)
EveryAskEnds == \A a \in Asks : (pc[a] = "asked") ~> Over(a)

(* No approval stays open for ever, not even one whose asker is gone.      *)
PendingRowsClose ==
    \A a \in Asks : (row[a] = "pending" /\ kind[a] # "question") ~> (row[a] # "pending")
AsksClose == EveryAskEnds /\ PendingRowsClose
===========================================================================
