------------------------------ MODULE PlanMode ------------------------------
(***************************************************************************)
(* Plan mode of one session (app/services/session_plan_mode.py): a plan is *)
(* a Markdown file, its mode, accepted revision and marks are keys of the  *)
(* session's metadata, one JSON value.  A handler (a route of              *)
(* routers/sessions.py, a tool call, the turn supervisor, a background     *)
(* record of tool evidence) reads the session, then in one go reads and    *)
(* writes the file and its copy of the metadata, then commits the whole    *)
(* copy.  Nothing keeps two handlers apart.                                *)
(*                                                                         *)
(* Notes, evidence and reviews are left out of the metadata: no decision   *)
(* reads them.  So is the text of a plan, but for whether it may be        *)
(* approved.                                                               *)
(***************************************************************************)
EXTENDS Integers

CONSTANTS
    Slugs,       \* task slugs: a plan file each
    NSteps,      \* steps of a plan
    Drafted,     \* the steps a client or the model may draft
    Requests,    \* handlers outside a turn: routes, /plan, background records
    Calls,       \* the tool calls of a turn
    Supervisor,  \* the handler that runs when a turn ends
    MaxHandled,  \* bound: handlers that read the session
    MaxTurns,    \* bound: turns
    MaxFailures  \* bound: commits that fail, restarts

Hands == Requests \cup Calls \cup {Supervisor}

ASSUME PlanAssumption ==
    /\ "none" \notin Slugs
    /\ Drafted \subseteq [1..NSteps -> {"pending", "in_progress", "done", "blocked"}]
    /\ Requests \cap Calls = {} /\ Supervisor \notin Requests \cup Calls
    /\ NSteps \in Nat \ {0} /\ MaxHandled \in Nat /\ MaxTurns \in Nat /\ MaxFailures \in Nat

VARIABLES
    meta,       \* the committed metadata
    file,       \* [Slugs -> Plan]; revision 0: no such file
    pc,         \* [Hands -> Point]: where a handler stands
    copy,       \* [Hands -> Meta]: the metadata it read, then what it writes
    turn, phase,\* the latest turn, and whether it runs or is supervised
    stale,      \* observer: handlers whose copy is no longer what is committed
    overwritten,\* observer: a stale copy was committed
    torn,       \* observer: files and metadata were written in different orders
    approved,   \* observer: the plans that were approved
    reused,     \* observer: a plan was created after one had been approved
    ran,        \* observer: the plans under which mutating tools ran
    marked,     \* observer: turns marked as without an outcome
    handled, failures

store  == <<meta, file>>
hands  == <<pc, copy, stale>>
turns  == <<turn, phase>>
flaws  == <<overwritten, torn>>
plans  == <<approved, reused, ran>>
bounds == <<handled, failures>>
vars == <<store, hands, turns, flaws, plans, marked, bounds>>

Mode       == {"chat", "planning", "executing", "blocked", "done"}
Status     == {"draft", "approved", "executing", "blocked", "done"}
StepStatus == {"pending", "in_progress", "done", "blocked"}
Steps      == 1..NSteps
Turns      == 1..MaxTurns

\* text is an observer: which of the texts this file has had.
Plan == [rev : Nat, status : Status, steps : [Steps -> StepStatus],
         sound : BOOLEAN, text : Nat]

\* The keys that decisions read.  pending: a turn without outcome, or 0.
Meta == [mode : Mode, path : Slugs \cup {"none"}, rev : Nat, accepted : Nat,
         status : Status, replan : BOOLEAN, pending : Nat, outcomes : SUBSET Nat]

Point == {"idle", "read", "noted", "saved"}

AllPending == [s \in Steps |-> "pending"]

\* The metadata of a session that has had no plan.
Blank == [mode |-> "chat", path |-> "none", rev |-> 0, accepted |-> 0,
          status |-> "draft", replan |-> FALSE, pending |-> 0, outcomes |-> {}]

Init ==
    /\ meta = Blank
    /\ file = [s \in Slugs |-> [rev |-> 0, status |-> "draft", steps |-> AllPending,
                                sound |-> FALSE, text |-> 0]]
    /\ pc = [h \in Hands |-> "idle"] /\ copy = [h \in Hands |-> Blank] /\ stale = {}
    /\ turn = 0 /\ phase = "no"
    /\ overwritten = FALSE /\ torn = FALSE
    /\ approved = {} /\ reused = FALSE /\ ran = {} /\ marked = {}
    /\ handled = 0 /\ failures = 0

---------------------------------------------------------------------------
(* A handler reads, writes and commits.                                    *)

HasPlan(m) == m.path # "none"
PlanOf(m)  == file[m.path]
Text(m)    == <<m.path, PlanOf(m).text>>

(* db.get: a new database session reads the row.                           *)
Read(h) ==
    /\ pc[h] = "idle" /\ handled < MaxHandled
    /\ h \in Calls => phase = "run"
    /\ h = Supervisor => phase = "mark"
    /\ pc' = [pc EXCEPT ![h] = "read"] /\ copy' = [copy EXCEPT ![h] = meta]
    /\ handled' = handled + 1
    /\ UNCHANGED <<store, stale, turns, flaws, plans, marked, failures>>

(* The handler ends.                                                       *)
Leave(h) ==
    /\ pc' = [pc EXCEPT ![h] = "idle"] /\ copy' = [copy EXCEPT ![h] = Blank]
    /\ phase' = IF h = Supervisor THEN "no" ELSE phase

(* It raises or has nothing to do: nothing is written.                     *)
Refuse(h) ==
    /\ pc[h] = "read"
    /\ Leave(h) /\ stale' = stale \ {h}
    /\ UNCHANGED <<store, turn, flaws, plans, marked, bounds>>

(* It changes its copy of the metadata.                                    *)
Note(h, m) ==
    /\ pc[h] = "read"
    /\ pc' = [pc EXCEPT ![h] = "noted"] /\ copy' = [copy EXCEPT ![h] = m]
    /\ UNCHANGED <<store, stale, turns, flaws, ran, marked, bounds>>

SaveUnnumbered(h, s, p, m) ==                                   \* mutant
    /\ pc[h] = "read"
    /\ file' = [file EXCEPT ![s] = p]
    /\ pc' = [pc EXCEPT ![h] = "saved"]
    /\ copy' = [copy EXCEPT ![h] = [m EXCEPT !.path = s, !.status = p.status]]
    /\ torn' = (torn \/ \E g \in Hands \ {h} : pc[g] = "saved")
    /\ UNCHANGED <<meta, stale, turns, overwritten, ran, marked, bounds>>

(* save_session_plan: the file at once, the metadata with the commit.      *)
Save(h, s, p, m) ==
    /\ pc[h] = "read"
    /\ file' = [file EXCEPT ![s] = p]
    /\ pc' = [pc EXCEPT ![h] = "saved"]
    /\ copy' = [copy EXCEPT ![h] = [m EXCEPT !.path = s, !.rev = p.rev, !.status = p.status]]
    /\ torn' = (torn \/ \E g \in Hands \ {h} : pc[g] = "saved")
    /\ UNCHANGED <<meta, stale, turns, overwritten, ran, marked, bounds>>

(* The commit writes the whole value over whatever is there.               *)
Commit(h) ==
    /\ pc[h] \in {"noted", "saved"}
    /\ meta' = copy[h] /\ Leave(h)
    /\ overwritten' = (overwritten \/ h \in stale)
    /\ stale' = (IF copy[h] = meta THEN stale ELSE {g \in Hands : pc[g] # "idle"}) \ {h}
    /\ marked' = IF h = Supervisor THEN marked \cup {turn} ELSE marked
    /\ UNCHANGED <<file, turn, torn, plans, bounds>>

(* The commit fails: the file stays as it was written.                     *)
Fail(h) ==
    /\ pc[h] \in {"noted", "saved"} /\ failures < MaxFailures
    /\ failures' = failures + 1
    /\ torn' = (torn \/ pc[h] = "saved")
    /\ Leave(h) /\ stale' = stale \ {h}
    /\ UNCHANGED <<store, turn, overwritten, plans, marked, handled>>

(* The process restarts: handlers and the turn are gone.                   *)
Restart ==
    /\ failures < MaxFailures /\ failures' = failures + 1
    /\ torn' = (torn \/ \E h \in Hands : pc[h] = "saved")
    /\ pc' = [h \in Hands |-> "idle"] /\ copy' = [h \in Hands |-> Blank] /\ stale' = {}
    /\ phase' = "no"
    /\ UNCHANGED <<store, turn, overwritten, plans, marked, handled>>

---------------------------------------------------------------------------
(* Drafting.                                                               *)

(* start_session_plan_mode, and /plan without a plan.                      *)
Enter(h) ==
    /\ h \in Requests
    /\ Note(h, [copy[h] EXCEPT !.mode = "planning"])
    /\ UNCHANGED <<approved, reused>>

(* create_session_plan, from POST /plans or the first publish_plan.  The   *)
(* accepted revision of an earlier plan is kept.                           *)
Create(h, s, sound, steps) ==
    /\ h \in Requests \/ (h \in Calls /\ ~HasPlan(copy[h]) /\ copy[h].mode = "planning")
    /\ Save(h, s, [rev |-> 1, status |-> "draft", steps |-> steps, sound |-> sound,
                   text |-> file[s].text + 1],
            [copy[h] EXCEPT !.mode = "planning"])
    /\ reused' = (reused \/ approved # {})
    /\ UNCHANGED approved

RedraftSameRevision(p, sound, steps) ==                         \* mutant
    [p EXCEPT !.text = @ + 1, !.status = "draft", !.sound = sound, !.steps = steps]

Redraft(p, sound, steps) ==
    [p EXCEPT !.rev = @ + 1, !.text = @ + 1, !.status = "draft", !.sound = sound, !.steps = steps]

(* publish_plan on a plan that exists: its steps are what the model says.   *)
Publish(h, sound, steps) ==
    /\ h \in Calls /\ HasPlan(copy[h]) /\ copy[h].mode = "planning"
    /\ Save(h, copy[h].path, Redraft(PlanOf(copy[h]), sound, steps), copy[h])
    /\ UNCHANGED <<approved, reused>>

(* PATCH /plan, with the revision the client has seen.                     *)
Update(h, sound) ==
    /\ h \in Requests /\ HasPlan(copy[h])
    /\ LET p == PlanOf(copy[h])
       IN Save(h, copy[h].path, Redraft(p, sound, p.steps), [copy[h] EXCEPT !.mode = "planning"])
    /\ UNCHANGED <<approved, reused>>

(* append_plan_artifact rewrites the file and changes no decision.         *)
AppendArtifact(h) ==
    /\ h \in Calls /\ HasPlan(copy[h]) /\ copy[h].mode # "chat"
    /\ Save(h, copy[h].path, PlanOf(copy[h]), copy[h])
    /\ UNCHANGED <<approved, reused>>

(* Planning notes, answers, tool evidence, semantic reviews, and the       *)
(* writers of the metadata's other keys (leases, harness settings).        *)
Remark(h) ==
    /\ h # Supervisor
    /\ Note(h, copy[h])
    /\ UNCHANGED <<approved, reused>>

---------------------------------------------------------------------------
(* Execution.                                                              *)

Pending(steps) == {s \in Steps : steps[s] = "pending"}
Active(steps)  == {s \in Steps : steps[s] = "in_progress"}

(* _find_next_pending_step, put in progress.                               *)
Advance(steps) ==
    [s \in Steps |-> IF s \in Pending(steps) /\ \A r \in Pending(steps) : s <= r
                     THEN "in_progress" ELSE steps[s]]

(* approve_session_plan: what the file says now, if it is sound.           *)
Approve(h) ==
    /\ h \in Requests /\ HasPlan(copy[h])
    /\ LET p == PlanOf(copy[h])
       IN /\ p.sound /\ \A s \in Steps : p.steps[s] # "blocked"
          /\ Save(h, copy[h].path,
                  [p EXCEPT !.status = "executing",
                            !.steps = IF Active(p.steps) = {} THEN Advance(p.steps) ELSE p.steps],
                  [copy[h] EXCEPT !.mode = "executing", !.accepted = p.rev])
    /\ approved' = approved \cup {Text(copy[h])}
    /\ UNCHANGED reused

(* _ensure_plan_is_approved_for_execution.                                 *)
IsApproved(m) == HasPlan(m) /\ m.accepted > 0 /\ PlanOf(m).rev = m.accepted

(* update_plan_step_status.                                                *)
WithStep(p, s, st) ==
    LET steps == [p.steps EXCEPT ![s] = st]
    IN CASE st = "blocked"     -> [p EXCEPT !.steps = steps, !.status = "blocked"]
         [] st = "done"        -> [p EXCEPT !.steps = Advance(steps),
                                            !.status = IF Pending(steps) = {} THEN "done"
                                                                              ELSE "executing"]
         [] st = "in_progress" ->
               [p EXCEPT !.steps = [r \in Steps |-> IF r # s /\ steps[r] = "in_progress"
                                                    THEN "pending" ELSE steps[r]],
                         !.status = "executing"]
         [] st = "pending"     -> [p EXCEPT !.steps = steps, !.status = "approved"]

ModeOf(p) == IF p.status \in {"blocked", "done"} THEN p.status ELSE "executing"

(* The routes that set the status of a step.                               *)
SetStep(h, s, st) ==
    /\ h \in Requests /\ IsApproved(copy[h])
    /\ LET p == WithStep(PlanOf(copy[h]), s, st)
       IN Save(h, copy[h].path, p, [copy[h] EXCEPT !.mode = ModeOf(p)])
    /\ UNCHANGED <<approved, reused>>

(* POST /plans/{id}/status "complete": every step, one after the other.    *)
CompleteAll(h) ==
    /\ h \in Requests /\ IsApproved(copy[h])
    /\ \E s \in Steps : PlanOf(copy[h]).steps[s] # "done"
    /\ Save(h, copy[h].path,
            [PlanOf(copy[h]) EXCEPT !.steps = [s \in Steps |-> "done"], !.status = "done"],
            [copy[h] EXCEPT !.mode = "done"])
    /\ UNCHANGED <<approved, reused>>

AccountedOwn(m) ==                                              \* mutant
    [m EXCEPT !.outcomes = @ \cup {turn}, !.pending = 0]

(* An outcome goes to the turn that is marked, if one is.                  *)
Accounted(m) ==
    [m EXCEPT !.outcomes = @ \cup {IF m.pending # 0 THEN m.pending ELSE turn}, !.pending = 0]

(* record_plan_progress: an outcome alone, or with its step.               *)
Progress(h) ==
    /\ h \in Calls /\ copy[h].mode \in {"executing", "blocked"} /\ IsApproved(copy[h])
    /\ \/ Note(h, Accounted(copy[h]))
       \/ \E s \in Steps, st \in {"done", "blocked"} :
             LET p == WithStep(PlanOf(copy[h]), s, st)
             IN Save(h, copy[h].path, p, [Accounted(copy[h]) EXCEPT !.mode = ModeOf(p)])
    /\ UNCHANGED <<approved, reused>>

(* request_plan_replan, by route or by tool, whose guard allows it to      *)
(* executing and blocked sessions once.                                    *)
Replan(h, affected) ==
    /\ h \in Requests \cup Calls /\ HasPlan(copy[h]) /\ copy[h].accepted > 0
    /\ h \in Calls => /\ copy[h].mode # "planning"
                      /\ copy[h].mode \in {"executing", "blocked"} => ~copy[h].replan
    /\ LET p == PlanOf(copy[h])
           hit(s) == p.steps[s] = "in_progress" /\ (affected = {} \/ s \in affected)
       IN Save(h, copy[h].path,
               Redraft(p, FALSE, [s \in Steps |-> IF hit(s) THEN "blocked" ELSE p.steps[s]]),
               [copy[h] EXCEPT !.mode = "planning", !.replan = TRUE])
    /\ UNCHANGED <<approved, reused>>

(* exit_session_plan_mode.                                                 *)
Exit(h) ==
    /\ h \in Requests
    /\ Note(h, [copy[h] EXCEPT !.mode = "chat",
                   !.status = IF HasPlan(copy[h]) THEN PlanOf(copy[h]).status ELSE @])
    /\ UNCHANGED <<approved, reused>>

(* resume_session_plan_mode: the mode is told by the file's status.        *)
Resume(h) ==
    /\ h \in Requests /\ HasPlan(copy[h])
    /\ LET p == PlanOf(copy[h])
       IN Save(h, copy[h].path, p,
               [copy[h] EXCEPT !.mode = IF p.status \in {"draft", "approved"} THEN "planning"
                                                                              ELSE p.status])
    /\ UNCHANGED <<approved, reused>>

---------------------------------------------------------------------------
(* Turns and their tools.                                                  *)

(* tool_allowed_in_plan_mode for a mutating tool that is not of plan mode  *)
(* itself, while the session executes a plan.                              *)
Allowed(m) ==
    /\ m.mode = "executing" /\ m.pending = 0 /\ ~m.replan
    /\ IsApproved(m) /\ Active(PlanOf(m).steps) # {}

(* The guard lets the tool run.                                            *)
RunTool(h) ==
    /\ h \in Calls /\ pc[h] = "read" /\ Allowed(copy[h])
    /\ ran' = ran \cup {Text(copy[h])}
    /\ Leave(h) /\ stale' = stale \ {h}
    /\ UNCHANGED <<store, turn, flaws, approved, reused, marked, bounds>>

BeginTurn ==
    /\ phase = "no" /\ turn < MaxTurns
    /\ turn' = turn + 1 /\ phase' = "run"
    /\ UNCHANGED <<store, hands, flaws, plans, marked, bounds>>

(* The supervisor runs after a turn without an error.                      *)
EndTurn(ok) ==
    /\ phase = "run" /\ \A h \in Calls : pc[h] = "idle"
    /\ phase' = IF ok THEN "mark" ELSE "no"
    /\ UNCHANGED <<store, hands, turn, flaws, plans, marked, bounds>>

(* mark_plan_turn_outcome_pending.                                         *)
Mark ==
    LET m == copy[Supervisor]
    IN /\ m.mode \in {"executing", "blocked"} /\ IsApproved(m)
       /\ turn \notin m.outcomes /\ m.pending = 0
       /\ Note(Supervisor, [m EXCEPT !.pending = turn])
       /\ UNCHANGED <<approved, reused>>

---------------------------------------------------------------------------
Draft(h) ==
    \/ Enter(h) \/ AppendArtifact(h) \/ Remark(h)
    \/ \E sound \in BOOLEAN :
          \/ Update(h, sound)
          \/ \E steps \in Drafted :
                Publish(h, sound, steps) \/ \E s \in Slugs : Create(h, s, sound, steps)

Execute(h) ==
    \/ Approve(h) \/ CompleteAll(h) \/ Progress(h) \/ Exit(h) \/ Resume(h)
    \/ \E s \in Steps, st \in StepStatus : SetStep(h, s, st)
    \/ \E affected \in SUBSET Steps : Replan(h, affected)

Next ==
    \/ \E h \in Hands : \/ Read(h) \/ Refuse(h) \/ Draft(h) \/ Execute(h) \/ RunTool(h)
                        \/ Commit(h) \/ Fail(h)
    \/ Mark \/ BeginTurn \/ \E ok \in BOOLEAN : EndTurn(ok)
    \/ Restart

Spec == Init /\ [][Next]_vars

---------------------------------------------------------------------------
(* Properties.                                                             *)

(* Every variable keeps its type.                                          *)
TypeOK ==
    /\ meta \in Meta /\ file \in [Slugs -> Plan]
    /\ pc \in [Hands -> Point] /\ copy \in [Hands -> Meta] /\ stale \in SUBSET Hands
    /\ turn \in Nat /\ phase \in {"no", "run", "mark"}
    /\ overwritten \in BOOLEAN /\ torn \in BOOLEAN
    /\ reused \in BOOLEAN /\ marked \in SUBSET Nat
    /\ approved \in SUBSET (Slugs \X Nat) /\ ran \in SUBSET (Slugs \X Nat)
    /\ handled \in Nat /\ failures \in Nat

(* A mutating tool runs in an executing session only under a text of the   *)
(* plan that was approved, however drafts, approvals, replans, stale       *)
(* commits, failed commits and restarts follow each other; unless another  *)
(* plan was created when one had been approved: it starts at revision 1    *)
(* and the accepted revision is kept (1341), which it then reaches.        *)
WorkIsApproved == ~reused => ran \subseteq approved

(* When no handler is between its write and its commit, metadata and file  *)
(* tell the same: the revision and status, and a mode of execution only    *)
(* for the accepted revision.  Unless a stale copy was committed, or a     *)
(* commit was lost after its file had been written.                        *)
Agree(m) ==
    HasPlan(m) =>
        /\ PlanOf(m).rev = m.rev /\ PlanOf(m).status = m.status
        /\ m.mode = "executing" => m.status \in {"executing", "approved"}
        /\ m.mode \in {"blocked", "done"} => m.status = m.mode
        /\ m.mode \in {"executing", "blocked", "done"} => m.accepted = m.rev
PlanAgrees ==
    ~overwritten /\ ~torn /\ (\A h \in Hands : pc[h] \in {"idle", "read"}) => Agree(meta)

(* A turn that was marked as ending without an outcome stays marked until  *)
(* an outcome is recorded for it, through drafts, approvals, replans and   *)
(* exits, unless a handler that had read before commits over the mark.     *)
MarkedTurnsOwe ==
    ~overwritten => \A t \in marked : meta.pending = t \/ t \in meta.outcomes
=============================================================================
