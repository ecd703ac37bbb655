---------------------------- MODULE StepMachine ----------------------------
(***************************************************************************)
(* What a pipeline run promises to whoever looks at its row, with no       *)
(* coroutines, copies, children or requests in it: one step at a time, in  *)
(* order, each ended as its kind can end, none behind a step that aborted, *)
(* nothing once the run has ended.  A run may break at any time but while  *)
(* it waits for its user.  If it is let loose, by an event that gives it a *)
(* second driver, nothing is promised any more.                            *)
(***************************************************************************)
EXTENDS Naturals, Sequences

CONSTANT Definitions   \* the pipelines to run

VARIABLES
    steps,    \* the definition of the run
    status,   \* of the run
    states,   \* of its steps
    loose     \* nothing is promised any more

vars == <<steps, status, states, loose>>

Ended      == {"done", "failed", "skipped"}
StepStatus == {"pending", "running", "awaiting_user_input"} \cup Ended
RunStatus  == {"pending", "running", "complete", "failed"}

(* How a step of a kind can end by itself; a prompt that is not skipped    *)
(* ends when it is answered.                                               *)
Results(kind) ==
    CASE kind = "foreach"     -> Ended
      [] kind = "user_prompt" -> {"skipped"}
      [] kind = "unknown"     -> {"failed"}
      [] OTHER                -> {"done", "failed"}

Init ==
    /\ steps \in Definitions
    /\ status = "pending"
    /\ states = [i \in DOMAIN steps |-> "pending"]
    /\ loose = FALSE

---------------------------------------------------------------------------
(* The steps of a run that is under way.                                   *)

Aborts(i) == states[i] = "failed" /\ (steps[i].abort \/ steps[i].kind = "unknown")
Passed(i) == states[i] \in Ended /\ ~Aborts(i)

Turn(i, from, to) ==
    /\ status = "running" /\ states[i] = from
    /\ \A j \in DOMAIN steps : j < i => Passed(j)
    /\ states' = [states EXCEPT ![i] = to]
    /\ UNCHANGED status

Begin(i)  == Turn(i, "pending", "running")
Omit(i)   == steps[i].when /\ Turn(i, "pending", "skipped")
Finish(i) == \E result \in Results(steps[i].kind) : Turn(i, "running", result)
Ask(i)    == steps[i].kind = "user_prompt" /\ Turn(i, "running", "awaiting_user_input")
Answer(i) == steps[i].kind = "user_prompt" /\ Turn(i, "awaiting_user_input", "done")

---------------------------------------------------------------------------
(* The run.                                                                *)

Fetch == status = "pending" /\ status' = "running" /\ UNCHANGED states

Defer ==
    /\ status = "running" /\ \A i \in DOMAIN steps : states[i] = "pending"
    /\ status' = "pending" /\ UNCHANGED states

Close ==
    /\ status = "running" /\ steps # <<>>
    /\ (\A i \in DOMAIN steps : Passed(i)) \/ (\E i \in DOMAIN steps : Aborts(i))
    /\ status' = IF \E i \in DOMAIN steps : states[i] = "failed" THEN "failed" ELSE "complete"
    /\ UNCHANGED states

Break ==
    /\ status \in {"pending", "running"}
    /\ \A i \in DOMAIN steps : states[i] # "awaiting_user_input"
    /\ status' = "failed"
    /\ \/ UNCHANGED states
       \/ states' = [i \in DOMAIN steps |-> IF states[i] = "running" THEN "failed" ELSE states[i]]

LetLoose ==
    /\ loose' = TRUE
    /\ status' \in RunStatus /\ states' \in [DOMAIN steps -> StepStatus]

Next ==
    /\ UNCHANGED steps
    /\ \/ /\ UNCHANGED loose
          /\ \/ \E i \in DOMAIN steps : Begin(i) \/ Omit(i) \/ Finish(i) \/ Ask(i) \/ Answer(i)
             \/ Fetch \/ Defer \/ Close \/ Break
       \/ LetLoose

Spec == Init /\ [][Next]_vars
===========================================================================
