------------------------ MODULE SessionTurnsProofs ------------------------
(***************************************************************************)
(* Proofs about SessionTurns for every set of requests, any number of      *)
(* faults, cancels and restarts and any retry limit: type correctness, the *)
(* serialization of runs by the session lock, the aim of a cancel, and the *)
(* number of times a message's task may start.                             *)
(***************************************************************************)
EXTENDS SessionTurns, TLAPS

---------------------------------------------------------------------------
(* Types, with the one fact they need about the lock: a held lock has a    *)
(* holder, since Cancel adds the holder to asked.                          *)
LockTyped == locked => holder \in Requests

TypeInv == TypeOK /\ LockTyped

(* No run, no lock.                                                        *)
LEMMA InitType == Init => TypeInv
<1> SUFFICES ASSUME Init PROVE TypeInv
  OBVIOUS
<1>1. /\ locked \in BOOLEAN /\ aged \in BOOLEAN /\ flag \in BOOLEAN
      /\ holder \in Requests \cup {NoOne} /\ LockTyped
  BY DEF Init, LockTyped
<1>2. /\ pc \in [Requests -> Point] /\ task \in [Requests -> TaskStatus]
  BY DEF Init, Point, TaskStatus
<1>3. /\ ready \in [Requests -> BOOLEAN] /\ stored \in [Requests -> BOOLEAN]
      /\ bound \in [Requests -> BOOLEAN]
  BY DEF Init
<1>4. /\ retries \in [Requests -> Nat] /\ rows \in [Requests -> Nat]
      /\ began \in [Requests -> Nat] /\ ended \in [Requests -> Nat]
  BY DEF Init
<1>5. /\ cancelling \in BOOLEAN /\ asked \in SUBSET Requests
      /\ cancelled \in SUBSET Requests /\ outlived \in BOOLEAN
      /\ faults \in Nat /\ cancels \in Nat /\ restarts \in Nat
  BY DEF Init
<1>6. QED
  BY <1>1, <1>2, <1>3, <1>4, <1>5 DEF TypeInv, TypeOK

(* Every step but the agent loop's and the task table's, one request.      *)
LEMMA TurnStepType ==
  ASSUME TypeInv, NEW r \in Requests, TurnStep(r) PROVE TypeInv'
<1> USE DEF TypeInv, TypeOK, LockTyped, GoTo, Add, Fault, rowvars, local, seen, stops,
            lock, bounds, Point, TurnPoint, TaskPoint
<1>1. ASSUME NEW c \in BOOLEAN, NEW k \in BOOLEAN, NEW h \in BOOLEAN, BeginTurn(r, c, k, h)
      PROVE  TypeInv'
  BY <1>1 DEF BeginTurn
<1>2. ASSUME NEW ok \in BOOLEAN, HarnessTurn(r, ok) PROVE TypeInv'
  BY <1>2 DEF HarnessTurn
<1>3. ASSUME NEW ok \in BOOLEAN, DetectMentions(r, ok) PROVE TypeInv'
  BY <1>3 DEF DetectMentions
<1>4. ASSUME NEW c \in BOOLEAN, NEW ok \in BOOLEAN, Persist(r, c, ok) PROVE TypeInv'
  BY <1>4 DEF Persist, Store, StoreTurn
<1>5. ASSUME NEW ok \in BOOLEAN, AfterTurn(r, ok) PROVE TypeInv'
  BY <1>5 DEF AfterTurn
<1>6. ASSUME NEW c \in BOOLEAN, NEW ok \in BOOLEAN, Rescue(r, c, ok) PROVE TypeInv'
  BY <1>6 DEF Rescue, Store, StoreTurn
<1>7. CASE Stream(r)
  BY <1>7 DEF Stream, AgentLoop
<1>8. CASE Finish(r)
  <2>1. /\ locked' \in BOOLEAN /\ aged' \in BOOLEAN /\ flag' \in BOOLEAN
          /\ holder' \in Requests \cup {NoOne} /\ LockTyped'
    BY <1>8 DEF Finish, Release, ForgetCancel
  <2>2. pc' \in [Requests -> Point] /\ task' \in [Requests -> TaskStatus]
    BY <1>8 DEF Finish, Release, ForgetCancel
  <2>3. /\ ready' \in [Requests -> BOOLEAN] /\ retries' \in [Requests -> Nat]
          /\ rows' \in [Requests -> Nat] /\ began' \in [Requests -> Nat]
          /\ ended' \in [Requests -> Nat]
    BY <1>8 DEF Finish, Release, ForgetCancel
  <2>4. QED
    BY <1>8, <2>1, <2>2, <2>3 DEF Finish, Release, ForgetCancel
<1>9. QED
  BY <1>1, <1>2, <1>3, <1>4, <1>5, <1>6, <1>7, <1>8 DEF TurnStep

(* The steps of run_task; those that leave it also write its row.          *)
LEMMA TaskStepType ==
  ASSUME TypeInv, NEW r \in Requests, TaskStep(r) PROVE TypeInv'
<1> USE DEF TypeInv, TypeOK, LockTyped, GoTo, Add, Fault, rowvars, local, seen, stops,
            lock, bounds, Point, TurnPoint, TaskPoint, TaskStatus
<1>1. CASE LockTask(r)
  BY <1>1 DEF LockTask, Acquire, Grab, ForgetCancel
<1>2. CASE Defer(r)
  BY <1>2 DEF Defer
<1>3. CASE RunAgent(r)
  BY <1>3 DEF RunAgent, AgentLoop
<1>4. CASE RateLimited(r)
  <2>1. /\ locked' = FALSE /\ aged' = FALSE /\ flag' = FALSE /\ holder' = NoOne
    BY <1>4 DEF RateLimited, RetryLater, GiveUp, Leave, Release, ForgetCancel
  <2>2. PICK status \in TaskStatus, where \in Point :
          task' = [task EXCEPT ![r] = status] /\ pc' = [pc EXCEPT ![r] = where]
    BY <1>4 DEF RateLimited, RetryLater, GiveUp, Leave
  <2>3. /\ ready' = ready \/ ready' = [ready EXCEPT ![r] = FALSE]
        /\ retries' = retries \/ retries' = Add(retries, r)
        /\ ended' = ended \/ ended' = Add(ended, r)
        /\ faults' = faults \/ faults' = faults + 1
    BY <1>4 DEF RateLimited, RetryLater, GiveUp
  <2>4. UNCHANGED <<local, rows, began, stops, cancelled, cancels, restarts>>
    BY <1>4 DEF RateLimited
  <2>5. /\ retries' \in [Requests -> Nat] /\ ended' \in [Requests -> Nat]
        /\ ready' \in [Requests -> BOOLEAN] /\ faults' \in Nat
    <3>1. retries' \in [Requests -> Nat]
      BY <2>3
    <3>2. ended' \in [Requests -> Nat]
      BY <2>3
    <3>3. ready' \in [Requests -> BOOLEAN]
      BY <2>3
    <3>4. faults' \in Nat
      BY <2>3
    <3>5. QED
      BY <3>1, <3>2, <3>3, <3>4
  <2>6. pc' \in [Requests -> Point] /\ task' \in [Requests -> TaskStatus]
    BY <2>2
  <2>7. QED
    BY <2>1, <2>4, <2>5, <2>6
<1>5. ASSUME NEW ok \in BOOLEAN, LookUp(r, ok) PROVE TypeInv'
  BY <1>5 DEF LookUp
<1>6. ASSUME NEW c \in BOOLEAN, NEW ok \in BOOLEAN, Save(r, c, ok) PROVE TypeInv'
  BY <1>6 DEF Save, Store, StoreTurn
<1>7. ASSUME NEW ok \in BOOLEAN, Complete(r, ok) PROVE TypeInv'
  <2>1. /\ locked' \in BOOLEAN /\ aged' \in BOOLEAN /\ flag' \in BOOLEAN
          /\ holder' \in Requests \cup {NoOne} /\ LockTyped'
    BY <1>7 DEF Complete, Leave, Release, ForgetCancel
  <2>2. pc' \in [Requests -> Point] /\ task' \in [Requests -> TaskStatus]
    BY <1>7 DEF Complete, Leave, Release, ForgetCancel
  <2>3. /\ ready' \in [Requests -> BOOLEAN] /\ retries' \in [Requests -> Nat]
          /\ rows' \in [Requests -> Nat] /\ began' \in [Requests -> Nat]
          /\ ended' \in [Requests -> Nat]
    BY <1>7 DEF Complete, Leave, Release, ForgetCancel
  <2>4. QED
    BY <1>7, <2>1, <2>2, <2>3 DEF Complete, Leave, Release, ForgetCancel
<1>8. ASSUME NEW ok \in BOOLEAN, FailTask(r, ok) PROVE TypeInv'
  <2>1. /\ locked' \in BOOLEAN /\ aged' \in BOOLEAN /\ flag' \in BOOLEAN
          /\ holder' \in Requests \cup {NoOne} /\ LockTyped'
    BY <1>8 DEF FailTask, Leave, Release, ForgetCancel
  <2>2. pc' \in [Requests -> Point] /\ task' \in [Requests -> TaskStatus]
    BY <1>8 DEF FailTask, Leave, Release, ForgetCancel
  <2>3. /\ ready' \in [Requests -> BOOLEAN] /\ retries' \in [Requests -> Nat]
          /\ rows' \in [Requests -> Nat] /\ began' \in [Requests -> Nat]
          /\ ended' \in [Requests -> Nat]
    BY <1>8 DEF FailTask, Leave, Release, ForgetCancel
  <2>4. QED
    BY <1>8, <2>1, <2>2, <2>3 DEF FailTask, Leave, Release, ForgetCancel
<1>9. CASE DieUnlocked(r)
  BY <1>9 DEF DieUnlocked
<1>10. QED
  BY <1>1, <1>2, <1>3, <1>4, <1>5, <1>6, <1>7, <1>8, <1>9 DEF TaskStep

(* One case per disjunct of Next.                                          *)
LEMMA NextType == TypeInv /\ [Next]_vars => TypeInv'
<1> SUFFICES ASSUME TypeInv, [Next]_vars PROVE TypeInv'
  OBVIOUS
<1>1. ASSUME NEW r \in Requests, TurnStep(r) PROVE TypeInv'
  BY <1>1, TurnStepType
<1>2. ASSUME NEW r \in Requests, TaskStep(r) PROVE TypeInv'
  BY <1>2, TaskStepType
<1> USE DEF TypeInv, TypeOK, LockTyped, GoTo, Add, Fault, rowvars, local, seen, stops,
            lock, bounds, Point, TurnPoint, TaskPoint, TaskStatus
<1>3. ASSUME NEW r \in Requests, Post(r) PROVE TypeInv'
  <2>1. /\ locked' \in BOOLEAN /\ aged' \in BOOLEAN /\ flag' \in BOOLEAN
          /\ holder' \in Requests \cup {NoOne} /\ LockTyped'
    BY <1>3 DEF Post, Acquire, Grab, ForgetCancel
  <2>2. pc' \in [Requests -> Point] /\ task' \in [Requests -> TaskStatus]
    BY <1>3 DEF Post, Acquire, Grab, ForgetCancel
  <2>3. ready' \in [Requests -> BOOLEAN] /\ rows' \in [Requests -> Nat]
    <3>1. ready' \in [Requests -> BOOLEAN]
      BY <1>3 DEF Post, Acquire
    <3>2. rows' = rows \/ rows' = Add(rows, r)
      BY <1>3 DEF Post, Acquire
    <3>3. QED
      BY <3>1, <3>2
  <2>4. QED
    BY <1>3, <2>1, <2>2, <2>3 DEF Post, Acquire, Grab, ForgetCancel
<1>4. ASSUME NEW r \in Requests, BecomeReady(r) PROVE TypeInv'
  BY <1>4 DEF BecomeReady
<1>5. ASSUME NEW r \in Requests, RecoverStuck(r) PROVE TypeInv'
  BY <1>5 DEF RecoverStuck, MarkStuck
<1>6. CASE FetchDue
  BY <1>6 DEF FetchDue
<1>7. CASE Age \/ Sweep
  BY <1>7 DEF Age, Sweep, Release, ForgetCancel
<1>8. CASE Cancel
  BY <1>8 DEF Cancel
<1>9. CASE CancelTasks
  BY <1>9 DEF CancelTasks
<1>10. CASE Restart
  <2>1. /\ locked' \in BOOLEAN /\ aged' \in BOOLEAN /\ flag' \in BOOLEAN
          /\ holder' \in Requests \cup {NoOne} /\ LockTyped'
    BY <1>10 DEF Restart, Release, ForgetCancel
  <2>2. pc' \in [Requests -> Point] /\ task' \in [Requests -> TaskStatus]
    BY <1>10 DEF Restart, Release, ForgetCancel
  <2>3. /\ ready' \in [Requests -> BOOLEAN] /\ retries' \in [Requests -> Nat]
          /\ rows' \in [Requests -> Nat] /\ began' \in [Requests -> Nat]
          /\ ended' \in [Requests -> Nat]
    BY <1>10 DEF Restart, Release, ForgetCancel
  <2>4. restarts' \in Nat /\ cancelling' \in BOOLEAN
    <3>1. restarts' = restarts + 1
      BY <1>10 DEF Restart
    <3>2. cancelling' = FALSE
      BY <1>10 DEF Restart
    <3>3. restarts' \in Nat
      BY <3>1
    <3>4. QED
      BY <3>2, <3>3
  <2>5. UNCHANGED <<stored, bound, asked, outlived, cancelled, faults, cancels>>
    BY <1>10 DEF Restart
  <2>6. QED
    BY <2>1, <2>2, <2>3, <2>4, <2>5
<1>11. CASE UNCHANGED vars
  BY <1>11 DEF vars
<1>12. QED
  BY <1>1, <1>2, <1>3, <1>4, <1>5, <1>6, <1>7, <1>8, <1>9, <1>10, <1>11 DEF Next

(* Every variable keeps its type, whatever runs raise and however often    *)
(* the process restarts: session_locks, turn_worker and tasks together.    *)
THEOREM TurnsTypeCorrect == Spec => []TypeOK
<1>1. TypeInv => TypeOK
  BY DEF TypeInv
<1>2. QED
  BY InitType, NextType, <1>1, PTL DEF Spec

---------------------------------------------------------------------------
(* Starts.  A pending row's coroutine is not alive, so that the row cannot *)
(* be fetched twice, and a request that stands before its TURN_STARTED has *)
(* one start left.                                                         *)
Unstarted == {"new", "queued", "fetched", "defer", "lookup", "begin"}

Starts ==
    \A r \in Requests :
        /\ task[r] = "pending" => pc[r] = "queued"
        /\ began[r] <= 1 + retries[r] /\ retries[r] <= RateLimitRetries
        /\ pc[r] \in Unstarted => began[r] <= retries[r]

(* Nothing has begun.                                                      *)
LEMMA InitStarts == Init => Starts
<1> SUFFICES ASSUME Init PROVE Starts
  OBVIOUS
<1>1. 0 <= RateLimitRetries
  BY TurnsAssumption DEF TurnsAssumption
<1>2. \A r \in Requests : task[r] = "none" /\ began[r] = 0 /\ retries[r] = 0
  BY DEF Init
<1>3. ASSUME NEW r \in Requests
      PROVE  began[r] <= 1 + retries[r] /\ retries[r] <= RateLimitRetries /\ began[r] <= retries[r]
  BY <1>1, <1>2
<1>4. QED
  BY <1>2, <1>3 DEF Starts

(* A step of one request that starts nothing and stays on its side.        *)
LEMMA QuietStep ==
  ASSUME TypeInv, Starts, NEW r \in Requests, pc[r] # "queued", NEW where \in Point,
         GoTo(r, where), where \in Unstarted => pc[r] \in Unstarted,
         UNCHANGED <<task, began, retries>>
  PROVE  Starts'
BY DEF Starts, TypeInv, TypeOK, GoTo

(* The agent loop starts nothing.                                          *)
LEMMA AgentLoopStarts ==
  ASSUME TypeInv, Starts, NEW r \in Requests,
         NEW from \in {"stream", "agent"}, NEW stop \in {"persist", "save"},
         NEW answer \in {"persist", "save"},
         NEW raise \in {"rescue", "failing", "limited"},
         AgentLoop(r, from, stop, answer, raise)
  PROVE  Starts'
<1>1. pc[r] # "queued" /\ UNCHANGED <<task, began, retries>>
  BY DEF AgentLoop, rowvars, seen
<1>2. PICK where \in {stop, answer, raise} : GoTo(r, where)
  BY DEF AgentLoop
<1>3. where \in Point /\ where \notin Unstarted
  BY DEF Point, TurnPoint, TaskPoint, Unstarted
<1>4. QED
  BY <1>1, <1>2, <1>3, QuietStep

(* A chat turn begins once: its request leaves "begin" for good.           *)
LEMMA TurnStepStarts ==
  ASSUME TypeInv, Starts, NEW r \in Requests, TurnStep(r) PROVE Starts'
<1>1. ASSUME NEW c \in BOOLEAN, NEW k \in BOOLEAN, NEW h \in BOOLEAN, BeginTurn(r, c, k, h)
      PROVE  Starts'
  <2>1. /\ pc[r] = "begin" /\ began' = Add(began, r) /\ UNCHANGED <<task, retries>>
        /\ GoTo(r, "harness") \/ GoTo(r, "mention")
    BY <1>1 DEF BeginTurn, rowvars
  <2>2. QED
    BY <2>1 DEF Starts, TypeInv, TypeOK, GoTo, Add, Unstarted
<1>2. ASSUME NEW ok \in BOOLEAN,
             NEW c \in BOOLEAN,
             \/ HarnessTurn(r, ok) \/ DetectMentions(r, ok) \/ AfterTurn(r, ok)
             \/ Persist(r, c, ok) \/ Rescue(r, c, ok)
      PROVE  Starts'
  <2>1. pc[r] # "queued" /\ UNCHANGED <<task, began, retries>>
    BY <1>2 DEF HarnessTurn, DetectMentions, Persist, AfterTurn, Rescue, rowvars, seen
  <2>2. PICK where \in {"finish", "stream", "after", "unsaved", "rescue"} : GoTo(r, where)
    BY <1>2 DEF HarnessTurn, DetectMentions, Persist, AfterTurn, Rescue
  <2>3. QED
    BY <2>1, <2>2, QuietStep DEF Point, TurnPoint, Unstarted
<1>3. CASE Stream(r)
  BY <1>3, AgentLoopStarts DEF Stream
<1>4. CASE Finish(r)
  <2>1. pc[r] # "queued" /\ GoTo(r, "done") /\ UNCHANGED <<task, began, retries>>
    BY <1>4 DEF Finish, rowvars
  <2>2. QED
    BY <2>1, QuietStep DEF Point, Unstarted
<1>5. QED
  BY <1>1, <1>2, <1>3, <1>4 DEF TurnStep

(* A task begins at "lookup" and can only come back to it by a retry.      *)
LEMMA TaskStepStarts ==
  ASSUME TypeInv, Starts, NEW r \in Requests, TaskStep(r) PROVE Starts'
<1>1. CASE LockTask(r)
  <2>1. /\ pc[r] = "fetched" /\ UNCHANGED <<task, began, retries>>
        /\ GoTo(r, "lookup") \/ GoTo(r, "defer")
    BY <1>1 DEF LockTask, Acquire, rowvars, seen
  <2>2. QED
    BY <2>1, QuietStep DEF Point, TaskPoint, Unstarted
<1>2. CASE Defer(r)
  BY <1>2 DEF Defer, GoTo, Starts, Unstarted, TypeInv, TypeOK, seen
<1>3. CASE RunAgent(r)
  BY <1>3, AgentLoopStarts DEF RunAgent
<1>4. CASE RateLimited(r)
  <2>1. CASE retries[r] < RateLimitRetries /\ RetryLater(r)
    <3>1. /\ retries' = Add(retries, r) /\ GoTo(r, "queued") /\ began' = began
          /\ task' = [task EXCEPT ![r] = "pending"]
      BY <1>4, <2>1 DEF RateLimited, RetryLater, Leave
    <3>2. QED
      BY <2>1, <3>1, TurnsAssumption
         DEF Starts, TypeInv, TypeOK, GoTo, Add, Unstarted, TurnsAssumption
  <2>2. ASSUME NEW status \in {"failed", task[r]}, Leave(r, status, "done"), UNCHANGED retries
        PROVE  Starts'
    <3>1. status # "pending"
      BY <1>4, <2>2 DEF RateLimited, Starts
    <3>2. /\ task' = [task EXCEPT ![r] = status] /\ GoTo(r, "done")
          /\ UNCHANGED <<began, retries>>
      BY <1>4, <2>2 DEF RateLimited, Leave
    <3>3. QED
      BY <3>1, <3>2 DEF GoTo, Starts, TypeInv, TypeOK, Unstarted
  <2>3. QED
    BY <1>4, <2>1, <2>2 DEF RateLimited, GiveUp
<1>5. ASSUME NEW ok \in BOOLEAN, LookUp(r, ok) PROVE Starts'
  <2>1. /\ pc[r] = "lookup" /\ UNCHANGED <<task, retries>>
        /\ \/ began' = Add(began, r) /\ GoTo(r, "agent")
           \/ began' = began /\ GoTo(r, "leaked")
    BY <1>5 DEF LookUp, rowvars
  <2>2. QED
    BY <2>1 DEF Starts, TypeInv, TypeOK, GoTo, Add, Unstarted
<1>6. ASSUME NEW c \in BOOLEAN, NEW ok \in BOOLEAN, Save(r, c, ok) PROVE Starts'
  <2>1. /\ pc[r] # "queued" /\ UNCHANGED <<task, began, retries>>
        /\ GoTo(r, "complete") \/ GoTo(r, "failing")
    BY <1>6 DEF Save, rowvars
  <2>2. QED
    BY <2>1, QuietStep DEF Point, TaskPoint, Unstarted
<1>7. ASSUME NEW ok \in BOOLEAN, Complete(r, ok) PROVE Starts'
  <2>1. CASE Leave(r, "complete", "done")
    BY <1>7, <2>1 DEF Complete, Leave, GoTo, Starts, TypeInv, TypeOK, Unstarted, seen
  <2>2. CASE GoTo(r, "failing") /\ UNCHANGED task
    <3>1. pc[r] # "queued" /\ UNCHANGED <<began, retries>>
      BY <1>7 DEF Complete, seen
    <3>2. QED
      BY <2>2, <3>1, QuietStep DEF Point, TaskPoint, Unstarted
  <2>3. QED
    BY <1>7, <2>1, <2>2 DEF Complete
<1>8. ASSUME NEW ok \in BOOLEAN, FailTask(r, ok) PROVE Starts'
  <2>1. /\ pc[r] = "failing" /\ GoTo(r, "done") /\ UNCHANGED <<began, retries>>
        /\ task' = [task EXCEPT ![r] = IF ok THEN "failed" ELSE task[r]]
    BY <1>8 DEF FailTask, Leave
  <2>2. task[r] # "pending"
    BY <2>1 DEF Starts
  <2>3. QED
    BY <2>1, <2>2 DEF Starts, TypeInv, TypeOK, GoTo, Unstarted
<1>9. CASE DieUnlocked(r)
  <2>1. pc[r] # "queued" /\ GoTo(r, "dead") /\ UNCHANGED <<task, began, retries>>
    BY <1>9 DEF DieUnlocked, rowvars, seen
  <2>2. QED
    BY <2>1, QuietStep DEF Point, Unstarted
<1>10. QED
  BY <1>1, <1>2, <1>3, <1>4, <1>5, <1>6, <1>7, <1>8, <1>9 DEF TaskStep

(* Fetching, recovering and restarting begin nothing and requeue nothing   *)
(* that has begun.                                                         *)
LEMMA NextStarts ==
  ASSUME TypeInv, Starts, [Next]_vars PROVE Starts'
<1>1. ASSUME NEW r \in Requests, TurnStep(r) \/ TaskStep(r) PROVE Starts'
  BY <1>1, TurnStepStarts, TaskStepStarts
<1>2. ASSUME NEW r \in Requests, Post(r) PROVE Starts'
  <2>1. /\ pc[r] = "new" /\ UNCHANGED <<began, retries>>
        /\ \/ GoTo(r, "begin") /\ task' = task
           \/ GoTo(r, "queued") /\ task' = [task EXCEPT ![r] = "pending"]
    BY <1>2 DEF Post, Acquire
  <2>2. QED
    BY <2>1 DEF Starts, TypeInv, TypeOK, GoTo, Unstarted
<1>3. ASSUME NEW r \in Requests, BecomeReady(r) PROVE Starts'
  BY <1>3 DEF BecomeReady, Starts, seen
<1>4. ASSUME NEW r \in Requests, RecoverStuck(r) PROVE Starts'
  BY <1>4 DEF RecoverStuck, MarkStuck, Starts, TypeInv, TypeOK, seen
<1>5. CASE FetchDue
  BY <1>5 DEF FetchDue, DueTasks, Starts, Unstarted, seen
<1>6. CASE Age \/ Sweep \/ Cancel \/ UNCHANGED vars
  <2>1. UNCHANGED <<pc, task, began, retries>>
    BY <1>6 DEF Age, Sweep, Cancel, vars, rowvars, seen
  <2>2. QED
    BY <2>1 DEF Starts
<1>7. CASE CancelTasks
  BY <1>7 DEF CancelTasks, Starts, seen
<1>8. CASE Restart
  <2>1. /\ UNCHANGED <<task, began, retries>>
        /\ \A q \in Requests : (pc'[q] = "dead" /\ pc[q] # "queued") \/ pc'[q] = pc[q]
    BY <1>8 DEF Restart, Holding, TurnPoint, TaskPoint, rowvars, seen
  <2>2. QED
    BY <2>1 DEF Starts, Unstarted
<1>9. QED
  BY <1>1, <1>2, <1>3, <1>4, <1>5, <1>6, <1>7, <1>8 DEF Next

(* A message's task starts once, plus once for every rate-limit retry it   *)
(* spent: deferral on a busy session, recover_stuck_tasks, cancels and     *)
(* restarts never run it again.                                            *)
THEOREM StartsCounted == Spec => []StartsAccounted
<1>1. Init => Starts
  BY InitStarts
<1>2. Starts => StartsAccounted
  BY DEF Starts, StartsAccounted
<1>3. TypeInv /\ Starts /\ [Next]_vars => Starts'
  BY NextStarts
<1>4. QED
  BY InitType, NextType, <1>1, <1>2, <1>3, PTL DEF Spec

---------------------------------------------------------------------------
(* Serialization.  Serial adds to the two stated invariants that an aged   *)
(* lock has no run inside it: without this the sweep could drop the lock   *)
(* of a live run.  Every step keeps the lock and the runs as they stand,   *)
(* drops the lock with no run left, or takes a free lock.                  *)
Serial ==
    /\ \A r \in Requests : Holding(r) => locked /\ holder = r
    /\ locked => Holding(holder) \/ pc[holder] = "leaked"
    /\ aged => \A r \in Requests : ~Holding(r)

Keeps ==
    /\ UNCHANGED <<locked, aged, holder>>
    /\ \A q \in Requests : Holding(q)' => Holding(q)
    /\ \A q \in Requests : Holding(q) \/ pc[q] = "leaked"
                             => Holding(q)' \/ pc'[q] = "leaked"
Drops == Release /\ \A q \in Requests : ~Holding(q)'
Takes == \E r \in Requests :
    /\ ~locked /\ locked' = TRUE /\ aged' = FALSE /\ holder' = r
    /\ Holding(r)' /\ \A q \in Requests : q # r /\ Holding(q)' => Holding(q)

(* Steps that keep, drop or take the lock in step with its run keep runs   *)
(* serial.                                                                 *)
LEMMA KindsKeepSerial ==
  ASSUME TypeInv, Serial, Keeps \/ Drops \/ Takes PROVE Serial'
<1>1. CASE Keeps
  BY <1>1 DEF Keeps, Serial, TypeInv, LockTyped
<1>2. CASE Drops
  BY <1>2 DEF Drops, Serial, Release
<1>3. CASE Takes
  BY <1>3 DEF Takes, Serial
<1>4. QED
  BY <1>1, <1>2, <1>3

(* A run that moves on inside its critical section, or leaks the lock.     *)
LEMMA MoveKeeps ==
  ASSUME TypeInv, NEW r \in Requests, Holding(r),
         NEW where \in TurnPoint \cup TaskPoint \cup {"leaked"}, GoTo(r, where),
         UNCHANGED <<locked, aged, holder>>
  PROVE  Keeps
BY DEF Keeps, GoTo, Holding, TypeInv, TypeOK

(* A run that releases was the only one.                                   *)
LEMMA ExitDrops ==
  ASSUME TypeInv, Serial, NEW r \in Requests, Holding(r),
         NEW where \in {"done", "queued"}, GoTo(r, where), Release
  PROVE  Drops
BY DEF Drops, GoTo, Holding, TypeInv, TypeOK, Serial, TurnPoint, TaskPoint

(* A coroutine that moves on outside, lock untouched.                      *)
LEMMA OutsideKeeps ==
  ASSUME TypeInv, NEW r \in Requests, ~Holding(r), pc[r] # "leaked",
         NEW where \in {"queued", "defer", "dead"}, GoTo(r, where),
         UNCHANGED <<locked, aged, holder>>
  PROVE  Keeps
BY DEF Keeps, GoTo, Holding, TypeInv, TypeOK, TurnPoint, TaskPoint

(* Winning the acquire takes the lock.                                     *)
LEMMA EntryTakes ==
  ASSUME TypeInv, NEW r \in Requests, NEW where \in {"begin", "lookup"}, GoTo(r, where),
         ~locked, Grab(r)
  PROVE  Takes
BY DEF Takes, Grab, GoTo, Holding, TypeInv, TypeOK, TurnPoint, TaskPoint

(* The agent loop stays inside its run.                                    *)
LEMMA AgentLoopKeeps ==
  ASSUME TypeInv, NEW r \in Requests,
         NEW from \in {"stream", "agent"}, NEW stop \in {"persist", "save"},
         NEW answer \in {"persist", "save"},
         NEW raise \in {"rescue", "failing", "limited"},
         AgentLoop(r, from, stop, answer, raise)
  PROVE  Keeps
<1>1. Holding(r)
  BY DEF AgentLoop, Holding, TurnPoint, TaskPoint
<1>2. PICK where \in {stop, answer, raise} : GoTo(r, where)
  BY DEF AgentLoop
<1>3. where \in TurnPoint \cup TaskPoint \cup {"leaked"}
  BY DEF TurnPoint, TaskPoint
<1>4. UNCHANGED <<locked, aged, holder>>
  BY DEF AgentLoop, lock
<1>5. QED
  BY <1>1, <1>2, <1>3, <1>4, MoveKeeps

(* Steps of a chat turn keep the lock until Finish drops it.               *)
LEMMA TurnStepSerial ==
  ASSUME TypeInv, Serial, NEW r \in Requests, TurnStep(r) PROVE Serial'
<1> DEFINE Inside == \E where \in TurnPoint : GoTo(r, where)
<1>1. ASSUME Holding(r), Inside, UNCHANGED lock PROVE Serial'
  <2>1. PICK where \in TurnPoint : GoTo(r, where)
    BY <1>1
  <2>2. Keeps
    BY <1>1, <2>1, MoveKeeps DEF lock
  <2>3. QED
    BY <2>2, KindsKeepSerial
<1>2. ASSUME NEW c \in BOOLEAN, NEW k \in BOOLEAN, NEW h \in BOOLEAN, BeginTurn(r, c, k, h)
      PROVE  Serial'
  <2>1. GoTo(r, IF h THEN "harness" ELSE "mention") /\ UNCHANGED lock /\ Holding(r)
    BY <1>2 DEF BeginTurn, Holding, TurnPoint
  <2>2. (IF h THEN "harness" ELSE "mention") \in TurnPoint
    BY DEF TurnPoint
  <2>3. QED
    BY <1>1, <2>1, <2>2
<1>3. ASSUME NEW ok \in BOOLEAN,
             NEW c \in BOOLEAN,
             \/ HarnessTurn(r, ok) \/ DetectMentions(r, ok) \/ AfterTurn(r, ok)
             \/ Persist(r, c, ok) \/ Rescue(r, c, ok)
      PROVE  Serial'
  <2>1. Holding(r) /\ UNCHANGED lock
    BY <1>3 DEF HarnessTurn, DetectMentions, Persist, AfterTurn, Rescue, Holding, TurnPoint
  <2>2. \/ GoTo(r, "finish") \/ GoTo(r, "stream") \/ GoTo(r, "after")
        \/ GoTo(r, "unsaved") \/ GoTo(r, "rescue")
    BY <1>3 DEF HarnessTurn, DetectMentions, Persist, AfterTurn, Rescue
  <2>3. Inside
    BY <2>2 DEF TurnPoint
  <2>4. QED
    BY <1>1, <2>1, <2>3
<1>4. CASE Stream(r)
  <2>1. AgentLoop(r, "stream", "persist", "persist", "rescue")
    BY <1>4 DEF Stream
  <2>2. Keeps
    BY <2>1, AgentLoopKeeps
  <2>3. QED
    BY <2>2, KindsKeepSerial
<1>5. CASE Finish(r)
  <2>1. Holding(r) /\ GoTo(r, "done") /\ Release
    BY <1>5 DEF Finish, Holding, TurnPoint
  <2>2. Drops
    BY <2>1, ExitDrops
  <2>3. QED
    BY <2>2, KindsKeepSerial
<1>6. QED
  BY <1>2, <1>3, <1>4, <1>5 DEF TurnStep

(* Steps of run_task take the lock, keep it, leak it, or drop it on        *)
(* leaving.                                                                *)
LEMMA TaskStepSerial ==
  ASSUME TypeInv, Serial, NEW r \in Requests, TaskStep(r) PROVE Serial'
<1> DEFINE Inside == \E where \in TaskPoint \cup {"leaked"} : GoTo(r, where)
<1> DEFINE Exit == \E where \in {"done", "queued"} : GoTo(r, where)
<1>1. ASSUME Holding(r), Inside, UNCHANGED lock PROVE Serial'
  <2>1. PICK where \in TaskPoint \cup {"leaked"} : GoTo(r, where)
    BY <1>1
  <2>2. Keeps
    BY <1>1, <2>1, MoveKeeps DEF lock
  <2>3. QED
    BY <2>2, KindsKeepSerial
<1>2. ASSUME Holding(r), Exit, Release PROVE Serial'
  <2>1. PICK where \in {"done", "queued"} : GoTo(r, where)
    BY <1>2
  <2>2. Drops
    BY <1>2, <2>1, ExitDrops
  <2>3. QED
    BY <2>2, KindsKeepSerial
<1>3. CASE LockTask(r)
  <2>1. \/ ~locked /\ Grab(r) /\ GoTo(r, "lookup")
        \/ UNCHANGED lock /\ GoTo(r, "defer")
    BY <1>3 DEF LockTask, Acquire
  <2>2. ~Holding(r) /\ pc[r] # "leaked"
    BY <1>3 DEF LockTask, Holding, TurnPoint, TaskPoint
  <2>3. Takes \/ Keeps
    BY <2>1, <2>2, EntryTakes, OutsideKeeps DEF lock
  <2>4. QED
    BY <2>3, KindsKeepSerial
<1>4. CASE Defer(r) \/ DieUnlocked(r)
  <2>1. /\ ~Holding(r) /\ pc[r] # "leaked" /\ UNCHANGED lock
        /\ GoTo(r, "queued") \/ GoTo(r, "dead")
    BY <1>4 DEF Defer, DieUnlocked, Holding, TurnPoint, TaskPoint
  <2>2. Keeps
    BY <2>1, OutsideKeeps DEF lock
  <2>3. QED
    BY <2>2, KindsKeepSerial
<1>5. CASE RunAgent(r)
  <2>1. \/ AgentLoop(r, "agent", "save", "save", "failing")
        \/ AgentLoop(r, "agent", "save", "save", "limited")
    BY <1>5 DEF RunAgent
  <2>2. Keeps
    BY <2>1, AgentLoopKeeps
  <2>3. QED
    BY <2>2, KindsKeepSerial
<1>6. CASE RateLimited(r)
  <2>1. Holding(r) /\ Release /\ (GoTo(r, "done") \/ GoTo(r, "queued"))
    BY <1>6 DEF RateLimited, RetryLater, GiveUp, Leave, Holding, TurnPoint, TaskPoint
  <2>2. QED
    BY <1>2, <2>1
<1>7. ASSUME NEW ok \in BOOLEAN, LookUp(r, ok) PROVE Serial'
  <2>1. Holding(r) /\ UNCHANGED lock /\ (GoTo(r, "agent") \/ GoTo(r, "leaked"))
    BY <1>7 DEF LookUp, Holding, TurnPoint, TaskPoint
  <2>2. QED
    BY <1>1, <2>1 DEF TaskPoint
<1>8. ASSUME NEW c \in BOOLEAN, NEW ok \in BOOLEAN, Save(r, c, ok) PROVE Serial'
  <2>1. Holding(r) /\ UNCHANGED lock /\ (GoTo(r, "complete") \/ GoTo(r, "failing"))
    BY <1>8 DEF Save, Holding, TurnPoint, TaskPoint
  <2>2. QED
    BY <1>1, <2>1 DEF TaskPoint
<1>9. ASSUME NEW ok \in BOOLEAN, Complete(r, ok) PROVE Serial'
  <2>1. /\ Holding(r)
        /\ \/ Release /\ GoTo(r, "done")
           \/ UNCHANGED lock /\ GoTo(r, "failing")
    BY <1>9 DEF Complete, Leave, Holding, TurnPoint, TaskPoint
  <2>2. QED
    BY <1>1, <1>2, <2>1 DEF TaskPoint
<1>10. ASSUME NEW ok \in BOOLEAN, FailTask(r, ok) PROVE Serial'
  <2>1. Holding(r) /\ Release /\ GoTo(r, "done")
    BY <1>10 DEF FailTask, Leave, Holding, TurnPoint, TaskPoint
  <2>2. QED
    BY <1>2, <2>1
<1>11. QED
  BY <1>3, <1>4, <1>5, <1>6, <1>7, <1>8, <1>9, <1>10 DEF TaskStep

(* As long as no run outlives the TTL, a swept lock has no run.            *)
LEMMA NextSerial ==
  ASSUME ~outlived', TypeInv, Starts, Serial, [Next]_vars PROVE Serial'
<1>1. ASSUME NEW r \in Requests, TurnStep(r) \/ TaskStep(r) PROVE Serial'
  BY <1>1, TurnStepSerial, TaskStepSerial
<1>2. ASSUME NEW r \in Requests, Post(r) PROVE Serial'
  <2>1. \/ ~locked /\ Grab(r) /\ GoTo(r, "begin")
        \/ UNCHANGED lock /\ GoTo(r, "queued")
    BY <1>2 DEF Post, Acquire
  <2>2. ~Holding(r) /\ pc[r] # "leaked"
    BY <1>2 DEF Post, Holding, TurnPoint, TaskPoint
  <2>3. Takes \/ Keeps
    BY <2>1, <2>2, EntryTakes, OutsideKeeps DEF lock
  <2>4. QED
    BY <2>3, KindsKeepSerial
<1>3. ASSUME NEW r \in Requests, BecomeReady(r) \/ RecoverStuck(r) PROVE Serial'
  <2>1. UNCHANGED <<lock, pc>>
    BY <1>3 DEF BecomeReady, RecoverStuck, MarkStuck
  <2>2. Keeps
    BY <2>1 DEF Keeps, lock, Holding
  <2>3. QED
    BY <2>2, KindsKeepSerial
<1>4. CASE FetchDue
  <2>1. \A q \in Requests : pc'[q] = pc[q] \/ (pc[q] = "queued" /\ pc'[q] = "fetched")
    <3>1. \A q \in DueTasks : pc[q] = "queued"
      BY DEF DueTasks, Starts
    <3>2. \A q \in Requests : q \in DueTasks => pc'[q] = "fetched"
      BY <1>4 DEF FetchDue
    <3>3. \A q \in Requests : q \notin DueTasks => pc'[q] = pc[q]
      BY <1>4 DEF FetchDue
    <3>4. QED
      BY <3>1, <3>2, <3>3
  <2>2. Keeps
    BY <1>4, <2>1 DEF FetchDue, Keeps, Holding, TurnPoint, TaskPoint, lock
  <2>3. QED
    BY <2>2, KindsKeepSerial
<1>5. CASE Age
  BY <1>5 DEF Age, Serial, Holding
<1>6. CASE Sweep
  <2>1. Drops
    BY <1>6 DEF Sweep, Drops, Serial, Holding
  <2>2. QED
    BY <2>1, KindsKeepSerial
<1>7. CASE Cancel \/ CancelTasks \/ UNCHANGED vars
  <2>1. UNCHANGED <<locked, aged, holder, pc>>
    BY <1>7 DEF Cancel, CancelTasks, vars, lock
  <2>2. Keeps
    BY <2>1 DEF Keeps, Holding
  <2>3. QED
    BY <2>2, KindsKeepSerial
<1>8. CASE Restart
  <2>1. Drops
    BY <1>8 DEF Restart, Drops, Holding, TurnPoint, TaskPoint
  <2>2. QED
    BY <2>1, KindsKeepSerial
<1>9. QED
  BY <1>1, <1>2, <1>3, <1>4, <1>5, <1>6, <1>7, <1>8 DEF Next

(* That a run outlived the TTL is remembered.                              *)
LEMMA OutlivedStays == ASSUME [Next]_vars, outlived, TypeInv PROVE outlived'
<1>1. ASSUME NEW r \in Requests, TurnStep(r) PROVE outlived'
  BY <1>1 DEF TurnStep, BeginTurn, HarnessTurn, DetectMentions, AfterTurn, Persist, Rescue, Stream,
     AgentLoop, Finish, stops
<1>2. ASSUME NEW r \in Requests, TaskStep(r) PROVE outlived'
  BY <1>2 DEF TaskStep, LockTask, Defer, DieUnlocked, RunAgent, RateLimited, LookUp, Complete,
     FailTask, Save, AgentLoop, stops
<1>3. ASSUME NEW r \in Requests, Post(r) \/ BecomeReady(r) \/ RecoverStuck(r) PROVE outlived'
  BY <1>3 DEF Post, BecomeReady, RecoverStuck, stops
<1>4. CASE FetchDue \/ Age \/ Sweep \/ Cancel \/ CancelTasks \/ Restart \/ UNCHANGED vars
  BY <1>4 DEF FetchDue, Age, Sweep, Cancel, CancelTasks, Restart, vars, stops
<1>5. QED
  BY <1>1, <1>2, <1>3, <1>4 DEF Next

(* Types and, for healthy runs, seriality in every reachable state.        *)
LEMMA SerialAlways == Spec => [](TypeInv /\ (~outlived => Serial))
<1> DEFINE Inv == ~outlived => Serial
<1>1. Init => Inv
  BY DEF Init, Serial, Holding, TurnPoint, TaskPoint
<1>2. TypeInv /\ Starts /\ Inv /\ [Next]_vars => Inv'
  BY NextSerial, OutlivedStays
<1>3. TypeInv /\ Starts /\ [Next]_vars => Starts'
  BY NextStarts
<1>4. QED
  BY InitType, InitStarts, NextType, <1>1, <1>2, <1>3, PTL DEF Spec

(* Agent runs of a session never overlap: a run between its acquire and    *)
(* its release owns the session lock, and a held lock has its run inside   *)
(* or was leaked; for every number of requests, as long as no run outlives *)
(* the two hours after which session_locks sweeps a lock.                  *)
THEOREM TurnsSerialized == Spec => []LockIsTheRun
<1>1. TypeInv /\ (~outlived => Serial) => RunsAreSerial /\ LockHasItsRun
  BY DEF Serial, RunsAreSerial, LockHasItsRun
<1>2. TypeInv /\ (~outlived => Serial) => LockIsTheRun
  BY <1>1 DEF LockIsTheRun
<1>3. QED
  BY SerialAlways, <1>2, PTL

---------------------------------------------------------------------------
(* Cancellation.  The flag says that the present holder was asked to stop: *)
(* acquire and release clear it, request_cancel sets it on a held lock.    *)
Aim == cancelled \subseteq asked /\ (flag => locked /\ holder \in asked)

Aside    == UNCHANGED <<locked, flag, holder, asked, cancelled>>
Cleared  == flag' = FALSE /\ UNCHANGED <<asked, cancelled>>

(* A step that leaves the flag and its lock alone, or clears the flag,     *)
(* keeps Aim.                                                              *)
LEMMA AsideOrClearedAim == Aim /\ (Aside \/ Cleared) => Aim'
BY DEF Aim, Aside, Cleared

(* A check that stops a run finds the flag set, and the flag was aimed     *)
(* at the holder, which is the run itself.                                 *)
LEMMA AgentLoopAim ==
  ASSUME TypeInv, Serial, Aim, NEW r \in Requests, NEW from \in {"stream", "agent"},
         NEW stop, NEW answer, NEW raise, AgentLoop(r, from, stop, answer, raise)
  PROVE  Aim'
<1>1. holder = r
  BY DEF AgentLoop, Serial, Holding, TurnPoint, TaskPoint
<1>2. /\ cancelled' = cancelled \/ (flag /\ cancelled' = cancelled \cup {r})
      /\ UNCHANGED <<locked, flag, holder, asked>>
  BY DEF AgentLoop, lock, stops
<1>3. QED
  BY <1>1, <1>2 DEF Aim

(* Every release and acquire forgets the flag; only Cancel sets it.        *)
LEMMA NextAim ==
  ASSUME TypeInv, Serial, Aim, [Next]_vars PROVE Aim'
<1> USE DEF lock, stops
<1>1. ASSUME NEW r \in Requests, TurnStep(r) PROVE Aim'
  <2>1. ASSUME NEW c \in BOOLEAN, NEW k \in BOOLEAN, NEW h \in BOOLEAN, BeginTurn(r, c, k, h)
        PROVE  Aim'
    BY <2>1, AsideOrClearedAim DEF BeginTurn, Aside
  <2>2. ASSUME NEW ok \in BOOLEAN,
               NEW c \in BOOLEAN,
               \/ HarnessTurn(r, ok) \/ DetectMentions(r, ok) \/ AfterTurn(r, ok)
               \/ Persist(r, c, ok) \/ Rescue(r, c, ok)
        PROVE  Aim'
    BY <2>2, AsideOrClearedAim
       DEF HarnessTurn, DetectMentions, Persist, AfterTurn, Rescue, Aside
  <2>3. CASE Stream(r)
    BY <2>3, AgentLoopAim DEF Stream
  <2>4. CASE Finish(r)
    BY <2>4, AsideOrClearedAim DEF Finish, Release, ForgetCancel, Cleared
  <2>5. QED
    BY <1>1, <2>1, <2>2, <2>3, <2>4 DEF TurnStep
<1>2. ASSUME NEW r \in Requests, TaskStep(r) PROVE Aim'
  <2>1. CASE LockTask(r)
    <3>1. Grab(r) \/ UNCHANGED lock
      BY <2>1 DEF LockTask, Acquire
    <3>2. QED
      BY <2>1, <3>1, AsideOrClearedAim DEF LockTask, Grab, ForgetCancel, Aside, Cleared
  <2>2. CASE Defer(r) \/ DieUnlocked(r)
    BY <2>2, AsideOrClearedAim DEF Defer, DieUnlocked, Aside
  <2>3. CASE RunAgent(r)
    BY <2>3, AgentLoopAim DEF RunAgent
  <2>4. CASE RateLimited(r)
    BY <2>4, AsideOrClearedAim
       DEF RateLimited, RetryLater, GiveUp, Leave, Release, ForgetCancel, Cleared
  <2>5. ASSUME NEW c \in BOOLEAN, NEW ok \in BOOLEAN, LookUp(r, ok) \/ Save(r, c, ok)
        PROVE  Aim'
    BY <2>5, AsideOrClearedAim DEF LookUp, Save, Aside
  <2>6. ASSUME NEW ok \in BOOLEAN, Complete(r, ok) \/ FailTask(r, ok) PROVE Aim'
    BY <2>6, AsideOrClearedAim
       DEF Complete, FailTask, Leave, Release, ForgetCancel, Aside, Cleared
  <2>7. QED
    BY <1>2, <2>1, <2>2, <2>3, <2>4, <2>5, <2>6 DEF TaskStep
<1>3. ASSUME NEW r \in Requests, Post(r) PROVE Aim'
  <2>1. Grab(r) \/ UNCHANGED lock
    BY <1>3 DEF Post, Acquire
  <2>2. QED
    BY <1>3, <2>1, AsideOrClearedAim DEF Post, Grab, ForgetCancel, Aside, Cleared
<1>4. ASSUME NEW r \in Requests, BecomeReady(r) \/ RecoverStuck(r) PROVE Aim'
  BY <1>4, AsideOrClearedAim DEF BecomeReady, RecoverStuck, Aside
<1>5. CASE FetchDue \/ Age \/ CancelTasks \/ UNCHANGED vars
  BY <1>5, AsideOrClearedAim DEF FetchDue, Age, CancelTasks, vars, Aside
<1>6. CASE Sweep \/ Restart
  BY <1>6, AsideOrClearedAim DEF Sweep, Restart, Release, ForgetCancel, Cleared
<1>7. CASE Cancel
  <2>1. /\ flag' = (flag \/ locked) /\ UNCHANGED <<locked, holder, cancelled>>
        /\ asked' = IF locked THEN asked \cup {holder} ELSE asked
    BY <1>7 DEF Cancel
  <2>2. QED
    BY <2>1 DEF Aim
<1>8. QED
  BY <1>1, <1>2, <1>3, <1>4, <1>5, <1>6, <1>7 DEF Next

(* A cancel only ever stops the run that held the session lock when it     *)
(* came: the flag of session_locks never reaches a later run.              *)
THEOREM CancelsAimed == Spec => []CancelHitsItsRun
<1> DEFINE Inv == ~outlived => Aim
<1>1. Init => Inv
  BY DEF Init, Aim
<1>2. TypeInv /\ (~outlived => Serial) /\ Inv /\ [Next]_vars => Inv'
  BY NextAim, OutlivedStays
<1>3. Inv => CancelHitsItsRun
  BY DEF Aim, CancelHitsItsRun
<1>4. QED
  BY SerialAlways, <1>1, <1>2, <1>3, PTL DEF Spec
---------------------------------------------------------------------------
(* Chat turns.  A request without a task is a chat turn, which stores its  *)
(* message and says that it began in one step and that it ended in its     *)
(* last; what is stored again was not known to be stored.                  *)
Running == TurnPoint \ {"begin"}

Whole(r) ==
    task[r] = "none" =>
        /\ pc[r] \in {"new", "dead", "done"} \cup TurnPoint
        /\ pc[r] \in {"new", "begin"} => began[r] = 0
        /\ pc[r] \in Running => began[r] = 1
        /\ pc[r] \in {"new"} \cup TurnPoint => ended[r] = 0
        /\ pc[r] = "done" /\ bound[r] => ended[r] = began[r]
StoredOnce(r) ==
    task[r] = "none" =>
        /\ pc[r] \in {"new", "begin"} => rows[r] = 0
        /\ pc[r] \in Running => rows[r] = 1 /\ stored[r]
        /\ rows[r] <= 1 /\ (pc[r] = "done" => rows[r] = 1)

WholeInv == \A r \in Requests : Whole(r) /\ (faults = 0 => StoredOnce(r))

(* Nothing of the request changes, and no error is forgotten.              *)
Same(r) ==
    /\ task'[r] = task[r] /\ pc'[r] = pc[r] /\ rows'[r] = rows[r] /\ stored'[r] = stored[r]
    /\ began'[r] = began[r] /\ ended'[r] = ended[r] /\ bound'[r] = bound[r]
ErrorsStay == faults' = 0 => faults = 0

LEMMA SameWhole ==
  ASSUME WholeInv, ErrorsStay, NEW r \in Requests, Same(r)
  PROVE  Whole(r)' /\ (faults' = 0 => StoredOnce(r)')
BY DEF WholeInv, Whole, StoredOnce, Same, ErrorsStay

(* A step of one request leaves the others alone.                          *)
LEMMA OthersWhole ==
  ASSUME WholeInv, ErrorsStay, NEW r \in Requests, \A q \in Requests \ {r} : Same(q),
         Whole(r)', faults' = 0 => StoredOnce(r)'
  PROVE  WholeInv'
BY SameWhole DEF WholeInv

(* A request with a task is no chat turn.                                  *)
LEMMA TaskWhole ==
  ASSUME WholeInv, ErrorsStay, NEW r \in Requests, \A q \in Requests \ {r} : Same(q),
         task'[r] # "none"
  PROVE  WholeInv'
BY OthersWhole DEF Whole, StoredOnce

LEMMA TurnStepWhole ==
  ASSUME TypeInv, WholeInv, NEW r \in Requests, TurnStep(r) PROVE WholeInv'
<1> USE DEF TypeInv, TypeOK, GoTo, Add, Fault, Same, ErrorsStay, Running, TurnPoint
<1>1. ASSUME NEW c \in BOOLEAN, NEW k \in BOOLEAN, NEW h \in BOOLEAN, BeginTurn(r, c, k, h)
      PROVE  WholeInv'
  <2>1. ErrorsStay /\ \A q \in Requests \ {r} : Same(q)
    BY <1>1 DEF BeginTurn, rowvars
  <2>2. Whole(r)' /\ (faults' = 0 => StoredOnce(r)')
    BY <1>1 DEF BeginTurn, rowvars, WholeInv, Whole, StoredOnce
  <2> QED
    BY <2>1, <2>2, OthersWhole
<1>2. ASSUME NEW ok \in BOOLEAN, HarnessTurn(r, ok) PROVE WholeInv'
  <2>1. ErrorsStay /\ \A q \in Requests \ {r} : Same(q)
    BY <1>2 DEF HarnessTurn, rowvars, local
  <2>2. Whole(r)' /\ (faults' = 0 => StoredOnce(r)')
    BY <1>2 DEF HarnessTurn, rowvars, local, WholeInv, Whole, StoredOnce
  <2> QED
    BY <2>1, <2>2, OthersWhole
<1>3. ASSUME NEW ok \in BOOLEAN, DetectMentions(r, ok) PROVE WholeInv'
  <2>1. ErrorsStay /\ \A q \in Requests \ {r} : Same(q)
    BY <1>3 DEF DetectMentions, rowvars, seen
  <2>2. Whole(r)' /\ (faults' = 0 => StoredOnce(r)')
    BY <1>3 DEF DetectMentions, rowvars, seen, WholeInv, Whole, StoredOnce
  <2> QED
    BY <2>1, <2>2, OthersWhole
<1>4. ASSUME NEW c \in BOOLEAN, NEW ok \in BOOLEAN, Persist(r, c, ok) \/ Rescue(r, c, ok)
      PROVE  WholeInv'
  <2>1. ErrorsStay /\ \A q \in Requests \ {r} : Same(q)
    BY <1>4 DEF Persist, Rescue, Store, StoreTurn, rowvars, local
  <2>2. Whole(r)' /\ (faults' = 0 => StoredOnce(r)')
    BY <1>4 DEF Persist, Rescue, Store, StoreTurn, rowvars, local, WholeInv, Whole, StoredOnce
  <2> QED
    BY <2>1, <2>2, OthersWhole
<1>5. ASSUME NEW ok \in BOOLEAN, AfterTurn(r, ok) PROVE WholeInv'
  <2>1. ErrorsStay /\ \A q \in Requests \ {r} : Same(q)
    BY <1>5 DEF AfterTurn, rowvars, local, seen
  <2>2. Whole(r)' /\ (faults' = 0 => StoredOnce(r)')
    BY <1>5 DEF AfterTurn, rowvars, local, seen, WholeInv, Whole, StoredOnce
  <2> QED
    BY <2>1, <2>2, OthersWhole
<1>6. CASE Stream(r)
  <2>1. ErrorsStay /\ \A q \in Requests \ {r} : Same(q)
    BY <1>6 DEF Stream, AgentLoop, rowvars, local, seen
  <2>2. Whole(r)' /\ (faults' = 0 => StoredOnce(r)')
    BY <1>6 DEF Stream, AgentLoop, rowvars, local, seen, WholeInv, Whole, StoredOnce
  <2> QED
    BY <2>1, <2>2, OthersWhole
<1>7. CASE Finish(r)
  <2>1. ErrorsStay /\ \A q \in Requests \ {r} : Same(q)
    BY <1>7 DEF Finish, rowvars, local, bounds
  <2>2. Whole(r)' /\ (faults' = 0 => StoredOnce(r)')
    BY <1>7 DEF Finish, rowvars, local, bounds, WholeInv, Whole, StoredOnce
  <2> QED
    BY <2>1, <2>2, OthersWhole
<1> QED
  BY <1>1, <1>2, <1>3, <1>4, <1>5, <1>6, <1>7 DEF TurnStep

(* The steps of run_task are those of a request with a task, and keep it.  *)
LEMMA TaskStepWhole ==
  ASSUME TypeInv, WholeInv, NEW r \in Requests, TaskStep(r) PROVE WholeInv'
<1>1. pc[r] \in TaskPoint \cup {"fetched", "defer"}
  BY DEF TaskStep, LockTask, Defer, DieUnlocked, RunAgent, AgentLoop, RateLimited, LookUp,
         Complete, FailTask, Save, TaskPoint
<1>2. task[r] # "none"
  BY <1>1 DEF WholeInv, Whole, TaskPoint, TurnPoint
<1> USE DEF TypeInv, TypeOK, GoTo, Add, Fault, Same, ErrorsStay
<1>3. CASE LockTask(r) \/ Defer(r) \/ DieUnlocked(r) \/ RunAgent(r)
  <2>1. ErrorsStay /\ \A q \in Requests \ {r} : Same(q)
    BY <1>3 DEF LockTask, Acquire, Defer, DieUnlocked, RunAgent, AgentLoop, rowvars, local,
                seen, bounds
  <2>2. task'[r] # "none"
    BY <1>2, <1>3 DEF LockTask, Defer, DieUnlocked, RunAgent, AgentLoop, rowvars
  <2> QED
    BY <2>1, <2>2, TaskWhole
<1>4. CASE RateLimited(r)
  <2>1. ErrorsStay /\ \A q \in Requests \ {r} : Same(q)
    BY <1>4 DEF RateLimited, RetryLater, GiveUp, Leave, local
  <2>2. task'[r] # "none"
    BY <1>2, <1>4 DEF RateLimited, RetryLater, GiveUp, Leave
  <2> QED
    BY <2>1, <2>2, TaskWhole
<1>5. ASSUME NEW ok \in BOOLEAN, NEW c \in BOOLEAN,
             LookUp(r, ok) \/ Complete(r, ok) \/ FailTask(r, ok) \/ Save(r, c, ok)
      PROVE  WholeInv'
  <2>1. ErrorsStay /\ \A q \in Requests \ {r} : Same(q)
    BY <1>5 DEF LookUp, Complete, FailTask, Save, Store, StoreTurn, Leave, rowvars, local, seen
  <2>2. task'[r] # "none"
    BY <1>2, <1>5 DEF LookUp, Complete, FailTask, Save, Leave, rowvars
  <2> QED
    BY <2>1, <2>2, TaskWhole
<1> QED
  BY <1>3, <1>4, <1>5 DEF TaskStep

LEMMA NextWhole == ASSUME TypeInv, WholeInv, [Next]_vars PROVE WholeInv'
<1> USE DEF TypeInv, TypeOK, GoTo, Add, Same, ErrorsStay
<1>1. ASSUME NEW r \in Requests, TurnStep(r) \/ TaskStep(r) PROVE WholeInv'
  BY <1>1, TurnStepWhole, TaskStepWhole
<1>2. ASSUME NEW r \in Requests, Post(r) PROVE WholeInv'
  <2>1. ErrorsStay /\ \A q \in Requests \ {r} : Same(q)
    BY <1>2 DEF Post, Acquire, local, bounds
  <2>2. Whole(r)' /\ (faults' = 0 => StoredOnce(r)')
    BY <1>2 DEF Post, Acquire, local, bounds, WholeInv, Whole, StoredOnce, Running, TurnPoint
  <2> QED
    BY <2>1, <2>2, OthersWhole
<1>3. CASE \/ \E r \in Requests : BecomeReady(r) \/ RecoverStuck(r)
           \/ FetchDue \/ CancelTasks
  <2>1. ErrorsStay /\ \A q \in Requests : Same(q) \/ task'[q] # "none"
    BY <1>3 DEF BecomeReady, RecoverStuck, MarkStuck, FetchDue, DueTasks, CancelTasks,
                local, seen, bounds
  <2>2. \A q \in Requests : task'[q] # "none" => Whole(q)' /\ StoredOnce(q)'
    BY DEF Whole, StoredOnce
  <2> QED
    BY <2>1, <2>2, SameWhole DEF WholeInv
<1>4. CASE Age \/ Sweep \/ Cancel \/ UNCHANGED vars
  <2>1. ErrorsStay /\ \A q \in Requests : Same(q)
    BY <1>4 DEF Age, Sweep, Cancel, vars, rowvars, local, seen, bounds
  <2> QED
    BY <2>1, SameWhole DEF WholeInv
<1>5. CASE Restart
  <2>1. ErrorsStay /\ UNCHANGED <<task, rows, stored, began, ended, bound, faults>>
    BY <1>5 DEF Restart, rowvars, local, seen
  <2>2. \A q \in Requests : pc'[q] = pc[q] \/ pc'[q] = "dead"
    BY <1>5 DEF Restart
  <2>3. ASSUME NEW q \in Requests PROVE Whole(q)' /\ (faults' = 0 => StoredOnce(q)')
    BY <2>1, <2>2 DEF WholeInv, Whole, StoredOnce, Running, TurnPoint
  <2> QED
    BY <2>3 DEF WholeInv
<1> QED
  BY <1>1, <1>2, <1>3, <1>4, <1>5 DEF Next

(* A chat turn that meets no error leaves its message stored once, and one *)
(* that ends, by whatever error, has published TURN_ENDED, unless the      *)
(* error came before the skill list that the payload reads.                *)
THEOREM ChatStoredAndTold == Spec => []ChatTurnsWhole
<1>1. Init => WholeInv
  <2> SUFFICES ASSUME Init, NEW r \in Requests PROVE Whole(r) /\ StoredOnce(r)
    BY DEF WholeInv
  <2>1. pc[r] = "new" /\ rows[r] = 0 /\ began[r] = 0 /\ ended[r] = 0
    BY DEF Init
  <2> QED
    BY <2>1 DEF Whole, StoredOnce, Running, TurnPoint
<1>2. TypeInv /\ WholeInv => ChatTurnsWhole
  BY DEF WholeInv, Whole, StoredOnce, ChatTurnsWhole, ChatStoredOnce, ChatEndsTold
<1>3. TypeInv /\ WholeInv /\ [Next]_vars => WholeInv'
  BY NextWhole
<1> QED
  BY InitType, NextType, <1>1, <1>2, <1>3, PTL DEF Spec
===========================================================================
