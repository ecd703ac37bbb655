---------------------------- MODULE Compaction ----------------------------
(***************************************************************************)
(* Compaction of a session's history (app/services/compaction.py): a       *)
(* summary stands for the messages up to a watermark, the rest stays live. *)
(* It is made automatically after a turn, by hand through a queue that     *)
(* waits for the session's lock (app/services/session_locks.py), or inside *)
(* an HTTP request.  Nothing serializes the three.                         *)
(*                                                                         *)
(* A step is the code between two awaits; a coroutine works on what it     *)
(* read before.  Messages are numbered; a summary and the archive of       *)
(* sections are the sets of messages they tell of.                         *)
(***************************************************************************)
EXTENDS Naturals, FiniteSets

CONSTANTS
    MaxMessages, \* bound: user messages of the session
    Keep,        \* COMPACTION_KEEP_TURNS: the messages that stay live
    MaxTurns,    \* bound: turns, numbered as they start
    MaxCalls,    \* bound: HTTP requests that compact themselves
    MaxRequests, \* bound: requests to the manual queue
    MaxWork,     \* bound: compactions of turns, calls and requests together
    MaxMishaps   \* bound: errors, leaked locks and process restarts

Messages   == 1..MaxMessages
Turns      == 1..MaxTurns
Calls      == (MaxTurns + 1)..(MaxTurns + MaxCalls)
Requests   == 1..MaxRequests
Manual     == 0                       \* the slot of _MANUAL_COMPACTION_TASKS
Compactors == {Manual} \cup Turns \cup Calls
None       == 0                       \* no turn, no row

ASSUME CompactionAssumption ==
    /\ MaxMessages \in Nat /\ MaxTurns \in Nat /\ MaxCalls \in Nat
    /\ MaxRequests \in Nat /\ MaxWork \in Nat /\ MaxMishaps \in Nat
    /\ Keep \in Nat \ {0}

VARIABLES
    n,         \* messages stored
    lock,      \* the turn that holds the session lock, or None
    turns,     \* turns started
    pc,        \* [Compactors -> Point]
    view,      \* [Compactors -> View]: the view of a compaction
    summary,   \* Session.summary
    watermark, \* Session.summary_message_id
    archived,  \* the messages told of by ConversationSection rows
    row,       \* [Requests -> RowStatus]: manual rows in the order of insertion
    made,      \* manual rows inserted
    hidden,    \* of these, the rows with a hundred newer messages of the session
    job,       \* the row the manual coroutine works on, or None
    note,      \* [Turns -> RowStatus]: the rows of automatic compactions
    rpc,       \* [Requests -> {"idle", "promote", "queue", "run", "done"}]
    found,     \* [Requests -> row found, or None]
    joined,    \* observer: the turn started after a manual run's idle check
    revived,   \* observer: the manual run began without a check of the lock
    missed,    \* observer: queued rows no drain will look at
    stuck,     \* observer: running rows whose coroutine was never made or died
    compacted, \* observer: rows and automatic compactions that were committed
    mistold,   \* observer: those whose outcome could not be written
    outrun,    \* observer: messages that came while a forced run had read its own
    omitted,   \* observer: messages of a section a regenerated summary cannot see
    mishaps

session == <<summary, watermark, archived>>
manual  == <<row, made, hidden, job>>
reqs    == <<rpc, found>>
told    == <<compacted, mistold>>
seen    == <<joined, revived, missed, stuck, told, outrun, omitted>>
vars == <<n, lock, turns, pc, view, session, manual, note, reqs, seen, mishaps>>

(* base: the summary being made, prev: the watermark read, conv: what is   *)
(* to be summarized, upto: the watermark to be set.                        *)
View == [base : SUBSET Messages, prev : 0..MaxMessages,
         conv : SUBSET Messages, upto : 0..MaxMessages]
NoView == [base |-> {}, prev |-> 0, conv |-> {}, upto |-> 0]

Outcomes == ({"row"} \X Requests) \cup ({"note"} \X Turns)

RowStatus == {"none", "queued", "running", "completed", "noop", "failed"}
Point == {"idle", "check", "read", "window", "announce",
          "drain", "finding", "found", "start", "flush",
          "write", "regen", "ready", "tell", "noop", "sad", "last", "done"}

Waiting == {r \in Requests : row[r] = "queued"}
Running == {r \in Requests : row[r] = "running"}

(* What _find_latest_compaction_run can find: it reads the hundred newest  *)
(* messages of the session, of any kind.                                   *)
Visible == {r \in Requests : r > hidden}
Queued  == Waiting \cap Visible
Active  == (Waiting \cup Running) \cap Visible
Last(S) == CHOOSE r \in S : \A s \in S : s <= r

TaskActive == pc[Manual] # "idle"                \* _manual_task_active
Work == Cardinality({c \in Turns \cup Calls : pc[c] # "idle"})
          + Cardinality({q \in Requests : rpc[q] # "idle"})
Mishap == mishaps < MaxMishaps /\ mishaps' = mishaps + 1

Init ==
    /\ n \in 0..MaxMessages /\ lock = None /\ turns = 0
    /\ pc = [c \in Compactors |-> "idle"]
    /\ view = [c \in Compactors |-> NoView]
    /\ summary = {} /\ watermark = 0 /\ archived = {}
    /\ row = [r \in Requests |-> "none"] /\ made = 0 /\ hidden = 0 /\ job = None
    /\ note = [t \in Turns |-> "none"]
    /\ rpc = [q \in Requests |-> "idle"] /\ found = [q \in Requests |-> None]
    /\ joined = FALSE /\ revived = FALSE /\ missed = {} /\ stuck = {}
    /\ compacted = {} /\ mistold = {} /\ outrun = {} /\ omitted = {}
    /\ mishaps = 0

Goto(c, p) == pc' = [pc EXCEPT ![c] = p]
Leave(c, p) == Goto(c, p) /\ view' = [view EXCEPT ![c] = NoView]

---------------------------------------------------------------------------
(* The session: messages come and turns run, whoever compacts.             *)

Post ==
    /\ n < MaxMessages
    /\ n' = n + 1
    /\ UNCHANGED <<lock, turns, pc, view, session, manual, note, reqs, seen, mishaps>>

(* A hundred messages of any kind have come after one more of the rows.    *)
Bury ==
    /\ hidden < made
    /\ hidden' = hidden + 1
    /\ UNCHANGED <<n, lock, turns, pc, view, session, row, made, job, note, reqs, seen,
                   mishaps>>

TurnStart ==
    /\ lock = None /\ turns < MaxTurns
    /\ turns' = turns + 1 /\ lock' = turns + 1
    /\ joined' = \/ pc[Manual] \notin {"idle", "drain"}
                 \/ \E q \in Requests : rpc[q] \in {"promote", "run"}
    /\ UNCHANGED <<n, pc, view, session, manual, note, reqs, revived, missed, stuck,
                   told, outrun, omitted, mishaps>>

(* maybe_compact spawns the automatic compaction before the turn is over.  *)
TurnReplies(t) ==
    /\ lock = t /\ pc[t] = "idle" /\ Work < MaxWork
    /\ Goto(t, "check")
    /\ UNCHANGED <<n, lock, turns, view, session, manual, note, reqs, seen, mishaps>>

QuietRelease ==                                                 \* mutant
    /\ lock # None
    /\ lock' = None
    /\ joined' = FALSE
    /\ UNCHANGED <<n, turns, pc, view, session, manual, note, reqs, revived, missed, stuck,
                   told, outrun, omitted, mishaps>>

(* release, with the drain it schedules unless a manual task is active.    *)
TurnEnd ==
    /\ lock # None
    /\ lock' = None
    /\ IF TaskActive
       THEN /\ missed' = IF pc[Manual] \in {"drain", "finding"} THEN missed
                         ELSE missed \cup (Waiting \ {job})
            /\ UNCHANGED pc
       ELSE Goto(Manual, "drain") /\ UNCHANGED missed
    /\ joined' = FALSE
    /\ UNCHANGED <<n, turns, view, session, manual, note, reqs, revived, stuck, told,
                   outrun, omitted, mishaps>>

(* sweep_stale drops a lock that was leaked, and drains nothing.           *)
LockSwept ==
    /\ lock # None /\ Mishap
    /\ lock' = None
    /\ missed' = missed \cup Waiting
    /\ joined' = FALSE
    /\ UNCHANGED <<n, turns, pc, view, session, manual, note, reqs, revived, stuck, told,
                   outrun, omitted>>

---------------------------------------------------------------------------
(* request_manual_compaction.                                              *)

(* A row is left running without a coroutine, unless it is being worked on.*)
NotStarted(r) ==
    /\ stuck' = IF job = r THEN stuck ELSE stuck \cup {r}
    /\ UNCHANGED <<pc, job, compacted, revived>>

(* _start_manual_compaction_task: ignored while a manual task is active.   *)
StartTask(r, unchecked) ==
    IF TaskActive
    THEN NotStarted(r)
    ELSE /\ Goto(Manual, "start") /\ job' = r
         /\ compacted' = compacted \ {<<"row", r>>}
         /\ revived' = unchecked
         /\ UNCHANGED stuck

(* The latest active row it can see decides; the lock is looked at, and    *)
(* not taken.                                                              *)
ReqFind(q) ==
    /\ rpc[q] = "idle" /\ Work < MaxWork /\ \A p \in Requests : p < q => rpc[p] # "idle"
    /\ LET r == Last(Active)
       IN  \/ /\ Active = {}
              /\ rpc' = [rpc EXCEPT ![q] = IF lock # None THEN "queue" ELSE "run"]
              /\ UNCHANGED <<found, pc, job, compacted, revived, stuck>>
           \/ /\ Active # {} /\ row[r] = "queued"
              /\ rpc' = [rpc EXCEPT ![q] = IF lock # None THEN "done" ELSE "promote"]
              /\ found' = IF lock # None THEN found ELSE [found EXCEPT ![q] = r]
              /\ UNCHANGED <<pc, job, compacted, revived, stuck>>
           \/ /\ Active # {} /\ row[r] = "running"
              /\ rpc' = [rpc EXCEPT ![q] = "done"]
              /\ IF TaskActive
                 THEN UNCHANGED <<pc, job, compacted, stuck, revived>>
                 ELSE StartTask(r, TRUE)
              /\ UNCHANGED found
    /\ UNCHANGED <<n, lock, turns, view, session, row, made, hidden, note, joined, missed,
                   mistold, outrun, omitted, mishaps>>

(* The queued row it found becomes running, whatever it is by now.         *)
Promoted(q) ==
    /\ rpc[q] = "promote"
    /\ row' = [row EXCEPT ![found[q]] = "running"]
    /\ rpc' = [rpc EXCEPT ![q] = "done"] /\ found' = [found EXCEPT ![q] = None]
    /\ UNCHANGED <<n, lock, turns, view, session, made, hidden, note, joined, missed,
                   mistold, outrun, omitted>>

ReqPromote(q) == Promoted(q) /\ StartTask(found[q], FALSE) /\ UNCHANGED mishaps

(* Its own row is inserted.  A queued row waits for a turn to end.         *)
Inserted(q) ==
    /\ rpc[q] \in {"queue", "run"}
    /\ made' = made + 1
    /\ row' = [row EXCEPT ![made + 1] = IF rpc[q] = "run" THEN "running" ELSE "queued"]
    /\ missed' = IF rpc[q] = "queue" /\ lock = None /\ pc[Manual] \notin {"drain", "finding"}
                 THEN missed \cup {made + 1} ELSE missed
    /\ rpc' = [rpc EXCEPT ![q] = "done"]
    /\ UNCHANGED <<n, lock, turns, view, session, hidden, note, found, joined, mistold,
                   outrun, omitted>>

ReqInsert(q) ==
    /\ Inserted(q)
    /\ IF rpc[q] = "run" THEN StartTask(made + 1, FALSE)
       ELSE UNCHANGED <<pc, job, compacted, stuck, revived>>
    /\ UNCHANGED mishaps

(* The row is committed, and its refresh or its publication raises: the    *)
(* request does not go on to start the run.                                *)
ReqCut(q) ==
    /\ Mishap
    /\ \/ Promoted(q) /\ NotStarted(found[q])
       \/ /\ Inserted(q)
          /\ IF rpc[q] = "run" THEN NotStarted(made + 1)
             ELSE UNCHANGED <<pc, job, compacted, stuck, revived>>

(* Nothing is written.                                                     *)
ReqFail(q) ==
    /\ rpc[q] \in {"promote", "queue", "run"} /\ Mishap
    /\ rpc' = [rpc EXCEPT ![q] = "done"]
    /\ missed' = IF rpc[q] = "promote" THEN missed \cup {found[q]} ELSE missed
    /\ found' = [found EXCEPT ![q] = None]
    /\ UNCHANGED <<n, lock, turns, pc, view, session, manual, note, joined, revived,
                   stuck, told, outrun, omitted>>

---------------------------------------------------------------------------

SkipCheck ==                                                    \* mutant
    /\ pc[Manual] = "drain"
    /\ Goto(Manual, "finding")
    /\ UNCHANGED <<n, lock, turns, view, session, manual, note, reqs, seen, mishaps>>

(* _drain_queued_manual_compaction.                                        *)
DrainCheck ==
    /\ pc[Manual] = "drain"
    /\ Goto(Manual, IF lock # None THEN "idle" ELSE "finding")
    /\ UNCHANGED <<n, lock, turns, view, session, manual, note, reqs, seen, mishaps>>

(* Only the latest queued row it can see is taken.                         *)
DrainFind ==
    /\ pc[Manual] = "finding"
    /\ IF Queued = {}
       THEN Goto(Manual, "idle") /\ UNCHANGED <<job, missed>>
       ELSE /\ Goto(Manual, "found")
            /\ job' = Last(Queued)
            /\ missed' = IF lock = None THEN missed \cup (Queued \ {Last(Queued)}) ELSE missed
    /\ UNCHANGED <<n, lock, turns, view, session, row, made, hidden, note, reqs, joined, revived,
                   stuck, told, outrun, omitted, mishaps>>

DrainMark ==
    /\ pc[Manual] = "found"
    /\ row' = [row EXCEPT ![job] = "running"]
    /\ Goto(Manual, "start")
    /\ compacted' = compacted \ {<<"row", job>>} /\ revived' = FALSE
    /\ UNCHANGED <<n, lock, turns, view, session, made, hidden, job, note, reqs, joined,
                   missed, stuck, mistold, outrun, omitted, mishaps>>

(* It dies of an error, before the row it found is marked or (marked)      *)
(* after: the update is committed when its refresh or publication raises.  *)
DrainFail(marked) ==
    /\ pc[Manual] \in {"finding", "found"} /\ Mishap
    /\ marked => job # None
    /\ row' = IF marked THEN [row EXCEPT ![job] = "running"] ELSE row
    /\ Goto(Manual, "idle") /\ job' = None
    /\ missed' = IF lock = None THEN missed \cup Waiting ELSE missed
    /\ stuck' = IF marked THEN stuck \cup {job} ELSE stuck \cup ({job} \cap Running)
    /\ UNCHANGED <<n, lock, turns, view, session, made, hidden, note, reqs, joined, revived,
                   told, outrun, omitted>>

---------------------------------------------------------------------------
(* _drain_compaction and run_compaction_stream, after turn t.              *)

(* It stands back from a manual run that is queued or running.             *)
AutoCheck(t) ==
    /\ pc[t] = "check"
    /\ Goto(t, IF Active # {} THEN "done" ELSE "read")
    /\ UNCHANGED <<n, lock, turns, view, session, manual, note, reqs, seen, mishaps>>

(* Enough messages or tokens, or not (due); then summary and watermark.    *)
AutoRead(t, due) ==
    /\ pc[t] = "read"
    /\ Goto(t, IF due THEN "window" ELSE "done")
    /\ view' = IF due THEN [view EXCEPT ![t].base = summary, ![t].prev = watermark] ELSE view
    /\ UNCHANGED <<n, lock, turns, session, manual, note, reqs, seen, mishaps>>

MarkOldestKept(t) ==                                            \* mutant
    /\ pc[t] = "window"
    /\ IF n <= view[t].prev + Keep
       THEN Leave(t, "done")
       ELSE /\ view' = [view EXCEPT ![t].conv = (view[t].prev + 1)..(n - Keep),
                                    ![t].upto = n - Keep + 1]
            /\ Goto(t, "announce")
    /\ UNCHANGED <<n, lock, turns, session, manual, note, reqs, seen, mishaps>>

(* The window: after the watermark it read, before the oldest kept turn.   *)
AutoWindow(t) ==
    /\ pc[t] = "window"
    /\ IF n <= view[t].prev + Keep
       THEN Leave(t, "done")
       ELSE /\ view' = [view EXCEPT ![t].conv = (view[t].prev + 1)..(n - Keep),
                                    ![t].upto = n - Keep]
            /\ Goto(t, "announce")
    /\ UNCHANGED <<n, lock, turns, session, manual, note, reqs, seen, mishaps>>

AutoAnnounce(t) ==
    /\ pc[t] = "announce"
    /\ note' = [note EXCEPT ![t] = "running"]
    /\ Goto(t, "write")
    /\ UNCHANGED <<n, lock, turns, view, session, manual, reqs, seen, mishaps>>

---------------------------------------------------------------------------
(* run_compaction_forced, by the manual coroutine or inside a request.     *)

Call(c) ==
    /\ pc[c] = "idle" /\ Work < MaxWork /\ \A d \in Calls : d < c => pc[d] # "idle"
    /\ Goto(c, "start")
    /\ UNCHANGED <<n, lock, turns, view, session, manual, note, reqs, seen, mishaps>>

(* All messages, the live ones too; then the memory flush.                 *)
ForcedRead(c) ==
    /\ pc[c] = "start"
    /\ IF n = 0
       THEN Leave(c, IF c = Manual THEN "noop" ELSE "done")
       ELSE /\ view' = [view EXCEPT ![c].base = summary, ![c].prev = watermark,
                                    ![c].conv = 1..n]
            /\ Goto(c, "flush")
    /\ UNCHANGED <<n, lock, turns, session, manual, note, reqs, seen, mishaps>>

KeepOneMore(c) ==                                               \* mutant
    /\ pc[c] = "flush"
    /\ IF n <= Keep
       THEN /\ Leave(c, IF c = Manual THEN "noop" ELSE "done")
            /\ UNCHANGED outrun
       ELSE /\ view' = [view EXCEPT ![c].upto = n - Keep - 1]
            /\ outrun' = outrun \cup (1..(n - Keep - 1) \ view[c].conv)
            /\ Goto(c, "write")
    /\ UNCHANGED <<n, lock, turns, session, manual, note, reqs, joined, revived, missed,
                   stuck, told, omitted, mishaps>>

(* The watermark is that of the messages there are after the flush.        *)
ForcedWatermark(c) ==
    /\ pc[c] = "flush"
    /\ IF n <= Keep
       THEN /\ Leave(c, IF c = Manual THEN "noop" ELSE "done")
            /\ UNCHANGED outrun
       ELSE /\ view' = [view EXCEPT ![c].upto = n - Keep]
            /\ outrun' = outrun \cup (1..(n - Keep) \ view[c].conv)
            /\ Goto(c, "write")
    /\ UNCHANGED <<n, lock, turns, session, manual, note, reqs, joined, revived, missed,
                   stuck, told, omitted, mishaps>>

---------------------------------------------------------------------------
(* _persist_section_and_summary and _persist_session_compaction_state.     *)

Forced(c) == c \notin Turns

(* The section: an automatic one is committed, a forced one only flushed.  *)
(* The summary is extended by it, or is to be regenerated.                 *)
Write(c, regenerate) ==
    /\ pc[c] = "write"
    /\ archived' = IF Forced(c) THEN archived ELSE archived \cup view[c].conv
    /\ view' = IF regenerate THEN view
               ELSE [view EXCEPT ![c].base = @ \cup view[c].conv]
    /\ Goto(c, IF regenerate THEN "regen" ELSE "ready")
    /\ UNCHANGED <<n, lock, turns, summary, watermark, manual, note, reqs, seen, mishaps>>

(* _regenerate_executive_summary reads the committed sections, in a        *)
(* database session of its own.                                            *)
Regenerate(c) ==
    /\ pc[c] = "regen"
    /\ view' = [view EXCEPT ![c].base = archived]
    /\ omitted' = IF Forced(c) THEN omitted \cup (view[c].conv \ archived) ELSE omitted
    /\ Goto(c, "ready")
    /\ UNCHANGED <<n, lock, turns, session, manual, note, reqs, joined,
                   revived, missed, stuck, told, outrun, mishaps>>

Commit(c) ==
    /\ pc[c] = "ready"
    /\ summary' = view[c].base /\ watermark' = view[c].upto
    /\ archived' = archived \cup view[c].conv
    /\ compacted' = IF c = Manual THEN compacted \cup {<<"row", job>>}
                    ELSE IF c \in Turns THEN compacted \cup {<<"note", c>>} ELSE compacted
    /\ Leave(c, IF c \in Calls THEN "done" ELSE "tell")
    /\ UNCHANGED <<n, lock, turns, manual, note, reqs, joined, revived, missed,
                   stuck, mistold, outrun, omitted, mishaps>>

SwallowError(c) ==                                              \* mutant
    /\ pc[c] \in {"start", "flush", "write", "ready"} /\ Mishap
    /\ Leave(c, IF c \in Calls THEN "done" ELSE "tell")
    /\ UNCHANGED <<n, lock, turns, session, manual, note, reqs, seen>>

(* A model call or a transaction fails.                                    *)
CompactionFail(c) ==
    /\ pc[c] \in {"start", "flush", "write", "ready"} /\ Mishap
    /\ Leave(c, IF c \in Calls THEN "done" ELSE "sad")
    /\ UNCHANGED <<n, lock, turns, session, manual, note, reqs, seen>>

(* The status a row is given.                                              *)
Outcome(c) == CASE pc[c] = "announce" -> "running" [] pc[c] = "tell" -> "completed"
                [] pc[c] = "noop" -> "noop" [] OTHER -> "failed"

Record(c, s) ==
    IF c = Manual THEN row' = [row EXCEPT ![job] = s] /\ UNCHANGED note
    ELSE note' = [note EXCEPT ![c] = s] /\ UNCHANGED row

SilentNoop(c) ==                                                \* mutant
    /\ pc[c] \in {"tell", "noop", "sad", "last"}
    /\ LET s == IF pc[c] = "noop" THEN row[job] ELSE Outcome(c)
       IN  IF c = Manual
           THEN /\ row' = [row EXCEPT ![job] = s] /\ job' = None
                /\ Goto(c, "idle") /\ UNCHANGED note
           ELSE /\ note' = [note EXCEPT ![c] = s]
                /\ Goto(c, "done") /\ UNCHANGED <<row, job>>
    /\ UNCHANGED <<n, lock, turns, view, session, made, hidden, reqs, seen, mishaps>>

(* The row is told the outcome.                                            *)
Tell(c) ==
    /\ pc[c] \in {"tell", "noop", "sad", "last"}
    /\ Record(c, Outcome(c))
    /\ IF c = Manual THEN Goto(c, "idle") /\ job' = None
       ELSE Goto(c, "done") /\ UNCHANGED job
    /\ UNCHANGED <<n, lock, turns, view, session, made, hidden, reqs, seen, mishaps>>

(* An error on the way to a row: before the commit, or (written) after it, *)
(* in the refresh or the publication.  A success, and the failure a turn's *)
(* compaction reports itself, go on to the exception branch, which tells   *)
(* of a failure; from there nothing more is written.                       *)
TellFail(c, written) ==
    /\ pc[c] \in {"announce", "tell", "noop", "sad", "last"} /\ Mishap
    /\ IF written THEN Record(c, Outcome(c)) ELSE UNCHANGED <<row, note>>
    /\ IF pc[c] = "tell" \/ (pc[c] = "sad" /\ c # Manual)
       THEN /\ mistold' = IF pc[c] = "sad" THEN mistold
                          ELSE mistold \cup {IF c = Manual THEN <<"row", job>> ELSE <<"note", c>>}
            /\ Goto(c, "last") /\ UNCHANGED <<job, stuck, view>>
       ELSE /\ Leave(c, IF c = Manual THEN "idle" ELSE "done")
            /\ stuck' = IF c = Manual /\ ~written THEN stuck \cup {job} ELSE stuck
            /\ job' = IF c = Manual THEN None ELSE job
            /\ UNCHANGED mistold
    /\ UNCHANGED <<n, lock, turns, session, made, hidden, reqs, joined, revived, missed,
                   compacted, outrun, omitted>>

(* The rows and the session outlive the process; nothing restarts them.    *)
Restart ==
    /\ Mishap
    /\ lock' = None
    /\ pc' = [c \in Compactors |-> IF c = Manual \/ pc[c] = "idle" THEN "idle" ELSE "done"]
    /\ rpc' = [q \in Requests |-> IF rpc[q] = "idle" THEN "idle" ELSE "done"]
    /\ view' = [c \in Compactors |-> NoView] /\ found' = [q \in Requests |-> None]
    /\ job' = None /\ joined' = FALSE
    /\ missed' = missed \cup Waiting
    /\ stuck' = stuck \cup Running
    /\ mistold' = mistold \cup {x \in compacted : x[1] = "note" /\ note[x[2]] = "running"}
    /\ UNCHANGED <<n, turns, session, row, made, hidden, note, revived, compacted, outrun,
                   omitted>>

ManualStep ==
    \/ DrainCheck \/ DrainFind \/ DrainMark
    \/ ForcedRead(Manual) \/ ForcedWatermark(Manual) \/ Write(Manual, FALSE)
    \/ Regenerate(Manual) \/ Commit(Manual) \/ Tell(Manual)

RequestStep(q) == ReqPromote(q) \/ ReqInsert(q)

Next ==
    \/ Post \/ Bury \/ TurnStart \/ TurnEnd \/ LockSwept \/ Restart
    \/ ManualStep
    \/ \E q \in Requests : ReqFind(q) \/ RequestStep(q) \/ ReqCut(q) \/ ReqFail(q)
    \/ \E t \in Turns : \/ TurnReplies(t) \/ AutoCheck(t) \/ AutoWindow(t) \/ AutoAnnounce(t)
                        \/ \E due \in BOOLEAN : AutoRead(t, due)
    \/ \E c \in Calls : Call(c) \/ ForcedRead(c) \/ ForcedWatermark(c)
    \/ \E c \in Turns \cup Calls : Write(c, FALSE) \/ Regenerate(c) \/ Commit(c)
    \/ \E c \in Turns : Tell(c)
    \/ \E c \in Compactors : Write(c, TRUE) \/ CompactionFail(c)
    \/ \E b \in BOOLEAN : DrainFail(b) \/ \E c \in Compactors : TellFail(c, b)

Spec == Init /\ [][Next]_vars

(* A turn ends, and the loop runs a coroutine that can go on.              *)
Fairness ==
    /\ WF_vars(TurnEnd)
    /\ WF_vars(ManualStep)
    /\ \A q \in Requests : WF_vars(RequestStep(q))
FairSpec == Spec /\ Fairness

---------------------------------------------------------------------------
(* Properties.                                                             *)

(* Every variable has its type, and the rows are inserted in order         *)
(* (the columns of Session and Message, the view of the coroutines).       *)
TypeOK ==
    /\ n \in 0..MaxMessages /\ lock \in {None} \cup Turns /\ turns \in 0..MaxTurns
    /\ pc \in [Compactors -> Point]
    /\ view \in [Compactors -> View]
    /\ summary \subseteq Messages /\ watermark \in 0..MaxMessages /\ archived \subseteq Messages
    /\ row \in [Requests -> RowStatus] /\ made \in 0..MaxRequests /\ hidden \in 0..made
    /\ \A r \in Requests : row[r] # "none" <=> r <= made
    /\ job \in {None} \cup Requests
    /\ job # None <=> pc[Manual] \notin {"idle", "drain", "finding"}
    /\ note \in [Turns -> RowStatus]
    /\ rpc \in [Requests -> {"idle", "promote", "queue", "run", "done"}]
    /\ found \in [Requests -> {None} \cup Requests]
    /\ joined \in BOOLEAN /\ revived \in BOOLEAN
    /\ missed \subseteq Requests /\ stuck \subseteq Requests
    /\ compacted \subseteq Outcomes /\ mistold \subseteq Outcomes
    /\ outrun \subseteq Messages /\ omitted \subseteq Messages
    /\ mishaps \in 0..MaxMishaps

(* The messages that are not replayed to the model: up to the watermark,   *)
(* if there is a summary at all (sessions.py:463).                         *)
Behind == IF summary = {} THEN {} ELSE 1..watermark

(* The model hears of every message: up to the watermark the summary and   *)
(* the archive tell of it, after it, it is live.  However compactions      *)
(* overlap, only a forced one forgets: what came while its memory flush    *)
(* ran (compaction.py:1979 reads, 2001 sets the watermark), and its own    *)
(* section when it regenerates the summary (1385, before the commit).      *)
MessagesCovered ==
    /\ Behind \subseteq summary \cup outrun \cup omitted
    /\ 1..watermark \subseteq archived \cup outrun

(* No compaction forgets a message it had read: the range it summarizes    *)
(* ends where the live history begins (docs/guides/context-management.md,  *)
(* "Non-overlapping summary window").                                      *)
NothingForgotten == Behind \ outrun \subseteq summary

(* The watermark moves back only under a compaction that had read an       *)
(* older one: overlapping compactions, which the code does not exclude.    *)
WatermarkForward ==
    [][ watermark' < watermark
        => \E c \in Compactors : pc[c] = "ready" /\ pc'[c] # "ready" /\ view[c].prev # watermark
      ]_vars

(* A queued row has a turn or a drain that will take it, a running row its *)
(* coroutine, unless it was inserted after the drain had looked (1884),    *)
(* left behind by a drain that takes one row (1932), out of the drain's    *)
(* sight behind a hundred newer messages (400), ignored by                 *)
(* _start_manual_compaction_task (1842), or hit by a mishap.               *)
RowsOwned ==
    \A r \in Requests :
        /\ row[r] = "queued" => \/ lock # None \/ pc[Manual] \in {"drain", "finding"}
                                \/ job = r \/ r \in missed \/ r <= hidden
        /\ row[r] = "running" => job = r \/ r \in stuck

(* What a row says of its last run is true, unless the outcome could not   *)
(* be written after the commit (1807, 1708).                               *)
RowTellsTruth ==
    /\ \A r \in Requests :
        /\ row[r] = "completed" => <<"row", r>> \in compacted
        /\ row[r] \in {"noop", "failed"} => <<"row", r>> \notin compacted \ mistold
    /\ \A t \in Turns :
        /\ note[t] = "completed" => <<"note", t>> \in compacted
        /\ pc[t] = "done" /\ note[t] # "completed" => <<"note", t>> \notin compacted \ mistold

(* A manual run works beside a turn only if the turn started after the     *)
(* session was found idle (1870, 1884, 1925), or if it continues a row     *)
(* left running (1868 does not look at the lock).                          *)
ManualWhenIdle ==
    pc[Manual] \in {"start", "flush", "write", "regen", "ready"} /\ lock # None
    => joined \/ revived

(* Every accepted request ends, or is one that RowsOwned excepts.  Turns   *)
(* are bounded (MaxTurns): where one follows the other for ever, a drain   *)
(* that finds the lock taken again (1925) may do so for ever too.          *)
RequestsSettle ==
    \A r \in Requests :
        (row[r] \in {"queued", "running"})
        ~> \/ row[r] \in {"completed", "noop", "failed"}
           \/ r \in missed \cup stuck \/ r <= hidden
===========================================================================
