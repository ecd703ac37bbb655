-------------------------- MODULE ApprovalsProofs --------------------------
(***************************************************************************)
(* Proofs about Approvals for any number of asks, requests, cancels and    *)
(* mishaps: type correctness, that a tool runs only on the consent of a    *)
(* human, that an ask's row, its call's row and its asker tell the same    *)
(* story, and that an accepted answer is acted on once.                    *)
(***************************************************************************)
EXTENDS Approvals, FiniteSetTheorems, TLAPS

---------------------------------------------------------------------------
(* Types.                                                                  *)

LEMMA InitTyped == Init => TypeOK
<1> SUFFICES ASSUME Init PROVE TypeOK
  OBVIOUS
<1> USE ApprovalsAssumption
<1>1. /\ kind \in [Asks -> Kind] /\ row \in [Asks -> RowStatus]
      /\ call \in [Asks -> CallStatus] /\ registered \subseteq Asks
      /\ answer \in [Asks -> Answer] /\ pc \in [Asks -> Point]
  BY DEF Init, RowStatus, CallStatus, CallTerminal, Answer, Point
<1>2. /\ sawcall \subseteq Asks /\ verdict \in [Asks -> Verdict]
      /\ allows \in BOOLEAN /\ bypass \in BOOLEAN
      /\ dpc \in [Deciders -> DeciderPoint]
      /\ target \in [Deciders -> Asks \cup {NoAsk}]
      /\ choice \in [Deciders -> Decision] /\ touches \subseteq Deciders
  BY DEF Init, RowStatus, Verdict, DeciderPoint, Decision
<1>3. /\ \A d \in Deciders : dpc[d] \notin {"idle", "done"} => target[d] \in Asks
      /\ \A s \in Stoppers : spc[s] \notin {"idle", "done"} => goal[s] \in Asks
      /\ spc \in [Stoppers -> {"idle", "read", "committed", "done"}]
      /\ goal \in [Stoppers -> Asks \cup {NoAsk}]
  BY DEF Init
<1>4. /\ sweeping \subseteq Asks /\ tasks \in [Asks -> Nat]
      /\ consent \subseteq Asks /\ hasty \in BOOLEAN /\ overwritten \subseteq Asks
      /\ unheard \subseteq Asks /\ swept \subseteq Asks /\ undone \subseteq Asks
      /\ answers \in [Asks -> Nat] /\ lost \subseteq Asks
  BY DEF Init
<1>5. kind \in [Asks -> Kind] /\ mishaps \in 0..MaxMishaps
  BY DEF Init
<1>6. QED
  BY <1>1, <1>2, <1>3, <1>4, <1>5 DEF TypeOK

(* Steps of an asker.                                                      *)
LEMMA AskerTyped ==
  ASSUME TypeOK, NEW a \in Asks,
         AskerStep(a) \/ Skip(a) \/ LateFail(a) \/ AskAllowed(a) \/ Ask(a)
  PROVE  TypeOK'
<1> USE DEF TypeOK, asker, futures, rows, grants, decider, stopper, seen, Kind, RowStatus,
            CallStatus, CallTerminal, Answer, Point, Verdict, DeciderPoint, Decision
<1> USE ApprovalsAssumption
<1>1. CASE AskAllowed(a)
  BY <1>1 DEF AskAllowed, IsNext
<1>2. CASE Ask(a)
  BY <1>2 DEF Ask, IsNext
<1>3. CASE Skip(a)
  BY <1>3 DEF Skip
<1>4. CASE Register(a)
  BY <1>4 DEF Register
<1>5. CASE WaitQuestion(a)
  BY <1>5 DEF WaitQuestion
<1>6. CASE Wake(a)
  BY <1>6 DEF Wake
<1>7. CASE Finish(a)
  BY <1>7 DEF Finish
<1>8. CASE Timeout(a)
  BY <1>8 DEF Timeout
<1>9. CASE LateRead(a)
  <2>1. /\ verdict' \in [Asks -> Verdict] /\ pc' \in [Asks -> Point]
        /\ registered' \subseteq Asks
    BY <1>9, SMTT(30) DEF LateRead, GiveUp
  <2>2. QED
    BY <1>9, <2>1 DEF LateRead
<1>10. CASE LateReadCall(a)
  BY <1>10 DEF LateReadCall
<1>11. CASE LateCommit(a)
  BY <1>11 DEF LateCommit
<1>12. CASE LateClose(a)
  BY <1>12 DEF LateClose
<1>13. CASE LateFail(a)
  BY <1>13 DEF LateFail, GiveUp
<1>14. QED
  BY <1>1, <1>2, <1>3, <1>4, <1>5, <1>6, <1>7, <1>8, <1>9, <1>10, <1>11, <1>12, <1>13 DEF AskerStep

(* Steps of a request that decides or answers.                             *)
LEMMA DeciderTyped ==
  ASSUME TypeOK, NEW d \in Deciders,
         \/ DeciderStep(d) \/ DecideResolve(d, TRUE) \/ DecideFail(d) \/ AnswerTaskFail(d)
         \/ \E a \in Asks, c \in Decision : DecideRead(d, a, c)
  PROVE  TypeOK'
<1> USE DEF TypeOK, asker, futures, rows, grants, decider, stopper, seen, Kind, RowStatus,
            CallStatus, CallTerminal, Answer, Point, Verdict, DeciderPoint, Decision
<1> USE ApprovalsAssumption
<1>1. CASE DecideReconcile(d)
  BY <1>1 DEF DecideReconcile
<1>2. CASE DecideCommit(d)
  BY <1>2 DEF DecideCommit
<1>3. CASE DecideFail(d)
  BY <1>3 DEF DecideFail, Done
<1>4. CASE AnswerTask(d)
  BY <1>4 DEF AnswerTask, Done
<1>5. CASE AnswerTaskFail(d)
  BY <1>5 DEF AnswerTaskFail, Done
<1>6. ASSUME NEW all \in BOOLEAN, DecideResolve(d, all) PROVE TypeOK'
  BY <1>6 DEF DecideResolve, Resolved, Done
<1>7. ASSUME NEW a \in Asks, NEW c \in Decision, DecideRead(d, a, c) PROVE TypeOK'
  BY <1>7 DEF DecideRead
<1> HIDE DEF TypeOK
<1>8. QED
  BY <1>1, <1>2, <1>3, <1>4, <1>5, <1>6, <1>7 DEF DeciderStep

(* Steps of a cancel, the sweeper and the process.                         *)
LEMMA OthersTyped ==
  ASSUME TypeOK,
         \/ \E s \in Stoppers : \/ StopCommit(s) \/ StopFail(s) \/ StopResolve(s)
                                \/ \E a \in Asks : StopRead(s, a)
         \/ \E S \in SUBSET Asks : SweepRead(S)
         \/ SweepCommit \/ SweepFail \/ Restart
  PROVE  TypeOK'
<1> USE DEF TypeOK, asker, futures, rows, grants, decider, stopper, seen, Kind, RowStatus,
            CallStatus, CallTerminal, Answer, Point, Verdict, DeciderPoint, Decision
<1> USE ApprovalsAssumption
<1>1. ASSUME NEW s \in Stoppers, StopCommit(s) PROVE TypeOK'
  BY <1>1 DEF StopCommit
<1>2. ASSUME NEW s \in Stoppers, StopFail(s) PROVE TypeOK'
  BY <1>2 DEF StopFail
<1>3. ASSUME NEW s \in Stoppers, StopResolve(s) PROVE TypeOK'
  BY <1>3 DEF StopResolve, Resolved
<1>4. ASSUME NEW s \in Stoppers, NEW a \in Asks, StopRead(s, a) PROVE TypeOK'
  BY <1>4 DEF StopRead
<1>5. ASSUME NEW S \in SUBSET Asks, SweepRead(S) PROVE TypeOK'
  BY <1>5 DEF SweepRead, Resolved
<1>6. CASE SweepCommit
  BY <1>6 DEF SweepCommit
<1>7. CASE SweepFail
  BY <1>7 DEF SweepFail
<1>8. CASE Restart
  <2>1. /\ pc' \in [Asks -> Point] /\ dpc' \in [Deciders -> DeciderPoint]
        /\ spc' \in [Stoppers -> {"idle", "read", "committed", "done"}]
    BY <1>8 DEF Restart
  <2>2. /\ registered' \subseteq Asks /\ answer' \in [Asks -> Answer]
        /\ sawcall' \subseteq Asks /\ allows' \in BOOLEAN /\ bypass' \in BOOLEAN
        /\ target' \in [Deciders -> Asks \cup {NoAsk}]
        /\ choice' \in [Deciders -> Decision] /\ touches' \subseteq Deciders
        /\ goal' \in [Stoppers -> Asks \cup {NoAsk}]
    BY <1>8 DEF Restart
  <2>3. /\ \A d \in Deciders : dpc'[d] \in {"idle", "done"}
        /\ \A s \in Stoppers : spc'[s] \in {"idle", "done"}
    BY <1>8 DEF Restart
  <2>4. /\ sweeping' \subseteq Asks /\ undone' \subseteq Asks /\ hasty' \in BOOLEAN
        /\ mishaps' \in 0..MaxMishaps
    BY <1>8 DEF Restart
  <2>5. {target[d] : d \in {e \in Deciders : dpc[e] = "committed"}} \subseteq Asks
    OBVIOUS
  <2>6. {target[d] : d \in {e \in Deciders : choice[e] = "submitted" /\
                               dpc[e] \in {"committed", "stale"}}} \subseteq Asks
    OBVIOUS
  <2>7. unheard' \subseteq Asks /\ lost' \subseteq Asks
    BY <1>8, <2>5, <2>6 DEF Restart
  <2>8. /\ kind' \in [Asks -> Kind] /\ verdict' \in [Asks -> Verdict]
        /\ row' \in [Asks -> RowStatus] /\ call' \in [Asks -> CallStatus]
        /\ tasks' \in [Asks -> Nat] /\ consent' \subseteq Asks
        /\ overwritten' \subseteq Asks /\ swept' \subseteq Asks
        /\ answers' \in [Asks -> Nat]
    BY <1>8 DEF Restart
  <2>9. QED
    BY <2>1, <2>2, <2>3, <2>4, <2>7, <2>8
<1>9. QED
  BY <1>1, <1>2, <1>3, <1>4, <1>5, <1>6, <1>7, <1>8

LEMMA NextTyped == TypeOK /\ [Next]_vars => TypeOK'
<1>1. TypeOK /\ UNCHANGED vars => TypeOK'
  BY DEF TypeOK, vars, asker, futures, rows, grants, decider, stopper, seen
<1>2. TypeOK /\ Next => TypeOK'
  BY AskerTyped, DeciderTyped, OthersTyped DEF Next
<1>3. QED
  BY <1>1, <1>2

(* Every reachable state is well typed, whatever a turn asks and however   *)
(* decisions, expiries, cancels, failures and restarts interleave.         *)
THEOREM ApprovalsTypeCorrect == Spec => []TypeOK
<1>1. QED
  BY InitTyped, NextTyped, PTL DEF Spec

---------------------------------------------------------------------------
(* Consent.  RunsOnConsent is not inductive: an asker acts on its future   *)
(* or on its row, a call that is let through on an allow or a bypass, so   *)
(* the invariant follows the approval through each of them.                *)

Promised ==
    \/ consent # {} \/ hasty
    \/ \E d \in Deciders : dpc[d] = "reconciled" /\ choice[d] = "approved"

ConsentInv ==
    /\ \A a \in Asks : row[a] = "approved" \/ answer[a] = "approved" \/ verdict[a] = "approved"
                       => a \in consent
    /\ \A d \in Deciders : dpc[d] = "committed" /\ choice[d] = "approved"
                           => target[d] \in consent
    /\ allows \/ bypass \/ (\E a \in Asks : verdict[a] = "allowed") => Promised

LEMMA InitConsents == Init => ConsentInv
BY DEF Init, ConsentInv

LEMMA ConsentImplies == ConsentInv => RunsOnConsent
BY DEF ConsentInv, Promised, RunsOnConsent

LEMMA AskerConsents ==
  ASSUME TypeOK, ConsentInv, NEW a \in Asks,
         AskerStep(a) \/ Skip(a) \/ LateFail(a) \/ AskAllowed(a) \/ Ask(a)
  PROVE  ConsentInv'
<1> USE DEF TypeOK, ConsentInv, asker, futures, rows, grants, decider, stopper, seen
<1>1. consent' = consent /\ (Promised => Promised')
  <2>1. UNCHANGED <<dpc, choice, consent, hasty>>
    BY DEF AskerStep, Register, WaitQuestion, Wake, Finish, Timeout, LateRead,
           LateReadCall, LateCommit, LateClose, Skip, LateFail, AskAllowed, Ask
  <2>2. QED
    BY <2>1 DEF Promised
<1>2. UNCHANGED <<target, dpc, choice, allows, bypass>>
  BY DEF AskerStep, Register, WaitQuestion, Wake, Finish, Timeout, LateRead,
         LateReadCall, LateCommit, LateClose, Skip, LateFail, AskAllowed, Ask
<1>3. CASE AskAllowed(a)
  BY <1>1, <1>2, <1>3 DEF AskAllowed
<1>4. CASE Ask(a)
  BY <1>1, <1>2, <1>4 DEF Ask
<1>5. CASE Skip(a)
  BY <1>1, <1>2, <1>5 DEF Skip
<1>6. CASE Register(a)
  BY <1>1, <1>2, <1>6 DEF Register
<1>7. CASE WaitQuestion(a)
  BY <1>1, <1>2, <1>7 DEF WaitQuestion
<1>8. CASE Wake(a)
  <2>1. answer[a] # "allowed"
    BY DEF Answer
  <2>2. QED
    BY <1>1, <1>2, <1>8, <2>1 DEF Wake
<1>9. CASE Finish(a)
  BY <1>1, <1>2, <1>9 DEF Finish
<1>10. CASE Timeout(a)
  BY <1>1, <1>2, <1>10 DEF Timeout
<1>11. CASE LateRead(a)
  <2>1. row[a] # "allowed"
    BY DEF RowStatus
  <2>2. /\ UNCHANGED <<row, answer>>
        /\ verdict' = verdict \/ \E v \in {row[a], "expired", "failed"} :
                                     verdict' = [verdict EXCEPT ![a] = v]
    BY <1>11 DEF LateRead, GiveUp
  <2>3. QED
    BY <1>1, <1>2, <2>1, <2>2
<1>12. CASE LateReadCall(a)
  BY <1>1, <1>2, <1>12 DEF LateReadCall
<1>13. CASE LateCommit(a)
  BY <1>1, <1>2, <1>13 DEF LateCommit
<1>14. CASE LateClose(a)
  BY <1>1, <1>2, <1>14 DEF LateClose
<1>15. CASE LateFail(a)
  BY <1>1, <1>2, <1>15 DEF LateFail, GiveUp
<1>16. QED
  BY <1>3, <1>4, <1>5, <1>6, <1>7, <1>8, <1>9, <1>10, <1>11, <1>12, <1>13, <1>14, <1>15
     DEF AskerStep

LEMMA DeciderConsents ==
  ASSUME TypeOK, ConsentInv, NEW d \in Deciders,
         \/ DeciderStep(d) \/ DecideResolve(d, TRUE) \/ DecideFail(d) \/ AnswerTaskFail(d)
         \/ \E a \in Asks, c \in Decision : DecideRead(d, a, c)
  PROVE  ConsentInv'
<1> USE DEF TypeOK, ConsentInv, asker, futures, rows, grants, decider, stopper, seen
<1>1. CASE DecideReconcile(d)
  <2>1. consent' = consent /\ (Promised => Promised')
    BY <1>1 DEF DecideReconcile, Promised
  <2>2. allows' => allows \/ Promised'
    BY <1>1 DEF DecideReconcile, Promised
  <2>3. QED
    BY <1>1, <2>1, <2>2 DEF DecideReconcile
<1>2. CASE DecideCommit(d)
  <2>1. target[d] \in Asks
    BY <1>2 DEF DecideCommit
  <2>2. consent' = IF choice[d] = "approved" THEN consent \cup {target[d]} ELSE consent
    BY <1>2 DEF DecideCommit
  <2>3. Promised => Promised'
    BY <1>2, <2>2 DEF DecideCommit, Promised
  <2>4. \A a \in Asks : row'[a] = "approved" => a \in consent'
    BY <1>2, <2>1, <2>2 DEF DecideCommit
  <2>5. \A e \in Deciders : dpc'[e] = "committed" /\ choice'[e] = "approved"
                            => target'[e] \in consent'
    BY <1>2, <2>1, <2>2 DEF DecideCommit
  <2>6. QED
    BY <1>2, <2>2, <2>3, <2>4, <2>5 DEF DecideCommit
<1>3. CASE DecideFail(d)
  <2>1. consent' = consent
    BY <1>3 DEF DecideFail
  <2>2. Promised => Promised'
    BY <1>3 DEF DecideFail, Done, Promised
  <2>3. QED
    BY <1>3, <2>1, <2>2 DEF DecideFail, Done
<1>4. CASE AnswerTask(d) \/ AnswerTaskFail(d)
  <2>1. consent' = consent /\ (Promised => Promised')
    BY <1>4 DEF AnswerTask, AnswerTaskFail, Done, Promised
  <2>2. QED
    BY <1>4, <2>1 DEF AnswerTask, AnswerTaskFail, Done
<1>5. ASSUME NEW all \in BOOLEAN, DecideResolve(d, all) PROVE ConsentInv'
  <2>1. consent' = consent /\ (Promised => Promised')
    BY <1>5 DEF DecideResolve, Done, Promised
  <2>2. bypass' => bypass \/ Promised'
    <3>1. dpc[d] = "committed" /\ (all => choice[d] = "approved")
      BY <1>5 DEF DecideResolve
    <3>2. all => consent # {}
      BY <3>1
    <3>3. QED
      BY <1>5, <2>1, <3>2 DEF DecideResolve, Promised
  <2>3. \A a \in Asks : answer'[a] = "approved" => a \in consent'
    BY <1>5, <2>1 DEF DecideResolve, Resolved
  <2>4. \A e \in Deciders : dpc'[e] = "committed" /\ choice'[e] = "approved"
                            => target'[e] \in consent'
    BY <1>5, <2>1 DEF DecideResolve, Done
  <2>5. UNCHANGED <<row, verdict, allows>>
    BY <1>5 DEF DecideResolve
  <2>6. QED
    BY <2>1, <2>2, <2>3, <2>4, <2>5
<1>6. ASSUME NEW a \in Asks, NEW c \in Decision, DecideRead(d, a, c) PROVE ConsentInv'
  <2>1. consent' = consent /\ (Promised => Promised')
    BY <1>6 DEF DecideRead, Promised
  <2>2. allows' => allows \/ Promised'
    BY <1>6 DEF DecideRead, Promised
  <2>3. UNCHANGED <<row, answer, verdict, bypass>>
    BY <1>6 DEF DecideRead
  <2>4. \A e \in Deciders : dpc'[e] = "committed" /\ choice'[e] = "approved"
                            => target'[e] \in consent'
    BY <1>6, <2>1 DEF DecideRead
  <2>5. QED
    BY <2>1, <2>2, <2>3, <2>4
<1>7. QED
  BY <1>1, <1>2, <1>3, <1>4, <1>5, <1>6 DEF DeciderStep

LEMMA OthersConsent ==
  ASSUME TypeOK, ConsentInv,
         \/ \E s \in Stoppers : \/ StopCommit(s) \/ StopFail(s) \/ StopResolve(s)
                                \/ \E a \in Asks : StopRead(s, a)
         \/ \E S \in SUBSET Asks : SweepRead(S)
         \/ SweepCommit \/ SweepFail \/ Restart
  PROVE  ConsentInv'
<1> USE DEF TypeOK, ConsentInv, asker, futures, rows, grants, decider, stopper, seen
<1>1. CASE Restart
  <2>1. consent' = consent /\ (Promised => Promised')
    BY <1>1 DEF Restart, Promised
  <2>2. QED
    BY <1>1, <2>1 DEF Restart
<1>2. CASE ~Restart
  <2>1. UNCHANGED <<consent, hasty, dpc, choice, target, allows, bypass, verdict>>
    BY <1>2 DEF StopCommit, StopFail, StopResolve, StopRead, SweepRead, SweepCommit, SweepFail
  <2>2. \A a \in Asks : row'[a] = "approved" => row[a] = "approved"
    BY <1>2 DEF StopCommit, StopFail, StopResolve, StopRead, SweepRead, SweepCommit, SweepFail
  <2>3. \A a \in Asks : answer'[a] = "approved" => answer[a] = "approved"
    BY <1>2 DEF StopCommit, StopFail, StopResolve, StopRead, SweepRead, SweepCommit,
                SweepFail, Resolved
  <2>4. Promised' = Promised
    BY <2>1 DEF Promised
  <2>5. QED
    BY <2>1, <2>2, <2>3, <2>4
<1>3. QED
  BY <1>1, <1>2

LEMMA NextConsents == TypeOK /\ ConsentInv /\ [Next]_vars => ConsentInv'
<1>1. TypeOK /\ ConsentInv /\ UNCHANGED vars => ConsentInv'
  BY DEF ConsentInv, Promised, vars, asker, futures, rows, grants, decider, stopper, seen
<1>2. TypeOK /\ ConsentInv /\ Next => ConsentInv'
  BY AskerConsents, DeciderConsents, OthersConsent DEF Next
<1>3. QED
  BY <1>1, <1>2

(* A tool runs only when a human approved this very call, or an approval   *)
(* of its turn covers it, for any turn and any race of decisions, expiries *)
(* and restarts (api_v1_approvals.py, loop_dispatch.py:171).               *)
THEOREM ToolsRunOnConsent == Spec => []RunsOnConsent
<1>1. Init => TypeOK /\ ConsentInv
  BY InitTyped, InitConsents
<1>2. (TypeOK /\ ConsentInv) /\ [Next]_vars => (TypeOK /\ ConsentInv)'
  BY NextTyped, NextConsents
<1>3. QED
  BY <1>1, <1>2, ConsentImplies, PTL DEF Spec

---------------------------------------------------------------------------
(* Records.  What an asker acts on reaches it by its future or its row,    *)
(* which a decider, a stop, the sweeper and the asker itself write one     *)
(* after the other.  The invariant says of every ask what each of them may *)
(* still hold, as long as nobody has overwritten its row.                  *)

Human == {"tool", "harness"}

(* Where the asker of a tool or a harness may stand.                       *)
Shape(a) ==
    kind[a] \in Human =>
        /\ row[a] \in {"none", "pending", "approved", "denied", "expired"}
        /\ answer[a] \in {"none", "open", "timeout", "approved", "denied", "expired"}
        /\ pc[a] \in {"idle", "asked"} => answer[a] = "none"
        /\ pc[a] = "idle" => row[a] = "none"
        /\ row[a] = "none" => pc[a] \in {"idle", "running", "ended", "gone"}
        /\ answer[a] = "open" => pc[a] = "waiting"
        /\ pc[a] = "late" => answer[a] = "timeout"
        /\ pc[a] \notin {"running", "ended", "gone"} => verdict[a] = "none"
        /\ pc[a] = "running" => kind[a] = "tool" /\ verdict[a] \in {"approved", "allowed"}
        /\ pc[a] # "publishing"
        /\ verdict[a] = "allowed" => row[a] = "none"
        /\ a \in sweeping => a \in swept /\ row[a] # "none"
        /\ kind[a] = "tool" =>
              /\ pc[a] # "closing"
              /\ verdict[a] \in {"none", "approved", "denied", "expired", "allowed", "skipped"}
              /\ pc[a] = "ended" => verdict[a] # "none"

(* Deciders and stops hold asks that have a row.                           *)
Aims ==
    /\ \A d \in Deciders :
          dpc[d] \notin {"idle", "done"} /\ kind[target[d]] \in Human =>
              row[target[d]] # "none" /\ choice[d] \in {"approved", "denied"}
    /\ \A s \in Stoppers :
          spc[s] \notin {"idle", "done"} =>
              /\ kind[goal[s]] \in {"harness", "question"}
              /\ kind[goal[s]] = "harness" => row[goal[s]] # "none"

(* A decision no asker has taken note of; an expiry that is not withdrawn. *)
Telling(a) == a \in unheard \/ \E d \in Deciders : dpc[d] = "committed" /\ target[d] = a
Expiring(a) == row[a] = "expired" \/ a \in sweeping

(* The row says what its asker, and who is about to wake it, were told.    *)
RowKept(a) ==
    a \notin overwritten =>
        /\ answer[a] \in {"approved", "denied"} => row[a] = answer[a]
        /\ verdict[a] \in {"approved", "denied"} => row[a] = verdict[a]
        /\ \A d \in Deciders : dpc[d] = "committed" /\ target[d] = a => row[a] = choice[d]
        /\ \A s \in Stoppers : spc[s] = "committed" /\ goal[s] = a => row[a] = "expired"
        /\ answer[a] = "expired" /\ a \notin undone => Expiring(a)
        /\ pc[a] = "closing" => row[a] = "expired"
        /\ verdict[a] = "expired" /\ a \notin undone =>
              Expiring(a) \/ (kind[a] = "harness" /\ Telling(a))
        /\ kind[a] = "harness" /\ row[a] \in {"approved", "denied"} /\ ~Over(a) =>
              Telling(a) \/ answer[a] = row[a]

(* The call row of a tool follows its approval.                            *)
CallKept(a) ==
    a \notin overwritten =>
        /\ row[a] = "pending" => call[a] = "awaiting"
        /\ row[a] = "denied" => call[a] = "denied"
        /\ pc[a] = "ended" /\ verdict[a] \in {"approved", "allowed"} => call[a] = "done"
        /\ answer[a] = "expired" => a \in swept
        /\ row[a] = "expired" /\ a \notin swept => Over(a)
        /\ pc[a] = "expiring" /\ a \notin sawcall \cup swept => row[a] \in {"approved", "denied"}
        /\ verdict[a] = "expired" /\ a \notin swept \cup undone => call[a] = "expired"
        /\ \A d \in Deciders : dpc[d] = "reconciled" /\ target[d] = a /\ d \notin touches
                               => row[a] # "pending"

Judged(a) ==
    /\ Shape(a)
    /\ kind[a] \in Human => RowKept(a)
    /\ kind[a] = "tool" => CallKept(a)

RecordInv == Aims /\ \A a \in Asks : Judged(a)

(* A step leaves an ask, and whoever aims at it, alone.                    *)
Apart(a) ==
    /\ /\ kind'[a] = kind[a] /\ row'[a] = row[a] /\ call'[a] = call[a]
       /\ answer'[a] = answer[a] /\ pc'[a] = pc[a] /\ verdict'[a] = verdict[a]
    /\ /\ a \in sawcall' <=> a \in sawcall
       /\ a \in sweeping' <=> a \in sweeping
       /\ a \in swept' <=> a \in swept
       /\ a \in undone' <=> a \in undone
       /\ a \in overwritten' <=> a \in overwritten
       /\ a \in unheard' <=> a \in unheard
    /\ \A d \in Deciders :
          \/ target[d] # a /\ target'[d] # a
          \/ /\ dpc'[d] = dpc[d] /\ target'[d] = target[d] /\ choice'[d] = choice[d]
             /\ d \in touches' <=> d \in touches
    /\ \A s \in Stoppers :
          \/ goal[s] # a /\ goal'[s] # a
          \/ spc'[s] = spc[s] /\ goal'[s] = goal[s]

LEMMA NoAskIsNone == NoAsk \notin Asks
BY ApprovalsAssumption DEF NoAsk, Asks

LEMMA ApartJudged ==
  ASSUME NEW a \in Asks, Judged(a), Apart(a)
  PROVE  Judged(a)'
<1> USE DEF Judged, Apart
<1>1. Shape(a)'
  BY DEF Shape
<1>2. Telling(a)' <=> Telling(a)
  BY DEF Telling
<1>3. kind[a] \in Human => RowKept(a)'
  BY <1>2 DEF RowKept, Expiring, Over
<1>4. kind[a] = "tool" => CallKept(a)'
  BY DEF CallKept, Over
<1>5. QED
  BY <1>1, <1>3, <1>4

(* Steps of an asker touch its own ask only.                               *)
LEMMA AskerJudged ==
  ASSUME TypeOK, RecordInv, NEW a \in Asks,
         AskerStep(a) \/ Skip(a) \/ LateFail(a) \/ AskAllowed(a) \/ Ask(a)
  PROVE  RecordInv'
<1> USE DEF asker, futures, rows, decider, stopper, seen
<1>0. /\ Shape(a) /\ Aims /\ UNCHANGED <<kind, decider, stopper, sweeping, swept>>
      /\ kind[a] \in Human => RowKept(a)
      /\ kind[a] = "tool" => CallKept(a)
  BY DEF RecordInv, Judged, AskerStep, AskAllowed, Ask, Skip, Register, WaitQuestion, Wake, Finish, Timeout, LateRead, LateReadCall, LateCommit, LateClose, LateFail
<1>1. \A b \in Asks \ {a} : Apart(b)
  BY DEF TypeOK, Apart, AskerStep, AskAllowed, Ask, Skip, Register, WaitQuestion, Wake, Finish, Timeout, LateRead, LateReadCall, LateCommit, LateClose, LateFail, GiveUp
<1>2. \A b \in Asks \ {a} : Judged(b)'
  BY <1>1, ApartJudged DEF RecordInv
<1>3. Aims'
  <2>1. \A b \in Asks : row[b] # "none" => row'[b] # "none"
    BY DEF TypeOK, AskerStep, AskAllowed, Ask, Skip, Register, WaitQuestion, Wake, Finish, Timeout, LateRead, LateReadCall, LateCommit, LateClose, LateFail
  <2>2. QED
    BY <1>0, <2>1 DEF Aims, TypeOK
<1>4. CASE AskAllowed(a)
  <2>1. Shape(a)'
    BY <1>0, <1>4, SMTT(30) DEF TypeOK, Shape, Human, Answer, RowStatus, AskAllowed, IsNext
  <2>2. kind[a] \in Human => RowKept(a)'
    BY <1>0, <1>4, <2>1, SMTT(30) DEF TypeOK, Shape, RowKept, Telling, Expiring, Over, Human, Aims, AskAllowed, IsNext
  <2>3. kind[a] = "tool" => CallKept(a)'
    BY <1>0, <1>4, <2>1, SMTT(30) DEF TypeOK, Shape, CallKept, RowKept, Over, Human, Aims, AskAllowed, IsNext
  <2>4. QED
    BY <1>0, <1>2, <1>3, <2>1, <2>2, <2>3 DEF RecordInv, Judged
<1>5. CASE Ask(a)
  <2>1. Shape(a)'
    BY <1>0, <1>5, SMTT(30) DEF TypeOK, Shape, Human, Answer, RowStatus, Ask, IsNext
  <2>2. kind[a] \in Human => RowKept(a)'
    BY <1>0, <1>5, <2>1, SMTT(30) DEF TypeOK, Shape, RowKept, Telling, Expiring, Over, Human, Aims, Ask, IsNext
  <2>3. kind[a] = "tool" => CallKept(a)'
    BY <1>0, <1>5, <2>1, SMTT(30) DEF TypeOK, Shape, CallKept, RowKept, Over, Human, Aims, Ask, IsNext
  <2>4. QED
    BY <1>0, <1>2, <1>3, <2>1, <2>2, <2>3 DEF RecordInv, Judged
<1>6. CASE Skip(a)
  <2>1. Shape(a)'
    BY <1>0, <1>6, SMTT(30) DEF TypeOK, Shape, Human, Answer, RowStatus, Skip
  <2>2. kind[a] \in Human => RowKept(a)'
    BY <1>0, <1>6, <2>1, SMTT(30) DEF TypeOK, Shape, RowKept, Telling, Expiring, Over, Human, Aims, Skip
  <2>3. kind[a] = "tool" => CallKept(a)'
    BY <1>0, <1>6, <2>1, SMTT(30) DEF TypeOK, Shape, CallKept, RowKept, Over, Human, Aims, Skip
  <2>4. QED
    BY <1>0, <1>2, <1>3, <2>1, <2>2, <2>3 DEF RecordInv, Judged
<1>7. CASE Register(a)
  <2>1. Shape(a)'
    BY <1>0, <1>7, SMTT(30) DEF TypeOK, Shape, Human, Answer, RowStatus, Register
  <2>2. kind[a] \in Human => RowKept(a)'
    BY <1>0, <1>7, <2>1, SMTT(30) DEF TypeOK, Shape, RowKept, Telling, Expiring, Over, Human, Aims, Register
  <2>3. kind[a] = "tool" => CallKept(a)'
    BY <1>0, <1>7, <2>1, SMTT(30) DEF TypeOK, Shape, CallKept, RowKept, Over, Human, Aims, Register
  <2>4. QED
    BY <1>0, <1>2, <1>3, <2>1, <2>2, <2>3 DEF RecordInv, Judged
<1>8. CASE WaitQuestion(a)
  <2>1. Shape(a)'
    BY <1>0, <1>8, SMTT(30) DEF TypeOK, Shape, Human, Answer, RowStatus, WaitQuestion
  <2>2. kind[a] \in Human => RowKept(a)'
    BY <1>0, <1>8, <2>1, SMTT(30) DEF TypeOK, Shape, RowKept, Telling, Expiring, Over, Human, Aims, WaitQuestion
  <2>3. kind[a] = "tool" => CallKept(a)'
    BY <1>0, <1>8, <2>1, SMTT(30) DEF TypeOK, Shape, CallKept, RowKept, Over, Human, Aims, WaitQuestion
  <2>4. QED
    BY <1>0, <1>2, <1>3, <2>1, <2>2, <2>3 DEF RecordInv, Judged
<1>9. CASE Wake(a)
  <2>1. Shape(a)'
    BY <1>0, <1>9, SMTT(30) DEF TypeOK, Shape, Human, Answer, RowStatus, Wake
  <2>2. kind[a] \in Human => RowKept(a)'
    BY <1>0, <1>9, <2>1, SMTT(30) DEF TypeOK, Shape, RowKept, Telling, Expiring, Over, Human, Aims, Wake
  <2>3. kind[a] = "tool" => CallKept(a)'
    BY <1>0, <1>9, <2>1, SMTT(30) DEF TypeOK, Shape, CallKept, RowKept, Over, Human, Aims, Wake
  <2>4. QED
    BY <1>0, <1>2, <1>3, <2>1, <2>2, <2>3 DEF RecordInv, Judged
<1>10. CASE Finish(a)
  <2>1. Shape(a)'
    BY <1>0, <1>10, SMTT(30) DEF TypeOK, Shape, Human, Answer, RowStatus, Finish
  <2>2. kind[a] \in Human => RowKept(a)'
    BY <1>0, <1>10, <2>1, SMTT(30) DEF TypeOK, Shape, RowKept, Telling, Expiring, Over, Human, Aims, Finish
  <2>3. kind[a] = "tool" => CallKept(a)'
    BY <1>0, <1>10, <2>1, SMTT(30) DEF TypeOK, Shape, CallKept, RowKept, Over, Human, Aims, Finish
  <2>4. QED
    BY <1>0, <1>2, <1>3, <2>1, <2>2, <2>3 DEF RecordInv, Judged
<1>11. CASE Timeout(a)
  <2>1. Shape(a)'
    BY <1>0, <1>11, SMTT(30) DEF TypeOK, Shape, Human, Answer, RowStatus, Timeout
  <2>2. kind[a] \in Human => RowKept(a)'
    BY <1>0, <1>11, <2>1, SMTT(30) DEF TypeOK, Shape, RowKept, Telling, Expiring, Over, Human, Aims, Timeout
  <2>3. kind[a] = "tool" => CallKept(a)'
    BY <1>0, <1>11, <2>1, SMTT(30) DEF TypeOK, Shape, CallKept, RowKept, Over, Human, Aims, Timeout
  <2>4. QED
    BY <1>0, <1>2, <1>3, <2>1, <2>2, <2>3 DEF RecordInv, Judged
<1>12. CASE LateRead(a)
  <2>1. Shape(a)'
    BY <1>0, <1>12, SMTT(30) DEF TypeOK, Shape, Human, Answer, RowStatus, LateRead, GiveUp
  <2>2. kind[a] \in Human => RowKept(a)'
    BY <1>0, <1>12, <2>1, SMTT(30) DEF TypeOK, Shape, RowKept, Telling, Expiring, Over, Human, Aims, LateRead, GiveUp
  <2>3. kind[a] = "tool" => CallKept(a)'
    BY <1>0, <1>12, <2>1, SMTT(30) DEF TypeOK, Shape, CallKept, RowKept, Over, Human, Aims, LateRead, GiveUp
  <2>4. QED
    BY <1>0, <1>2, <1>3, <2>1, <2>2, <2>3 DEF RecordInv, Judged
<1>13. CASE LateReadCall(a)
  <2>1. Shape(a)'
    BY <1>0, <1>13, SMTT(30) DEF TypeOK, Shape, Human, Answer, RowStatus, LateReadCall
  <2>2. kind[a] \in Human => RowKept(a)'
    BY <1>0, <1>13, <2>1, SMTT(30) DEF TypeOK, Shape, RowKept, Telling, Expiring, Over, Human, Aims, LateReadCall
  <2>3. kind[a] = "tool" => CallKept(a)'
    BY <1>0, <1>13, <2>1, SMTT(30) DEF TypeOK, Shape, CallKept, RowKept, Over, Human, Aims, LateReadCall
  <2>4. QED
    BY <1>0, <1>2, <1>3, <2>1, <2>2, <2>3 DEF RecordInv, Judged
<1>14. CASE LateCommit(a)
  <2>1. Shape(a)'
    BY <1>0, <1>14, SMTT(30) DEF TypeOK, Shape, Human, Answer, RowStatus, LateCommit
  <2>2. kind[a] \in Human => RowKept(a)'
    BY <1>0, <1>14, <2>1, SMTT(30) DEF TypeOK, Shape, RowKept, Telling, Expiring, Over, Human, Aims, LateCommit
  <2>3. kind[a] = "tool" => CallKept(a)'
    BY <1>0, <1>14, <2>1, SMTT(30) DEF TypeOK, Shape, CallKept, RowKept, Over, Human, Aims, LateCommit
  <2>4. QED
    BY <1>0, <1>2, <1>3, <2>1, <2>2, <2>3 DEF RecordInv, Judged
<1>15. CASE LateClose(a)
  <2>1. Shape(a)'
    BY <1>0, <1>15, SMTT(30) DEF TypeOK, Shape, Human, Answer, RowStatus, LateClose
  <2>2. kind[a] \in Human => RowKept(a)'
    BY <1>0, <1>15, <2>1, SMTT(30) DEF TypeOK, Shape, RowKept, Telling, Expiring, Over, Human, Aims, LateClose
  <2>3. kind[a] = "tool" => CallKept(a)'
    BY <1>0, <1>15, <2>1, SMTT(30) DEF TypeOK, Shape, CallKept, RowKept, Over, Human, Aims, LateClose
  <2>4. QED
    BY <1>0, <1>2, <1>3, <2>1, <2>2, <2>3 DEF RecordInv, Judged
<1>16. CASE LateFail(a)
  <2>1. Shape(a)'
    BY <1>0, <1>16, SMTT(30) DEF TypeOK, Shape, Human, Answer, RowStatus, LateFail, GiveUp
  <2>2. kind[a] \in Human => RowKept(a)'
    BY <1>0, <1>16, <2>1, SMTT(30) DEF TypeOK, Shape, RowKept, Telling, Expiring, Over, Human, Aims, LateFail, GiveUp
  <2>3. kind[a] = "tool" => CallKept(a)'
    BY <1>0, <1>16, <2>1, SMTT(30) DEF TypeOK, Shape, CallKept, RowKept, Over, Human, Aims, LateFail, GiveUp
  <2>4. QED
    BY <1>0, <1>2, <1>3, <2>1, <2>2, <2>3 DEF RecordInv, Judged
<1>17. QED
  BY <1>4, <1>5, <1>6, <1>7, <1>8, <1>9, <1>10, <1>11, <1>12, <1>13, <1>14, <1>15, <1>16 DEF AskerStep

(* Steps of a decider touch the ask it aims at only.                       *)
LEMMA DeciderJudged ==
  ASSUME TypeOK, RecordInv, NEW d \in Deciders,
         \/ DeciderStep(d) \/ DecideResolve(d, TRUE) \/ DecideFail(d) \/ AnswerTaskFail(d)
  PROVE  RecordInv'
<1> USE DEF asker, futures, rows, decider, stopper, seen
<1>p. PICK a \in Asks : target[d] = a
  BY DEF TypeOK, DeciderStep, DecideReconcile, DecideCommit,
         DecideResolve, DecideFail, AnswerTask, AnswerTaskFail
<1>0. /\ target[d] = a /\ Shape(a) /\ Aims
      /\ kind[a] \in Human => RowKept(a)
      /\ kind[a] = "tool" => CallKept(a)
      /\ UNCHANGED <<kind, stopper, sweeping, swept>>
  BY <1>p DEF RecordInv, Judged, DeciderStep, DecideReconcile, DecideCommit,
         DecideResolve, DecideFail, AnswerTask, AnswerTaskFail
<1>1. \A b \in Asks \ {a} : Apart(b)
  <2>1. CASE DecideReconcile(d)
    BY <1>0, <2>1, NoAskIsNone DEF TypeOK, Apart, DecideReconcile
  <2>2. CASE DecideCommit(d)
    BY <1>0, <2>2, NoAskIsNone DEF TypeOK, Apart, DecideCommit
  <2>3. CASE DecideFail(d)
    BY <1>0, <2>3, NoAskIsNone DEF TypeOK, Apart, DecideFail, Done
  <2>4. CASE AnswerTask(d)
    BY <1>0, <2>4, NoAskIsNone DEF TypeOK, Apart, AnswerTask, Done
  <2>5. CASE AnswerTaskFail(d)
    BY <1>0, <2>5, NoAskIsNone DEF TypeOK, Apart, AnswerTaskFail, Done
  <2>6. CASE \E all \in BOOLEAN : DecideResolve(d, all)
    BY <1>0, <2>6, NoAskIsNone DEF TypeOK, Apart, DecideResolve, Resolved, Done
  <2>7. QED
    BY <2>1, <2>2, <2>3, <2>4, <2>5, <2>6 DEF DeciderStep
<1>2. \A b \in Asks \ {a} : Judged(b)'
  BY <1>1, ApartJudged DEF RecordInv
<1>3. Aims'
  <2>1. CASE DecideReconcile(d)
    BY <1>0, <2>1 DEF TypeOK, Aims, Human, DecideReconcile
  <2>2. CASE DecideCommit(d)
    BY <1>0, <2>2 DEF TypeOK, Aims, Human, DecideCommit
  <2>3. CASE DecideFail(d)
    BY <1>0, <2>3 DEF TypeOK, Aims, Human, DecideFail, Done
  <2>4. CASE AnswerTask(d)
    BY <1>0, <2>4 DEF TypeOK, Aims, Human, AnswerTask, Done
  <2>5. CASE AnswerTaskFail(d)
    BY <1>0, <2>5 DEF TypeOK, Aims, Human, AnswerTaskFail, Done
  <2>6. CASE \E all \in BOOLEAN : DecideResolve(d, all)
    BY <1>0, <2>6 DEF TypeOK, Aims, Human, DecideResolve, Resolved, Done
  <2>7. QED
    BY <2>1, <2>2, <2>3, <2>4, <2>5, <2>6 DEF DeciderStep
<1>4. CASE DecideReconcile(d)
  <2>1. Shape(a)'
    BY <1>0, <1>4, SMTT(30) DEF TypeOK, Aims, Shape, Human, Answer, RowStatus, DecideReconcile
  <2>2. kind[a] \in Human => RowKept(a)'
    BY <1>0, <1>4, <2>1, SMTT(30) DEF TypeOK, Shape, RowKept, Telling, Expiring, Over, Human, Aims, DecideReconcile
  <2>3. kind[a] = "tool" => CallKept(a)'
    BY <1>0, <1>4, <2>1, SMTT(30) DEF TypeOK, Shape, CallKept, CallTerminal, RowKept, Over, Human, Aims, DecideReconcile
  <2>4. QED
    BY <1>0, <1>2, <1>3, <2>1, <2>2, <2>3 DEF RecordInv, Judged
<1>5. CASE DecideCommit(d)
  <2>1. Shape(a)'
    BY <1>0, <1>5, SMTT(30) DEF TypeOK, Aims, Shape, Human, Answer, RowStatus, DecideCommit
  <2>2. kind[a] \in Human => RowKept(a)'
    BY <1>0, <1>5, <2>1, SMTT(30) DEF TypeOK, Shape, RowKept, Telling, Expiring, Over, Human, Aims, DecideCommit
  <2>3. kind[a] = "tool" => CallKept(a)'
    BY <1>0, <1>5, <2>1, SMTT(30) DEF TypeOK, Shape, CallKept, CallTerminal, RowKept, Over, Human, Aims, DecideCommit
  <2>4. QED
    BY <1>0, <1>2, <1>3, <2>1, <2>2, <2>3 DEF RecordInv, Judged
<1>6. CASE DecideFail(d)
  <2>1. Shape(a)'
    BY <1>0, <1>6, SMTT(30) DEF TypeOK, Aims, Shape, Human, Answer, RowStatus, DecideFail, Done
  <2>2. kind[a] \in Human => RowKept(a)'
    BY <1>0, <1>6, <2>1, SMTT(30) DEF TypeOK, Shape, RowKept, Telling, Expiring, Over, Human, Aims, DecideFail, Done
  <2>3. kind[a] = "tool" => CallKept(a)'
    BY <1>0, <1>6, <2>1, SMTT(30) DEF TypeOK, Shape, CallKept, CallTerminal, RowKept, Over, Human, Aims, DecideFail, Done
  <2>4. QED
    BY <1>0, <1>2, <1>3, <2>1, <2>2, <2>3 DEF RecordInv, Judged
<1>7. CASE AnswerTask(d)
  <2>1. Shape(a)'
    BY <1>0, <1>7, SMTT(30) DEF TypeOK, Aims, Shape, Human, Answer, RowStatus, AnswerTask, Done
  <2>2. kind[a] \in Human => RowKept(a)'
    BY <1>0, <1>7, <2>1, SMTT(30) DEF TypeOK, Shape, RowKept, Telling, Expiring, Over, Human, Aims, AnswerTask, Done
  <2>3. kind[a] = "tool" => CallKept(a)'
    BY <1>0, <1>7, <2>1, SMTT(30) DEF TypeOK, Shape, CallKept, CallTerminal, RowKept, Over, Human, Aims, AnswerTask, Done
  <2>4. QED
    BY <1>0, <1>2, <1>3, <2>1, <2>2, <2>3 DEF RecordInv, Judged
<1>8. CASE AnswerTaskFail(d)
  <2>1. Shape(a)'
    BY <1>0, <1>8, SMTT(30) DEF TypeOK, Aims, Shape, Human, Answer, RowStatus, AnswerTaskFail, Done
  <2>2. kind[a] \in Human => RowKept(a)'
    BY <1>0, <1>8, <2>1, SMTT(30) DEF TypeOK, Shape, RowKept, Telling, Expiring, Over, Human, Aims, AnswerTaskFail, Done
  <2>3. kind[a] = "tool" => CallKept(a)'
    BY <1>0, <1>8, <2>1, SMTT(30) DEF TypeOK, Shape, CallKept, CallTerminal, RowKept, Over, Human, Aims, AnswerTaskFail, Done
  <2>4. QED
    BY <1>0, <1>2, <1>3, <2>1, <2>2, <2>3 DEF RecordInv, Judged
<1>9. ASSUME NEW all \in BOOLEAN, DecideResolve(d, all) PROVE RecordInv'
  <2>1. Shape(a)'
    BY <1>0, <1>9, SMTT(30) DEF TypeOK, Aims, Shape, Human, Answer, RowStatus, DecideResolve, Resolved, Done
  <2>2. kind[a] \in Human => RowKept(a)'
    BY <1>0, <1>9, <2>1, SMTT(30) DEF TypeOK, Shape, RowKept, Telling, Expiring, Over, Human, Aims, DecideResolve, Resolved, Done
  <2>3. kind[a] = "tool" => CallKept(a)'
    BY <1>0, <1>9, <2>1, SMTT(30) DEF TypeOK, Shape, CallKept, CallTerminal, RowKept, Over, Human, Aims, DecideResolve, Resolved, Done
  <2>4. QED
    BY <1>0, <1>2, <1>3, <2>1, <2>2, <2>3 DEF RecordInv, Judged
<1>10. QED
  BY <1>4, <1>5, <1>6, <1>7, <1>8, <1>9 DEF DeciderStep

LEMMA DecideReadJudged ==
  ASSUME TypeOK, RecordInv, NEW d \in Deciders, NEW a \in Asks, NEW c \in Decision,
         DecideRead(d, a, c)
  PROVE  RecordInv'
<1> USE DEF asker, futures, rows, decider, stopper, seen
<1>0. Aims /\ \A b \in Asks : Judged(b)
  BY DEF RecordInv
<1>1. /\ UNCHANGED <<asker, futures, rows, touches, stopper, sweeping, seen>>
      /\ dpc[d] = "idle" /\ row[a] = "pending"
      /\ target' = [target EXCEPT ![d] = a] /\ choice' = [choice EXCEPT ![d] = c]
      /\ dpc' = [dpc EXCEPT ![d] = IF kind[a] = "tool" THEN "read" ELSE "reconciled"]
      /\ kind[a] \in Human => c \in {"approved", "denied"}
  BY DEF DecideRead, Human
<1>2. Aims'
  BY <1>0, <1>1 DEF TypeOK, Aims
<1>3. ASSUME NEW b \in Asks PROVE Judged(b)'
  <2>1. Shape(b)'
    BY <1>0, <1>1 DEF Judged, Shape
  <2>2. \A e \in Deciders : /\ dpc'[e] = "committed" <=> dpc[e] = "committed"
                            /\ dpc[e] = "committed" => target'[e] = target[e] /\ choice'[e] = choice[e]
    BY <1>1 DEF TypeOK
  <2>3. kind[b] \in Human => RowKept(b)'
    BY <1>0, <1>1, <2>2 DEF Judged, RowKept, Telling, Expiring, Over
  <2>4. \A e \in Deciders : dpc'[e] = "reconciled" /\ target'[e] = b /\ kind[b] = "tool"
                            => dpc[e] = "reconciled" /\ target[e] = b
    BY <1>1 DEF TypeOK
  <2>5. kind[b] = "tool" => CallKept(b)'
    BY <1>0, <1>1, <2>4 DEF Judged, CallKept, Over
  <2>6. QED
    BY <1>1, <2>1, <2>3, <2>5 DEF Judged
<1>4. QED
  BY <1>2, <1>3 DEF RecordInv

(* Steps of a cancel touch the ask it aims at.                             *)
LEMMA StopperJudged ==
  ASSUME TypeOK, RecordInv, NEW s \in Stoppers,
         \/ StopCommit(s) \/ StopFail(s) \/ StopResolve(s)
         \/ \E a \in Asks : StopRead(s, a)
  PROVE  RecordInv'
<1> USE DEF asker, futures, rows, decider, stopper, seen
<1>0. Aims /\ \A b \in Asks : Judged(b)
  BY DEF RecordInv
<1>1. ASSUME NEW a \in Asks, StopRead(s, a) PROVE RecordInv'
  <2>1. Aims'
    BY <1>0, <1>1 DEF TypeOK, Aims, StopRead
  <2>2. ASSUME NEW b \in Asks PROVE Judged(b)'
    <3>1. Shape(b)'
      BY <1>0, <1>1 DEF Judged, Shape, StopRead
    <3>2. \A t \in Stoppers : spc'[t] = "committed" <=> spc[t] = "committed"
      BY <1>1 DEF TypeOK, StopRead
    <3>3. \A t \in Stoppers : spc[t] = "committed" => goal'[t] = goal[t]
      BY <1>1 DEF TypeOK, StopRead
    <3>4. kind[b] \in Human => RowKept(b)'
      BY <1>0, <1>1, <3>2, <3>3 DEF Judged, RowKept, Telling, Expiring, Over, StopRead
    <3>5. kind[b] = "tool" => CallKept(b)'
      BY <1>0, <1>1 DEF Judged, CallKept, Over, StopRead
    <3>6. QED
      BY <1>1, <3>1, <3>4, <3>5 DEF Judged, StopRead
  <2>3. QED
    BY <2>1, <2>2 DEF RecordInv
<1>2. CASE StopCommit(s) \/ StopFail(s) \/ StopResolve(s)
  <2>p. PICK a \in Asks : goal[s] = a
    BY <1>2 DEF TypeOK, StopCommit, StopFail, StopResolve
  <2>1. kind[a] \in {"harness", "question"} /\ (kind[a] = "harness" => row[a] # "none")
    BY <1>0, <1>2, <2>p DEF Aims, StopCommit, StopFail, StopResolve
  <2>2. \A b \in Asks \ {a} : Apart(b)
    <3>1. CASE StopCommit(s)
      BY <2>p, <3>1 DEF TypeOK, Apart, StopCommit
    <3>2. CASE StopFail(s)
      BY <2>p, <3>2, NoAskIsNone DEF TypeOK, Apart, StopFail
    <3>3. CASE StopResolve(s)
      BY <2>p, <3>3, NoAskIsNone DEF TypeOK, Apart, StopResolve, Resolved
    <3>4. QED
      BY <1>2, <3>1, <3>2, <3>3
  <2>3. \A b \in Asks \ {a} : Judged(b)'
    BY <1>0, <2>2, ApartJudged
  <2>4. Aims'
    <3>1. CASE StopCommit(s)
      BY <1>0, <2>p, <3>1 DEF TypeOK, Aims, StopCommit
    <3>2. CASE StopFail(s)
      BY <1>0, <2>p, <3>2 DEF TypeOK, Aims, StopFail
    <3>3. CASE StopResolve(s)
      BY <1>0, <2>p, <3>3 DEF TypeOK, Aims, StopResolve
    <3>4. QED
      BY <1>2, <3>1, <3>2, <3>3
  <2>5. Shape(a) /\ (kind[a] = "harness" => RowKept(a)) /\ kind' = kind
    BY <1>0, <1>2 DEF Judged, Human, StopCommit, StopFail, StopResolve
  <2>6. Shape(a)'
    BY <2>p, <2>1, <2>5, <1>2 DEF TypeOK, Shape, Human, StopCommit, StopFail, StopResolve, Resolved
  <2>7. kind[a] = "harness" => RowKept(a)'
    <3>1. CASE StopCommit(s)
      BY <1>0, <2>p, <2>1, <2>5, <3>1, SMTT(30) DEF TypeOK, Aims, Shape, RowKept, Telling, Expiring, Over, Human, StopCommit
    <3>2. CASE StopFail(s)
      BY <2>p, <2>1, <2>5, <3>2, SMTT(30) DEF TypeOK, Shape, RowKept, Telling, Expiring, Over, Human, StopFail
    <3>3. CASE StopResolve(s)
      BY <2>p, <2>1, <2>5, <3>3, SMTT(30) DEF TypeOK, Shape, RowKept, Telling, Expiring, Over, Human, StopResolve, Resolved
    <3>4. QED
      BY <1>2, <3>1, <3>2, <3>3
  <2>8. QED
    BY <2>1, <2>3, <2>4, <2>5, <2>6, <2>7 DEF RecordInv, Judged, Human
<1>3. QED
  BY <1>1, <1>2

(* The sweeper and the process touch every ask alike.                      *)
LEMMA SweepJudged ==
  ASSUME TypeOK, RecordInv,
         \/ \E S \in SUBSET Asks : SweepRead(S)
         \/ SweepCommit \/ SweepFail
  PROVE  RecordInv'
<1> USE DEF asker, futures, rows, decider, stopper, seen
<1>0. Aims /\ \A b \in Asks : Judged(b)
  BY DEF RecordInv
<1>1. UNCHANGED <<kind, pc, sawcall, verdict, call, decider, stopper, unheard>>
  BY DEF SweepRead, SweepCommit, SweepFail
<1>2. Aims'
  <2>1. \A b \in Asks : row[b] # "none" => row'[b] # "none"
    BY DEF TypeOK, SweepRead, SweepCommit, SweepFail
  <2>2. QED
    BY <1>0, <1>1, <2>1 DEF TypeOK, Aims
<1>3. ASSUME NEW a \in Asks, NEW S \in SUBSET Asks, SweepRead(S) PROVE Judged(a)'
  <2>0. Judged(a)
    BY <1>0
  <2>1. Shape(a)'
    BY <2>0, <1>1, <1>3, SMTT(30) DEF TypeOK, Judged, Shape, Human, SweepRead, Resolved
  <2>2. kind[a] \in Human => RowKept(a)'
    BY <2>0, <1>1, <1>3, <2>1, SMTT(30)
       DEF TypeOK, Judged, Shape, RowKept, Telling, Expiring, Over, Human, SweepRead, Resolved
  <2>3. kind[a] = "tool" => CallKept(a)'
    BY <2>0, <1>1, <1>3, <2>1, SMTT(30)
       DEF TypeOK, Judged, Shape, CallKept, Over, Human, SweepRead, Resolved
  <2>4. QED
    BY <1>1, <2>1, <2>2, <2>3 DEF Judged
<1>4. ASSUME NEW a \in Asks, SweepCommit PROVE Judged(a)'
  <2>0. Judged(a) /\ Aims
    BY <1>0
  <2>1. Shape(a)'
    BY <2>0, <1>1, <1>4, SMTT(30) DEF TypeOK, Judged, Shape, Human, SweepCommit
  <2>2. kind[a] \in Human => RowKept(a)'
    BY <2>0, <1>1, <1>4, <2>1, SMTT(30)
       DEF TypeOK, Aims, Judged, Shape, RowKept, Telling, Expiring, Over, Human, SweepCommit
  <2>3. kind[a] = "tool" => CallKept(a)'
    BY <2>0, <1>1, <1>4, <2>1, SMTT(30)
       DEF TypeOK, Judged, Shape, CallKept, Over, Human, SweepCommit
  <2>4. QED
    BY <1>1, <2>1, <2>2, <2>3 DEF Judged
<1>5. ASSUME NEW a \in Asks, SweepFail PROVE Judged(a)'
  <2>0. Judged(a)
    BY <1>0
  <2>1. Shape(a)'
    BY <2>0, <1>1, <1>5, SMTT(30) DEF TypeOK, Judged, Shape, Human, SweepFail
  <2>2. kind[a] \in Human => RowKept(a)'
    BY <2>0, <1>1, <1>5, <2>1, SMTT(30)
       DEF TypeOK, Judged, Shape, RowKept, Telling, Expiring, Over, Human, SweepFail
  <2>3. kind[a] = "tool" => CallKept(a)'
    BY <2>0, <1>1, <1>5, <2>1, SMTT(30)
       DEF TypeOK, Judged, Shape, CallKept, Over, Human, SweepFail
  <2>4. QED
    BY <1>1, <2>1, <2>2, <2>3 DEF Judged
<1>6. QED
  BY <1>2, <1>3, <1>4, <1>5 DEF RecordInv

LEMMA RestartJudged == TypeOK /\ RecordInv /\ Restart => RecordInv'
<1> SUFFICES ASSUME TypeOK, RecordInv, Restart PROVE RecordInv'
  OBVIOUS
<1> USE DEF asker, futures, rows, decider, stopper, seen
<1>0. Aims /\ \A b \in Asks : Judged(b)
  BY DEF RecordInv
<1>1. /\ UNCHANGED <<kind, verdict, row, call, overwritten, swept>>
      /\ sawcall' = {} /\ sweeping' = {} /\ undone' = undone \cup sweeping
      /\ \A a \in Asks : /\ answer'[a] = "none"
                         /\ pc'[a] = IF pc[a] \in {"idle", "ended"} THEN pc[a] ELSE "gone"
      /\ \A d \in Deciders : dpc'[d] \in {"idle", "done"}
      /\ \A s \in Stoppers : spc'[s] \in {"idle", "done"}
  BY DEF Restart
<1>2. \A a \in Asks : Telling(a) => a \in unheard'
  BY DEF TypeOK, Telling, Restart
<1>3. Aims'
  BY <1>1 DEF Aims
<1>4. ASSUME NEW a \in Asks PROVE Judged(a)'
  <2>0. Judged(a)
    BY <1>0
  <2>1. Shape(a)'
    BY <2>0, <1>1 DEF TypeOK, Judged, Shape, Human
  <2>2. kind[a] \in Human => RowKept(a)'
    BY <2>0, <1>1, <1>2, <2>1 DEF TypeOK, Judged, Shape, RowKept, Telling, Expiring, Over, Human
  <2>3. kind[a] = "tool" => CallKept(a)'
    BY <2>0, <1>1, <2>1 DEF TypeOK, Judged, Shape, CallKept, Over, Human
  <2>4. QED
    BY <1>1, <2>1, <2>2, <2>3 DEF Judged
<1>5. QED
  BY <1>3, <1>4 DEF RecordInv

LEMMA NextJudged == TypeOK /\ RecordInv /\ [Next]_vars => RecordInv'
<1>1. TypeOK /\ RecordInv /\ UNCHANGED vars => RecordInv'
  BY DEF RecordInv, Aims, Judged, Shape, RowKept, CallKept, Telling, Expiring, Over,
         vars, asker, futures, rows, grants, decider, stopper, seen
<1>2. TypeOK /\ RecordInv /\ Next => RecordInv'
  BY AskerJudged, DeciderJudged, DecideReadJudged, StopperJudged, SweepJudged, RestartJudged
     DEF Next
<1>3. QED
  BY <1>1, <1>2

LEMMA InitJudged == Init => RecordInv
BY DEF Init, RecordInv, Aims, Judged, Shape, RowKept, CallKept, Telling, Expiring, Over, Human

LEMMA RecordsImplied == TypeOK /\ RecordInv => RecordsAgree
<1> SUFFICES ASSUME TypeOK, RecordInv PROVE RecordsAgree
  OBVIOUS
<1>1. VerdictMatchesRow
  <2> SUFFICES ASSUME NEW a \in Asks, Quiet(a), a \notin undone, kind[a] \in Human,
                      verdict[a] \in {"approved", "denied", "expired"},
                      a \notin overwritten, ~(kind[a] = "harness" /\ a \in unheard)
               PROVE  row[a] = verdict[a]
    BY DEF VerdictMatchesRow, Human
  <2>1. Judged(a) /\ ~(kind[a] = "harness" /\ Telling(a))
    BY DEF RecordInv, Quiet, Telling
  <2>2. QED
    BY <2>1 DEF Judged, RowKept, Expiring, Quiet
<1>2. CallFollowsApproval
  <2> SUFFICES ASSUME NEW a \in Asks, Quiet(a), pc[a] = "ended", kind[a] = "tool",
                      verdict[a] # "skipped", a \notin swept \cup overwritten \cup undone
               PROVE  call[a] = IF verdict[a] \in {"approved", "allowed"} THEN "done" ELSE verdict[a]
    BY DEF CallFollowsApproval
  <2>1. Judged(a)
    BY DEF RecordInv
  <2>2. verdict[a] \in {"approved", "denied", "expired", "allowed"}
    BY <2>1 DEF Judged, Shape, Human
  <2>3. QED
    BY <2>1, <2>2 DEF Judged, RowKept, CallKept, Human
<1>3. QED
  BY <1>1, <1>2 DEF RecordsAgree

(* When nobody works on an ask any more, its approval's row says what the  *)
(* asker did and the call's row ends as its approval did, but for the      *)
(* overwritten rows, the withdrawn expiries and the harness that was not   *)
(* waiting; for any turn and any race of decisions, time-outs, cancels,    *)
(* sweeps and restarts (approval_pending.py, api_v1_approvals.py:232,      *)
(* heartbeat.py:988, agent_harnesses/approvals.py:233).                    *)
THEOREM RecordsTellTheSame == Spec => []RecordsAgree
<1>1. Init => TypeOK /\ RecordInv
  BY InitTyped, InitJudged
<1>2. (TypeOK /\ RecordInv) /\ [Next]_vars => (TypeOK /\ RecordInv)'
  BY NextTyped, NextJudged
<1>3. QED
  BY <1>1, <1>2, RecordsImplied, PTL DEF Spec

---------------------------------------------------------------------------
(* Answers.  An answer that was committed is due with the request that     *)
(* committed it, then with the asker it woke or with the task that request *)
(* creates; the invariant counts it wherever it is.                        *)

(* Requests that have committed an answer and not passed it on.            *)
Due(a) == {d \in Deciders : dpc[d] \in {"committed", "stale"} /\ target[d] = a}

(* The asker has acted on an answer, or will when it runs.                 *)
Told(a) == \/ verdict[a] = "submitted"
           \/ answer[a] = "submitted" /\ pc[a] \in {"publishing", "waiting"}

Count(a) == answers[a] = tasks[a] + (IF Told(a) THEN 1 ELSE 0) + Cardinality(Due(a))

Unasked(a) ==
    /\ answers[a] = 0 /\ tasks[a] = 0
    /\ verdict[a] # "submitted" /\ answer[a] # "submitted" /\ row[a] # "submitted"

Asking(a) ==
    /\ answer[a] = "open" => pc[a] \in {"publishing", "waiting"}
    /\ verdict[a] = "submitted" => pc[a] = "ended"

Chosen(d) ==
    dpc[d] \notin {"idle", "done"} =>
        /\ (choice[d] = "submitted") <=> (kind[target[d]] = "question")
        /\ dpc[d] = "stale" => kind[target[d]] = "question"

AnswerInv ==
    /\ \A a \in Asks : kind[a] # "question" => Unasked(a)
    /\ \A a \in Asks : kind[a] = "question" => Asking(a)
    /\ \A a \in Asks : kind[a] = "question" /\ a \notin lost => Count(a)
    /\ \A d \in Deciders : Chosen(d)

LEMMA DueCount ==
  ASSUME NEW T, T \subseteq Deciders, NEW d \in Deciders
  PROVE  /\ Cardinality(T) \in Nat /\ Cardinality(T \ {d}) \in Nat
         /\ d \notin T => Cardinality(T \cup {d}) = Cardinality(T) + 1
         /\ d \in T => Cardinality(T) = Cardinality(T \ {d}) + 1
<1>1. IsFiniteSet(Deciders)
  BY ApprovalsAssumption, FS_Interval DEF Deciders
<1>2. IsFiniteSet(T) /\ IsFiniteSet(T \ {d})
  BY <1>1, FS_Subset
<1>3. d \in T => (T \ {d}) \cup {d} = T
  OBVIOUS
<1>4. QED
  BY <1>2, <1>3, FS_CardinalityType, FS_AddElement

(* Steps of an asker: what is told does not change, but for a woken asker  *)
(* whose answer it was, or for an answer that is lost.                     *)
LEMMA AskerAnswers ==
  ASSUME TypeOK, AnswerInv, NEW a \in Asks,
         AskerStep(a) \/ Skip(a) \/ LateFail(a) \/ AskAllowed(a) \/ Ask(a)
  PROVE  AnswerInv'
<1> USE DEF asker, futures, rows, decider, seen
<1>1. UNCHANGED <<kind, answers, tasks, decider>> /\ lost \subseteq lost'
  BY DEF AskerStep, Register, WaitQuestion, Wake, Finish, Timeout, LateRead,
         LateReadCall, LateCommit, LateClose, Skip, LateFail, AskAllowed, Ask
<1>2. \A b \in Asks \ {a} : /\ answer'[b] = answer[b] /\ pc'[b] = pc[b]
                            /\ verdict'[b] = verdict[b] /\ row'[b] = row[b]
  BY DEF TypeOK, AskerStep, Register, WaitQuestion, Wake, Finish, Timeout, LateRead,
         LateReadCall, LateCommit, LateClose, Skip, LateFail, AskAllowed, Ask, GiveUp
<1>3. /\ kind[a] # "question" => Unasked(a)
      /\ kind[a] = "question" => Asking(a)
  BY DEF AnswerInv
<1>4. /\ kind[a] # "question" => Unasked(a)'
      /\ kind[a] = "question" => Asking(a)' /\ (Told(a)' = Told(a) \/ a \in lost')
  <2>1. CASE AskAllowed(a)
    BY <1>1, <1>3, <2>1 DEF TypeOK, Unasked, Asking, Told, AskAllowed, IsNext
  <2>2. CASE Ask(a)
    BY <1>1, <1>3, <2>2 DEF TypeOK, Unasked, Asking, Told, Ask, IsNext
  <2>3. CASE Skip(a)
    BY <1>1, <1>3, <2>3 DEF TypeOK, Unasked, Asking, Told, Skip
  <2>4. CASE Register(a)
    BY <1>1, <1>3, <2>4 DEF TypeOK, Unasked, Asking, Told, Register
  <2>5. CASE WaitQuestion(a)
    BY <1>1, <1>3, <2>5 DEF TypeOK, Unasked, Asking, Told, WaitQuestion
  <2>6. CASE Wake(a)
    BY <1>1, <1>3, <2>6 DEF TypeOK, Unasked, Asking, Told, Wake
  <2>7. CASE Finish(a)
    BY <1>1, <1>3, <2>7 DEF TypeOK, Unasked, Asking, Told, Finish
  <2>8. CASE Timeout(a)
    BY <1>1, <1>3, <2>8 DEF TypeOK, Unasked, Asking, Told, Timeout
  <2>9. CASE LateRead(a)
    BY <1>1, <1>3, <2>9 DEF TypeOK, Unasked, Asking, Told, LateRead, GiveUp
  <2>10. CASE LateReadCall(a)
    BY <1>1, <1>3, <2>10 DEF TypeOK, Unasked, Asking, Told, LateReadCall
  <2>11. CASE LateCommit(a)
    BY <1>1, <1>3, <2>11 DEF TypeOK, Unasked, Asking, Told, LateCommit
  <2>12. CASE LateClose(a)
    BY <1>1, <1>3, <2>12 DEF TypeOK, Unasked, Asking, Told, LateClose
  <2>13. CASE LateFail(a)
    BY <1>1, <1>3, <2>13 DEF TypeOK, Unasked, Asking, Told, LateFail, GiveUp
  <2>14. QED
    BY <2>1, <2>2, <2>3, <2>4, <2>5, <2>6, <2>7, <2>8, <2>9, <2>10, <2>11, <2>12, <2>13 DEF AskerStep
<1>5. \A b \in Asks : Due(b)' = Due(b)
  BY <1>1 DEF Due
<1>6. \A b \in Asks \ {a} : Told(b)' = Told(b)
  BY <1>2 DEF Told
<1>7. \A b \in Asks : kind[b] # "question" => Unasked(b)'
  BY <1>1, <1>2, <1>4 DEF AnswerInv, Unasked
<1>8. \A b \in Asks : kind[b] = "question" => Asking(b)'
  BY <1>2, <1>4 DEF AnswerInv, Asking
<1>9. \A b \in Asks : kind[b] = "question" /\ b \notin lost' => Count(b)'
  BY <1>1, <1>4, <1>5, <1>6 DEF AnswerInv, Count
<1>10. \A d \in Deciders : Chosen(d)'
  BY <1>1 DEF AnswerInv, Chosen
<1>11. QED
  BY <1>1, <1>7, <1>8, <1>9, <1>10 DEF AnswerInv

(* Steps of a decider: the answer goes from the request to its asker or to *)
(* a task.                                                                 *)
LEMMA DeciderAnswers ==
  ASSUME TypeOK, AnswerInv, NEW d \in Deciders,
         \/ DeciderStep(d) \/ DecideResolve(d, TRUE) \/ DecideFail(d) \/ AnswerTaskFail(d)
  PROVE  AnswerInv'
<1> USE DEF asker, futures, rows, decider, seen
<1>1. PICK a \in Asks : target[d] = a
  BY DEF TypeOK, DeciderStep, DecideReconcile, DecideCommit,
         DecideResolve, DecideFail, AnswerTask, AnswerTaskFail
<1>2. UNCHANGED <<kind, pc, verdict>> /\ lost \subseteq lost'
  BY DEF DeciderStep, DecideReconcile, DecideCommit,
         DecideResolve, DecideFail, AnswerTask, AnswerTaskFail
<1>3. /\ kind[a] # "question" => Unasked(a)
      /\ kind[a] = "question" => Asking(a)
      /\ kind[a] = "question" /\ a \notin lost => Count(a)
      /\ (choice[d] = "submitted") <=> (kind[a] = "question")
      /\ dpc[d] = "stale" => kind[a] = "question"
  BY <1>1 DEF AnswerInv, Chosen, DeciderStep, DecideReconcile, DecideCommit,
         DecideResolve, DecideFail, AnswerTask, AnswerTaskFail
<1>4. /\ Cardinality(Due(a)) \in Nat /\ Cardinality(Due(a) \ {d}) \in Nat
      /\ d \notin Due(a) => Cardinality(Due(a) \cup {d}) = Cardinality(Due(a)) + 1
      /\ d \in Due(a) => Cardinality(Due(a)) = Cardinality(Due(a) \ {d}) + 1
  BY DueCount DEF Due
<1>5. \A b \in Asks \ {a} : /\ answer'[b] = answer[b] /\ row'[b] = row[b]
                            /\ answers'[b] = answers[b] /\ tasks'[b] = tasks[b]
  BY <1>1 DEF TypeOK, DeciderStep, DecideReconcile, DecideCommit, DecideResolve, Resolved,
         DecideFail, AnswerTask, AnswerTaskFail
<1>6. \A b \in Asks \ {a} : Due(b)' = Due(b)
  <2>1. \A e \in Deciders \ {d} : dpc'[e] = dpc[e] /\ target'[e] = target[e]
    BY DEF TypeOK, DeciderStep, DecideReconcile, DecideCommit, DecideResolve,
           DecideFail, AnswerTask, AnswerTaskFail, Done
  <2>2. target'[d] \in {a, NoAsk}
    BY <1>1 DEF TypeOK, DeciderStep, DecideReconcile, DecideCommit, DecideResolve,
           DecideFail, AnswerTask, AnswerTaskFail, Done
  <2>3. QED
    BY <1>1, <2>1, <2>2, NoAskIsNone DEF Due
<1>7. \A e \in Deciders : Chosen(e)'
  <2>1. \A e \in Deciders \ {d} : Chosen(e)'
    BY <1>2 DEF AnswerInv, Chosen, TypeOK, DeciderStep, DecideReconcile, DecideCommit,
           DecideResolve, DecideFail, AnswerTask, AnswerTaskFail, Done
  <2>2. Chosen(d)'
    BY <1>1, <1>2, <1>3 DEF Chosen, TypeOK, DeciderStep, DecideReconcile, DecideCommit,
           DecideResolve, DecideFail, AnswerTask, AnswerTaskFail, Done
  <2>3. QED
    BY <2>1, <2>2
<1>8. /\ kind[a] # "question" => Unasked(a)'
      /\ kind[a] = "question" => Asking(a)'
      /\ kind[a] = "question" /\ a \notin lost' => Count(a)'
  <2>1. CASE DecideReconcile(d) \/ DecideFail(d)
    <3>1. Due(a)' = Due(a)
      BY <2>1 DEF TypeOK, Due, DecideReconcile, DecideFail, Done
    <3>2. QED
      BY <1>3, <2>1, <3>1 DEF Unasked, Asking, Count, Told, DecideReconcile, DecideFail
  <2>2. CASE DecideCommit(d)
    <3>1. Due(a)' = Due(a) \cup {d} /\ d \notin Due(a)
      BY <1>1, <2>2 DEF TypeOK, Due, DecideCommit
    <3>2. /\ UNCHANGED <<answer, tasks>>
          /\ kind[a] # "question" => answers' = answers /\ row'[a] # "submitted"
          /\ kind[a] = "question" => answers'[a] = answers[a] + 1
      BY <1>1, <1>3, <2>2 DEF TypeOK, DecideCommit
    <3>3. Told(a)' = Told(a) /\ answers[a] \in Nat /\ tasks[a] \in Nat
      BY <1>2, <3>2 DEF Told, TypeOK
    <3>4. QED
      BY <1>2, <1>3, <1>4, <3>1, <3>2, <3>3 DEF Unasked, Asking, Count
  <2>3. ASSUME NEW all \in BOOLEAN, DecideResolve(d, all)
        PROVE  /\ kind[a] # "question" => Unasked(a)'
               /\ kind[a] = "question" => Asking(a)'
               /\ kind[a] = "question" /\ a \notin lost' => Count(a)'
    <3>1. /\ UNCHANGED <<answers, tasks, row, lost>> /\ dpc[d] = "committed"
          /\ d \in Due(a)
      BY <1>1, <2>3 DEF DecideResolve, Due
    <3>2. CASE kind[a] # "question"
      <4>1. answer'[a] \in {answer[a], choice[d]}
        BY <1>1, <2>3 DEF DecideResolve, Resolved
      <4>2. QED
        BY <1>2, <1>3, <3>1, <3>2, <4>1 DEF Unasked
    <3>3. CASE kind[a] = "question" /\ a \in registered /\ answer[a] = "open"
      <4>1. answer'[a] = "submitted" /\ Due(a)' = Due(a) \ {d}
        BY <1>1, <1>3, <2>3, <3>3, NoAskIsNone DEF TypeOK, DecideResolve, Resolved, Done, Due
      <4>2. Told(a)' /\ ~Told(a) /\ Asking(a)'
        BY <1>2, <1>3, <3>3, <4>1 DEF Told, Asking
      <4>3. tasks[a] \in Nat
        BY DEF TypeOK
      <4>4. QED
        BY <1>3, <1>4, <3>1, <3>3, <4>1, <4>2, <4>3 DEF Count
    <3>4. CASE kind[a] = "question" /\ ~(a \in registered /\ answer[a] = "open")
      <4>1. answer'[a] = answer[a] /\ Due(a)' = Due(a)
        BY <1>1, <2>3, <3>4 DEF TypeOK, DecideResolve, Resolved, Due
      <4>2. QED
        BY <1>2, <1>3, <3>1, <3>4, <4>1 DEF Count, Told, Asking
    <3>5. QED
      BY <3>2, <3>3, <3>4
  <2>4. CASE AnswerTask(d)
    <3>1. /\ Due(a)' = Due(a) \ {d} /\ d \in Due(a)
          /\ UNCHANGED <<answer, row, answers, lost>> /\ tasks'[a] = tasks[a] + 1
      BY <1>1, <2>4, NoAskIsNone DEF TypeOK, Due, AnswerTask, Done
    <3>2. kind[a] = "question" /\ Told(a)' = Told(a) /\ tasks[a] \in Nat
      BY <1>2, <1>3, <2>4, <3>1 DEF Told, AnswerTask, TypeOK
    <3>3. QED
      BY <1>2, <1>3, <1>4, <3>1, <3>2 DEF Count, Asking
  <2>5. CASE AnswerTaskFail(d)
    <3>1. a \in lost' /\ UNCHANGED <<answer, row, answers, tasks>>
      BY <1>1, <2>5 DEF AnswerTaskFail
    <3>2. QED
      BY <1>2, <1>3, <3>1 DEF Unasked, Asking
  <2>6. QED
    BY <2>1, <2>2, <2>3, <2>4, <2>5 DEF DeciderStep
<1>9. \A b \in Asks \ {a} : Told(b)' = Told(b)
  BY <1>2, <1>5 DEF Told
<1>10. \A b \in Asks : kind[b] # "question" => Unasked(b)'
  BY <1>2, <1>5, <1>8 DEF AnswerInv, Unasked
<1>11. \A b \in Asks : kind[b] = "question" => Asking(b)'
  BY <1>2, <1>5, <1>8 DEF AnswerInv, Asking
<1>12. \A b \in Asks : kind[b] = "question" /\ b \notin lost' => Count(b)'
  BY <1>2, <1>5, <1>6, <1>8, <1>9 DEF AnswerInv, Count
<1>13. QED
  BY <1>2, <1>7, <1>10, <1>11, <1>12 DEF AnswerInv

LEMMA DecideReadAnswers ==
  ASSUME TypeOK, AnswerInv, NEW d \in Deciders, NEW a \in Asks, NEW c \in Decision,
         DecideRead(d, a, c)
  PROVE  AnswerInv'
<1>1. UNCHANGED <<asker, futures, rows, tasks, seen>>
  BY DEF DecideRead
<1>2. \A b \in Asks : Due(b)' = Due(b)
  BY DEF TypeOK, Due, DecideRead
<1>3. \A e \in Deciders : Chosen(e)'
  BY <1>1 DEF AnswerInv, Chosen, TypeOK, DecideRead, asker
<1>4. QED
  BY <1>1, <1>2, <1>3 DEF AnswerInv, Unasked, Asking, Count, Told, asker, futures, rows, seen

(* A cancel and the sweeper wake an asker with something else.             *)
LEMMA OthersAnswers ==
  ASSUME TypeOK, AnswerInv,
         \/ \E s \in Stoppers : \/ StopCommit(s) \/ StopFail(s) \/ StopResolve(s)
                                \/ \E a \in Asks : StopRead(s, a)
         \/ \E S \in SUBSET Asks : SweepRead(S)
         \/ SweepCommit \/ SweepFail
  PROVE  AnswerInv'
<1> USE DEF asker, futures, rows, decider, seen
<1>1. UNCHANGED <<kind, pc, verdict, decider, tasks, answers, lost>>
  BY DEF StopCommit, StopFail, StopResolve, StopRead, SweepRead, SweepCommit, SweepFail
<1>2. \A b \in Asks : row'[b] = "submitted" => row[b] = "submitted"
  BY DEF TypeOK, StopCommit, StopFail, StopResolve, StopRead, SweepRead, SweepCommit, SweepFail
<1>3. \A b \in Asks : \/ answer'[b] = answer[b]
                      \/ answer[b] = "open" /\ answer'[b] \in {"failed", "expired"}
  BY DEF StopCommit, StopFail, StopResolve, StopRead, SweepRead, SweepCommit, SweepFail, Resolved
<1>4. \A b \in Asks : Due(b)' = Due(b) /\ Told(b)' = Told(b)
  BY <1>1, <1>3 DEF Due, Told
<1>5. \A b \in Asks : kind[b] # "question" => Unasked(b)'
  BY <1>1, <1>2, <1>3 DEF AnswerInv, Unasked
<1>6. \A b \in Asks : kind[b] = "question" => Asking(b)'
  BY <1>1, <1>3 DEF AnswerInv, Asking
<1>7. QED
  BY <1>1, <1>4, <1>5, <1>6 DEF AnswerInv, Count, Chosen

LEMMA RestartAnswers == TypeOK /\ AnswerInv /\ Restart => AnswerInv'
<1> SUFFICES ASSUME TypeOK, AnswerInv, Restart PROVE AnswerInv'
  OBVIOUS
<1>1. /\ UNCHANGED <<kind, verdict, row, tasks, answers>>
      /\ \A a \in Asks : /\ answer'[a] = "none"
                         /\ pc'[a] = IF pc[a] \in {"idle", "ended"} THEN pc[a] ELSE "gone"
      /\ \A d \in Deciders : dpc'[d] \in {"idle", "done"}
  BY DEF Restart, rows, asker
<1>2. ASSUME NEW a \in Asks, kind[a] = "question", a \notin lost'
      PROVE  Count(a)'
  <2>1. a \notin lost /\ Count(a) /\ Asking(a)
    BY <1>2 DEF AnswerInv, Restart
  <2>2. Due(a) = {}
    BY <1>2 DEF AnswerInv, Chosen, Due, Restart
  <2>3. Due(a)' = {}
    BY <1>1 DEF Due
  <2>4. ~(answer[a] = "submitted" /\ ~Over(a))
    BY <1>2 DEF Restart
  <2>5. Told(a)' = Told(a)
    BY <1>1, <2>1, <2>4 DEF Told, Asking, Over
  <2>6. QED
    BY <1>1, <2>1, <2>2, <2>3, <2>5 DEF Count
<1>3. \A a \in Asks : kind[a] # "question" => Unasked(a)'
  BY <1>1 DEF AnswerInv, Unasked
<1>4. \A a \in Asks : kind[a] = "question" => Asking(a)'
  BY <1>1 DEF AnswerInv, Asking
<1>5. QED
  BY <1>1, <1>2, <1>3, <1>4 DEF AnswerInv, Chosen

LEMMA NextAnswers == TypeOK /\ AnswerInv /\ [Next]_vars => AnswerInv'
<1>1. TypeOK /\ AnswerInv /\ UNCHANGED vars => AnswerInv'
  BY DEF AnswerInv, Unasked, Asking, Count, Told, Due, Chosen,
         vars, asker, futures, rows, grants, decider, stopper, seen
<1>2. TypeOK /\ AnswerInv /\ Next => AnswerInv'
  BY AskerAnswers, DeciderAnswers, DecideReadAnswers, OthersAnswers, RestartAnswers DEF Next
<1>3. QED
  BY <1>1, <1>2

LEMMA InitAnswers == Init => AnswerInv
<1> SUFFICES ASSUME Init PROVE AnswerInv
  OBVIOUS
<1>1. \A a \in Asks : Unasked(a) /\ Asking(a) /\ Due(a) = {} /\ ~Told(a)
  BY DEF Init, Unasked, Asking, Due, Told
<1>2. \A a \in Asks : Count(a)
  BY <1>1, FS_EmptySet DEF Count, Unasked
<1>3. QED
  BY <1>1, <1>2 DEF AnswerInv, Chosen, Init

LEMMA AnswersImplied == TypeOK /\ AnswerInv => AnswersContinueOnce
<1> SUFFICES ASSUME TypeOK, AnswerInv, NEW a \in Asks, Quiet(a), a \notin lost
             PROVE  tasks[a] + (IF verdict[a] = "submitted" THEN 1 ELSE 0) = answers[a]
  BY DEF AnswersContinueOnce
<1>1. Due(a) = {}
  BY DEF Due, Quiet
<1>2. Told(a) <=> verdict[a] = "submitted"
  BY DEF Told, Quiet, Over
<1>3. tasks[a] \in Nat
  BY DEF TypeOK
<1>4. CASE kind[a] = "question"
  BY <1>1, <1>2, <1>3, <1>4, FS_EmptySet DEF AnswerInv, Count
<1>5. CASE kind[a] # "question"
  BY <1>5 DEF AnswerInv, Unasked
<1>6. QED
  BY <1>4, <1>5

(* An answer that was accepted is acted on once, by the harness that waits *)
(* or by one new task, unless it is lost, for any turn and any race of     *)
(* answers, time-outs, dismissals and restarts (interactions.py:284, :367, *)
(* api_v1_sessions.py).                                                    *)
THEOREM AnswersActedOnOnce == Spec => []AnswersContinueOnce
<1>1. Init => TypeOK /\ AnswerInv
  BY InitTyped, InitAnswers
<1>2. (TypeOK /\ AnswerInv) /\ [Next]_vars => (TypeOK /\ AnswerInv)'
  BY NextTyped, NextAnswers
<1>3. QED
  BY <1>1, <1>2, AnswersImplied, PTL DEF Spec

=============================================================================
