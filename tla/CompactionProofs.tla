-------------------------- MODULE CompactionProofs --------------------------
(***************************************************************************)
(* Proofs about Compaction for any number of messages, turns, calls,       *)
(* requests and mishaps: types, that a summary and the archive keep up     *)
(* with the watermark, who owns a row, what a row may say, and when the    *)
(* manual coroutine works.                                                 *)
(***************************************************************************)
EXTENDS Compaction, FiniteSetTheorems, WellFoundedInduction, TLAPS

---------------------------------------------------------------------------
(* The latest of some rows exists.                                         *)

LEMMA LastIsLast ==
  ASSUME NEW S \in SUBSET Requests, S # {}
  PROVE  Last(S) \in S /\ \A s \in S : s <= Last(S)
<1> DEFINE T == {MaxRequests - s : s \in S}
<1>0. \A s \in S : s \in Int /\ MaxRequests - s \in Nat
  BY CompactionAssumption DEF CompactionAssumption, Requests
<1>1. T \subseteq Nat /\ T # {}
  BY <1>0
<1>2. PICK x \in T : \A y \in T : ~ (<<y, x>> \in OpToRel(<, Nat))
  BY <1>1, NatLessThanWellFounded, WFMin
<1>3. \A y \in T : x <= y
  <2> SUFFICES ASSUME NEW y \in T PROVE x <= y
    OBVIOUS
  <2>1. x \in Nat /\ y \in Nat
    BY <1>1
  <2>2. y < x => <<y, x>> \in OpToRel(<, Nat)
    BY <2>1 DEF OpToRel
  <2>3. ~ (y < x)
    BY <1>2, <2>2, Zenon
  <2>4. QED
    BY <2>1, <2>3
<1>4. PICK r \in S : x = MaxRequests - r
  OBVIOUS
<1>5. ASSUME NEW s \in S PROVE s <= r
  <2>1. MaxRequests - s \in T
    OBVIOUS
  <2>2. x <= MaxRequests - s
    BY <1>3, <2>1
  <2>3. QED
    BY <1>0, <1>4, <2>2, CompactionAssumption DEF CompactionAssumption
<1>6. QED
  BY <1>5 DEF Last

---------------------------------------------------------------------------
(* Types.  A row is inserted by a request that has not ended yet, so there *)
(* are never more rows than requests.                                      *)

Ended == {q \in Requests : rpc[q] = "done"}

Shape ==
    /\ made <= Cardinality(Ended)
    /\ job <= made
    /\ \A q \in Requests : found[q] <= made /\ (rpc[q] = "promote" => found[q] # None)

TypeInv == TypeOK /\ Shape

(* Where the coroutine of a turn, of a call and of the queue may stand.    *)
Placed ==
    /\ \A t \in Turns : pc[t] \in {"idle", "check", "read", "window", "announce", "write",
                                 "regen", "ready", "tell", "sad", "last", "done"}
    /\ \A c \in Calls : pc[c] \in {"idle", "start", "flush", "write", "regen", "ready", "done"}
    /\ pc[Manual] \in {"idle", "drain", "finding", "found", "start", "flush", "write",
                       "regen", "ready", "tell", "noop", "sad", "last"}

LEMMA EndedGrows ==
  ASSUME TypeInv, Ended \subseteq Ended'
  PROVE  /\ Cardinality(Ended) \in Nat /\ Cardinality(Ended') \in Nat
         /\ Cardinality(Ended) <= Cardinality(Ended')
<1>1. IsFiniteSet(Requests)
  BY FS_Interval, CompactionAssumption DEF CompactionAssumption, Requests
<1>2. IsFiniteSet(Ended')
  BY <1>1, FS_Subset DEF Ended
<1>3. QED
  BY <1>2, FS_Subset, FS_CardinalityType

(* A request that is still at work leaves room for a row.                  *)
LEMMA RoomForRow ==
  ASSUME TypeInv, NEW q \in Requests, rpc[q] # "done",
         rpc' = [rpc EXCEPT ![q] = "done"]
  PROVE  made + 1 \in Requests /\ made + 1 <= Cardinality(Ended')
<1>1. IsFiniteSet(Requests) /\ Cardinality(Requests) = MaxRequests
  BY FS_Interval, CompactionAssumption DEF CompactionAssumption, Requests
<1>2. IsFiniteSet(Ended) /\ IsFiniteSet(Ended')
  BY <1>1, FS_Subset DEF Ended
<1>3. Ended' = Ended \cup {q} /\ q \notin Ended
  BY DEF Ended, TypeInv, TypeOK
<1>4. Cardinality(Ended') = Cardinality(Ended) + 1
  BY <1>2, <1>3, FS_AddElement
<1>5. Cardinality(Ended') <= MaxRequests
  BY <1>1, FS_Subset DEF Ended
<1>6. Cardinality(Ended) \in Nat
  BY <1>2, FS_CardinalityType
<1>7. QED
  BY <1>4, <1>5, <1>6, CompactionAssumption
     DEF CompactionAssumption, Requests, TypeInv, TypeOK, Shape

LEMMA MishapTyped == TypeOK /\ Mishap => mishaps' \in 0..MaxMishaps
BY CompactionAssumption DEF CompactionAssumption, TypeOK, Mishap

LEMMA RowSetsTyped ==
  /\ Queued \subseteq Waiting /\ Waiting \subseteq Requests /\ Running \subseteq Requests
  /\ Active \subseteq Requests
BY DEF Queued, Active, Waiting, Running, Visible

LEMMA InitTyped == Init => TypeInv
<1> SUFFICES ASSUME Init PROVE TypeInv
  OBVIOUS
<1> USE CompactionAssumption DEF CompactionAssumption
<1> USE DEF Messages, Turns, Calls, Requests, Manual, Compactors, None
<1>1. view \in [Compactors -> View] /\ pc \in [Compactors -> Point]
  BY DEF Init, View, NoView, Point
<1>2. /\ n \in 0..MaxMessages /\ lock \in {None} \cup Turns /\ turns \in 0..MaxTurns
      /\ summary \subseteq Messages /\ watermark \in 0..MaxMessages /\ archived \subseteq Messages
  BY DEF Init
<1>3. /\ row \in [Requests -> RowStatus] /\ made \in 0..MaxRequests /\ hidden \in 0..made
      /\ \A r \in Requests : row[r] # "none" <=> r <= made
  BY DEF Init, RowStatus
<1>4. /\ job \in {None} \cup Requests
      /\ job # None <=> pc[Manual] \notin {"idle", "drain", "finding"}
      /\ note \in [Turns -> RowStatus]
  BY DEF Init, RowStatus
<1>5. /\ rpc \in [Requests -> {"idle", "promote", "queue", "run", "done"}]
      /\ found \in [Requests -> {None} \cup Requests]
      /\ mishaps \in 0..MaxMishaps
  BY DEF Init
<1>6. /\ joined \in BOOLEAN /\ revived \in BOOLEAN
      /\ missed \subseteq Requests /\ stuck \subseteq Requests
      /\ compacted \subseteq Outcomes /\ mistold \subseteq Outcomes
      /\ outrun \subseteq Messages /\ omitted \subseteq Messages
  BY DEF Init
<1>7. Ended = {}
  BY DEF Init, Ended
<1>8. Shape
  BY <1>7, FS_EmptySet DEF Shape, Init
<1>9. QED
  BY <1>1, <1>2, <1>3, <1>4, <1>5, <1>6, <1>8 DEF TypeOK, TypeInv

(* Steps of the session.                                                   *)
LEMMA SessionTyped ==
  ASSUME TypeInv,
         \/ Post \/ Bury \/ TurnStart \/ TurnEnd \/ LockSwept \/ Restart
         \/ \E t \in Turns : TurnReplies(t)
         \/ \E c \in Calls : Call(c)
  PROVE  TypeInv'
<1> USE CompactionAssumption DEF CompactionAssumption
<1> USE DEF TypeInv, TypeOK, session, manual, reqs, told, seen, Messages, Turns, Calls,
            Requests, Manual, Compactors, None, Waiting, Running, Mishap, Goto, Leave, Point
<1>1. CASE Post
  BY <1>1 DEF Post, Shape, Ended
<1>0. CASE Bury
  BY <1>0 DEF Bury, Shape, Ended
<1>2. CASE TurnStart
  BY <1>2 DEF TurnStart, Shape, Ended
<1>3. CASE TurnEnd
  BY <1>3 DEF TurnEnd, Shape, Ended, TaskActive
<1>4. CASE LockSwept
  <2>1. Ended' = Ended
    BY <1>4 DEF LockSwept, Ended
  <2>2. missed' \subseteq Requests /\ lock' = None
    BY <1>4 DEF LockSwept
  <2>3. mishaps' \in 0..MaxMishaps
    BY <1>4, MishapTyped DEF LockSwept
  <2>4. QED
    BY <1>4, <2>1, <2>2, <2>3 DEF LockSwept, Shape
<1>5. ASSUME NEW t \in Turns, TurnReplies(t) PROVE TypeInv'
  BY <1>5 DEF TurnReplies, Shape, Ended
<1>6. CASE Restart
  <2>1. /\ UNCHANGED <<n, turns, summary, watermark, archived, row, made, hidden, note,
                       revived, compacted, outrun, omitted>>
        /\ lock' = None /\ job' = None /\ joined' = FALSE /\ pc'[Manual] = "idle"
    BY <1>6 DEF Restart
  <2>2. /\ pc' \in [Compactors -> Point]
        /\ rpc' \in [Requests -> {"idle", "promote", "queue", "run", "done"}]
        /\ found' \in [Requests -> {None} \cup Requests]
        /\ \A q \in Requests : found'[q] = None /\ rpc'[q] # "promote"
    BY <1>6 DEF Restart
  <2>3. view' \in [Compactors -> View]
    BY <1>6 DEF Restart, View, NoView
  <2>4. missed' \subseteq Requests /\ stuck' \subseteq Requests
    BY <1>6 DEF Restart
  <2>5. mistold' \subseteq Outcomes /\ mishaps' \in 0..MaxMishaps
    BY <1>6, MishapTyped DEF Restart
  <2>6. Cardinality(Ended) \in Nat /\ Cardinality(Ended') \in Nat
        /\ Cardinality(Ended) <= Cardinality(Ended')
    <3>1. Ended \subseteq Ended'
      BY <1>6 DEF Restart, Ended
    <3>2. TypeInv
      OBVIOUS
    <3>3. QED
      BY <3>1, <3>2, EndedGrows
  <2>7. Shape'
    BY <2>1, <2>2, <2>6 DEF Shape
  <2>8. QED
    BY <2>1, <2>2, <2>3, <2>4, <2>5, <2>7
<1>7. ASSUME NEW c \in Calls, Call(c) PROVE TypeInv'
  <2>1. c \in Compactors /\ c # Manual
    OBVIOUS
  <2>2. QED
    BY <1>7, <2>1 DEF Call, Shape, Ended
<1>8. QED
  BY <1>0, <1>1, <1>2, <1>3, <1>4, <1>5, <1>6, <1>7

LEMMA StartTaskTyped ==
  ASSUME TypeInv, NEW r \in Requests, NEW u \in BOOLEAN, StartTask(r, u) \/ NotStarted(r)
  PROVE  /\ pc' \in [Compactors -> Point]
         /\ job' \in {None} \cup Requests
         /\ job' # None <=> pc'[Manual] \notin {"idle", "drain", "finding"}
         /\ stuck' \subseteq Requests /\ compacted' \subseteq Outcomes /\ revived' \in BOOLEAN
         /\ job' \in {job, r}
<1> USE DEF TypeInv, TypeOK, StartTask, TaskActive
<1>1. CASE NotStarted(r)
  BY <1>1 DEF NotStarted
<1>2. CASE ~NotStarted(r) /\ ~TaskActive
  <2>1. /\ pc' = [pc EXCEPT ![Manual] = "start"] /\ job' = r /\ stuck' = stuck
        /\ compacted' = compacted \ {<<"row", r>>} /\ revived' = u
    BY <1>2 DEF Goto
  <2>2. Manual \in Compactors /\ r # None
    BY DEF Compactors, None, Requests
  <2>3. pc' \in [Compactors -> Point] /\ pc'[Manual] = "start"
    BY <2>1, <2>2 DEF Point
  <2>4. revived' \in BOOLEAN
    BY <2>1
  <2>5. QED
    BY <2>1, <2>2, <2>3, <2>4
<1>3. QED
  BY <1>1, <1>2

(* Steps of a request to the queue.                                        *)
LEMMA RequestTyped ==
  ASSUME TypeInv, NEW q \in Requests,
         ReqFind(q) \/ RequestStep(q) \/ ReqCut(q) \/ ReqFail(q)
  PROVE  TypeInv'
<1>1. \/ Ended' = Ended
      \/ rpc' = [rpc EXCEPT ![q] = "done"] /\ rpc[q] # "done"
  BY DEF ReqFind, RequestStep, ReqPromote, ReqInsert, ReqCut, Promoted, Inserted, ReqFail,
         Ended, TypeInv, TypeOK
<1>2. Cardinality(Ended) \in Nat /\ Cardinality(Ended') \in Nat
      /\ Cardinality(Ended) <= Cardinality(Ended')
  <2>1. Ended \subseteq Ended'
    BY <1>1 DEF Ended, TypeInv, TypeOK
  <2>2. QED
    BY <2>1, EndedGrows
<1>0. ReqCut(q) => mishaps' \in 0..MaxMishaps
  BY MishapTyped DEF ReqCut, TypeInv
<1> USE DEF TypeInv, TypeOK, session, manual, reqs, told, seen
<1>3. CASE ReqFind(q)
  <2>1. Active # {} => Last(Active) \in Requests /\ row[Last(Active)] # "none"
    BY LastIsLast, RowSetsTyped DEF Active, Waiting, Running
  <2>2. \/ UNCHANGED <<pc, job, compacted, revived, stuck>>
        \/ Active # {} /\ StartTask(Last(Active), TRUE)
    BY <1>3 DEF ReqFind
  <2>3. UNCHANGED <<n, lock, turns, view, summary, watermark, archived, row, made, hidden,
                    note, joined, missed, mistold, outrun, omitted, mishaps>>
    BY <1>3 DEF ReqFind
  <2>4. \/ \E p \in {"queue", "run", "done"} : rpc' = [rpc EXCEPT ![q] = p] /\ found' = found
        \/ /\ Active # {} /\ rpc' = [rpc EXCEPT ![q] = "promote"]
           /\ found' = [found EXCEPT ![q] = Last(Active)]
    BY <1>3 DEF ReqFind
  <2>5. /\ rpc' \in [Requests -> {"idle", "promote", "queue", "run", "done"}]
        /\ found' \in [Requests -> {None} \cup Requests]
    BY <2>1, <2>4
  <2>6. TypeOK'
    BY <2>1, <2>2, <2>3, <2>5, StartTaskTyped
  <2>7. made' <= Cardinality(Ended')
    BY <1>2, <2>3 DEF Shape
  <2>8. job' <= made'
    BY <2>1, <2>2, <2>3, StartTaskTyped DEF Shape
  <2>9. ASSUME NEW p \in Requests
        PROVE  found'[p] <= made' /\ (rpc'[p] = "promote" => found'[p] # None)
    <3>1. CASE p = q /\ rpc'[q] = "promote"
      <4>1. Active # {} /\ found'[p] = Last(Active)
        BY <2>4, <3>1
      <4>2. Last(Active) <= made /\ Last(Active) # None
        BY <2>1, <4>1 DEF Requests, None
      <4>3. QED
        BY <2>3, <4>1, <4>2
    <3>2. CASE ~(p = q /\ rpc'[q] = "promote")
      <4>1. found'[p] = found[p] /\ (rpc'[p] = "promote" => rpc[p] = "promote")
        BY <2>4, <3>2
      <4>2. QED
        BY <2>3, <4>1 DEF Shape
    <3>3. QED
      BY <3>1, <3>2
  <2>10. QED
    BY <2>6, <2>7, <2>8, <2>9 DEF Shape
<1>4. CASE /\ Promoted(q) /\ (StartTask(found[q], FALSE) \/ NotStarted(found[q]))
           /\ mishaps' \in 0..MaxMishaps
  <2>1. found[q] \in Requests /\ found[q] <= made
    BY <1>4 DEF Promoted, Shape, None, Requests
  <2>3. TypeOK'
    BY <1>4, <2>1, StartTaskTyped DEF Promoted, RowStatus
  <2>4. made' = made /\ made' <= Cardinality(Ended')
    BY <1>2, <1>4 DEF Promoted, Shape
  <2>5. job' <= made'
    BY <1>4, <2>1, <2>4, StartTaskTyped DEF Shape
  <2>6. \A p \in Requests : found'[p] <= made' /\ (rpc'[p] = "promote" => found'[p] # None)
    BY <1>4, <2>4 DEF Promoted, Shape, None
  <2>7. QED
    BY <2>3, <2>4, <2>5, <2>6 DEF Shape
<1>5. CASE /\ Inserted(q) /\ mishaps' \in 0..MaxMishaps
           /\ \/ UNCHANGED <<pc, job, compacted, stuck, revived>>
              \/ StartTask(made + 1, FALSE) \/ NotStarted(made + 1)
  <2>1. made + 1 \in Requests /\ made + 1 <= Cardinality(Ended')
    BY <1>5, RoomForRow DEF Inserted
  <2>2. missed' \subseteq Requests
    BY <1>5, <2>1 DEF Inserted
  <2>3. \A r \in Requests : row'[r] # "none" <=> r <= made'
    BY <1>5, <2>1 DEF Inserted, Requests
  <2>4. row' \in [Requests -> RowStatus] /\ made' \in 0..MaxRequests /\ hidden' \in 0..made'
    BY <1>5, <2>1 DEF Inserted, RowStatus, Requests
  <2>5. TypeOK'
    BY <1>5, <2>1, <2>2, <2>3, <2>4, StartTaskTyped DEF Inserted
  <2>6. made' = made + 1 /\ made' <= Cardinality(Ended')
    BY <1>5, <2>1 DEF Inserted
  <2>7. job' <= made'
    <3>1. job' \in {job, made + 1}
      BY <1>5, <2>1, StartTaskTyped
    <3>2. job <= made /\ job \in Int /\ made \in Int
      BY DEF Shape, Requests, None
    <3>3. QED
      BY <2>6, <3>1, <3>2
  <2>8. \A p \in Requests : found'[p] <= made' /\ (rpc'[p] = "promote" => found'[p] # None)
    BY <1>5, <2>6 DEF Inserted, Shape, Requests, None
  <2>9. QED
    BY <2>5, <2>6, <2>7, <2>8 DEF Shape
<1>6. CASE ReqFail(q)
  <2>1. rpc[q] = "promote" => found[q] \in Requests
    BY DEF Shape
  <2>2. missed' \subseteq Requests
    BY <1>6, <2>1 DEF ReqFail
  <2>3. TypeOK'
    BY <1>6, <2>2, MishapTyped DEF ReqFail
  <2>4. Shape'
    BY <1>2, <1>6 DEF ReqFail, Shape, None
  <2>5. QED
    BY <2>3, <2>4
<1>7. QED
  BY <1>0, <1>3, <1>4, <1>5, <1>6 DEF RequestStep, ReqPromote, ReqInsert, ReqCut

(* Steps of the drain.                                                     *)
DrainStep == DrainCheck \/ DrainFind \/ DrainMark \/ \E marked \in BOOLEAN : DrainFail(marked)

LEMMA DrainTyped ==
  ASSUME TypeInv, DrainStep
  PROVE  TypeInv'
<1>1. rpc' = rpc /\ Ended' = Ended
  BY DEF DrainStep, DrainCheck, DrainFind, DrainMark, DrainFail, Ended, reqs
<1> USE DEF TypeInv, TypeOK, session, manual, reqs, told, seen, Goto, Point
<1>2. Manual \in Compactors /\ None \notin Requests
  BY DEF Compactors, None, Requests
<1>3. CASE DrainCheck
  BY <1>1, <1>2, <1>3 DEF DrainCheck, Shape
<1>4. CASE DrainFind
  <2>1. Queued # {} => Last(Queued) \in Requests /\ Last(Queued) <= made
    BY LastIsLast, RowSetsTyped DEF Queued, Waiting
  <2>2. CASE Queued = {}
    BY <1>1, <1>2, <1>4, <2>2 DEF DrainFind, Shape
  <2>3. CASE Queued # {}
    <3>1. missed' \subseteq Requests
      BY <1>4, <2>3, RowSetsTyped DEF DrainFind
    <3>2. QED
      BY <1>1, <1>2, <1>4, <2>1, <2>3, <3>1 DEF DrainFind, Shape
  <2>4. QED
    BY <2>2, <2>3
<1>5. CASE DrainMark
  <2>1. job \in Requests /\ row[job] # "none"
    BY <1>5 DEF DrainMark, Shape, None
  <2>2. /\ row' \in [Requests -> RowStatus]
        /\ \A r \in Requests : row'[r] # "none" <=> row[r] # "none"
    BY <1>5, <2>1 DEF DrainMark, RowStatus
  <2>3. QED
    BY <1>1, <1>2, <1>5, <2>1, <2>2 DEF DrainMark, Shape
<1>6. ASSUME NEW marked \in BOOLEAN, DrainFail(marked) PROVE TypeInv'
  <2>0. marked => job \in Requests /\ row[job] # "none"
    BY <1>6 DEF DrainFail, Shape, None
  <2>1. missed' \subseteq Requests /\ stuck' \subseteq Requests
    BY <1>6, <2>0, RowSetsTyped DEF DrainFail
  <2>2. mishaps' \in 0..MaxMishaps
    BY <1>6, MishapTyped DEF DrainFail
  <2>3. /\ row' \in [Requests -> RowStatus]
        /\ \A r \in Requests : row'[r] # "none" <=> row[r] # "none"
    BY <1>6, <2>0 DEF DrainFail, RowStatus
  <2>4. QED
    BY <1>1, <1>2, <1>6, <2>1, <2>2, <2>3 DEF DrainFail, Shape, None
<1>7. QED
  BY <1>3, <1>4, <1>5, <1>6 DEF DrainStep

(* Steps of a compaction.                                                  *)
LEMMA NoViewTyped == NoView \in View
BY CompactionAssumption DEF CompactionAssumption, NoView, View, Messages

AutoStep(t) == \/ AutoCheck(t) \/ AutoWindow(t) \/ AutoAnnounce(t)
               \/ \E due \in BOOLEAN : AutoRead(t, due)
ForcedStep(c) == ForcedRead(c) \/ ForcedWatermark(c)
WriteStep(c) == \/ \E b \in BOOLEAN : Write(c, b) \/ TellFail(c, b)
                \/ Regenerate(c) \/ Commit(c) \/ CompactionFail(c)

SessionStep == \/ Post \/ Bury \/ TurnStart \/ TurnEnd \/ LockSwept \/ Restart
               \/ \E t \in Turns : TurnReplies(t)
               \/ \E c \in Calls : Call(c)

LEMMA NextSplit ==
  ASSUME Next
  PROVE  \/ SessionStep \/ DrainStep
         \/ \E q \in Requests : ReqFind(q) \/ RequestStep(q) \/ ReqCut(q) \/ ReqFail(q)
         \/ \E t \in Turns : AutoStep(t)
         \/ \E c \in Calls \cup {Manual} : ForcedStep(c)
         \/ \E c \in Turns \cup {Manual} : Tell(c)
         \/ \E c \in Compactors : WriteStep(c)
BY DEF Next, SessionStep, DrainStep, AutoStep, ForcedStep, WriteStep, ManualStep, Compactors

LEMMA AutoTyped ==
  ASSUME TypeInv, NEW t \in Turns, AutoStep(t)
  PROVE  TypeInv'
<1> USE CompactionAssumption DEF CompactionAssumption
<1> USE DEF TypeInv, TypeOK, session, manual, reqs, told, seen, Goto, Leave, Point
<1>1. rpc' = rpc /\ Ended' = Ended
  BY DEF AutoStep, AutoCheck, AutoRead, AutoWindow, AutoAnnounce, Ended
<1>2. t \in Compactors /\ t # Manual
  BY DEF Compactors, Turns, Manual
<1>3. CASE AutoCheck(t)
  BY <1>1, <1>2, <1>3 DEF AutoCheck, Shape
<1>4. ASSUME NEW due \in BOOLEAN, AutoRead(t, due) PROVE TypeInv'
  <2>1. view' \in [Compactors -> View]
    <3>1. CASE due
      <4>1. view' = [view EXCEPT ![t].base = summary, ![t].prev = watermark]
        BY <1>4, <3>1 DEF AutoRead
      <4>2. [view[t] EXCEPT !.base = summary, !.prev = watermark] \in View
        BY <1>2 DEF View
      <4>3. QED
        BY <1>2, <4>1, <4>2
    <3>2. CASE ~due
      BY <1>4, <3>2 DEF AutoRead
    <3>3. QED
      BY <3>1, <3>2
  <2>2. QED
    BY <1>1, <1>2, <1>4, <2>1 DEF AutoRead, Shape
<1>5. CASE AutoWindow(t)
  <2>1. view[t].prev \in 0..MaxMessages /\ n \in 0..MaxMessages /\ Keep \in Nat
    BY <1>2 DEF View
  <2>2. n > view[t].prev + Keep => /\ (view[t].prev + 1)..(n - Keep) \in SUBSET Messages
                                   /\ n - Keep \in 0..MaxMessages
    BY <2>1 DEF Messages
  <2>3. CASE n <= view[t].prev + Keep
    <3>1. /\ view' = [view EXCEPT ![t] = NoView]
          /\ pc' = [pc EXCEPT ![t] = "done"]
      BY <1>5, <2>3 DEF AutoWindow
    <3>2. view' \in [Compactors -> View]
      BY <3>1, NoViewTyped
    <3>3. QED
      BY <1>1, <1>2, <1>5, <2>3, <3>1, <3>2 DEF AutoWindow, Shape
  <2>4. CASE ~(n <= view[t].prev + Keep)
    <3>1. view' = [view EXCEPT ![t].conv = (view[t].prev + 1)..(n - Keep), ![t].upto = n - Keep]
      BY <1>5, <2>4 DEF AutoWindow
    <3>2. view' \in [Compactors -> View]
      <4>1. /\ (view[t].prev + 1)..(n - Keep) \in SUBSET Messages
            /\ n - Keep \in 0..MaxMessages
        BY <2>1, <2>2, <2>4
      <4>2. ASSUME NEW m \in SUBSET Messages, NEW u \in 0..MaxMessages
            PROVE  [view[t] EXCEPT !.conv = m, !.upto = u] \in View
        BY <1>2 DEF View
      <4>3. QED
        BY <1>2, <3>1, <4>1, <4>2
    <3>3. pc' = [pc EXCEPT ![t] = "announce"]
      BY <1>5, <2>4 DEF AutoWindow
    <3>4. QED
      BY <1>1, <1>2, <1>5, <3>2, <3>3 DEF AutoWindow, Shape
  <2>5. QED
    BY <2>3, <2>4
<1>6. CASE AutoAnnounce(t)
  BY <1>1, <1>2, <1>6 DEF AutoAnnounce, Shape, RowStatus
<1>7. QED
  BY <1>3, <1>4, <1>5, <1>6 DEF AutoStep

LEMMA ForcedTyped ==
  ASSUME TypeInv, NEW c \in Calls \cup {Manual}, ForcedStep(c)
  PROVE  TypeInv'
<1> USE CompactionAssumption DEF CompactionAssumption
<1> USE DEF TypeInv, TypeOK, session, manual, reqs, told, seen, Goto, Leave, Point
<1>1. rpc' = rpc /\ Ended' = Ended
  BY DEF ForcedStep, ForcedRead, ForcedWatermark, Ended
<1>2. c \in Compactors
  BY DEF Compactors
<1>3. CASE ForcedRead(c)
  <2>1. 1..n \in SUBSET Messages
    BY DEF Messages
  <2>2. CASE n = 0
    <3>1. /\ view' = [view EXCEPT ![c] = NoView]
          /\ pc' = [pc EXCEPT ![c] = IF c = Manual THEN "noop" ELSE "done"]
      BY <1>3, <2>2 DEF ForcedRead
    <3>2. view' \in [Compactors -> View]
      BY <3>1, NoViewTyped
    <3>3. QED
      BY <1>1, <1>2, <1>3, <2>2, <3>1, <3>2 DEF ForcedRead, Shape
  <2>3. CASE n # 0
    <3>1. view' = [view EXCEPT ![c].base = summary, ![c].prev = watermark, ![c].conv = 1..n]
      BY <1>3, <2>3 DEF ForcedRead
    <3>2. view' \in [Compactors -> View]
      <4>1. /\ summary \in SUBSET Messages /\ watermark \in 0..MaxMessages
            /\ view[c] \in View
        BY <1>2
      <4>2. [view[c] EXCEPT !.base = summary, !.prev = watermark, !.conv = 1..n] \in View
        BY <2>1, <4>1 DEF View
      <4>3. QED
        BY <1>2, <3>1, <4>2
    <3>3. pc' = [pc EXCEPT ![c] = "flush"]
      BY <1>3, <2>3 DEF ForcedRead
    <3>4. QED
      BY <1>1, <1>2, <1>3, <3>2, <3>3 DEF ForcedRead, Shape
  <2>4. QED
    BY <2>2, <2>3
<1>4. CASE ForcedWatermark(c)
  <2>1. n > Keep => n - Keep \in 0..MaxMessages /\ 1..(n - Keep) \in SUBSET Messages
    BY DEF Messages
  <2>2. CASE n <= Keep
    <3>1. /\ view' = [view EXCEPT ![c] = NoView]
          /\ pc' = [pc EXCEPT ![c] = IF c = Manual THEN "noop" ELSE "done"]
      BY <1>4, <2>2 DEF ForcedWatermark
    <3>2. view' \in [Compactors -> View]
      BY <3>1, NoViewTyped
    <3>3. QED
      BY <1>1, <1>2, <1>4, <2>2, <3>1, <3>2 DEF ForcedWatermark, Shape
  <2>3. CASE ~(n <= Keep)
    <3>1. view' = [view EXCEPT ![c].upto = n - Keep]
      BY <1>4, <2>3 DEF ForcedWatermark
    <3>2. view' \in [Compactors -> View]
      BY SMTT(30), <1>2, <2>1, <2>3, <3>1 DEF View
    <3>3. pc' = [pc EXCEPT ![c] = "write"] /\ outrun' \subseteq Messages
      BY <1>4, <2>1, <2>3 DEF ForcedWatermark
    <3>4. QED
      BY <1>1, <1>2, <1>4, <3>2, <3>3 DEF ForcedWatermark, Shape
  <2>4. QED
    BY <2>2, <2>3
<1>5. QED
  BY <1>3, <1>4 DEF ForcedStep

LEMMA TellTyped ==
  ASSUME TypeInv, NEW c \in Turns \cup {Manual}, Tell(c)
  PROVE  TypeInv'
<1> USE DEF TypeInv, TypeOK, session, manual, reqs, told, seen, Goto, Leave, Point
<1>1. rpc' = rpc /\ Ended' = Ended
  BY DEF Tell, Ended
<1>2. c \in Compactors
  BY DEF Compactors
<1>3. /\ Outcome(c) \in {"completed", "noop", "failed"} /\ Record(c, Outcome(c))
      /\ IF c = Manual THEN Goto(c, "idle") /\ job' = None
         ELSE Goto(c, "done") /\ UNCHANGED job
  BY DEF Tell, Outcome
<1>4. CASE c = Manual
  <2>1. job \in Requests /\ row[job] # "none"
    BY <1>4 DEF Tell, Shape, None
  <2>2. /\ row' \in [Requests -> RowStatus]
        /\ \A r \in Requests : row'[r] # "none" <=> row[r] # "none"
    BY <1>3, <1>4, <2>1 DEF RowStatus, Record
  <2>3. job' = None /\ pc' = [pc EXCEPT ![c] = "idle"] /\ note' = note
    BY <1>3, <1>4 DEF Record
  <2>4. None <= made
    BY DEF None
  <2>5. QED
    BY <1>1, <1>2, <1>4, <2>2, <2>3, <2>4 DEF Tell, Shape
<1>5. CASE c # Manual
  <2>1. note' \in [Turns -> RowStatus] /\ row' = row /\ job' = job
    BY <1>3, <1>5 DEF RowStatus, Record
  <2>2. pc' = [pc EXCEPT ![c] = "done"]
    BY <1>3, <1>5
  <2>3. QED
    BY <1>1, <1>2, <1>5, <2>1, <2>2 DEF Tell, Shape
<1>6. QED
  BY <1>4, <1>5

LEMMA WriteTyped ==
  ASSUME TypeInv, Placed, NEW c \in Compactors, WriteStep(c)
  PROVE  TypeInv'
<1> USE DEF TypeInv, TypeOK, session, manual, reqs, told, seen, Goto, Leave, Point
<1>1. rpc' = rpc /\ Ended' = Ended
  BY DEF WriteStep, Write, Regenerate, Commit, CompactionFail, TellFail, Ended
<1>2. /\ view[c].base \in SUBSET Messages /\ view[c].conv \in SUBSET Messages
      /\ view[c].upto \in 0..MaxMessages
  BY DEF View
<1>3. c # Manual => c \in Turns \/ c \in Calls
  BY DEF Compactors
<1>4. ASSUME NEW regenerate \in BOOLEAN, Write(c, regenerate) PROVE TypeInv'
  BY <1>1, <1>4 DEF Write, Shape, View
<1>5. CASE Regenerate(c)
  BY <1>1, <1>5 DEF Regenerate, Shape, View
<1>6. CASE Commit(c)
  <2>1. view' \in [Compactors -> View]
    BY <1>6, NoViewTyped DEF Commit
  <2>2. c = Manual => job \in Requests
    BY <1>6 DEF Commit
  <2>3. compacted' \subseteq Outcomes
    BY <1>6, <2>2 DEF Commit, Outcomes
  <2>4. archived' \subseteq Messages /\ summary' \subseteq Messages /\ watermark' \in 0..MaxMessages
    BY <1>2, <1>6 DEF Commit
  <2>5. QED
    BY <1>1, <1>6, <2>1, <2>3, <2>4 DEF Commit, Shape
<1>7. CASE CompactionFail(c)
  <2>1. view' \in [Compactors -> View] /\ mishaps' \in 0..MaxMishaps
    BY <1>7, NoViewTyped, MishapTyped DEF CompactionFail
  <2>2. QED
    BY <1>1, <1>7, <2>1 DEF CompactionFail, Shape, Calls, Manual
<1>8. ASSUME NEW written \in BOOLEAN, TellFail(c, written) PROVE TypeInv'
  <2>1. mishaps' \in 0..MaxMishaps
    BY <1>8, MishapTyped DEF TellFail
  <2>2. /\ c = Manual => job \in Requests /\ row[job] # "none"
        /\ c # Manual => c \in Turns
    BY <1>3, <1>8 DEF TellFail, Placed, Shape, None
  <2>5. /\ row' \in [Requests -> RowStatus] /\ note' \in [Turns -> RowStatus]
        /\ \A r \in Requests : row'[r] # "none" <=> row[r] # "none"
    <3>1. Outcome(c) \in RowStatus \ {"none"}
      BY DEF Outcome, RowStatus
    <3>2. CASE written
      <4>1. Record(c, Outcome(c))
        BY <1>8, <3>2 DEF TellFail
      <4>2. QED
        BY <2>2, <3>1, <4>1 DEF Record
    <3>3. CASE ~written
      BY <1>8, <3>3 DEF TellFail
    <3>4. QED
      BY <3>2, <3>3
  <2>3. CASE pc[c] = "tell" \/ (pc[c] = "sad" /\ c # Manual)
    <3>1. mistold' \in {mistold,
                       mistold \cup {IF c = Manual THEN <<"row", job>> ELSE <<"note", c>>}}
      BY <1>8, <2>3 DEF TellFail
    <3>3. mistold' \subseteq Outcomes
      BY <2>2, <3>1 DEF Outcomes
    <3>4. pc' = [pc EXCEPT ![c] = "last"] /\ UNCHANGED <<job, stuck, view>>
      BY <1>8, <2>3 DEF TellFail
    <3>5. QED
      BY <1>1, <1>8, <2>1, <2>3, <2>5, <3>3, <3>4 DEF TellFail, Shape
  <2>4. CASE ~(pc[c] = "tell" \/ (pc[c] = "sad" /\ c # Manual))
    <3>1. view' \in [Compactors -> View]
      BY <1>8, <2>4, NoViewTyped DEF TellFail
    <3>2. /\ pc' = [pc EXCEPT ![c] = IF c = Manual THEN "idle" ELSE "done"]
          /\ stuck' = IF c = Manual /\ ~written THEN stuck \cup {job} ELSE stuck
          /\ job' = IF c = Manual THEN None ELSE job
          /\ UNCHANGED mistold
      BY <1>8, <2>4 DEF TellFail
    <3>3. stuck' \subseteq Requests
      BY <2>2, <3>2
    <3>4. None <= made
      BY DEF None
    <3>5. QED
      BY <1>1, <1>8, <2>1, <2>5, <3>1, <3>2, <3>3, <3>4 DEF TellFail, Shape
  <2>6. QED
    BY <2>3, <2>4
<1>9. QED
  BY <1>4, <1>5, <1>6, <1>7, <1>8 DEF WriteStep

(* One coroutine moves, to a place of its kind.                            *)
LEMMA MovePlaced ==
  ASSUME TypeInv, Placed, NEW c \in Compactors, NEW p, pc' = [pc EXCEPT ![c] = p],
         c \in Turns => p \in {"idle", "check", "read", "window", "announce", "write",
                               "regen", "ready", "tell", "sad", "last", "done"},
         c \in Calls => p \in {"idle", "start", "flush", "write", "regen", "ready", "done"},
         c = Manual => p \in {"idle", "drain", "finding", "found", "start", "flush", "write",
                              "regen", "ready", "tell", "noop", "sad", "last"}
  PROVE  Placed'
<1>1. \A d \in Compactors : pc'[d] = IF d = c THEN p ELSE pc[d]
  BY DEF TypeInv, TypeOK
<1>2. Turns \subseteq Compactors /\ Calls \subseteq Compactors /\ Manual \in Compactors
  BY DEF Compactors
<1>3. QED
  BY <1>1, <1>2 DEF Placed

LEMMA InitPlaced == Init => Placed
BY DEF Init, Placed, Compactors

LEMMA NextPlaced == TypeInv /\ Placed /\ [Next]_vars => Placed'
<1> SUFFICES ASSUME TypeInv, Placed, [Next]_vars PROVE Placed'
  OBVIOUS
<1> USE CompactionAssumption DEF CompactionAssumption, Turns, Calls, Manual, Compactors
<1> USE DEF TypeInv, TypeOK, Placed, Goto, Leave
<1>1. CASE UNCHANGED vars
  BY <1>1 DEF vars
<1>2. CASE SessionStep
  <2>1. CASE Restart
    BY <2>1 DEF Restart
  <2>2. CASE Post \/ Bury \/ TurnStart \/ LockSwept
    BY <2>2 DEF Post, Bury, TurnStart, LockSwept
  <2>3. CASE TurnEnd
    <3>1. pc' = pc \/ pc' = [pc EXCEPT ![Manual] = "drain"]
      BY <2>3 DEF TurnEnd
    <3>2. QED
      BY <3>1
  <2>4. ASSUME NEW t \in Turns, TurnReplies(t) PROVE Placed'
    BY <2>4 DEF TurnReplies
  <2>5. ASSUME NEW c \in Calls, Call(c) PROVE Placed'
    BY <2>5 DEF Call
  <2>6. QED
    BY <1>2, <2>1, <2>2, <2>3, <2>4, <2>5 DEF SessionStep
<1>3. CASE DrainStep
  BY <1>3 DEF DrainStep, DrainCheck, DrainFind, DrainMark, DrainFail
<1>4. ASSUME NEW q \in Requests, ReqFind(q) \/ RequestStep(q) \/ ReqCut(q) \/ ReqFail(q)
      PROVE  Placed'
  <2>1. pc' = pc \/ pc' = [pc EXCEPT ![Manual] = "start"]
    <3>1. CASE ReqFind(q)
      BY <3>1 DEF ReqFind, StartTask, NotStarted
    <3>2. CASE RequestStep(q) \/ ReqCut(q)
      BY <3>2 DEF RequestStep, ReqPromote, ReqInsert, ReqCut, StartTask, NotStarted
    <3>3. CASE ReqFail(q)
      BY <3>3 DEF ReqFail
    <3>4. QED
      BY <1>4, <3>1, <3>2, <3>3
  <2>2. "start" \in {"idle", "drain", "finding", "found", "start", "flush", "write",
                    "regen", "ready", "tell", "noop", "sad", "last"}
    OBVIOUS
  <2>3. Manual \in Compactors /\ Manual \notin Turns \cup Calls
    OBVIOUS
  <2>4. CASE pc' = pc
    BY <2>4
  <2>5. CASE pc' = [pc EXCEPT ![Manual] = "start"]
    <3> HIDE DEF TypeInv, Placed
    <3>1. QED
      BY <2>2, <2>3, <2>5, MovePlaced
  <2>6. QED
    BY <2>1, <2>4, <2>5
<1>5. ASSUME NEW t \in Turns, AutoStep(t) PROVE Placed'
  BY <1>5 DEF AutoStep, AutoCheck, AutoRead, AutoWindow, AutoAnnounce
<1>6. ASSUME NEW c \in Calls \cup {Manual}, ForcedStep(c) PROVE Placed'
  <2>1. \E p \in {"flush", "write", IF c = Manual THEN "noop" ELSE "done"} :
          pc' = [pc EXCEPT ![c] = p]
    BY <1>6 DEF ForcedStep, ForcedRead, ForcedWatermark
  <2>2. QED
    BY <2>1
<1>7. ASSUME NEW c \in Turns \cup {Manual}, Tell(c) PROVE Placed'
  BY <1>7 DEF Tell
<1>8. ASSUME NEW c \in Compactors, WriteStep(c) PROVE Placed'
  <2>1. /\ pc[c] \in {"start", "flush", "announce", "write", "regen", "ready", "tell", "noop",
                     "sad", "last"}
        /\ \/ pc[c] = "write" /\ \E p \in {"regen", "ready"} : pc' = [pc EXCEPT ![c] = p]
           \/ pc[c] = "regen" /\ pc' = [pc EXCEPT ![c] = "ready"]
           \/ pc' = [pc EXCEPT ![c] = IF c \in Calls THEN "done" ELSE "tell"]
           \/ pc' = [pc EXCEPT ![c] = IF c \in Calls THEN "done" ELSE "sad"]
           \/ pc[c] \in {"tell", "sad"} /\ pc' = [pc EXCEPT ![c] = "last"]
           \/ pc' = [pc EXCEPT ![c] = IF c = Manual THEN "idle" ELSE "done"]
    BY <1>8 DEF WriteStep, Write, Regenerate, Commit, CompactionFail, TellFail
  <2>2. Turns \cap Calls = {} /\ Manual \notin Turns \cup Calls
    OBVIOUS
  <2>3. PICK p : pc' = [pc EXCEPT ![c] = p] /\
                 \/ pc[c] = "write" /\ p \in {"regen", "ready"}
                 \/ pc[c] = "regen" /\ p = "ready"
                 \/ p = (IF c \in Calls THEN "done" ELSE "tell")
                 \/ p = (IF c \in Calls THEN "done" ELSE "sad")
                 \/ pc[c] \in {"tell", "sad"} /\ p = "last"
                 \/ p = (IF c = Manual THEN "idle" ELSE "done")
    BY <2>1
  <2>4. QED
    BY <2>2, <2>3, MovePlaced
<1>9. QED
  BY <1>1, <1>2, <1>3, <1>4, <1>5, <1>6, <1>7, <1>8, NextSplit

LEMMA NextTyped == TypeInv /\ Placed /\ [Next]_vars => TypeInv'
<1>1. TypeInv /\ UNCHANGED vars => TypeInv'
  BY DEF TypeInv, TypeOK, Shape, Ended, vars, session, manual, reqs, told, seen
<1>2. TypeInv /\ Placed /\ Next => TypeInv'
  BY NextSplit, SessionTyped, RequestTyped, DrainTyped, AutoTyped, ForcedTyped, TellTyped,
     WriteTyped DEF SessionStep
<1>3. QED
  BY <1>1, <1>2

(* Every reachable state is well typed, whatever compactions overlap, fail *)
(* or are lost in a restart (services/compaction.py).                      *)
THEOREM CompactionTypeCorrect == Spec => []TypeOK
<1>1. TypeInv => TypeOK
  BY DEF TypeInv
<1>2. QED
  BY <1>1, InitTyped, InitPlaced, NextTyped, NextPlaced, PTL DEF Spec

LEMMA AlwaysTyped == Spec => [](TypeInv /\ Placed)
<1>1. QED
  BY InitTyped, InitPlaced, NextTyped, NextPlaced, PTL DEF Spec

---------------------------------------------------------------------------
(* The summary and the archive keep up with the watermark.                 *)

Covered(S, k) == 1..k \subseteq S \cup outrun \cup omitted
Kept(S, k) == 1..k \subseteq S \cup outrun

(* What a coroutine of a compaction knows, by its point, of the summary    *)
(* and the archive it has read and of those it will write.                 *)
Knows(c) ==
    /\ c \in Turns /\ pc[c] \in {"window", "announce", "write"}
       => Covered(view[c].base, view[c].prev) /\ Kept(archived, view[c].prev)
    /\ c \in Turns /\ pc[c] \in {"announce", "write"}
       => view[c].conv = (view[c].prev + 1)..view[c].upto
    /\ c \in Turns /\ pc[c] = "regen" => Kept(archived, view[c].upto)
    /\ c \notin Turns /\ pc[c] \in {"write", "regen"} => Kept(view[c].conv, view[c].upto)
    /\ pc[c] = "ready" => /\ Covered(view[c].base, view[c].upto)
                          /\ Kept(archived \cup view[c].conv, view[c].upto)

CoverInv ==
    /\ Covered(summary, watermark) /\ Kept(archived, watermark)
    /\ \A c \in Compactors : Knows(c)

(* The window of a compaction leaves Keep messages live.                   *)
Working == {"window", "announce", "write", "regen", "ready"}
Aims(c) ==
    /\ pc[c] \in Working \cup {"flush"} => view[c].prev = 0 \/ view[c].prev + Keep <= n
    /\ pc[c] \in Working \ {"window"}
       => view[c].prev <= view[c].upto /\ view[c].upto + Keep <= n

AimInv ==
    /\ watermark = 0 \/ watermark + Keep <= n
    /\ \A c \in Compactors : Aims(c)

(* Some steps touch no compaction but to start or to end it.               *)
Aside ==
    /\ UNCHANGED <<session, outrun, omitted>> /\ n <= n'
    /\ \A c \in Compactors : pc'[c] \in Working \cup {"flush"}
                             => pc'[c] = pc[c] /\ view'[c] = view[c]

LEMMA StepsAside ==
  ASSUME TypeInv, Placed,
         \/ SessionStep \/ DrainStep
         \/ \E q \in Requests : ReqFind(q) \/ RequestStep(q) \/ ReqCut(q) \/ ReqFail(q)
         \/ \E c \in Turns \cup {Manual} : Tell(c)
         \/ \E t \in Turns : AutoCheck(t)
         \/ \E c \in Compactors : CompactionFail(c) \/ \E b \in BOOLEAN : TellFail(c, b)
  PROVE  Aside
<1> USE DEF TypeInv, TypeOK, Aside, Working, session, manual, reqs, told, seen, Goto, Leave
<1>1. CASE SessionStep
  <2>1. CASE Restart
    BY <2>1 DEF Restart
  <2>2. CASE Post
    BY <2>2 DEF Post
  <2>7. CASE Bury
    BY <2>7 DEF Bury
  <2>3. CASE TurnStart \/ TurnEnd \/ LockSwept
    <3>1. CASE TurnEnd
      <4>1. pc' = pc \/ pc' = [pc EXCEPT ![Manual] = "drain"]
        BY <3>1 DEF TurnEnd
      <4>2. UNCHANGED <<n, view, session, outrun, omitted>> /\ n \in Int
        BY <3>1 DEF TurnEnd
      <4>3. QED
        BY <4>1, <4>2
    <3>2. CASE TurnStart
      <4>1. UNCHANGED <<n, pc, view, session, outrun, omitted>> /\ n \in Int
        BY <3>2 DEF TurnStart
      <4>2. QED
        BY <4>1
    <3>3. CASE LockSwept
      <4>1. UNCHANGED <<n, pc, view, session, outrun, omitted>> /\ n \in Int
        BY <3>3 DEF LockSwept
      <4>2. QED
        BY <4>1
    <3>4. QED
      BY <2>3, <3>1, <3>2, <3>3
  <2>4. ASSUME NEW t \in Turns, TurnReplies(t) PROVE Aside
    BY <2>4 DEF TurnReplies
  <2>5. ASSUME NEW c \in Calls, Call(c) PROVE Aside
    BY <2>5 DEF Call
  <2>6. QED
    BY <1>1, <2>1, <2>2, <2>3, <2>4, <2>5, <2>7 DEF SessionStep
<1>2. CASE DrainStep
  BY <1>2 DEF DrainStep, DrainCheck, DrainFind, DrainMark, DrainFail
<1>3. ASSUME NEW q \in Requests, ReqFind(q) \/ RequestStep(q) \/ ReqCut(q) \/ ReqFail(q)
      PROVE  Aside
  <2>1. /\ UNCHANGED <<n, view, session, outrun, omitted>> /\ n \in Int
        /\ pc' = pc \/ pc' = [pc EXCEPT ![Manual] = "start"]
    BY <1>3 DEF ReqFind, RequestStep, ReqPromote, ReqInsert, ReqCut, Promoted, Inserted, ReqFail,
                StartTask, NotStarted
  <2>2. QED
    BY <2>1
<1>4. ASSUME NEW c \in Turns \cup {Manual}, Tell(c) PROVE Aside
  BY <1>4 DEF Tell
<1>5. ASSUME NEW t \in Turns, AutoCheck(t) PROVE Aside
  BY <1>5 DEF AutoCheck
<1>6. ASSUME NEW c \in Compactors, CompactionFail(c) PROVE Aside
  BY <1>6 DEF CompactionFail
<1>7. ASSUME NEW c \in Compactors, NEW b \in BOOLEAN, TellFail(c, b) PROVE Aside
  BY <1>7 DEF TellFail
<1>8. QED
  BY <1>1, <1>2, <1>3, <1>4, <1>5, <1>6, <1>7

LEMMA KnowsKept ==
  ASSUME NEW d \in Compactors, Knows(d),
         pc'[d] \in Working => pc'[d] = pc[d] /\ view'[d] = view[d],
         archived \subseteq archived', outrun \subseteq outrun', omitted \subseteq omitted'
  PROVE  Knows(d)'
BY DEF Knows, Covered, Kept, Working

LEMMA AimsKept ==
  ASSUME TypeInv, NEW d \in Compactors, Aims(d), n' \in Nat, n <= n',
         pc'[d] \in Working \cup {"flush"} => pc'[d] = pc[d] /\ view'[d] = view[d]
  PROVE  Aims(d)'
<1>1. view[d].prev \in Nat /\ view[d].upto \in Nat /\ n \in Nat /\ Keep \in Nat
  BY CompactionAssumption DEF CompactionAssumption, TypeInv, TypeOK, View
<1>2. QED
  BY <1>1 DEF Aims, Working

LEMMA AutoCovers ==
  ASSUME TypeInv, CoverInv, NEW t \in Turns,
         AutoWindow(t) \/ AutoAnnounce(t) \/ \E due \in BOOLEAN : AutoRead(t, due)
  PROVE  CoverInv'
<1>1. UNCHANGED <<summary, watermark, archived, outrun, omitted>>
  BY DEF AutoWindow, AutoAnnounce, AutoRead, session, seen
<1>2. t \in Compactors
  BY DEF Compactors
<1>3. ASSUME NEW d \in Compactors, d # t PROVE Knows(d)'
  <2>1. pc'[d] = pc[d] /\ view'[d] = view[d]
    BY <1>3 DEF AutoWindow, AutoAnnounce, AutoRead, Goto, Leave, TypeInv, TypeOK
  <2>2. QED
    BY <1>1, <2>1, KnowsKept DEF CoverInv
<1>4. Knows(t)'
  <2> USE DEF TypeInv, TypeOK, Goto, Leave
  <2>0. view[t].prev \in Nat /\ n \in Nat /\ Keep \in Nat
    BY <1>2, CompactionAssumption DEF CompactionAssumption, View
  <2>1. ASSUME NEW due \in BOOLEAN, AutoRead(t, due) PROVE Knows(t)'
    <3>1. CASE due
      <4>1. pc'[t] = "window" /\ view'[t].base = summary /\ view'[t].prev = watermark
        BY <1>2, <2>1, <3>1 DEF AutoRead, View
      <4>2. QED
        BY <1>1, <4>1 DEF Knows, CoverInv, Covered, Kept
    <3>2. CASE ~due
      BY <1>2, <2>1, <3>2 DEF AutoRead, Knows
    <3>3. QED
      BY <3>1, <3>2
  <2>2. CASE AutoWindow(t)
    <3>1. CASE n <= view[t].prev + Keep
      BY <1>2, <2>2, <3>1 DEF AutoWindow, Knows
    <3>2. CASE ~(n <= view[t].prev + Keep)
      <4>1. /\ pc[t] = "window" /\ pc'[t] = "announce"
            /\ view' = [view EXCEPT ![t].conv = (view[t].prev + 1)..(n - Keep),
                                    ![t].upto = n - Keep]
        BY <1>2, <2>2, <3>2 DEF AutoWindow
      <4>2. /\ view'[t].conv = (view[t].prev + 1)..(n - Keep) /\ view'[t].upto = n - Keep
            /\ view'[t].base = view[t].base /\ view'[t].prev = view[t].prev
        BY <1>2, <4>1 DEF View
      <4>3. QED
        BY <1>1, <1>2, <4>1, <4>2 DEF CoverInv, Knows, Covered, Kept
    <3>3. QED
      BY <3>1, <3>2
  <2>3. CASE AutoAnnounce(t)
    <3>1. pc[t] = "announce" /\ pc'[t] = "write" /\ view' = view
      BY <1>2, <2>3 DEF AutoAnnounce
    <3>2. QED
      BY <1>1, <1>2, <3>1 DEF CoverInv, Knows, Covered, Kept
  <2>4. QED
    BY <2>1, <2>2, <2>3
<1>5. QED
  BY <1>1, <1>3, <1>4 DEF CoverInv, Covered, Kept

LEMMA ForcedCovers ==
  ASSUME TypeInv, CoverInv, NEW c \in Calls \cup {Manual}, ForcedStep(c)
  PROVE  CoverInv'
<1>1. UNCHANGED <<summary, watermark, archived, omitted>> /\ outrun \subseteq outrun'
  BY DEF ForcedStep, ForcedRead, ForcedWatermark, session, seen
<1>2. c \in Compactors /\ c \notin Turns
  BY CompactionAssumption DEF CompactionAssumption, Compactors, Calls, Turns, Manual
<1>3. ASSUME NEW d \in Compactors, d # c PROVE Knows(d)'
  <2>1. pc'[d] = pc[d] /\ view'[d] = view[d]
    BY <1>3 DEF ForcedStep, ForcedRead, ForcedWatermark, Goto, Leave, TypeInv, TypeOK
  <2>2. QED
    BY <1>1, <2>1, KnowsKept DEF CoverInv
<1>4. Knows(c)'
  <2> USE DEF TypeInv, TypeOK, Goto, Leave
  <2>1. CASE pc'[c] # "write"
    BY <1>2, <2>1 DEF ForcedStep, ForcedRead, ForcedWatermark, Knows
  <2>2. CASE pc'[c] = "write"
    <3>1. /\ view' = [view EXCEPT ![c].upto = n - Keep]
          /\ outrun' = outrun \cup (1..(n - Keep) \ view[c].conv)
      BY <1>2, <2>2 DEF ForcedStep, ForcedRead, ForcedWatermark
    <3>2. view'[c].upto = n - Keep /\ view'[c].conv = view[c].conv
      BY <1>2, <3>1 DEF View
    <3>3. QED
      BY <1>2, <2>2, <3>1, <3>2 DEF Knows, Kept
  <2>3. QED
    BY <2>1, <2>2
<1>5. QED
  BY <1>1, <1>3, <1>4 DEF CoverInv, Covered, Kept

LEMMA WriteCovers ==
  ASSUME TypeInv, CoverInv, NEW c \in Compactors, NEW regenerate \in BOOLEAN,
         Write(c, regenerate) \/ Regenerate(c)
  PROVE  CoverInv'
<1>1. UNCHANGED <<summary, watermark, outrun>> /\ archived \subseteq archived'
      /\ omitted \subseteq omitted'
  BY DEF Write, Regenerate, session, seen
<1>2. ASSUME NEW d \in Compactors, d # c PROVE Knows(d)'
  <2>1. pc'[d] = pc[d] /\ view'[d] = view[d]
    BY <1>2 DEF Write, Regenerate, Goto, TypeInv, TypeOK
  <2>2. QED
    BY <1>1, <2>1, KnowsKept DEF CoverInv
<1>3. view[c].upto \in Nat /\ view[c].prev \in Nat
  BY DEF TypeInv, TypeOK, View
<1>4. Knows(c)'
  <2> USE DEF TypeInv, TypeOK, Goto, Forced
  <2>1. CASE Write(c, regenerate)
    <3>1. /\ pc[c] = "write" /\ pc'[c] = (IF regenerate THEN "regen" ELSE "ready")
          /\ archived' = IF c \in Turns THEN archived \cup view[c].conv ELSE archived
      BY <2>1 DEF Write
    <3>2. /\ view'[c].conv = view[c].conv /\ view'[c].upto = view[c].upto
          /\ ~regenerate => view'[c].base = view[c].base \cup view[c].conv
      BY <2>1 DEF Write, View
    <3>3. /\ c \in Turns => 1..view[c].upto \subseteq 1..view[c].prev \cup view[c].conv
      <4>1. c \in Turns => view[c].conv = (view[c].prev + 1)..view[c].upto
        BY <3>1 DEF CoverInv, Knows
      <4>2. QED
        BY <1>3, <4>1
    <3>4. /\ c \in Turns => Covered(view[c].base, view[c].prev) /\ Kept(archived, view[c].prev)
          /\ c \notin Turns => Kept(view[c].conv, view[c].upto)
      BY <3>1 DEF CoverInv, Knows
    <3>5. Kept(archived' \cup view[c].conv, view[c].upto)
      BY <3>1, <3>3, <3>4 DEF Kept
    <3>6. c \in Turns => Kept(archived', view[c].upto)
      BY <3>1, <3>3, <3>4 DEF Kept
    <3>7. Covered(view[c].base \cup view[c].conv, view[c].upto)
      BY <3>3, <3>4 DEF Kept, Covered
    <3>8. QED
      BY <1>1, <3>1, <3>2, <3>4, <3>5, <3>6, <3>7 DEF Knows, Kept, Covered
  <2>2. CASE Regenerate(c)
    <3>1. /\ pc[c] = "regen" /\ pc'[c] = "ready" /\ archived' = archived
          /\ omitted' = IF c \in Turns THEN omitted ELSE omitted \cup (view[c].conv \ archived)
      BY <2>2 DEF Regenerate, session
    <3>2. view'[c].base = archived /\ view'[c].conv = view[c].conv /\ view'[c].upto = view[c].upto
      BY <2>2 DEF Regenerate, View
    <3>3. /\ c \in Turns => Kept(archived, view[c].upto)
          /\ c \notin Turns => Kept(view[c].conv, view[c].upto)
      BY <3>1 DEF CoverInv, Knows
    <3>4. QED
      BY <1>1, <3>1, <3>2, <3>3 DEF Knows, Kept, Covered
  <2>3. QED
    BY <2>1, <2>2
<1>5. QED
  BY <1>1, <1>2, <1>4 DEF CoverInv, Covered, Kept

LEMMA CommitCovers ==
  ASSUME TypeInv, CoverInv, NEW c \in Compactors, Commit(c)
  PROVE  CoverInv'
<1>1. /\ pc[c] = "ready" /\ summary' = view[c].base /\ watermark' = view[c].upto
      /\ archived' = archived \cup view[c].conv /\ outrun' = outrun /\ omitted' = omitted
  BY DEF Commit
<1>2. ASSUME NEW d \in Compactors, d # c PROVE Knows(d)'
  <2>1. pc'[d] = pc[d] /\ view'[d] = view[d]
    BY <1>2 DEF Commit, Leave, Goto, TypeInv, TypeOK
  <2>2. QED
    BY <1>1, <2>1, KnowsKept DEF CoverInv
<1>3. Knows(c)'
  BY DEF Commit, Leave, Goto, Knows, TypeInv, TypeOK
<1>4. Covered(view[c].base, view[c].upto) /\ Kept(archived \cup view[c].conv, view[c].upto)
  BY <1>1 DEF CoverInv, Knows
<1>5. QED
  BY <1>1, <1>2, <1>3, <1>4 DEF CoverInv, Covered, Kept

LEMMA InitCovers == Init => CoverInv /\ AimInv
<1> SUFFICES ASSUME Init PROVE CoverInv /\ AimInv
  OBVIOUS
<1>1. \A c \in Compactors : pc[c] = "idle"
  BY DEF Init
<1>2. 1..watermark = {} /\ watermark = 0
  BY DEF Init
<1>3. QED
  BY <1>1, <1>2 DEF CoverInv, AimInv, Covered, Kept, Knows, Aims, Working

LEMMA NextCovers == TypeInv /\ Placed /\ CoverInv /\ [Next]_vars => CoverInv'
<1> SUFFICES ASSUME TypeInv, Placed, CoverInv, [Next]_vars PROVE CoverInv'
  OBVIOUS
<1>1. ASSUME Aside PROVE CoverInv'
  <2>1. ASSUME NEW d \in Compactors PROVE Knows(d)'
    BY <1>1, KnowsKept DEF CoverInv, Aside, session
  <2>2. QED
    BY <1>1, <2>1 DEF CoverInv, Aside, session, Covered, Kept
<1>2. CASE UNCHANGED vars
  <2>1. ASSUME NEW d \in Compactors PROVE Knows(d)'
    BY <1>2, KnowsKept DEF CoverInv, vars, session, seen
  <2>2. QED
    BY <1>2, <2>1 DEF CoverInv, vars, session, seen, Covered, Kept
<1>3. ASSUME NEW t \in Turns, AutoStep(t) PROVE CoverInv'
  BY <1>1, <1>3, StepsAside, AutoCovers DEF AutoStep
<1>4. ASSUME NEW c \in Compactors, WriteStep(c) PROVE CoverInv'
  BY <1>1, <1>4, StepsAside, WriteCovers, CommitCovers DEF WriteStep
<1>5. QED
  BY <1>1, <1>2, <1>3, <1>4, NextSplit, StepsAside, ForcedCovers

(* However compactions overlap, the summary and the archive tell of every  *)
(* message behind the watermark but those a forced compaction has read     *)
(* past or left out of a regenerated summary (compaction.py:1385, 1979).   *)
THEOREM MessagesStayCovered == Spec => []MessagesCovered
<1>1. CoverInv => MessagesCovered
  BY DEF CoverInv, MessagesCovered, Behind, Covered, Kept
<1>2. QED
  BY <1>1, InitCovers, NextCovers, AlwaysTyped, PTL DEF Spec

---------------------------------------------------------------------------
(* The watermark.                                                          *)

LEMMA NextAims == TypeInv /\ TypeInv' /\ Placed /\ AimInv /\ [Next]_vars => AimInv'
<1> SUFFICES ASSUME TypeInv, TypeInv', Placed, AimInv, [Next]_vars PROVE AimInv'
  OBVIOUS
<1>0. n \in Nat /\ n' \in Nat /\ Keep \in Nat \ {0} /\ watermark \in Nat
  BY CompactionAssumption DEF CompactionAssumption, TypeInv, TypeOK
<1>1. ASSUME Aside PROVE AimInv'
  <2>1. ASSUME NEW d \in Compactors PROVE Aims(d)'
    BY <1>0, <1>1, AimsKept DEF AimInv, Aside
  <2>2. QED
    BY <1>0, <1>1, <2>1 DEF AimInv, Aside, session
<1>2. CASE UNCHANGED vars
  <2>1. ASSUME NEW d \in Compactors PROVE Aims(d)'
    BY <1>0, <1>2, AimsKept DEF AimInv, vars
  <2>2. QED
    BY <1>2, <2>1 DEF AimInv, vars, session
<1>3. ASSUME NEW c \in Compactors, n' = n, watermark' = watermark, Aims(c)',
             \A d \in Compactors \ {c} : pc'[d] = pc[d] /\ view'[d] = view[d]
      PROVE  AimInv'
  <2>1. ASSUME NEW d \in Compactors PROVE Aims(d)'
    BY <1>0, <1>3, AimsKept DEF AimInv
  <2>2. QED
    BY <1>3, <2>1 DEF AimInv
<1>4. \A c \in Compactors : /\ view[c].prev \in Nat /\ view[c].upto \in Nat
                            /\ view[c] \in View /\ Aims(c)
  BY DEF TypeInv, TypeOK, View, AimInv
<1> USE DEF Goto, Leave
<1>5. ASSUME NEW t \in Turns, AutoStep(t), ~AutoCheck(t) PROVE AimInv'
  <2>1. t \in Compactors
    BY DEF Compactors
  <2>2. /\ n' = n /\ watermark' = watermark
        /\ \A d \in Compactors \ {t} : pc'[d] = pc[d] /\ view'[d] = view[d]
    BY <1>5, <2>1 DEF AutoStep, AutoRead, AutoWindow, AutoAnnounce, TypeInv, TypeOK, session
  <2>3. Aims(t)'
    <3>1. ASSUME NEW due \in BOOLEAN, AutoRead(t, due) PROVE Aims(t)'
      BY <1>0, <1>4, <2>1, <3>1 DEF AutoRead, Aims, Working, AimInv, View, TypeInv, TypeOK
    <3>2. CASE AutoWindow(t)
      <4>1. CASE n <= view[t].prev + Keep
        BY <1>0, <1>4, <2>1, <3>2, <4>1 DEF AutoWindow, Aims, Working, View, TypeInv, TypeOK
      <4>2. CASE ~(n <= view[t].prev + Keep)
        <5>1. view' = [view EXCEPT ![t].conv = (view[t].prev + 1)..(n - Keep), ![t].upto = n - Keep]
          BY <3>2, <4>2 DEF AutoWindow
        <5>2. view'[t].prev = view[t].prev /\ view'[t].upto = n - Keep
          BY <2>1, <5>1 DEF View, TypeInv, TypeOK
        <5>3. view[t].prev <= n - Keep /\ (n - Keep) + Keep <= n
              /\ view[t].prev + Keep <= n
          BY <1>0, <1>4, <2>1, <4>2
        <5>4. QED
          BY <2>2, <5>2, <5>3 DEF Aims
      <4>3. QED
        BY <4>1, <4>2
    <3>3. CASE AutoAnnounce(t)
      BY <1>0, <1>4, <2>1, <3>3 DEF AutoAnnounce, Aims, Working, TypeInv, TypeOK
    <3>4. QED
      BY <1>5, <3>1, <3>2, <3>3 DEF AutoStep
  <2>4. QED
    BY <1>3, <2>1, <2>2, <2>3
<1>6. ASSUME NEW c \in Calls \cup {Manual}, ForcedStep(c) PROVE AimInv'
  <2>1. c \in Compactors
    BY DEF Compactors
  <2>2. /\ n' = n /\ watermark' = watermark
        /\ \A d \in Compactors \ {c} : pc'[d] = pc[d] /\ view'[d] = view[d]
    BY <1>6, <2>1 DEF ForcedStep, ForcedRead, ForcedWatermark, TypeInv, TypeOK, session
  <2>3. Aims(c)'
    <3>1. CASE ForcedRead(c)
      BY <1>0, <1>4, <2>1, <3>1 DEF ForcedRead, Aims, Working, AimInv, View, TypeInv, TypeOK
    <3>2. CASE ForcedWatermark(c)
      BY <1>0, <1>4, <2>1, <3>2 DEF ForcedWatermark, Aims, Working, View, TypeInv, TypeOK
    <3>3. QED
      BY <1>6, <3>1, <3>2 DEF ForcedStep
  <2>4. QED
    BY <1>3, <2>1, <2>2, <2>3
<1>7. ASSUME NEW c \in Compactors, NEW regenerate \in BOOLEAN,
             Write(c, regenerate) \/ Regenerate(c)
      PROVE  AimInv'
  <2>1. /\ n' = n /\ watermark' = watermark
        /\ \A d \in Compactors \ {c} : pc'[d] = pc[d] /\ view'[d] = view[d]
    BY <1>7 DEF Write, Regenerate, TypeInv, TypeOK, session
  <2>2. /\ pc[c] \in {"write", "regen"} /\ view'[c].prev = view[c].prev
        /\ view'[c].upto = view[c].upto
    BY <1>4, <1>7 DEF Write, Regenerate, View, TypeInv, TypeOK
  <2>3. Aims(c)'
    BY <1>4, <2>1, <2>2 DEF Aims, Working
  <2>4. QED
    BY <1>3, <2>1, <2>3
<1>8. ASSUME NEW c \in Compactors, Commit(c) PROVE AimInv'
  <2>1. /\ n' = n /\ watermark' = view[c].upto /\ pc[c] = "ready"
        /\ \A d \in Compactors \ {c} : pc'[d] = pc[d] /\ view'[d] = view[d]
        /\ pc'[c] \notin Working \cup {"flush"}
    BY <1>8 DEF Commit, TypeInv, TypeOK, Working
  <2>2. watermark' + Keep <= n'
    BY <1>4, <2>1 DEF Aims, Working
  <2>3. ASSUME NEW d \in Compactors PROVE Aims(d)'
    BY <1>0, <2>1, AimsKept DEF AimInv
  <2>4. QED
    BY <2>2, <2>3 DEF AimInv
<1>9. ASSUME NEW c \in Compactors, WriteStep(c) PROVE AimInv'
  BY <1>1, <1>7, <1>8, <1>9, StepsAside DEF WriteStep
<1>10. QED
  BY <1>1, <1>2, <1>5, <1>6, <1>9, NextSplit, StepsAside

(* The watermark moves back only when an overlapping compaction that had   *)
(* read an older one commits (compaction.py, _persist_session_state).      *)
THEOREM WatermarkNotBack == Spec => WatermarkForward
<1> DEFINE Back == watermark' < watermark
                   => \E c \in Compactors : pc[c] = "ready" /\ pc'[c] # "ready"
                                            /\ view[c].prev # watermark
<1>1. TypeInv /\ Placed /\ AimInv /\ [Next]_vars => [Back]_vars
  <2> SUFFICES ASSUME TypeInv, Placed, AimInv, Next, watermark' < watermark
               PROVE  \E c \in Compactors : pc[c] = "ready" /\ pc'[c] # "ready"
                                            /\ view[c].prev # watermark
    OBVIOUS
  <2>1. watermark \in Int /\ watermark' # watermark
    BY DEF TypeInv, TypeOK
  <2>2. ~Aside
    BY <2>1 DEF Aside, session
  <2>3. \A t \in Turns : ~AutoStep(t)
    BY <2>1, <2>2, StepsAside DEF AutoStep, AutoRead, AutoWindow, AutoAnnounce, session
  <2>4. \A c \in Calls \cup {Manual} : ~ForcedStep(c)
    BY <2>1 DEF ForcedStep, ForcedRead, ForcedWatermark, session
  <2>5. PICK c \in Compactors : WriteStep(c)
    BY <2>2, <2>3, <2>4, NextSplit, StepsAside
  <2>6. Commit(c)
    BY <2>1, <2>2, <2>5, StepsAside DEF WriteStep, Write, Regenerate, session
  <2>7. pc[c] = "ready" /\ pc'[c] # "ready" /\ watermark' = view[c].upto
    BY <2>6 DEF Commit, Leave, Goto, TypeInv, TypeOK
  <2>8. view[c].prev <= view[c].upto /\ view[c].prev \in Int /\ view[c].upto \in Int
    BY <2>7 DEF AimInv, Aims, Working, TypeInv, TypeOK, View
  <2>9. QED
    BY <2>1, <2>7, <2>8
<1>2. QED
  BY <1>1, InitCovers, NextAims, AlwaysTyped, PTL DEF Spec, WatermarkForward

---------------------------------------------------------------------------
(* The manual coroutine.                                                   *)

AtWork == {"start", "flush", "write", "regen", "ready"}
AtEnd == {"tell", "noop", "sad", "last"}

(* Steps of a compaction move the manual coroutine only on its way.        *)
LEMMA CompactionMoves ==
  ASSUME TypeInv, Placed,
         \/ \E t \in Turns : AutoStep(t)
         \/ \E c \in Calls \cup {Manual} : ForcedStep(c)
         \/ \E c \in Turns \cup {Manual} : Tell(c)
         \/ \E c \in Compactors : WriteStep(c)
  PROVE  /\ UNCHANGED <<lock, rpc, found, made, hidden, joined, revived, missed>>
         /\ \/ pc'[Manual] = pc[Manual]
            \/ pc[Manual] \in AtWork /\ pc'[Manual] \in AtWork \cup AtEnd
            \/ pc[Manual] \in AtEnd /\ pc'[Manual] \in AtEnd \cup {"idle"}
<1> USE DEF TypeInv, TypeOK, Placed, AtWork, AtEnd, Goto, Leave, manual, reqs, seen
<1>1. ASSUME NEW t \in Turns, AutoStep(t)
      PROVE  /\ UNCHANGED <<lock, rpc, found, made, hidden, joined, revived, missed>>
             /\ pc'[Manual] = pc[Manual]
  <2>1. t # Manual
    BY CompactionAssumption DEF CompactionAssumption, Turns, Manual
  <2>2. UNCHANGED <<lock, rpc, found, made, hidden, joined, revived, missed>>
    BY <1>1 DEF AutoStep, AutoCheck, AutoRead, AutoWindow, AutoAnnounce
  <2>3. \E p \in Point : pc' = [pc EXCEPT ![t] = p]
    BY <1>1 DEF AutoStep, AutoCheck, AutoRead, AutoWindow, AutoAnnounce, Point
  <2>4. QED
    BY <2>1, <2>2, <2>3 DEF Compactors
<1>2. ASSUME NEW c \in Calls \cup {Manual}, ForcedStep(c)
      PROVE  /\ UNCHANGED <<lock, rpc, found, made, hidden, joined, revived, missed>>
             /\ \/ pc'[Manual] = pc[Manual]
                \/ pc[Manual] \in AtWork /\ pc'[Manual] \in AtWork \cup AtEnd
  <2>1. /\ pc[c] \in AtWork /\ UNCHANGED <<lock, rpc, found, made, hidden, joined, revived, missed>>
        /\ \E p \in {"flush", "write", IF c = Manual THEN "noop" ELSE "done"} :
             pc' = [pc EXCEPT ![c] = p]
    BY <1>2 DEF ForcedStep, ForcedRead, ForcedWatermark
  <2>2. QED
    BY <2>1
<1>3. ASSUME NEW c \in Turns \cup {Manual}, Tell(c)
      PROVE  /\ UNCHANGED <<lock, rpc, found, made, hidden, joined, revived, missed>>
             /\ \/ pc'[Manual] = pc[Manual]
                \/ pc[Manual] \in AtEnd /\ pc'[Manual] \in AtEnd \cup {"idle"}
  <2>1. UNCHANGED <<lock, rpc, found, made, hidden, joined, revived, missed>> /\ pc[c] \in AtEnd
    BY <1>3 DEF Tell
  <2>2. pc' = [pc EXCEPT ![c] = IF c = Manual THEN "idle" ELSE "done"]
    BY <1>3 DEF Tell
  <2>3. QED
    BY <2>1, <2>2 DEF Compactors
<1>4. ASSUME NEW c \in Compactors, WriteStep(c)
      PROVE  /\ UNCHANGED <<lock, rpc, found, made, hidden, joined, revived, missed>>
             /\ \/ pc'[Manual] = pc[Manual]
                \/ pc[Manual] \in AtWork /\ pc'[Manual] \in AtWork \cup AtEnd
                \/ pc[Manual] \in AtEnd /\ pc'[Manual] \in AtEnd \cup {"idle"}
  <2>1. UNCHANGED <<lock, rpc, found, made, hidden, joined, revived, missed>>
    BY <1>4 DEF WriteStep, Write, Regenerate, Commit, CompactionFail, TellFail
  <2>2. CASE c # Manual
    <3>1. \E p \in Point : pc' = [pc EXCEPT ![c] = p]
      BY <1>4 DEF WriteStep, Write, Regenerate, Commit, CompactionFail, TellFail, Point
    <3>2. QED
      BY <2>1, <2>2, <3>1 DEF Compactors
  <2>3. CASE c = Manual
    <3>1. Manual \notin Calls
      BY CompactionAssumption DEF CompactionAssumption, Calls, Manual
    <3>2. \/ /\ pc[Manual] \in AtWork
             /\ \E p \in AtWork \cup AtEnd : pc' = [pc EXCEPT ![Manual] = p]
          \/ /\ pc[Manual] \in AtEnd
             /\ \E p \in AtEnd \cup {"idle"} : pc' = [pc EXCEPT ![Manual] = p]
      BY <1>4, <2>3, <3>1 DEF WriteStep, Write, Regenerate, Commit, CompactionFail, TellFail
    <3>3. Manual \in Compactors
      BY DEF Compactors
    <3>4. \/ pc[Manual] \in AtWork /\ pc'[Manual] \in AtWork \cup AtEnd
          \/ pc[Manual] \in AtEnd /\ pc'[Manual] \in AtEnd \cup {"idle"}
      BY <3>2, <3>3, Zenon
    <3>5. QED
      BY <2>1, <3>4
  <2>4. QED
    BY <2>1, <2>2, <2>3
<1>5. QED
  BY <1>1, <1>2, <1>3, <1>4

(* Beside a turn that started while nobody had found the session idle,     *)
(* nobody is about to start, and only a continued row is worked on.        *)
IdleInv ==
    lock # None /\ ~joined
    => /\ \/ pc[Manual] \in {"idle", "drain"} \cup AtEnd
          \/ revived /\ pc[Manual] \notin {"finding", "found"}
       /\ \A q \in Requests : rpc[q] \notin {"promote", "run"}

LEMMA NextIdle == TypeInv /\ Placed /\ IdleInv /\ [Next]_vars => IdleInv'
<1> SUFFICES ASSUME TypeInv, Placed, IdleInv, [Next]_vars PROVE IdleInv'
  OBVIOUS
<1> USE DEF TypeInv, TypeOK, IdleInv, AtEnd, Goto, manual, reqs, seen
<1>1. CASE UNCHANGED vars
  BY <1>1 DEF vars
<1>2. CASE SessionStep
  <2>1. CASE TurnEnd \/ LockSwept \/ Restart
    <3>1. lock' = None
      BY <2>1 DEF TurnEnd, LockSwept, Restart
    <3>2. QED
      BY <3>1
  <2>2. CASE TurnStart
    BY <2>2 DEF TurnStart
  <2>3. CASE Post \/ Bury
    BY <2>3 DEF Post, Bury
  <2>4. ASSUME NEW c \in Compactors, c # Manual, TurnReplies(c) \/ Call(c) PROVE IdleInv'
    <3>1. pc'[Manual] = pc[Manual] /\ UNCHANGED <<lock, rpc, joined, revived>>
      BY <2>4 DEF TurnReplies, Call, Compactors
    <3>2. QED
      BY <3>1
  <2>5. Turns \subseteq Compactors \ {Manual} /\ Calls \subseteq Compactors \ {Manual}
    BY CompactionAssumption DEF CompactionAssumption, Compactors, Turns, Calls, Manual
  <2>6. QED
    BY <1>2, <2>1, <2>2, <2>3, <2>4, <2>5 DEF SessionStep
<1>3. CASE DrainStep
  BY <1>3 DEF DrainStep, DrainCheck, DrainFind, DrainMark, DrainFail
<1>4. ASSUME NEW q \in Requests, ReqFind(q) \/ RequestStep(q) \/ ReqCut(q) \/ ReqFail(q)
      PROVE  IdleInv'
  <2>1. lock' = lock /\ joined' = joined
    BY <1>4 DEF ReqFind, RequestStep, ReqPromote, ReqInsert, ReqCut, Promoted, Inserted, ReqFail
  <2>2. CASE ReqFind(q)
    BY <2>1, <2>2 DEF ReqFind, StartTask, NotStarted, TaskActive
  <2>3. CASE RequestStep(q) \/ ReqCut(q) \/ ReqFail(q)
    <3>1. rpc[q] \in {"promote", "run"} \/ UNCHANGED <<pc, revived>>
      BY <2>3 DEF RequestStep, ReqPromote, ReqInsert, ReqCut, Promoted, Inserted, ReqFail
    <3>2. rpc' = [rpc EXCEPT ![q] = "done"]
      BY <2>3 DEF RequestStep, ReqPromote, ReqInsert, ReqCut, Promoted, Inserted, ReqFail
    <3>3. QED
      BY <2>1, <3>1, <3>2
  <2>4. QED
    BY <1>4, <2>2, <2>3
<1>5. CASE \/ \E t \in Turns : AutoStep(t)
           \/ \E c \in Calls \cup {Manual} : ForcedStep(c)
           \/ \E c \in Turns \cup {Manual} : Tell(c)
           \/ \E c \in Compactors : WriteStep(c)
  BY <1>5, CompactionMoves DEF AtWork
<1>6. QED
  BY <1>1, <1>2, <1>3, <1>4, <1>5, NextSplit

(* A manual compaction works beside a turn only in the two ways the code   *)
(* leaves open (compaction.py:1868, 1884).                                 *)
THEOREM ManualRunsWhenIdle == Spec => []ManualWhenIdle
<1>1. Init => IdleInv
  BY DEF Init, IdleInv
<1>2. IdleInv => ManualWhenIdle
  BY DEF IdleInv, ManualWhenIdle, AtEnd
<1>3. QED
  BY <1>1, <1>2, NextIdle, AlwaysTyped, PTL DEF Spec

---------------------------------------------------------------------------
(* Who owns a row.                                                         *)

RowInv ==
    /\ RowsOwned
    /\ pc[Manual] \in AtWork => row[job] = "running"
    /\ pc[Manual] \in AtEnd => row[job] # "queued"

(* A row that is started has its coroutine, or is left running without.    *)
LEMMA StartedRows ==
  ASSUME TypeInv, RowInv, NEW r \in Requests, NEW u \in BOOLEAN,
         StartTask(r, u) \/ NotStarted(r),
         UNCHANGED <<lock, hidden>>, row' = [row EXCEPT ![r] = "running"], missed' = missed
  PROVE  RowInv'
<1> USE DEF TypeInv, TypeOK, RowInv, RowsOwned, AtWork, AtEnd
<1>1. \A p \in Requests : row'[p] = IF p = r THEN "running" ELSE row[p]
  OBVIOUS
<1>2. CASE NotStarted(r)
  <2>1. /\ pc' = pc /\ job' = job
        /\ stuck' = IF job = r THEN stuck ELSE stuck \cup {r}
    BY <1>2 DEF NotStarted
  <2>2. job \in Requests => row'[job] \in {"running", row[job]}
    BY <1>1
  <2>3. /\ pc[Manual] \in AtWork => row'[job] = "running"
        /\ pc[Manual] \in AtEnd => row'[job] # "queued"
    BY <2>2
  <2>4. QED
    BY <1>1, <2>1, <2>3
<1>3. CASE ~NotStarted(r)
  <2>1. /\ pc'[Manual] = "start" /\ job' = r /\ stuck' = stuck
        /\ pc[Manual] = "idle" /\ job = None
    BY <1>3 DEF StartTask, TaskActive, Goto, Compactors
  <2>2. \A p \in Requests : p # None
    BY DEF None, Requests
  <2>3. QED
    BY <1>1, <2>1, <2>2
<1>4. QED
  BY <1>2, <1>3

LEMMA NextRows == TypeInv /\ Placed /\ RowInv /\ [Next]_vars => RowInv'
<1> SUFFICES ASSUME TypeInv, Placed, RowInv, [Next]_vars PROVE RowInv'
  OBVIOUS
<1> USE DEF TypeInv, TypeOK, RowInv, RowsOwned, AtWork, AtEnd, manual, reqs, seen
<1>1. CASE UNCHANGED vars
  BY <1>1 DEF vars
<1>2. CASE SessionStep
  <2>1. CASE TurnEnd
    <3>1. CASE TaskActive
      BY <2>1, <3>1 DEF TurnEnd, TaskActive, Waiting
    <3>2. CASE ~TaskActive
      BY <2>1, <3>2 DEF TurnEnd, TaskActive, Goto, Compactors
    <3>3. QED
      BY <3>1, <3>2
  <2>2. CASE LockSwept
    BY <2>2 DEF LockSwept, Waiting
  <2>3. CASE Restart
    <3>1. /\ row' = row /\ pc'[Manual] = "idle" /\ missed' = missed \cup Waiting
          /\ stuck' = stuck \cup Running
      BY <2>3 DEF Restart, Compactors
    <3>2. QED
      BY <3>1 DEF Waiting, Running
  <2>4. CASE TurnStart
    <3>1. lock' # None
      BY <2>4 DEF TurnStart, None
    <3>2. QED
      BY <2>4, <3>1 DEF TurnStart
  <2>5. CASE Post
    BY <2>5 DEF Post
  <2>9. CASE Bury
    <3>1. \A r \in Requests : r <= hidden => r <= hidden'
      BY <2>9 DEF Bury, Requests
    <3>2. QED
      BY <2>9, <3>1 DEF Bury
  <2>6. ASSUME NEW c \in Compactors, c # Manual, TurnReplies(c) \/ Call(c) PROVE RowInv'
    <3>1. pc'[Manual] = pc[Manual] /\ UNCHANGED <<lock, row, job, hidden, missed, stuck>>
      BY <2>6 DEF TurnReplies, Call, Goto, Compactors
    <3>2. QED
      BY <3>1
  <2>7. Turns \subseteq Compactors \ {Manual} /\ Calls \subseteq Compactors \ {Manual}
    BY CompactionAssumption DEF CompactionAssumption, Compactors, Turns, Calls, Manual
  <2>8. QED
    BY <1>2, <2>1, <2>2, <2>3, <2>4, <2>5, <2>6, <2>7, <2>9 DEF SessionStep
<1>3. CASE DrainStep
  <2>1. CASE DrainCheck
    BY <2>1 DEF DrainCheck, Goto, Compactors
  <2>2. CASE DrainFind
    <3>0. \A r \in Requests : row[r] = "queued" => r \in Queued \/ r <= hidden
      BY DEF Queued, Waiting, Visible, Requests
    <3>1. job = None /\ UNCHANGED <<row, stuck, lock, hidden>>
      BY <2>2 DEF DrainFind
    <3>2. CASE Queued = {}
      BY <2>2, <3>0, <3>1, <3>2 DEF DrainFind, Goto, Compactors
    <3>3. CASE Queued # {}
      <4>1. /\ pc'[Manual] = "found" /\ job' = Last(Queued)
            /\ lock = None => missed' = missed \cup (Queued \ {Last(Queued)})
            /\ lock # None => missed' = missed
        BY <2>2, <3>3 DEF DrainFind, Goto, Compactors
      <4>2. \A r \in Requests : row[r] = "running" => r \in stuck
        BY <3>1 DEF None, Requests
      <4>3. QED
        BY <3>0, <3>1, <4>1, <4>2
    <3>4. QED
      BY <3>2, <3>3
  <2>3. CASE DrainMark
    BY <2>3 DEF DrainMark, Goto, Compactors, None
  <2>4. ASSUME NEW marked \in BOOLEAN, DrainFail(marked) PROVE RowInv'
    <3>1. /\ pc'[Manual] = "idle" /\ job' = None /\ UNCHANGED <<lock, hidden>>
          /\ lock = None => missed' = missed \cup Waiting
          /\ missed \subseteq missed'
      BY <2>4 DEF DrainFail, Goto, Compactors
    <3>2. CASE marked
      <4>1. row' = [row EXCEPT ![job] = "running"] /\ stuck' = stuck \cup {job}
        BY <2>4, <3>2 DEF DrainFail
      <4>2. QED
        BY <3>1, <4>1 DEF Waiting
    <3>3. CASE ~marked
      <4>1. row' = row /\ stuck' = stuck \cup ({job} \cap Running)
        BY <2>4, <3>3 DEF DrainFail
      <4>2. QED
        BY <3>1, <4>1 DEF Waiting, Running
    <3>4. QED
      BY <3>2, <3>3
  <2>5. QED
    BY <1>3, <2>1, <2>2, <2>3, <2>4 DEF DrainStep
<1>4. ASSUME NEW q \in Requests, ReqFind(q) PROVE RowInv'
  <2>1. CASE UNCHANGED <<pc, job, compacted, revived, stuck>>
    BY <1>4, <2>1 DEF ReqFind
  <2>2. CASE ~(UNCHANGED <<pc, job, compacted, revived, stuck>>)
    <3>1. /\ Active # {} /\ row[Last(Active)] = "running" /\ StartTask(Last(Active), TRUE)
          /\ UNCHANGED <<lock, row, hidden, missed>>
      BY <1>4, <2>2 DEF ReqFind
    <3>2. Last(Active) \in Requests
      BY <3>1, LastIsLast, RowSetsTyped
    <3>3. row' = [row EXCEPT ![Last(Active)] = "running"]
      BY <3>1, <3>2
    <3>4. QED
      BY <3>1, <3>2, <3>3, StartedRows
  <2>3. QED
    BY <2>1, <2>2
<1>5. ASSUME NEW q \in Requests, Promoted(q),
             StartTask(found[q], FALSE) \/ NotStarted(found[q])
      PROVE  RowInv'
  <2>1. found[q] \in Requests
    BY <1>5 DEF Promoted, Shape
  <2>2. QED
    BY <1>5, <2>1, StartedRows DEF Promoted
<1>6. ASSUME NEW q \in Requests, Inserted(q),
             IF rpc[q] = "run" THEN StartTask(made + 1, FALSE) \/ NotStarted(made + 1)
             ELSE UNCHANGED <<pc, job, compacted, stuck, revived>>
      PROVE  RowInv'
  <2>1. made + 1 \in Requests
    BY <1>6, RoomForRow DEF Inserted
  <2>2. CASE rpc[q] = "run"
    BY <1>6, <2>1, <2>2, StartedRows DEF Inserted
  <2>3. CASE rpc[q] = "queue"
    <3>1. /\ row' = [row EXCEPT ![made + 1] = "queued"]
          /\ UNCHANGED <<pc, job, stuck, lock, hidden>>
          /\ missed' = IF lock = None /\ pc[Manual] \notin {"drain", "finding"}
                       THEN missed \cup {made + 1} ELSE missed
      BY <1>6, <2>3 DEF Inserted
    <3>2. row[made + 1] = "none" /\ made + 1 # job
      BY <2>1 DEF Requests, Shape
    <3>3. \A r \in Requests : row'[r] = IF r = made + 1 THEN "queued" ELSE row[r]
      BY <2>1, <3>1
    <3>4. pc[Manual] \in AtWork \cup AtEnd => job \in Requests
      OBVIOUS
    <3>5. QED
      BY <2>1, <3>1, <3>2, <3>3, <3>4
  <2>4. QED
    BY <1>6, <2>2, <2>3 DEF Inserted
<1>7. ASSUME NEW q \in Requests, ReqFail(q) PROVE RowInv'
  BY <1>7 DEF ReqFail
<1>8. ASSUME NEW c \in Turns \cup {Manual}, Tell(c) PROVE RowInv'
  <2>1. CASE c = Manual
    <3>1. /\ row' = [row EXCEPT ![job] = Outcome(c)] /\ job' = None /\ pc'[Manual] = "idle"
          /\ Outcome(c) \notin {"queued", "running"}
          /\ pc[Manual] \in AtEnd /\ UNCHANGED <<lock, hidden, missed, stuck>>
      BY <1>8, <2>1 DEF Tell, Record, Outcome, Goto, Compactors
    <3>2. QED
      BY <3>1
  <2>2. CASE c # Manual
    BY <1>8, <2>2 DEF Tell, Record, Goto, Compactors
  <2>3. QED
    BY <2>1, <2>2
<1>9. CASE \/ \E t \in Turns : AutoStep(t)
           \/ \E c \in Calls \cup {Manual} : ForcedStep(c)
           \/ \E c \in Compactors : WriteStep(c) /\ \A b \in BOOLEAN : ~TellFail(c, b)
  <2>1. UNCHANGED <<row, job, stuck>>
    BY <1>9 DEF AutoStep, AutoCheck, AutoRead, AutoWindow, AutoAnnounce, ForcedStep, ForcedRead,
                ForcedWatermark, WriteStep, Write, Regenerate, Commit, CompactionFail
  <2>2. pc'[Manual] # "idle" \/ pc[Manual] = "idle" \/ pc[Manual] \in AtEnd
    BY <1>9, CompactionMoves
  <2>3. QED
    BY <1>9, <2>1, <2>2, CompactionMoves
<1>10. ASSUME NEW c \in Compactors, NEW b \in BOOLEAN, TellFail(c, b) PROVE RowInv'
  <2>1. UNCHANGED <<lock, hidden, missed>>
    BY <1>10 DEF TellFail
  <2>2. CASE c # Manual
    <3>1. UNCHANGED <<row, job, stuck>> /\ pc'[Manual] = pc[Manual]
      BY <1>10, <2>2 DEF TellFail, Record, Goto, Leave, Compactors
    <3>2. QED
      BY <2>1, <3>1
  <2>3. CASE c = Manual
    <3>1. /\ pc[Manual] \in AtEnd /\ pc'[Manual] \notin AtWork
          /\ row' = IF b THEN [row EXCEPT ![job] = Outcome(c)] ELSE row
          /\ Outcome(c) \notin {"queued", "running"}
      BY <1>10, <2>3 DEF TellFail, Record, Outcome, Goto, Leave, Compactors, Placed
    <3>2. \/ UNCHANGED <<job, stuck>>
          \/ /\ job' = None /\ pc'[Manual] = "idle"
             /\ stuck' = IF b THEN stuck ELSE stuck \cup {job}
      BY <1>10, <2>3 DEF TellFail, Leave, Goto, Compactors
    <3>3. job \in Requests /\ row[job] # "queued"
      BY <3>1
    <3>4. \A r \in Requests : row'[r] = IF b /\ r = job THEN Outcome(c) ELSE row[r]
      BY <3>1, <3>3
    <3>5. CASE UNCHANGED <<job, stuck>>
      BY <2>1, <3>1, <3>3, <3>4, <3>5
    <3>6. CASE job' = None /\ pc'[Manual] = "idle"
               /\ stuck' = IF b THEN stuck ELSE stuck \cup {job}
      BY <2>1, <3>1, <3>3, <3>4, <3>6
    <3>7. QED
      BY <3>2, <3>5, <3>6
  <2>4. QED
    BY <2>2, <2>3
<1>11. QED
  BY <1>1, <1>2, <1>3, <1>4, <1>5, <1>6, <1>7, <1>8, <1>9, <1>10, NextSplit
     DEF RequestStep, ReqPromote, ReqInsert, ReqCut, WriteStep

(* Every row that is queued or running has somebody who will see to it, or *)
(* is one of those the code loses sight of: behind a hundred newer         *)
(* messages (compaction.py:400), or in the ways of 1842, 1884 and 1932.    *)
THEOREM RowsAreOwned == Spec => []RowsOwned
<1>1. Init => RowInv
  BY DEF Init, RowInv, RowsOwned, AtWork, AtEnd, Compactors
<1>2. RowInv => RowsOwned
  BY DEF RowInv
<1>3. QED
  BY <1>1, <1>2, NextRows, AlwaysTyped, PTL DEF Spec

---------------------------------------------------------------------------
(* What a row says.                                                        *)

Done(r) == <<"row", r>> \in compacted
Told(r) == <<"row", r>> \in compacted => <<"row", r>> \in mistold

TruthInv ==
    /\ \A r \in Requests : /\ row[r] = "completed" => Done(r)
                           /\ row[r] \in {"noop", "failed"} => Told(r)
    /\ pc[Manual] \in AtWork \cup {"noop"} => ~Done(job)
    /\ pc[Manual] = "tell" => Done(job)
    /\ pc[Manual] \in {"sad", "last"} => Told(job)

DoneAuto(t) == <<"note", t>> \in compacted
ToldAuto(t) == <<"note", t>> \in compacted => <<"note", t>> \in mistold

NoteTrue(t) ==
    /\ note[t] = "completed" => DoneAuto(t)
    /\ pc[t] = "done" /\ note[t] # "completed" => ToldAuto(t)
    /\ pc[t] \in {"write", "regen", "ready", "tell"} => note[t] = "running"
    /\ pc[t] \notin {"tell", "sad", "last", "done"} => ~DoneAuto(t)
    /\ pc[t] = "tell" => DoneAuto(t)
    /\ pc[t] \in {"sad", "last"} => ToldAuto(t)

NoteInv == \A t \in Turns : NoteTrue(t)

LEMMA InitTruth == Init => TruthInv /\ NoteInv
BY DEF Init, TruthInv, NoteInv, NoteTrue, Done, Told, DoneAuto, ToldAuto, AtWork, Compactors

LEMMA TruthIsTold == TruthInv /\ NoteInv => RowTellsTruth
BY DEF TruthInv, NoteInv, NoteTrue, Done, Told, DoneAuto, ToldAuto, RowTellsTruth

LEMMA StartedTruth ==
  ASSUME TypeInv, RowInv, TruthInv, NEW r \in Requests, NEW u \in BOOLEAN,
         StartTask(r, u) \/ NotStarted(r),
         row' = [row EXCEPT ![r] = "running"], mistold' = mistold
  PROVE  TruthInv'
<1> USE DEF TypeInv, TypeOK, TruthInv, Done, Told, AtWork
<1>1. \A p \in Requests : row'[p] = IF p = r THEN "running" ELSE row[p]
  OBVIOUS
<1>2. CASE NotStarted(r)
  BY <1>1, <1>2 DEF NotStarted
<1>3. CASE ~NotStarted(r)
  <2>1. /\ pc'[Manual] = "start" /\ job' = r /\ compacted' = compacted \ {<<"row", r>>}
    BY <1>3 DEF StartTask, TaskActive, Goto, Compactors
  <2>2. QED
    BY <1>1, <2>1
<1>4. QED
  BY <1>2, <1>3

(* Steps that touch neither a row nor what was committed.                  *)
LEMMA TruthKept ==
  ASSUME TypeInv, TruthInv, UNCHANGED <<row, compacted>>, mistold \subseteq mistold',
         \/ job' = job /\ pc'[Manual] = pc[Manual]
         \/ pc'[Manual] \in {"idle", "drain", "finding", "found"}
         \/ job' = job /\ pc[Manual] \in AtWork /\ pc'[Manual] \in AtWork \cup {"noop", "sad"}
  PROVE  TruthInv'
BY DEF TypeInv, TypeOK, TruthInv, Done, Told, AtWork

LEMMA NextTruth == TypeInv /\ Placed /\ RowInv /\ TruthInv /\ [Next]_vars => TruthInv'
<1> SUFFICES ASSUME TypeInv, Placed, RowInv, TruthInv, [Next]_vars PROVE TruthInv'
  OBVIOUS
<1> USE DEF TypeInv, TypeOK, manual, reqs, seen, told, Goto, Leave
<1>0. /\ Manual \in Compactors /\ Manual \notin Turns /\ Manual \notin Calls
      /\ Turns \subseteq Compactors /\ Calls \subseteq Compactors
  BY CompactionAssumption DEF CompactionAssumption, Compactors, Turns, Calls, Manual
<1>1. CASE UNCHANGED vars
  BY <1>1, TruthKept DEF vars
<1>2. CASE SessionStep
  <2>1. CASE Restart
    BY <1>0, <2>1, TruthKept DEF Restart
  <2>2. CASE TurnEnd
    BY <1>0, <2>2, TruthKept DEF TurnEnd
  <2>3. CASE Post \/ Bury \/ TurnStart \/ LockSwept
    BY <2>3, TruthKept DEF Post, Bury, TurnStart, LockSwept
  <2>4. ASSUME NEW c \in Compactors, c # Manual, TurnReplies(c) \/ Call(c) PROVE TruthInv'
    <3>1. pc'[Manual] = pc[Manual] /\ UNCHANGED <<row, job, compacted, mistold>>
      BY <1>0, <2>4 DEF TurnReplies, Call
    <3>2. QED
      BY <3>1, TruthKept
  <2>5. QED
    BY <1>0, <1>2, <2>1, <2>2, <2>3, <2>4 DEF SessionStep
<1>3. CASE DrainStep
  <2>1. CASE DrainCheck \/ DrainFind \/ DrainFail(FALSE)
    <3>1. UNCHANGED <<row, compacted, mistold>>
      BY <2>1 DEF DrainCheck, DrainFind, DrainFail
    <3>2. pc'[Manual] \in {"idle", "drain", "finding", "found"}
      BY <1>0, <2>1 DEF DrainCheck, DrainFind, DrainFail
    <3>3. QED
      BY <3>1, <3>2, TruthKept
  <2>4. CASE DrainFail(TRUE)
    <3>1. /\ row' = [row EXCEPT ![job] = "running"] /\ UNCHANGED <<compacted, mistold>>
          /\ pc'[Manual] = "idle"
      BY <1>0, <2>4 DEF DrainFail
    <3>2. QED
      BY <3>1 DEF TruthInv, Done, Told, AtWork
  <2>2. CASE DrainMark
    <3>1. /\ row' = [row EXCEPT ![job] = "running"] /\ compacted' = compacted \ {<<"row", job>>}
          /\ pc'[Manual] = "start" /\ UNCHANGED <<job, mistold>> /\ job \in Requests
      BY <1>0, <2>2 DEF DrainMark, None
    <3>2. QED
      BY <3>1 DEF TruthInv, Done, Told, AtWork
  <2>3. QED
    BY <1>3, <2>1, <2>2, <2>4 DEF DrainStep
<1>4. ASSUME NEW q \in Requests, ReqFind(q) PROVE TruthInv'
  <2>1. CASE UNCHANGED <<pc, job, compacted, revived, stuck>>
    BY <1>4, <2>1, TruthKept DEF ReqFind
  <2>2. CASE ~(UNCHANGED <<pc, job, compacted, revived, stuck>>)
    <3>1. /\ Active # {} /\ row[Last(Active)] = "running" /\ StartTask(Last(Active), TRUE)
          /\ UNCHANGED <<row, mistold>>
      BY <1>4, <2>2 DEF ReqFind
    <3>2. Last(Active) \in Requests
      BY <3>1, LastIsLast, RowSetsTyped
    <3>3. row' = [row EXCEPT ![Last(Active)] = "running"]
      BY <3>1, <3>2
    <3>4. QED
      BY <3>1, <3>2, <3>3, StartedTruth
  <2>3. QED
    BY <2>1, <2>2
<1>5. ASSUME NEW q \in Requests, Promoted(q),
             StartTask(found[q], FALSE) \/ NotStarted(found[q])
      PROVE  TruthInv'
  <2>1. found[q] \in Requests
    BY <1>5 DEF Promoted, Shape
  <2>2. QED
    BY <1>5, <2>1, StartedTruth DEF Promoted
<1>6. ASSUME NEW q \in Requests, Inserted(q),
             IF rpc[q] = "run" THEN StartTask(made + 1, FALSE) \/ NotStarted(made + 1)
             ELSE UNCHANGED <<pc, job, compacted, stuck, revived>>
      PROVE  TruthInv'
  <2>1. made + 1 \in Requests
    BY <1>6, RoomForRow DEF Inserted
  <2>2. CASE rpc[q] = "run"
    BY <1>6, <2>1, <2>2, StartedTruth DEF Inserted
  <2>3. CASE rpc[q] = "queue"
    <3>1. /\ row' = [row EXCEPT ![made + 1] = "queued"]
          /\ UNCHANGED <<pc, job, compacted, mistold>>
      BY <1>6, <2>3 DEF Inserted
    <3>2. QED
      BY <2>1, <3>1 DEF TruthInv, Done, Told
  <2>4. QED
    BY <1>6, <2>2, <2>3 DEF Inserted
<1>7. ASSUME NEW q \in Requests, ReqFail(q) PROVE TruthInv'
  BY <1>7, TruthKept DEF ReqFail
<1>8. ASSUME NEW t \in Turns, AutoStep(t) PROVE TruthInv'
  <2>1. UNCHANGED <<row, job, compacted, mistold>>
    BY <1>8 DEF AutoStep, AutoCheck, AutoRead, AutoWindow, AutoAnnounce
  <2>2. \E p \in Point : pc' = [pc EXCEPT ![t] = p]
    BY <1>8 DEF AutoStep, AutoCheck, AutoRead, AutoWindow, AutoAnnounce, Point
  <2>3. QED
    BY <1>0, <2>1, <2>2, TruthKept
<1>9. ASSUME NEW c \in Calls \cup {Manual}, ForcedStep(c) PROVE TruthInv'
  <2>1. UNCHANGED <<row, job, compacted, mistold>> /\ pc[c] \in AtWork
    BY <1>9 DEF ForcedStep, ForcedRead, ForcedWatermark, AtWork
  <2>2. \E p \in {"flush", "write", IF c = Manual THEN "noop" ELSE "done"} :
          pc' = [pc EXCEPT ![c] = p]
    BY <1>9 DEF ForcedStep, ForcedRead, ForcedWatermark
  <2>3. pc'[Manual] = pc[Manual]
        \/ (pc[Manual] \in AtWork /\ pc'[Manual] \in AtWork \cup {"noop"})
    BY <1>0, <2>1, <2>2 DEF AtWork
  <2>4. QED
    BY <2>1, <2>3, TruthKept
<1>10. ASSUME NEW c \in Turns \cup {Manual}, Tell(c) PROVE TruthInv'
  <2>1. UNCHANGED <<compacted, mistold>> /\ pc[c] \in {"tell", "noop", "sad", "last"}
    BY <1>10 DEF Tell
  <2>2. CASE c = Manual
    <3>1. row' = [row EXCEPT ![job] = Outcome(c)] /\ pc'[Manual] = "idle"
      BY <1>0, <1>10, <2>2 DEF Tell, Record
    <3>2. QED
      BY <2>1, <2>2, <3>1 DEF TruthInv, Done, Told, AtWork, Outcome
  <2>3. CASE c # Manual
    BY <1>0, <1>10, <2>1, <2>3, TruthKept DEF Tell, Record
  <2>4. QED
    BY <2>2, <2>3
<1>11. ASSUME NEW c \in Compactors, NEW regenerate \in BOOLEAN,
              Write(c, regenerate) \/ Regenerate(c)
       PROVE  TruthInv'
  <2>1. /\ UNCHANGED <<row, job, compacted, mistold>> /\ pc[c] \in AtWork
        /\ \E p \in {"regen", "ready"} : pc' = [pc EXCEPT ![c] = p]
    BY <1>11 DEF Write, Regenerate, AtWork
  <2>2. QED
    BY <1>0, <2>1, TruthKept DEF AtWork
<1>12. ASSUME NEW c \in Compactors, Commit(c) PROVE TruthInv'
  <2>1. UNCHANGED <<row, job, mistold>> /\ pc[c] = "ready"
    BY <1>12 DEF Commit
  <2>2. CASE c = Manual
    <3>1. pc'[Manual] = "tell" /\ compacted' = compacted \cup {<<"row", job>>}
      BY <1>0, <1>12, <2>2 DEF Commit
    <3>2. row[job] = "running"
      BY <2>1, <2>2 DEF RowInv, AtWork
    <3>3. QED
      BY <2>1, <3>1, <3>2 DEF TruthInv, Done, Told, AtWork
  <2>3. CASE c # Manual
    <3>1. pc'[Manual] = pc[Manual]
      BY <1>0, <1>12, <2>3 DEF Commit
    <3>2. \A r \in Requests \cup {None} : <<"row", r>> \in compacted' <=> <<"row", r>> \in compacted
      BY <1>12, <2>3 DEF Commit
    <3>3. QED
      BY <2>1, <3>1, <3>2 DEF TruthInv, Done, Told
  <2>4. QED
    BY <2>2, <2>3
<1>13. ASSUME NEW c \in Compactors, CompactionFail(c) PROVE TruthInv'
  <2>1. /\ UNCHANGED <<row, job, compacted, mistold>> /\ pc[c] \in AtWork
        /\ pc' = [pc EXCEPT ![c] = IF c \in Calls THEN "done" ELSE "sad"]
    BY <1>13 DEF CompactionFail, AtWork
  <2>2. QED
    BY <1>0, <2>1, TruthKept
<1>14. ASSUME NEW c \in Compactors, NEW b \in BOOLEAN, TellFail(c, b) PROVE TruthInv'
  <2>1. UNCHANGED compacted /\ mistold \subseteq mistold'
    BY <1>14 DEF TellFail
  <2>2. CASE c # Manual
    <3>1. UNCHANGED <<row, job>> /\ pc'[Manual] = pc[Manual]
      BY <1>0, <1>14, <2>2 DEF TellFail, Record
    <3>2. QED
      BY <2>1, <3>1, TruthKept
  <2>5. c = Manual => /\ pc[c] \in {"tell", "noop", "sad", "last"}
                      /\ row' = IF b THEN [row EXCEPT ![job] = Outcome(c)] ELSE row
    BY <1>14 DEF TellFail, Record, Placed
  <2>3. CASE c = Manual /\ pc[c] = "tell"
    <3>1. mistold' = mistold \cup {<<"row", job>>} /\ pc'[Manual] = "last" /\ job' = job
      BY <1>0, <1>14, <2>3 DEF TellFail
    <3>2. QED
      BY <2>1, <2>3, <2>5, <3>1 DEF TruthInv, Done, Told, AtWork, Outcome
  <2>4. CASE c = Manual /\ pc[c] # "tell"
    <3>1. pc'[Manual] = "idle"
      BY <1>0, <1>14, <2>4 DEF TellFail
    <3>2. QED
      BY <2>1, <2>4, <2>5, <3>1 DEF TruthInv, Done, Told, AtWork, Outcome
  <2>6. QED
    BY <2>2, <2>3, <2>4
<1>15. QED
  BY <1>1, <1>2, <1>3, <1>4, <1>5, <1>6, <1>7, <1>8, <1>9, <1>10, <1>11, <1>12, <1>13, <1>14,
     NextSplit DEF RequestStep, ReqPromote, ReqInsert, ReqCut, WriteStep

LEMMA NoteKept ==
  ASSUME NEW t \in Turns, NoteTrue(t), note'[t] = note[t], pc'[t] = pc[t],
         DoneAuto(t)' <=> DoneAuto(t), mistold \subseteq mistold'
  PROVE  NoteTrue(t)'
BY DEF NoteTrue, DoneAuto, ToldAuto

(* Steps that leave every automatic compaction where it is.                *)
LEMMA NotesApart ==
  ASSUME NoteInv, note' = note, \A t \in Turns : pc'[t] = pc[t],
         \A t \in Turns : DoneAuto(t)' <=> DoneAuto(t), mistold \subseteq mistold'
  PROVE  NoteInv'
BY NoteKept DEF NoteInv

LEMMA NextNotes == TypeInv /\ Placed /\ NoteInv /\ [Next]_vars => NoteInv'
<1> SUFFICES ASSUME TypeInv, Placed, NoteInv, [Next]_vars PROVE NoteInv'
  OBVIOUS
<1> USE DEF TypeInv, TypeOK, manual, reqs, seen, told, Goto, Leave
<1>0. /\ Manual \in Compactors /\ Manual \notin Turns /\ Manual \notin Calls
      /\ Turns \subseteq Compactors /\ Calls \subseteq Compactors
      /\ \A t \in Turns : t \notin Calls
  BY CompactionAssumption DEF CompactionAssumption, Compactors, Turns, Calls, Manual
<1>1. CASE UNCHANGED vars
  BY <1>1, NotesApart DEF vars, DoneAuto
<1>2. CASE SessionStep
  <2>1. CASE Restart
    <3>1. ASSUME NEW t \in Turns PROVE NoteTrue(t)'
      <4>1. /\ pc'[t] = (IF pc[t] = "idle" THEN "idle" ELSE "done")
            /\ UNCHANGED <<note, compacted>> /\ mistold \subseteq mistold'
        BY <1>0, <2>1, <3>1 DEF Restart
      <4>2. note[t] = "running" /\ DoneAuto(t) => <<"note", t>> \in mistold'
        BY <2>1, <3>1 DEF Restart, DoneAuto
      <4>3. QED
        BY <3>1, <4>1, <4>2 DEF NoteInv, NoteTrue, DoneAuto, ToldAuto
    <3>2. QED
      BY <3>1 DEF NoteInv
  <2>2. CASE Post \/ Bury \/ TurnStart \/ LockSwept
    BY <2>2, NotesApart DEF Post, Bury, TurnStart, LockSwept, DoneAuto
  <2>3. CASE TurnEnd
    <3>1. UNCHANGED <<note, compacted, mistold>> /\ \A t \in Turns : pc'[t] = pc[t]
      BY <1>0, <2>3 DEF TurnEnd
    <3>2. QED
      BY <3>1, NotesApart DEF DoneAuto
  <2>4. ASSUME NEW t \in Turns, TurnReplies(t) PROVE NoteInv'
    <3>1. /\ UNCHANGED <<note, compacted, mistold>> /\ pc[t] = "idle" /\ pc'[t] = "check"
          /\ \A s \in Turns \ {t} : pc'[s] = pc[s]
      BY <1>0, <2>4 DEF TurnReplies
    <3>2. QED
      BY <3>1, NoteKept DEF NoteInv, NoteTrue, DoneAuto, ToldAuto
  <2>5. ASSUME NEW c \in Calls, Call(c) PROVE NoteInv'
    <3>1. UNCHANGED <<note, compacted, mistold>> /\ \A t \in Turns : pc'[t] = pc[t]
      BY <1>0, <2>5 DEF Call
    <3>2. QED
      BY <3>1, NotesApart DEF DoneAuto
  <2>6. QED
    BY <1>2, <2>1, <2>2, <2>3, <2>4, <2>5 DEF SessionStep
<1>3. CASE DrainStep
  <2>1. note' = note /\ mistold' = mistold /\ \A t \in Turns : pc'[t] = pc[t]
    BY <1>0, <1>3 DEF DrainStep, DrainCheck, DrainFind, DrainMark, DrainFail
  <2>2. \A t \in Turns : DoneAuto(t)' <=> DoneAuto(t)
    BY <1>3 DEF DrainStep, DrainCheck, DrainFind, DrainMark, DrainFail, DoneAuto
  <2>3. QED
    BY <2>1, <2>2, NotesApart
<1>4. ASSUME NEW q \in Requests, ReqFind(q) \/ RequestStep(q) \/ ReqCut(q) \/ ReqFail(q)
      PROVE  NoteInv'
  <2>1. /\ note' = note /\ mistold' = mistold
        /\ pc' = pc \/ pc' = [pc EXCEPT ![Manual] = "start"]
        /\ compacted' = compacted \/ \E r : compacted' = compacted \ {<<"row", r>>}
    BY <1>4 DEF ReqFind, RequestStep, ReqPromote, ReqInsert, ReqCut, Promoted, Inserted, ReqFail,
                StartTask, NotStarted
  <2>2. \A t \in Turns : pc'[t] = pc[t]
    BY <1>0, <2>1
  <2>3. \A t \in Turns : DoneAuto(t)' <=> DoneAuto(t)
    BY <2>1 DEF DoneAuto
  <2>4. QED
    BY <2>1, <2>2, <2>3, NotesApart
<1>5. ASSUME NEW t \in Turns, AutoStep(t) PROVE NoteInv'
  <2>1. /\ UNCHANGED <<compacted, mistold>>
        /\ \A s \in Turns \ {t} : pc'[s] = pc[s] /\ note'[s] = note[s]
    BY <1>0, <1>5 DEF AutoStep, AutoCheck, AutoRead, AutoWindow, AutoAnnounce
  <2>2. /\ pc[t] \in {"check", "read", "window", "announce"}
        /\ \/ note' = note /\ pc'[t] \in {"read", "window", "announce", "done"}
           \/ note'[t] = "running" /\ pc'[t] = "write"
    BY <1>0, <1>5 DEF AutoStep, AutoCheck, AutoRead, AutoWindow, AutoAnnounce
  <2>3. NoteTrue(t)'
    BY <2>1, <2>2 DEF NoteInv, NoteTrue, DoneAuto, ToldAuto
  <2>4. QED
    BY <2>1, <2>3, NoteKept DEF NoteInv, DoneAuto
<1>6. ASSUME NEW c \in Calls \cup {Manual}, ForcedStep(c) PROVE NoteInv'
  <2>1. UNCHANGED <<note, compacted, mistold>> /\ \E p \in Point : pc' = [pc EXCEPT ![c] = p]
    BY <1>6 DEF ForcedStep, ForcedRead, ForcedWatermark, Point
  <2>2. QED
    BY <1>0, <2>1, NotesApart DEF DoneAuto
<1>7. ASSUME NEW c \in Turns \cup {Manual}, Tell(c) PROVE NoteInv'
  <2>1. UNCHANGED <<compacted, mistold>> /\ pc[c] \in {"tell", "noop", "sad", "last"}
    BY <1>7 DEF Tell
  <2>2. CASE c = Manual
    BY <1>0, <1>7, <2>1, <2>2, NotesApart DEF Tell, Record, DoneAuto
  <2>3. CASE c # Manual
    <3>1. /\ note' = [note EXCEPT ![c] = Outcome(c)]
          /\ pc' = [pc EXCEPT ![c] = "done"] /\ c \in Turns
      BY <1>7, <2>3 DEF Tell, Record
    <3>2. pc[c] \in {"tell", "sad", "last"}
      BY <2>1, <3>1 DEF Placed
    <3>3. NoteTrue(c)'
      BY <1>0, <2>1, <3>1, <3>2 DEF NoteInv, NoteTrue, DoneAuto, ToldAuto, Outcome
    <3>4. \A s \in Turns \ {c} : pc'[s] = pc[s] /\ note'[s] = note[s]
      BY <1>0, <3>1
    <3>5. QED
      BY <2>1, <3>3, <3>4, NoteKept DEF NoteInv, DoneAuto
  <2>4. QED
    BY <2>2, <2>3
<1>8. ASSUME NEW c \in Compactors, WriteStep(c), c \notin Turns PROVE NoteInv'
  <2>1. /\ note' = note /\ mistold \subseteq mistold'
        /\ \E p \in Point : pc' = [pc EXCEPT ![c] = p]
    <3>1. ASSUME NEW b \in BOOLEAN, TellFail(c, b) PROVE note' = note
      BY <1>0, <1>8, <3>1 DEF TellFail, Record, Placed, Compactors
    <3>2. QED
      BY <1>8, <3>1 DEF WriteStep, Write, Regenerate, Commit, CompactionFail, TellFail, Point
  <2>2. compacted' = compacted \/ compacted' = compacted \cup {<<"row", job>>}
    BY <1>8 DEF WriteStep, Write, Regenerate, Commit, CompactionFail, TellFail
  <2>3. \A t \in Turns : DoneAuto(t)' <=> DoneAuto(t)
    BY <2>2 DEF DoneAuto
  <2>4. QED
    BY <1>0, <1>8, <2>1, <2>3, NotesApart
<1>9. ASSUME NEW t \in Turns, WriteStep(t) PROVE NoteInv'
  <2>1. /\ \A s \in Turns \ {t} : pc'[s] = pc[s] /\ note'[s] = note[s]
        /\ compacted' \in {compacted, compacted \cup {<<"note", t>>}}
        /\ mistold \subseteq mistold'
    BY <1>0, <1>9 DEF WriteStep, Write, Regenerate, Commit, CompactionFail, TellFail, Record
  <2>2. \A s \in Turns \ {t} : DoneAuto(s)' <=> DoneAuto(s)
    BY <2>1 DEF DoneAuto
  <2>3. ASSUME \A b \in BOOLEAN : ~TellFail(t, b) PROVE NoteTrue(t)'
    <3>1. /\ note' = note
          /\ \/ /\ pc[t] \in {"write", "regen"} /\ pc'[t] \in {"regen", "ready"}
                /\ compacted' = compacted
             \/ /\ pc[t] = "ready" /\ pc'[t] = "tell" /\ <<"note", t>> \in compacted'
             \/ /\ pc[t] \in {"write", "ready"} /\ pc'[t] = "sad" /\ compacted' = compacted
      BY <1>0, <1>9, <2>3 DEF WriteStep, Write, Regenerate, Commit, CompactionFail, Placed
    <3>2. QED
      BY <2>1, <3>1 DEF NoteInv, NoteTrue, DoneAuto, ToldAuto
  <2>6. ASSUME NEW b \in BOOLEAN, TellFail(t, b) PROVE NoteTrue(t)'
    <3>1. /\ compacted' = compacted
          /\ note'[t] \in {note[t], Outcome(t)}
          /\ \/ pc[t] = "tell" /\ pc'[t] = "last" /\ <<"note", t>> \in mistold'
             \/ pc[t] = "sad" /\ pc'[t] = "last"
             \/ pc[t] \in {"announce", "last"} /\ pc'[t] = "done"
      BY <1>0, <2>6 DEF TellFail, Record, Placed
    <3>2. QED
      <4>1. NoteTrue(t)
        BY DEF NoteInv
      <4>2. pc[t] = "tell" => Outcome(t) = "completed"
        BY DEF Outcome
      <4>3. pc[t] \in {"announce", "sad", "last"} => Outcome(t) # "completed"
        BY DEF Outcome
      <4>4. mistold \subseteq mistold'
        BY <2>1
      <4>5. QED
        BY <3>1, <4>1, <4>2, <4>3, <4>4 DEF NoteTrue, DoneAuto, ToldAuto
  <2>4. NoteTrue(t)'
    <3>1. CASE \E b \in BOOLEAN : TellFail(t, b)
      <4>1. PICK b \in BOOLEAN : TellFail(t, b)
        BY <3>1
      <4>2. QED
        BY <2>6, <4>1
    <3>2. CASE ~\E b \in BOOLEAN : TellFail(t, b)
      BY <2>3, <3>2
    <3>3. QED
      BY <3>1, <3>2
  <2>5. QED
    BY <2>1, <2>2, <2>4, NoteKept DEF NoteInv
<1>10. QED
  BY <1>1, <1>2, <1>3, <1>4, <1>5, <1>6, <1>7, <1>8, <1>9, NextSplit

(* A row says what became of its run, unless that could not be written     *)
(* after the commit (compaction.py:1708, 1807).                            *)
THEOREM RowsTellTruth == Spec => []RowTellsTruth
<1>1. Init => RowInv
  BY DEF Init, RowInv, RowsOwned, AtWork, AtEnd, Compactors
<1>2. QED
  BY <1>1, InitTruth, TruthIsTold, NextRows, NextTruth, NextNotes, AlwaysTyped, PTL DEF Spec
=============================================================================
