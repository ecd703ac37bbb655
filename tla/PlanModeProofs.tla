--------------------------- MODULE PlanModeProofs ---------------------------
(* Theorems about PlanMode, for any plans, steps, handlers and bounds.     *)
EXTENDS PlanMode, TLAPS

USE PlanAssumption

(* Texts are named by their plan and a number.                             *)
Texts == Slugs \X Nat

LEMMA BlankTyped == Blank \in Meta
  BY DEF Blank, Meta, Mode, Status

(* Metadata with another mode and status, and with an outcome recorded.    *)
LEMMA MetaWith ==
  ASSUME NEW m \in Meta, NEW mode \in Mode, NEW status \in Status
  PROVE  /\ [m EXCEPT !.mode = mode] \in Meta
         /\ [m EXCEPT !.mode = mode].accepted = m.accepted
         /\ [m EXCEPT !.mode = mode, !.status = status] \in Meta
  BY DEF Meta

LEMMA AccountedTyped ==
  ASSUME NEW m \in Meta, turn \in Nat
  PROVE  /\ Accounted(m) \in Meta
         /\ Accounted(m).accepted = m.accepted /\ Accounted(m).path = m.path
<1>1. PICK o \in SUBSET Nat : Accounted(m) = [m EXCEPT !.outcomes = o, !.pending = 0]
  <2>1. (m.outcomes \cup {IF m.pending # 0 THEN m.pending ELSE turn}) \in SUBSET Nat
    BY DEF Meta
  <2>2. QED
    BY <2>1 DEF Accounted
<1>2. [m EXCEPT !.outcomes = o, !.pending = 0] \in Meta
  BY DEF Meta
<1>3. /\ [m EXCEPT !.outcomes = o, !.pending = 0].accepted = m.accepted
      /\ [m EXCEPT !.outcomes = o, !.pending = 0].path = m.path
  BY DEF Meta
<1>4. QED
  BY <1>1, <1>2, <1>3

LEMMA ModeOfTyped ==
  ASSUME NEW p \in Plan
  PROVE  ModeOf(p) \in Mode /\ p.status \in Status
  BY DEF ModeOf, Plan, Status, Mode

LEMMA AdvanceTyped ==
  ASSUME NEW steps \in [Steps -> StepStatus]
  PROVE  Advance(steps) \in [Steps -> StepStatus]
  BY DEF Advance, StepStatus

LEMMA WithStepTyped ==
  ASSUME NEW p \in Plan, NEW s \in Steps, NEW st \in StepStatus
  PROVE  /\ WithStep(p, s, st) \in Plan
         /\ WithStep(p, s, st).rev = p.rev /\ WithStep(p, s, st).text = p.text
<1> DEFINE steps == [p.steps EXCEPT ![s] = st]
<1>1. steps \in [Steps -> StepStatus] /\ Advance(steps) \in [Steps -> StepStatus]
  BY AdvanceTyped DEF Plan
<1>2. [r \in Steps |-> IF r # s /\ steps[r] = "in_progress" THEN "pending" ELSE steps[r]]
        \in [Steps -> StepStatus]
  BY <1>1 DEF StepStatus
<1> HIDE DEF steps
<1>3. CASE st = "blocked"
  BY <1>1, <1>3 DEF WithStep, Plan, Status, steps
<1>4. CASE st = "done"
  BY <1>1, <1>4 DEF WithStep, Plan, Status, steps
<1>5. CASE st = "in_progress"
  BY <1>2, <1>5 DEF WithStep, Plan, Status, steps
<1>6. CASE st = "pending"
  BY <1>1, <1>6 DEF WithStep, Plan, Status, steps
<1>7. QED
  BY <1>3, <1>4, <1>5, <1>6 DEF StepStatus

LEMMA RedraftTyped ==
  ASSUME NEW p \in Plan, NEW sound \in BOOLEAN, NEW steps \in [Steps -> StepStatus]
  PROVE  /\ Redraft(p, sound, steps) \in Plan
         /\ Redraft(p, sound, steps).rev = p.rev + 1
<1>1. p.rev \in Nat /\ p.text \in Nat
  BY DEF Plan
<1>2. PICK r, t \in Nat : r = p.rev + 1 /\ t = p.text + 1
  BY <1>1
<1>3. Redraft(p, sound, steps)
        = [p EXCEPT !.rev = r, !.text = t, !.status = "draft", !.sound = sound, !.steps = steps]
  BY <1>2 DEF Redraft, Plan
<1>4. QED
  BY <1>2, <1>3 DEF Plan, Status

(* What a handler notes or saves is well typed if its plan and metadata    *)
(* are.                                                                    *)
LEMMA NoteTyped ==
  ASSUME TypeOK, NEW h \in Hands, NEW m \in Meta, Note(h, m),
         approved' \in SUBSET Texts, reused' \in BOOLEAN
  PROVE  TypeOK'
  BY DEF TypeOK, Note, store, turns, flaws, bounds, Point, Texts

LEMMA SaveTyped ==
  ASSUME TypeOK, NEW h \in Hands, NEW s \in Slugs, NEW p \in Plan, NEW m \in Meta,
         Save(h, s, p, m), approved' \in SUBSET Texts, reused' \in BOOLEAN
  PROVE  TypeOK'
<1>1. [m EXCEPT !.path = s, !.rev = p.rev, !.status = p.status] \in Meta
  BY DEF Meta, Plan
<1> DEFINE c == [m EXCEPT !.path = s, !.rev = p.rev, !.status = p.status]
<1>2. copy' = [copy EXCEPT ![h] = c] /\ c \in Meta
  BY <1>1 DEF Save
<1> HIDE DEF c
<1>3. QED
  BY <1>2 DEF TypeOK, Save, turns, bounds, Point, Texts

LEMMA LeaveTyped ==
  ASSUME TypeOK, NEW h \in Hands, Leave(h)
  PROVE  pc' \in [Hands -> Point] /\ copy' \in [Hands -> Meta] /\ phase' \in {"no", "run", "mark"}
  BY BlankTyped DEF TypeOK, Leave, Point

LEMMA InitTyped == Init => TypeOK
<1> SUFFICES ASSUME Init PROVE TypeOK
  OBVIOUS
<1>1. AllPending \in [Steps -> StepStatus]
  BY DEF AllPending, StepStatus
<1>2. [rev |-> 0, status |-> "draft", steps |-> AllPending, sound |-> FALSE, text |-> 0] \in Plan
  BY <1>1 DEF Plan, Status
<1>3. file \in [Slugs -> Plan]
  BY <1>2 DEF Init
<1>4. QED
  BY <1>3, BlankTyped DEF Init, TypeOK, Point

(* One case per action.                                                    *)
LEMMA NextTyped == TypeOK /\ [Next]_vars => TypeOK'
<1> SUFFICES ASSUME TypeOK, [Next]_vars PROVE TypeOK'
  OBVIOUS
<1>0. /\ \A h \in Hands : copy[h] \in Meta
      /\ \A s \in Slugs : file[s] \in Plan
      /\ approved \in SUBSET Texts /\ reused \in BOOLEAN
  BY DEF TypeOK, Texts
<1>p. \A h \in Hands : HasPlan(copy[h]) =>
        copy[h].path \in Slugs /\ PlanOf(copy[h]) \in Plan
  BY <1>0 DEF HasPlan, PlanOf, Meta
<1>1. ASSUME NEW h \in Hands, Read(h) PROVE TypeOK'
  BY <1>1 DEF Read, TypeOK, store, turns, flaws, plans, Point
<1>2. ASSUME NEW h \in Hands, Refuse(h) PROVE TypeOK'
  BY <1>2, LeaveTyped DEF Refuse, TypeOK, store, flaws, plans, bounds
<1>3. ASSUME NEW h \in Hands, Commit(h) PROVE TypeOK'
  BY <1>0, <1>3, LeaveTyped DEF Commit, TypeOK, plans, bounds
<1>4. ASSUME NEW h \in Hands, Fail(h) PROVE TypeOK'
  BY <1>4, LeaveTyped DEF Fail, TypeOK, store, plans
<1>5. CASE Restart
  BY <1>5, BlankTyped DEF Restart, TypeOK, store, plans, Point
<1>6. ASSUME NEW h \in Hands, RunTool(h) PROVE TypeOK'
  <2>1. Text(copy[h]) \in Texts
    BY <1>0, <1>6, <1>p DEF RunTool, Allowed, IsApproved, Text, Texts, Plan
  <2>2. QED
    BY <1>6, <2>1, LeaveTyped DEF RunTool, TypeOK, store, flaws, bounds, Texts
<1>7. CASE BeginTurn
  BY <1>7 DEF BeginTurn, TypeOK, store, hands, flaws, plans, bounds
<1>8. ASSUME NEW ok \in BOOLEAN, EndTurn(ok) PROVE TypeOK'
  BY <1>8 DEF EndTurn, TypeOK, store, hands, flaws, plans, bounds
<1>9. CASE Mark
  <2>1. Supervisor \in Hands /\ turn \in Nat
    BY DEF Hands, TypeOK
  <2>2. [copy[Supervisor] EXCEPT !.pending = turn] \in Meta
    BY <1>0, <2>1 DEF Meta
  <2>3. Note(Supervisor, [copy[Supervisor] EXCEPT !.pending = turn])
    BY <1>9 DEF Mark
  <2>4. approved' = approved /\ reused' = reused
    BY <1>9 DEF Mark
  <2>5. QED
    BY <1>0, <2>1, <2>2, <2>3, <2>4, NoteTyped
<1>10. ASSUME NEW h \in Hands, Enter(h) PROVE TypeOK'
  <2>1. [copy[h] EXCEPT !.mode = "planning"] \in Meta
    BY <1>0 DEF Meta, Mode
  <2>2. QED
    BY <1>0, <1>10, <2>1, NoteTyped DEF Enter
<1>11. ASSUME NEW h \in Hands, Remark(h) PROVE TypeOK'
  BY <1>0, <1>11, NoteTyped DEF Remark
<1>12. ASSUME NEW h \in Hands, Exit(h) PROVE TypeOK'
  <2> DEFINE m == [copy[h] EXCEPT !.mode = "chat",
                     !.status = IF HasPlan(copy[h]) THEN PlanOf(copy[h]).status ELSE @]
  <2>1. m \in Meta
    <3>1. (IF HasPlan(copy[h]) THEN PlanOf(copy[h]).status ELSE copy[h].status) \in Status
      BY <1>0, <1>p DEF Meta, Plan
    <3>2. "chat" \in Mode /\ copy[h] \in Meta
      BY <1>0 DEF Mode
    <3>3. QED
      BY <3>1, <3>2, MetaWith
  <2>2. Note(h, m) /\ approved' = approved /\ reused' = reused
    BY <1>12 DEF Exit
  <2> HIDE DEF m
  <2>3. QED
    BY <1>0, <2>1, <2>2, NoteTyped
<1>13. ASSUME NEW h \in Hands, NEW s \in Slugs, NEW sound \in BOOLEAN, NEW steps \in Drafted,
              Create(h, s, sound, steps)
       PROVE  TypeOK'
  <2> DEFINE p == [rev |-> 1, status |-> "draft", steps |-> steps, sound |-> sound,
                   text |-> file[s].text + 1]
             m == [copy[h] EXCEPT !.mode = "planning"]
  <2>1. file[s].text \in Nat /\ steps \in [Steps -> StepStatus]
    BY <1>0 DEF Plan, Steps, StepStatus
  <2>2. p \in Plan /\ m \in Meta
    <3>1. p \in Plan
      BY <2>1 DEF Plan, Status
    <3>2. m \in Meta
      BY <1>0 DEF Meta, Mode
    <3>3. QED
      BY <3>1, <3>2
  <2>3. Save(h, s, p, m) /\ approved' = approved /\ reused' \in BOOLEAN
    BY <1>0, <1>13 DEF Create
  <2> HIDE DEF p, m
  <2>4. QED
    BY <1>0, <2>2, <2>3, SaveTyped
<1>14. ASSUME NEW h \in Hands, NEW sound \in BOOLEAN, NEW steps \in Drafted,
              Publish(h, sound, steps)
       PROVE  TypeOK'
  <2>1. HasPlan(copy[h]) /\ approved' = approved /\ reused' = reused
        /\ Save(h, copy[h].path, Redraft(PlanOf(copy[h]), sound, steps), copy[h])
    BY <1>14 DEF Publish
  <2>2. steps \in [Steps -> StepStatus]
    BY DEF Steps, StepStatus
  <2>3. Redraft(PlanOf(copy[h]), sound, steps) \in Plan
    BY <1>p, <2>1, <2>2, RedraftTyped
  <2>4. QED
    BY <1>0, <1>p, <2>1, <2>3, SaveTyped
<1>15. ASSUME NEW h \in Hands, NEW sound \in BOOLEAN, Update(h, sound) PROVE TypeOK'
  <2> DEFINE p == Redraft(PlanOf(copy[h]), sound, PlanOf(copy[h]).steps)
             m == [copy[h] EXCEPT !.mode = "planning"]
  <2>1. HasPlan(copy[h]) /\ approved' = approved /\ reused' = reused
        /\ Save(h, copy[h].path, p, m)
    BY <1>15 DEF Update
  <2>2. PlanOf(copy[h]).steps \in [Steps -> StepStatus]
    BY <1>p, <2>1 DEF Plan
  <2>3. p \in Plan /\ m \in Meta
    BY <1>0, <1>p, <2>1, <2>2, RedraftTyped DEF Meta, Mode
  <2> HIDE DEF p, m
  <2>4. QED
    BY <1>0, <1>p, <2>1, <2>3, SaveTyped
<1>16. ASSUME NEW h \in Hands, AppendArtifact(h) PROVE TypeOK'
  BY <1>0, <1>p, <1>16, SaveTyped DEF AppendArtifact
<1>17. ASSUME NEW h \in Hands, Approve(h) PROVE TypeOK'
  <2> DEFINE o == PlanOf(copy[h])
             steps == IF Active(o.steps) = {} THEN Advance(o.steps) ELSE o.steps
             p == [o EXCEPT !.status = "executing", !.steps = steps]
             m == [copy[h] EXCEPT !.mode = "executing", !.accepted = o.rev]
  <2>1. /\ HasPlan(copy[h]) /\ reused' = reused
        /\ approved' = approved \cup {Text(copy[h])}
        /\ Save(h, copy[h].path, p, m)
    BY <1>17 DEF Approve
  <2>2. o \in Plan /\ Text(copy[h]) \in Texts
    BY <1>p, <2>1 DEF Text, Texts, Plan
  <2>3. steps \in [Steps -> StepStatus]
    BY <2>2, AdvanceTyped DEF Plan
  <2> HIDE DEF o, steps
  <2>4. p \in Plan /\ m \in Meta
    <3>1. p \in Plan
      BY <2>2, <2>3 DEF Plan, Status
    <3>2. o.rev \in Nat
      BY <2>2 DEF Plan
    <3>3. m \in Meta
      BY <1>0, <3>2 DEF Meta, Mode
    <3>4. QED
      BY <3>1, <3>3
  <2> HIDE DEF p, m
  <2>5. QED
    BY <1>0, <1>p, <2>1, <2>2, <2>4, SaveTyped
<1>18. ASSUME NEW h \in Hands, NEW s \in Steps, NEW st \in StepStatus, SetStep(h, s, st)
       PROVE  TypeOK'
  <2> DEFINE p == WithStep(PlanOf(copy[h]), s, st)
             m == [copy[h] EXCEPT !.mode = ModeOf(p)]
  <2>1. HasPlan(copy[h]) /\ approved' = approved /\ reused' = reused
        /\ Save(h, copy[h].path, p, m)
    BY <1>18 DEF SetStep, IsApproved
  <2>2. p \in Plan
    BY <1>p, <2>1, WithStepTyped
  <2> HIDE DEF p
  <2>3. m \in Meta
    BY <1>0, <2>2 DEF Meta, Mode, ModeOf, Plan
  <2> HIDE DEF m
  <2>4. QED
    BY <1>0, <1>p, <2>1, <2>2, <2>3, SaveTyped
<1>19. ASSUME NEW h \in Hands, CompleteAll(h) PROVE TypeOK'
  <2> DEFINE p == [PlanOf(copy[h]) EXCEPT !.steps = [s \in Steps |-> "done"], !.status = "done"]
             m == [copy[h] EXCEPT !.mode = "done"]
  <2>1. HasPlan(copy[h]) /\ approved' = approved /\ reused' = reused
        /\ Save(h, copy[h].path, p, m)
    BY <1>19 DEF CompleteAll, IsApproved
  <2>2. p \in Plan /\ m \in Meta
    <3>1. [s \in Steps |-> "done"] \in [Steps -> StepStatus]
      BY DEF StepStatus
    <3>2. p \in Plan
      BY <1>p, <2>1, <3>1 DEF Plan, Status
    <3>3. m \in Meta
      BY <1>0 DEF Meta, Mode
    <3>4. QED
      BY <3>2, <3>3
  <2> HIDE DEF p, m
  <2>3. QED
    BY <1>0, <1>p, <2>1, <2>2, SaveTyped
<1>20. ASSUME NEW h \in Hands, Progress(h) PROVE TypeOK'
  <2>1. HasPlan(copy[h]) /\ approved' = approved /\ reused' = reused
    BY <1>20 DEF Progress, IsApproved
  <2>2. Accounted(copy[h]) \in Meta
    BY <1>0, AccountedTyped DEF TypeOK
  <2>3. CASE Note(h, Accounted(copy[h]))
    BY <1>0, <2>1, <2>2, <2>3, NoteTyped
  <2>4. ASSUME NEW s \in Steps, NEW st \in {"done", "blocked"},
               Save(h, copy[h].path, WithStep(PlanOf(copy[h]), s, st),
                    [Accounted(copy[h]) EXCEPT !.mode = ModeOf(WithStep(PlanOf(copy[h]), s, st))])
        PROVE  TypeOK'
    <3> DEFINE p == WithStep(PlanOf(copy[h]), s, st)
               m == [Accounted(copy[h]) EXCEPT !.mode = ModeOf(p)]
    <3>1. p \in Plan
      BY <1>p, <2>1, WithStepTyped DEF StepStatus
    <3>2. Save(h, copy[h].path, p, m)
      BY <2>4
    <3> HIDE DEF p
    <3>3. m \in Meta
      BY <2>2, <3>1 DEF Meta, Mode, ModeOf, Plan
    <3> HIDE DEF m
    <3>4. QED
      BY <1>0, <1>p, <2>1, <3>1, <3>2, <3>3, SaveTyped
  <2>5. QED
    BY <1>20, <2>3, <2>4 DEF Progress
<1>21. ASSUME NEW h \in Hands, NEW affected \in SUBSET Steps, Replan(h, affected)
       PROVE  TypeOK'
  <2> DEFINE o == PlanOf(copy[h])
             hit(s) == o.steps[s] = "in_progress" /\ (affected = {} \/ s \in affected)
             steps == [s \in Steps |-> IF hit(s) THEN "blocked" ELSE o.steps[s]]
             p == Redraft(o, FALSE, steps)
             m == [copy[h] EXCEPT !.mode = "planning", !.replan = TRUE]
  <2>1. HasPlan(copy[h]) /\ approved' = approved /\ reused' = reused
        /\ Save(h, copy[h].path, p, m)
    BY <1>21 DEF Replan
  <2>2. o \in Plan
    BY <1>p, <2>1
  <2>3. steps \in [Steps -> StepStatus]
    BY <2>2 DEF Plan, StepStatus
  <2>4. m \in Meta
    BY <1>0 DEF Meta, Mode
  <2> HIDE DEF o, steps
  <2>5. p \in Plan
    BY <2>2, <2>3, RedraftTyped
  <2> HIDE DEF p, m
  <2>6. QED
    BY <1>0, <1>p, <2>1, <2>4, <2>5, SaveTyped
<1>22. ASSUME NEW h \in Hands, Resume(h) PROVE TypeOK'
  <2> DEFINE p == PlanOf(copy[h])
             m == [copy[h] EXCEPT !.mode = IF p.status \in {"draft", "approved"} THEN "planning"
                                                                               ELSE p.status]
  <2>1. HasPlan(copy[h]) /\ approved' = approved /\ reused' = reused
        /\ Save(h, copy[h].path, p, m)
    BY <1>22 DEF Resume
  <2>2. p \in Plan
    BY <1>p, <2>1
  <2> HIDE DEF p
  <2>3. m \in Meta
    <3>1. (IF p.status \in {"draft", "approved"} THEN "planning" ELSE p.status) \in Mode
      BY <2>2 DEF Plan, Status, Mode
    <3>2. copy[h] \in Meta /\ copy[h].status \in Status
      BY <1>0 DEF Meta
    <3>3. QED
      BY <3>1, <3>2, MetaWith
  <2> HIDE DEF m
  <2>4. QED
    BY <1>0, <1>p, <2>1, <2>2, <2>3, SaveTyped
<1>23. CASE UNCHANGED vars
  BY <1>23 DEF vars, TypeOK, store, hands, turns, flaws, plans, bounds
<1>24. ASSUME NEW h \in Hands, Draft(h) PROVE TypeOK'
  BY <1>24, <1>10, <1>11, <1>13, <1>14, <1>15, <1>16 DEF Draft
<1>25. ASSUME NEW h \in Hands, Execute(h) PROVE TypeOK'
  BY <1>25, <1>12, <1>17, <1>18, <1>19, <1>20, <1>21, <1>22 DEF Execute
<1>26. QED
  BY <1>1, <1>2, <1>3, <1>4, <1>5, <1>6, <1>7, <1>8, <1>9, <1>23, <1>24, <1>25 DEF Next

(* Every reachable state of a session in plan mode is well typed.          *)
THEOREM PlanTypeCorrect == Spec => []TypeOK
  BY InitTyped, NextTyped, PTL DEF Spec

---------------------------------------------------------------------------
(* What the approval of a text protects.  An accepted revision is never    *)
(* ahead of its file, and where the file stands at it, the text there was  *)
(* approved: so a redraft, which raises the revision, ends the approval in *)
(* every copy of the metadata at once, stale ones too.                     *)

Backed(m) ==
    m.accepted > 0 =>
        /\ HasPlan(m) /\ approved # {}
        /\ m.accepted <= PlanOf(m).rev
        /\ m.accepted = PlanOf(m).rev => Text(m) \in approved

ApprovedInv ==
    ~reused => /\ ran \subseteq approved
               /\ Backed(meta)
               /\ \A h \in Hands : Backed(copy[h])

LEMMA BlankBacked ==
  ASSUME NEW m, m = Blank PROVE Backed(m)'
  BY DEF Backed, Blank

(* Steps that write no file.                                               *)
LEMMA NoteBacked ==
  ASSUME TypeOK, ApprovedInv, NEW h \in Hands, NEW m \in Meta, Note(h, m),
         m.accepted = copy[h].accepted, m.path = copy[h].path,
         approved' = approved, reused' = reused
  PROVE  ApprovedInv'
<1> SUFFICES ASSUME ~reused PROVE ApprovedInv'
  BY DEF ApprovedInv
<1>1. UNCHANGED <<file, approved, meta, ran>>
  BY DEF Note, store
<1>2. Backed(meta)'
  BY <1>1 DEF ApprovedInv, Backed, HasPlan, PlanOf, Text
<1>3. ASSUME NEW g \in Hands PROVE Backed(copy[g])'
  <2>1. CASE g = h
    <3>1. copy'[g] = m
      BY <2>1 DEF Note, TypeOK
    <3>2. QED
      BY <1>1, <2>1, <3>1 DEF ApprovedInv, Backed, HasPlan, PlanOf, Text
  <2>2. CASE g # h
    <3>1. copy'[g] = copy[g]
      BY <2>2 DEF Note, TypeOK
    <3>2. QED
      BY <1>1, <3>1 DEF ApprovedInv, Backed, HasPlan, PlanOf, Text
  <2>3. QED
    BY <2>1, <2>2
<1>4. QED
  BY <1>1, <1>2, <1>3 DEF ApprovedInv

(* Saves that keep the text, or approve it.                                *)
LEMMA SaveBacked ==
  ASSUME TypeOK, ApprovedInv, NEW h \in Hands, NEW p \in Plan, NEW m \in Meta,
         HasPlan(copy[h]), Save(h, copy[h].path, p, m),
         p.rev = PlanOf(copy[h]).rev, p.text = PlanOf(copy[h]).text,
         approved \subseteq approved', reused' = reused,
         m.accepted = copy[h].accepted \/ (m.accepted = p.rev /\ Text(copy[h]) \in approved')
  PROVE  ApprovedInv'
<1> SUFFICES ASSUME ~reused PROVE ApprovedInv'
  BY DEF ApprovedInv
<1> DEFINE s == copy[h].path
<1>1. s \in Slugs /\ file[s] \in Plan
  BY DEF TypeOK, Meta, HasPlan
<1>2. /\ meta' = meta /\ ran' = ran
      /\ \A t \in Slugs : file'[t].rev = file[t].rev /\ file'[t].text = file[t].text
  BY <1>1 DEF Save, TypeOK, PlanOf
<1>3. ASSUME NEW n \in Meta, Backed(n)
      PROVE  n.accepted > 0 =>
               /\ n.path # "none" /\ approved' # {}
               /\ n.accepted <= file'[n.path].rev
               /\ n.accepted = file'[n.path].rev => <<n.path, file'[n.path].text>> \in approved'
  BY <1>2, <1>3 DEF Backed, HasPlan, PlanOf, Text, Meta
<1>4. Backed(meta)'
  BY <1>2, <1>3 DEF ApprovedInv, TypeOK, Backed, HasPlan, PlanOf, Text
<1>5. ASSUME NEW g \in Hands PROVE Backed(copy[g])'
  <2>1. CASE g # h
    <3>1. copy'[g] = copy[g] /\ copy[g] \in Meta /\ Backed(copy[g])
      BY <2>1 DEF Save, TypeOK, ApprovedInv
    <3>2. QED
      BY <1>3, <3>1 DEF Backed, HasPlan, PlanOf, Text
  <2>2. CASE g = h
    <3>1. copy'[g].path = s /\ copy'[g].accepted = m.accepted
      BY <2>2 DEF Save, TypeOK, Meta
    <3>2. copy[h] \in Meta /\ Backed(copy[h])
      BY DEF TypeOK, ApprovedInv
    <3>3. CASE m.accepted = copy[h].accepted
      BY <1>3, <3>1, <3>2, <3>3 DEF Backed, HasPlan, PlanOf, Text
    <3>4. CASE m.accepted = p.rev /\ Text(copy[h]) \in approved'
      <4>1. m.accepted = file'[s].rev /\ <<s, file'[s].text>> \in approved'
        BY <1>1, <1>2, <3>4 DEF PlanOf, Text
      <4>2. file'[s].rev \in Nat /\ s # "none"
        BY <1>1, <1>2 DEF Plan
      <4>3. QED
        BY <3>1, <4>1, <4>2 DEF Backed, HasPlan, PlanOf, Text
    <3>5. QED
      BY <3>3, <3>4
  <2>3. QED
    BY <2>1, <2>2
<1>6. QED
  BY <1>2, <1>4, <1>5 DEF ApprovedInv

(* Redrafts.                                                               *)
LEMMA RedraftBacked ==
  ASSUME TypeOK, ApprovedInv, NEW h \in Hands, NEW p \in Plan, NEW m \in Meta,
         HasPlan(copy[h]), Save(h, copy[h].path, p, m),
         p.rev = PlanOf(copy[h]).rev + 1, m.accepted = copy[h].accepted,
         approved' = approved, reused' = reused
  PROVE  ApprovedInv'
<1> SUFFICES ASSUME ~reused PROVE ApprovedInv'
  BY DEF ApprovedInv
<1> DEFINE s == copy[h].path
<1>1. s \in Slugs /\ file[s].rev \in Nat
  BY DEF TypeOK, Meta, HasPlan, Plan
<1>2. /\ meta' = meta /\ ran' = ran
      /\ file'[s].rev = file[s].rev + 1
      /\ \A t \in Slugs : t # s => file'[t] = file[t]
  BY <1>1 DEF Save, TypeOK, PlanOf
<1>3. ASSUME NEW n \in Meta, Backed(n)
      PROVE  n.accepted > 0 =>
               /\ n.path # "none" /\ approved # {}
               /\ n.accepted <= file'[n.path].rev
               /\ n.accepted = file'[n.path].rev => <<n.path, file'[n.path].text>> \in approved
  <2>1. CASE n.path = s
    <3> SUFFICES ASSUME n.accepted > 0
                 PROVE  /\ n.path # "none" /\ approved # {}
                        /\ n.accepted < file'[n.path].rev
      <4>1. n.accepted \in Nat
        BY DEF Meta
      <4>2. QED
        BY <1>1, <1>2, <2>1, <4>1
    <3>1. n.path # "none" /\ approved # {} /\ n.accepted <= file[s].rev
      BY <1>3, <2>1 DEF Backed, HasPlan, PlanOf
    <3>2. n.accepted \in Nat
      BY DEF Meta
    <3>3. QED
      BY <1>1, <1>2, <2>1, <3>1, <3>2
  <2>2. CASE n.path # s
    BY <1>2, <1>3, <2>2 DEF Backed, HasPlan, PlanOf, Text, Meta
  <2>3. QED
    BY <2>1, <2>2
<1>4. Backed(meta)'
  BY <1>2, <1>3 DEF ApprovedInv, TypeOK, Backed, HasPlan, PlanOf, Text
<1>5. ASSUME NEW g \in Hands PROVE Backed(copy[g])'
  <2>1. copy[g] \in Meta /\ Backed(copy[g])
    BY DEF TypeOK, ApprovedInv
  <2>2. copy'[g].path = copy[g].path /\ copy'[g].accepted = copy[g].accepted
    BY <2>1 DEF Save, TypeOK, Meta
  <2>3. QED
    BY <1>3, <2>1, <2>2 DEF Backed, HasPlan, PlanOf, Text
<1>6. QED
  BY <1>2, <1>4, <1>5 DEF ApprovedInv

LEMMA ApprovedInit == Init => ApprovedInv
  BY DEF Init, ApprovedInv, Backed, Blank

(* One case per action.                                                    *)
LEMMA ApprovedNext == TypeOK /\ ApprovedInv /\ [Next]_vars => ApprovedInv'
<1> SUFFICES ASSUME TypeOK, ApprovedInv, [Next]_vars PROVE ApprovedInv'
  OBVIOUS
<1>0. /\ \A h \in Hands : copy[h] \in Meta
      /\ \A s \in Slugs : file[s] \in Plan
      /\ reused \in BOOLEAN /\ Blank.accepted = 0
  BY DEF TypeOK, Blank
<1>p. \A h \in Hands : HasPlan(copy[h]) =>
        copy[h].path \in Slugs /\ PlanOf(copy[h]) \in Plan
  BY <1>0 DEF HasPlan, PlanOf, Meta
(* Where neither files nor approvals change, each copy comes from a copy,  *)
(* from the metadata or is blank.                                          *)
<1>q. ASSUME UNCHANGED <<file, approved, reused>>, ~reused => ran' \subseteq approved,
             meta' = meta \/ \E g \in Hands : meta' = copy[g],
             \A h \in Hands : copy'[h] = Blank \/ copy'[h] = copy[h] \/ copy'[h] = meta
      PROVE  ApprovedInv'
  <2> SUFFICES ASSUME ~reused PROVE ApprovedInv'
    BY <1>q DEF ApprovedInv
  <2>1. ASSUME NEW m, Backed(m)
        PROVE  m.accepted > 0 =>
                 /\ m.path # "none" /\ approved' # {}
                 /\ m.accepted <= file'[m.path].rev
                 /\ m.accepted = file'[m.path].rev => <<m.path, file'[m.path].text>> \in approved'
    BY <1>q, <2>1 DEF Backed, HasPlan, PlanOf, Text
  <2>2. Backed(meta) /\ Backed(Blank) /\ \A h \in Hands : Backed(copy[h])
    BY <1>0 DEF ApprovedInv, Backed
  <2>3. PICK n : meta' = n /\ Backed(n)
    BY <1>q, <2>2
  <2>4. Backed(meta)'
    BY <2>1, <2>3 DEF Backed, HasPlan, PlanOf, Text
  <2>5. ASSUME NEW h \in Hands PROVE Backed(copy[h])'
    <3>1. PICK c : copy'[h] = c /\ Backed(c)
      BY <1>q, <2>2
    <3>2. QED
      BY <2>1, <3>1 DEF Backed, HasPlan, PlanOf, Text
  <2>6. QED
    BY <1>q, <2>4, <2>5 DEF ApprovedInv
<1>1. ASSUME NEW h \in Hands, Read(h) PROVE ApprovedInv'
  BY <1>1, <1>q DEF Read, store, plans, TypeOK, ApprovedInv
<1>2. ASSUME NEW h \in Hands, Refuse(h) PROVE ApprovedInv'
  BY <1>2, <1>q DEF Refuse, Leave, store, plans, TypeOK, ApprovedInv
<1>3. ASSUME NEW h \in Hands, Commit(h) PROVE ApprovedInv'
  BY <1>3, <1>q DEF Commit, Leave, plans, TypeOK, ApprovedInv
<1>4. ASSUME NEW h \in Hands, Fail(h) PROVE ApprovedInv'
  BY <1>4, <1>q DEF Fail, Leave, store, plans, TypeOK, ApprovedInv
<1>5. CASE Restart
  BY <1>5, <1>q DEF Restart, store, plans, TypeOK, ApprovedInv
<1>6. ASSUME NEW h \in Hands, RunTool(h) PROVE ApprovedInv'
  <2>1. ~reused => Text(copy[h]) \in approved
    BY <1>6 DEF RunTool, Allowed, IsApproved, ApprovedInv, Backed
  <2>2. QED
    BY <1>6, <1>q, <2>1 DEF RunTool, Leave, store, TypeOK, ApprovedInv
<1>7. CASE BeginTurn
  BY <1>7, <1>q DEF BeginTurn, store, hands, plans, TypeOK, ApprovedInv
<1>8. ASSUME NEW ok \in BOOLEAN, EndTurn(ok) PROVE ApprovedInv'
  BY <1>8, <1>q DEF EndTurn, store, hands, plans, TypeOK, ApprovedInv
<1>23. CASE UNCHANGED vars
  BY <1>23, <1>q DEF vars, store, hands, plans, TypeOK, ApprovedInv
<1>9. CASE Mark
  <2>1. Supervisor \in Hands /\ turn \in Nat
    BY DEF Hands, TypeOK
  <2> DEFINE m == [copy[Supervisor] EXCEPT !.pending = turn]
  <2>2. /\ m \in Meta /\ m.accepted = copy[Supervisor].accepted
        /\ m.path = copy[Supervisor].path
    BY <1>0, <2>1 DEF Meta
  <2>3. Note(Supervisor, m) /\ approved' = approved /\ reused' = reused
    BY <1>9 DEF Mark
  <2> HIDE DEF m
  <2>4. QED
    BY <2>1, <2>2, <2>3, NoteBacked
<1>10. ASSUME NEW h \in Hands, Enter(h) PROVE ApprovedInv'
  <2> DEFINE m == [copy[h] EXCEPT !.mode = "planning"]
  <2>1. m \in Meta /\ m.accepted = copy[h].accepted /\ m.path = copy[h].path
    BY <1>0 DEF Meta, Mode
  <2>2. Note(h, m) /\ approved' = approved /\ reused' = reused
    BY <1>10 DEF Enter
  <2> HIDE DEF m
  <2>3. QED
    BY <2>1, <2>2, NoteBacked
<1>11. ASSUME NEW h \in Hands, Remark(h) PROVE ApprovedInv'
  BY <1>0, <1>11, NoteBacked DEF Remark
<1>12. ASSUME NEW h \in Hands, Exit(h) PROVE ApprovedInv'
  <2> DEFINE m == [copy[h] EXCEPT !.mode = "chat",
                     !.status = IF HasPlan(copy[h]) THEN PlanOf(copy[h]).status ELSE @]
  <2>1. m \in Meta /\ m.accepted = copy[h].accepted /\ m.path = copy[h].path
    <3>1. (IF HasPlan(copy[h]) THEN PlanOf(copy[h]).status ELSE copy[h].status) \in Status
      BY <1>0, <1>p DEF Meta, Plan
    <3>2. "chat" \in Mode /\ copy[h] \in Meta
      BY <1>0 DEF Mode
    <3>3. m \in Meta
      BY <3>1, <3>2, MetaWith
    <3>4. QED
      BY <1>0, <3>3 DEF Meta
  <2>2. Note(h, m) /\ approved' = approved /\ reused' = reused
    BY <1>12 DEF Exit
  <2> HIDE DEF m
  <2>3. QED
    BY <2>1, <2>2, NoteBacked
<1>13. ASSUME NEW h \in Hands, NEW s \in Slugs, NEW sound \in BOOLEAN, NEW steps \in Drafted,
              Create(h, s, sound, steps)
       PROVE  ApprovedInv'
  <2> SUFFICES ASSUME ~reused' PROVE ApprovedInv'
    BY DEF ApprovedInv
  <2>1. ~reused /\ approved = {} /\ approved' = approved
    BY <1>0, <1>13 DEF Create
  <2>2. ran' = ran /\ meta' = meta
        /\ \A g \in Hands : copy'[g].accepted = copy[g].accepted
    BY <1>0, <1>13 DEF Create, Save, TypeOK, Meta
  <2>3. meta.accepted = 0 /\ \A g \in Hands : copy[g].accepted = 0
    BY <2>1 DEF ApprovedInv, Backed, TypeOK, Meta
  <2>4. QED
    BY <2>1, <2>2, <2>3 DEF ApprovedInv, Backed
<1>14. ASSUME NEW h \in Hands, NEW sound \in BOOLEAN, NEW steps \in Drafted,
              Publish(h, sound, steps)
       PROVE  ApprovedInv'
  <2> DEFINE p == Redraft(PlanOf(copy[h]), sound, steps)
  <2>1. HasPlan(copy[h]) /\ approved' = approved /\ reused' = reused
        /\ Save(h, copy[h].path, p, copy[h])
    BY <1>14 DEF Publish
  <2>2. steps \in [Steps -> StepStatus]
    BY DEF Steps, StepStatus
  <2>3. p \in Plan /\ p.rev = PlanOf(copy[h]).rev + 1
    BY <1>p, <2>1, <2>2, RedraftTyped
  <2> HIDE DEF p
  <2>4. QED
    BY <1>0, <2>1, <2>3, RedraftBacked
<1>15. ASSUME NEW h \in Hands, NEW sound \in BOOLEAN, Update(h, sound) PROVE ApprovedInv'
  <2> DEFINE p == Redraft(PlanOf(copy[h]), sound, PlanOf(copy[h]).steps)
             m == [copy[h] EXCEPT !.mode = "planning"]
  <2>1. HasPlan(copy[h]) /\ approved' = approved /\ reused' = reused
        /\ Save(h, copy[h].path, p, m)
    BY <1>15 DEF Update
  <2>2. PlanOf(copy[h]).steps \in [Steps -> StepStatus]
    BY <1>p, <2>1 DEF Plan
  <2>3. p \in Plan /\ p.rev = PlanOf(copy[h]).rev + 1
    BY <1>p, <2>1, <2>2, RedraftTyped
  <2>4. m \in Meta /\ m.accepted = copy[h].accepted
    BY <1>0 DEF Meta, Mode
  <2> HIDE DEF p, m
  <2>5. QED
    BY <2>1, <2>3, <2>4, RedraftBacked
<1>16. ASSUME NEW h \in Hands, AppendArtifact(h) PROVE ApprovedInv'
  BY <1>0, <1>p, <1>16, SaveBacked DEF AppendArtifact
<1>17. ASSUME NEW h \in Hands, Approve(h) PROVE ApprovedInv'
  <2> DEFINE o == PlanOf(copy[h])
             steps == IF Active(o.steps) = {} THEN Advance(o.steps) ELSE o.steps
             p == [o EXCEPT !.status = "executing", !.steps = steps]
             m == [copy[h] EXCEPT !.mode = "executing", !.accepted = o.rev]
  <2>1. /\ HasPlan(copy[h]) /\ reused' = reused
        /\ approved' = approved \cup {Text(copy[h])}
        /\ Save(h, copy[h].path, p, m)
    BY <1>17 DEF Approve
  <2>2. o \in Plan
    BY <1>p, <2>1
  <2>3. steps \in [Steps -> StepStatus]
    BY <2>2, AdvanceTyped DEF Plan
  <2> HIDE DEF steps
  <2>4. p \in Plan /\ p.rev = PlanOf(copy[h]).rev /\ p.text = PlanOf(copy[h]).text
    BY <2>2, <2>3 DEF Plan, Status
  <2>5. m \in Meta /\ m.accepted = p.rev
    <3>1. o.rev \in Nat /\ p.rev = o.rev
      BY <2>2, <2>4 DEF Plan
    <3> HIDE DEF o, p
    <3>2. m \in Meta /\ m.accepted = o.rev
      BY <1>0, <3>1 DEF Meta, Mode
    <3>3. QED
      BY <3>1, <3>2
  <2> HIDE DEF o, p, m
  <2>6. QED
    BY <2>1, <2>4, <2>5, SaveBacked
<1>18. ASSUME NEW h \in Hands, NEW s \in Steps, NEW st \in StepStatus, SetStep(h, s, st)
       PROVE  ApprovedInv'
  <2> DEFINE p == WithStep(PlanOf(copy[h]), s, st)
             m == [copy[h] EXCEPT !.mode = ModeOf(p)]
  <2>1. HasPlan(copy[h]) /\ approved' = approved /\ reused' = reused
        /\ Save(h, copy[h].path, p, m)
    BY <1>18 DEF SetStep, IsApproved
  <2>2. p \in Plan /\ p.rev = PlanOf(copy[h]).rev /\ p.text = PlanOf(copy[h]).text
    BY <1>p, <2>1, WithStepTyped
  <2> HIDE DEF p
  <2>3. m \in Meta /\ m.accepted = copy[h].accepted
    <3>1. ModeOf(p) \in Mode
      BY <2>2, ModeOfTyped
    <3>2. copy[h] \in Meta /\ copy[h].status \in Status
      BY <1>0 DEF Meta
    <3>3. QED
      BY <3>1, <3>2, MetaWith
  <2> HIDE DEF m
  <2>4. QED
    BY <2>1, <2>2, <2>3, SaveBacked
<1>19. ASSUME NEW h \in Hands, CompleteAll(h) PROVE ApprovedInv'
  <2> DEFINE p == [PlanOf(copy[h]) EXCEPT !.steps = [s \in Steps |-> "done"], !.status = "done"]
             m == [copy[h] EXCEPT !.mode = "done"]
  <2>1. HasPlan(copy[h]) /\ approved' = approved /\ reused' = reused
        /\ Save(h, copy[h].path, p, m)
    BY <1>19 DEF CompleteAll, IsApproved
  <2>2. [s \in Steps |-> "done"] \in [Steps -> StepStatus]
    BY DEF StepStatus
  <2>3. p \in Plan /\ p.rev = PlanOf(copy[h]).rev /\ p.text = PlanOf(copy[h]).text
    BY <1>p, <2>1, <2>2 DEF Plan, Status
  <2>4. m \in Meta /\ m.accepted = copy[h].accepted
    BY <1>0 DEF Meta, Mode
  <2> HIDE DEF p, m
  <2>5. QED
    BY <2>1, <2>3, <2>4, SaveBacked
<1>20. ASSUME NEW h \in Hands, Progress(h) PROVE ApprovedInv'
  <2>1. HasPlan(copy[h]) /\ approved' = approved /\ reused' = reused
    BY <1>20 DEF Progress, IsApproved
  <2>2. /\ Accounted(copy[h]) \in Meta
        /\ Accounted(copy[h]).accepted = copy[h].accepted
        /\ Accounted(copy[h]).path = copy[h].path
    BY <1>0, AccountedTyped DEF TypeOK
  <2>3. CASE Note(h, Accounted(copy[h]))
    BY <2>1, <2>2, <2>3, NoteBacked
  <2>4. ASSUME NEW s \in Steps, NEW st \in {"done", "blocked"},
               Save(h, copy[h].path, WithStep(PlanOf(copy[h]), s, st),
                    [Accounted(copy[h]) EXCEPT !.mode = ModeOf(WithStep(PlanOf(copy[h]), s, st))])
        PROVE  ApprovedInv'
    <3> DEFINE p == WithStep(PlanOf(copy[h]), s, st)
               m == [Accounted(copy[h]) EXCEPT !.mode = ModeOf(p)]
    <3>1. p \in Plan /\ p.rev = PlanOf(copy[h]).rev /\ p.text = PlanOf(copy[h]).text
      <4>1. st \in StepStatus
        BY DEF StepStatus
      <4>2. PlanOf(copy[h]) \in Plan
        BY <1>p, <2>1
      <4>3. QED
        BY <4>1, <4>2, WithStepTyped
    <3>2. Save(h, copy[h].path, p, m)
      BY <2>4
    <3> HIDE DEF p
    <3>3. m \in Meta /\ m.accepted = copy[h].accepted
      BY <2>2, <3>1 DEF Meta, Mode, ModeOf, Plan
    <3> HIDE DEF m
    <3>4. QED
      BY <2>1, <3>1, <3>2, <3>3, SaveBacked
  <2>5. QED
    BY <1>20, <2>3, <2>4 DEF Progress
<1>21. ASSUME NEW h \in Hands, NEW affected \in SUBSET Steps, Replan(h, affected)
       PROVE  ApprovedInv'
  <2> DEFINE o == PlanOf(copy[h])
             hit(s) == o.steps[s] = "in_progress" /\ (affected = {} \/ s \in affected)
             steps == [s \in Steps |-> IF hit(s) THEN "blocked" ELSE o.steps[s]]
             p == Redraft(o, FALSE, steps)
             m == [copy[h] EXCEPT !.mode = "planning", !.replan = TRUE]
  <2>1. HasPlan(copy[h]) /\ approved' = approved /\ reused' = reused
        /\ Save(h, copy[h].path, p, m)
    BY <1>21 DEF Replan
  <2>2. o \in Plan
    BY <1>p, <2>1
  <2>3. steps \in [Steps -> StepStatus]
    BY <2>2 DEF Plan, StepStatus
  <2>4. m \in Meta /\ m.accepted = copy[h].accepted
    BY <1>0 DEF Meta, Mode
  <2> HIDE DEF steps
  <2>5. p \in Plan /\ p.rev = PlanOf(copy[h]).rev + 1
    BY <2>2, <2>3, RedraftTyped
  <2> HIDE DEF o, p, m
  <2>6. QED
    BY <2>1, <2>4, <2>5, RedraftBacked
<1>22. ASSUME NEW h \in Hands, Resume(h) PROVE ApprovedInv'
  <2> DEFINE p == PlanOf(copy[h])
             m == [copy[h] EXCEPT !.mode = IF p.status \in {"draft", "approved"} THEN "planning"
                                                                               ELSE p.status]
  <2>1. HasPlan(copy[h]) /\ approved' = approved /\ reused' = reused
        /\ Save(h, copy[h].path, p, m)
    BY <1>22 DEF Resume
  <2>2. p.rev = PlanOf(copy[h]).rev /\ p.text = PlanOf(copy[h]).text
    OBVIOUS
  <2>3. p \in Plan
    BY <1>p, <2>1
  <2> HIDE DEF p
  <2>4. m \in Meta /\ m.accepted = copy[h].accepted
    <3>1. m \in Meta
      <4>1. (IF p.status \in {"draft", "approved"} THEN "planning" ELSE p.status) \in Mode
        BY <2>3 DEF Plan, Status, Mode
      <4>2. copy[h] \in Meta /\ copy[h].status \in Status
        BY <1>0 DEF Meta
      <4>3. QED
        BY <4>1, <4>2, MetaWith
    <3>2. m.accepted = copy[h].accepted
      BY <1>0 DEF Meta
    <3>3. QED
      BY <3>1, <3>2
  <2> HIDE DEF m
  <2>5. QED
    BY <2>1, <2>2, <2>3, <2>4, SaveBacked
<1>24. ASSUME NEW h \in Hands, Draft(h) PROVE ApprovedInv'
  BY <1>24, <1>10, <1>11, <1>13, <1>14, <1>15, <1>16 DEF Draft
<1>25. ASSUME NEW h \in Hands, Execute(h) PROVE ApprovedInv'
  BY <1>25, <1>12, <1>17, <1>18, <1>19, <1>20, <1>21, <1>22 DEF Execute
<1>26. QED
  BY <1>1, <1>2, <1>3, <1>4, <1>5, <1>6, <1>7, <1>8, <1>9, <1>23, <1>24, <1>25 DEF Next

(* Mutating tools run only under an approved text of the plan, unless a    *)
(* plan is created after one was approved.                                 *)
THEOREM WorkApproved == Spec => []WorkIsApproved
<1>1. Init => TypeOK /\ ApprovedInv
  BY InitTyped, ApprovedInit
<1>2. TypeOK /\ ApprovedInv /\ [Next]_vars => (TypeOK /\ ApprovedInv)'
  BY NextTyped, ApprovedNext
<1>3. ApprovedInv => WorkIsApproved
  BY DEF ApprovedInv, WorkIsApproved
<1>4. QED
  BY <1>1, <1>2, <1>3, PTL DEF Spec

---------------------------------------------------------------------------
(* Marks.  A copy that is not stale extends the committed metadata: it has *)
(* its outcomes, and its mark or an outcome for it.                        *)

Extends(c, m) ==
    /\ m.outcomes \subseteq c.outcomes
    /\ m.pending # 0 => c.pending = m.pending \/ m.pending \in c.outcomes

Owes(m) == \A t \in marked : m.pending = t \/ t \in m.outcomes

MarkInv ==
    /\ ~overwritten => Owes(meta)
    /\ \A h \in Hands : pc[h] # "idle" /\ h \notin stale => Extends(copy[h], meta)
    /\ pc[Supervisor] # "idle" => phase = "mark"
    /\ pc[Supervisor] \in {"noted", "saved"} => copy[Supervisor].pending = turn
    /\ phase # "no" => turn > 0
    /\ 0 \notin marked

LEMMA ExtendsTrans ==
  ASSUME NEW a, NEW b, NEW c, Extends(a, b), Extends(b, c)
  PROVE  Extends(a, c)
  BY DEF Extends

(* The supervisor is no request and no call.                               *)
LEMMA SupervisorApart == Supervisor \in Hands /\ Supervisor \notin Requests \cup Calls
  BY DEF Hands

LEMMA NoteOwes ==
  ASSUME TypeOK, MarkInv, NEW h \in Hands, NEW m \in Meta, Note(h, m),
         Extends(m, copy[h]), h = Supervisor => m.pending = turn
  PROVE  MarkInv'
<1>1. UNCHANGED <<meta, stale, turn, phase, marked, overwritten>>
  BY DEF Note, store, turns, flaws
<1>2. /\ \A g \in Hands : g # h => pc'[g] = pc[g] /\ copy'[g] = copy[g]
      /\ pc[h] = "read" /\ pc'[h] = "noted" /\ copy'[h] = m
  BY DEF Note, TypeOK
<1>3. ASSUME NEW g \in Hands, pc'[g] # "idle", g \notin stale PROVE Extends(copy'[g], meta)
  <2>1. CASE g = h
    BY <1>2, <1>3, <2>1, ExtendsTrans DEF MarkInv
  <2>2. CASE g # h
    BY <1>2, <1>3, <2>2 DEF MarkInv
  <2>3. QED
    BY <2>1, <2>2
<1>4. QED
  BY <1>1, <1>2, <1>3, SupervisorApart DEF MarkInv, Owes, Extends

LEMMA SaveOwes ==
  ASSUME TypeOK, MarkInv, NEW h \in Requests \cup Calls, NEW s, NEW p, NEW m \in Meta,
         Save(h, s, p, m), Extends(m, copy[h])
  PROVE  MarkInv'
<1>0. h \in Hands /\ h # Supervisor
  BY SupervisorApart DEF Hands
<1>1. UNCHANGED <<meta, stale, turn, phase, marked, overwritten>>
  BY DEF Save, turns
<1>2. /\ \A g \in Hands : g # h => pc'[g] = pc[g] /\ copy'[g] = copy[g]
      /\ pc[h] = "read" /\ pc'[h] = "saved"
      /\ copy'[h].pending = m.pending /\ copy'[h].outcomes = m.outcomes
  BY <1>0 DEF Save, TypeOK, Meta
<1>3. ASSUME NEW g \in Hands, pc'[g] # "idle", g \notin stale PROVE Extends(copy'[g], meta)
  <2>1. CASE g = h
    <3>1. Extends(copy[h], meta)
      BY <1>0, <1>2, <1>3, <2>1 DEF MarkInv
    <3>2. Extends(m, meta)
      BY <3>1, ExtendsTrans
    <3>3. QED
      BY <1>2, <2>1, <3>2 DEF Extends
  <2>2. CASE g # h
    BY <1>2, <1>3, <2>2 DEF MarkInv
  <2>3. QED
    BY <2>1, <2>2
<1>4. QED
  BY <1>0, <1>1, <1>2, <1>3, SupervisorApart DEF MarkInv, Owes, Extends

LEMMA MarkInit == Init => MarkInv
  BY SupervisorApart DEF Init, MarkInv, Owes

(* One case per action.                                                    *)
LEMMA MarkNext == TypeOK /\ MarkInv /\ [Next]_vars => MarkInv'
<1> SUFFICES ASSUME TypeOK, MarkInv, [Next]_vars PROVE MarkInv'
  OBVIOUS
<1>0. /\ \A h \in Hands : copy[h] \in Meta
      /\ \A s \in Slugs : file[s] \in Plan
      /\ turn \in Nat
  BY DEF TypeOK
<1>p. \A h \in Hands : HasPlan(copy[h]) => PlanOf(copy[h]) \in Plan
  BY <1>0 DEF HasPlan, PlanOf, Meta
<1>r. \A h : h \in Requests \cup Calls => h \in Hands
  BY DEF Hands
<1>1. ASSUME NEW h \in Hands, Read(h) PROVE MarkInv'
  <2>1. UNCHANGED <<meta, stale, turn, phase, marked, overwritten>>
    BY <1>1 DEF Read, store, turns, flaws
  <2>2. /\ \A g \in Hands : g # h => pc'[g] = pc[g] /\ copy'[g] = copy[g]
        /\ pc'[h] = "read" /\ copy'[h] = meta
        /\ h = Supervisor => phase = "mark"
    BY <1>1 DEF Read, TypeOK
  <2>3. ASSUME NEW g \in Hands, pc'[g] # "idle", g \notin stale' PROVE Extends(copy'[g], meta')
    <3>1. CASE g = h
      BY <2>1, <2>2, <3>1 DEF Extends
    <3>2. CASE g # h
      BY <2>1, <2>2, <2>3, <3>2 DEF MarkInv
    <3>3. QED
      BY <3>1, <3>2
  <2>4. (pc[Supervisor] # "idle" => phase = "mark")'
    BY <2>1, <2>2, SupervisorApart DEF MarkInv
  <2>5. (pc[Supervisor] \in {"noted", "saved"} => copy[Supervisor].pending = turn)'
    BY <2>1, <2>2, SupervisorApart DEF MarkInv
  <2>6. QED
    BY <2>1, <2>3, <2>4, <2>5 DEF MarkInv, Owes
<1>q. ASSUME NEW h \in Hands, Leave(h), UNCHANGED <<meta, turn, marked, overwritten>>,
             stale' = stale \ {h}
      PROVE  MarkInv'
  <2>1. /\ \A g \in Hands : g # h => pc'[g] = pc[g] /\ copy'[g] = copy[g]
        /\ pc'[h] = "idle" /\ phase' = (IF h = Supervisor THEN "no" ELSE phase)
    BY <1>q DEF Leave, TypeOK
  <2>2. QED
    BY <1>q, <2>1, SupervisorApart DEF MarkInv, Owes, Extends
<1>2. ASSUME NEW h \in Hands, Refuse(h) PROVE MarkInv'
  BY <1>2, <1>q DEF Refuse, store, flaws
<1>3. ASSUME NEW h \in Hands, Commit(h) PROVE MarkInv'
  <2>1. /\ \A g \in Hands : g # h => pc'[g] = pc[g] /\ copy'[g] = copy[g]
        /\ pc[h] \in {"noted", "saved"} /\ pc'[h] = "idle"
        /\ phase' = (IF h = Supervisor THEN "no" ELSE phase)
        /\ meta' = copy[h] /\ turn' = turn
    BY <1>3 DEF Commit, Leave, TypeOK
  <2>2. ~overwritten' => Owes(meta)'
    <3> SUFFICES ASSUME ~overwritten', NEW t \in marked'
                 PROVE  copy[h].pending = t \/ t \in copy[h].outcomes
      BY <2>1 DEF Owes
    <3>1. ~overwritten /\ h \notin stale
      BY <1>3 DEF Commit
    <3>2. Owes(meta) /\ Extends(copy[h], meta)
      BY <2>1, <3>1 DEF MarkInv
    <3>3. CASE t \in marked
      BY <3>2, <3>3 DEF Owes, Extends, MarkInv
    <3>4. CASE t \notin marked
      <4>1. h = Supervisor /\ t = turn
        BY <1>3, <3>4 DEF Commit
      <4>2. QED
        BY <2>1, <4>1 DEF MarkInv
    <3>5. QED
      BY <3>3, <3>4
  <2>3. ASSUME NEW g \in Hands, pc'[g] # "idle", g \notin stale' PROVE Extends(copy'[g], meta')
    <3>1. g # h /\ pc[g] # "idle" /\ copy'[g] = copy[g]
      BY <2>1, <2>3
    <3>2. copy[h] = meta /\ g \notin stale
      BY <1>3, <2>3, <3>1 DEF Commit
    <3>3. QED
      BY <2>1, <3>1, <3>2 DEF MarkInv
  <2>4. 0 \notin marked'
    <3>1. h = Supervisor => turn > 0
      BY <2>1 DEF MarkInv
    <3>2. QED
      BY <1>0, <1>3, <3>1 DEF Commit, MarkInv
  <2>5. QED
    BY <2>1, <2>2, <2>3, <2>4, SupervisorApart DEF MarkInv, Extends
<1>4. ASSUME NEW h \in Hands, Fail(h) PROVE MarkInv'
  BY <1>4, <1>q DEF Fail, store
<1>5. CASE Restart
  BY <1>5, SupervisorApart DEF Restart, store, MarkInv, Owes
<1>6. ASSUME NEW h \in Hands, RunTool(h) PROVE MarkInv'
  BY <1>6, <1>q DEF RunTool, store, flaws
<1>7. CASE BeginTurn
  <2>1. pc[Supervisor] = "idle"
    BY <1>7 DEF BeginTurn, MarkInv
  <2>2. QED
    BY <1>0, <1>7, <2>1 DEF BeginTurn, MarkInv, store, hands, flaws, Owes, Extends
<1>8. ASSUME NEW ok \in BOOLEAN, EndTurn(ok) PROVE MarkInv'
  BY <1>8 DEF EndTurn, MarkInv, store, hands, flaws, Owes, Extends
<1>9. CASE UNCHANGED vars
  BY <1>9 DEF vars, MarkInv, store, hands, turns, flaws, Owes, Extends
<1>10. CASE Mark
  <2> DEFINE m == [copy[Supervisor] EXCEPT !.pending = turn]
  <2>1. m \in Meta /\ m.pending = turn /\ m.outcomes = copy[Supervisor].outcomes
    BY <1>0, SupervisorApart DEF Meta
  <2>2. Note(Supervisor, m) /\ copy[Supervisor].pending = 0
    BY <1>10 DEF Mark
  <2> HIDE DEF m
  <2>3. Extends(m, copy[Supervisor])
    BY <2>1, <2>2 DEF Extends
  <2>4. QED
    BY <2>1, <2>2, <2>3, SupervisorApart, NoteOwes
(* What leaves the mark and the outcomes alone.                            *)
<1>n. ASSUME NEW h \in Hands, h # Supervisor, NEW m \in Meta, Note(h, m),
             m.pending = copy[h].pending, m.outcomes = copy[h].outcomes
      PROVE  MarkInv'
  <2>1. Extends(m, copy[h])
    BY <1>n DEF Extends
  <2>2. QED
    BY <1>n, <2>1, NoteOwes
<1>s. ASSUME NEW h \in Requests \cup Calls, NEW s, NEW p, NEW m \in Meta, Save(h, s, p, m),
             m.pending = copy[h].pending, m.outcomes = copy[h].outcomes
      PROVE  MarkInv'
  <2>1. Extends(m, copy[h])
    BY <1>s DEF Extends
  <2>2. QED
    BY <1>s, <2>1, SaveOwes
<1>11. ASSUME NEW h \in Hands, Enter(h) PROVE MarkInv'
  <2> DEFINE m == [copy[h] EXCEPT !.mode = "planning"]
  <2>1. m \in Meta /\ m.pending = copy[h].pending /\ m.outcomes = copy[h].outcomes
    BY <1>0 DEF Meta, Mode
  <2>2. h # Supervisor /\ Note(h, m)
    BY <1>11, SupervisorApart DEF Enter
  <2> HIDE DEF m
  <2>3. QED
    BY <2>1, <2>2, <1>n
<1>12. ASSUME NEW h \in Hands, Exit(h) PROVE MarkInv'
  <2> DEFINE st == IF HasPlan(copy[h]) THEN PlanOf(copy[h]).status ELSE copy[h].status
             m == [copy[h] EXCEPT !.mode = "chat", !.status = st]
  <2>1. h # Supervisor /\ Note(h, m)
    BY <1>12, SupervisorApart DEF Exit
  <2>2. st \in Status
    BY <1>0, <1>p DEF Meta, Plan
  <2> HIDE DEF st
  <2>3. m \in Meta /\ m.pending = copy[h].pending /\ m.outcomes = copy[h].outcomes
    BY <1>0, <2>2 DEF Meta, Mode
  <2> HIDE DEF m
  <2>4. QED
    BY <2>1, <2>3, <1>n
<1>13. ASSUME NEW h \in Hands, Remark(h) PROVE MarkInv'
  BY <1>13, <1>0, <1>n DEF Remark
<1>14. ASSUME NEW h \in Hands, AppendArtifact(h) PROVE MarkInv'
  BY <1>14, <1>0, <1>s DEF AppendArtifact
<1>16. ASSUME NEW h \in Hands, NEW s \in Slugs, NEW sound \in BOOLEAN, NEW steps \in Drafted,
              Create(h, s, sound, steps)
       PROVE  MarkInv'
  <2> DEFINE m == [copy[h] EXCEPT !.mode = "planning"]
             p == [rev |-> 1, status |-> "draft", steps |-> steps, sound |-> sound,
                   text |-> file[s].text + 1]
  <2>1. m \in Meta /\ m.pending = copy[h].pending /\ m.outcomes = copy[h].outcomes
    BY <1>0 DEF Meta, Mode
  <2>2. h \in Requests \cup Calls /\ Save(h, s, p, m)
    BY <1>16 DEF Create
  <2> HIDE DEF m, p
  <2>3. QED
    BY <2>1, <2>2, <1>s
<1>17. ASSUME NEW h \in Hands, NEW sound \in BOOLEAN, NEW steps \in Drafted,
              Publish(h, sound, steps)
       PROVE  MarkInv'
  <2>1. h \in Requests \cup Calls
        /\ Save(h, copy[h].path, Redraft(PlanOf(copy[h]), sound, steps), copy[h])
    BY <1>17 DEF Publish
  <2>2. QED
    BY <1>0, <2>1, <1>s
<1>18. ASSUME NEW h \in Hands, NEW sound \in BOOLEAN, Update(h, sound) PROVE MarkInv'
  <2> DEFINE o == PlanOf(copy[h])
             m == [copy[h] EXCEPT !.mode = "planning"]
             p == Redraft(o, sound, o.steps)
  <2>1. m \in Meta /\ m.pending = copy[h].pending /\ m.outcomes = copy[h].outcomes
    BY <1>0 DEF Meta, Mode
  <2>2. h \in Requests \cup Calls /\ Save(h, copy[h].path, p, m)
    BY <1>18 DEF Update
  <2> HIDE DEF m, p
  <2>3. QED
    BY <2>1, <2>2, <1>s
<1>19. ASSUME NEW h \in Hands, Approve(h) PROVE MarkInv'
  <2> DEFINE o == PlanOf(copy[h])
             p == [o EXCEPT !.status = "executing",
                            !.steps = IF Active(o.steps) = {} THEN Advance(o.steps) ELSE o.steps]
             m == [copy[h] EXCEPT !.mode = "executing", !.accepted = o.rev]
  <2>1. HasPlan(copy[h]) /\ h \in Requests \cup Calls /\ Save(h, copy[h].path, p, m)
    BY <1>19 DEF Approve
  <2>2. o.rev \in Nat
    BY <1>p, <2>1 DEF Plan
  <2> HIDE DEF o
  <2>3. m \in Meta /\ m.pending = copy[h].pending /\ m.outcomes = copy[h].outcomes
    BY <1>0, <2>2 DEF Meta, Mode
  <2> HIDE DEF m, p
  <2>4. QED
    BY <2>1, <2>3, <1>s
<1>20. ASSUME NEW h \in Hands, NEW s \in Steps, NEW st \in StepStatus, SetStep(h, s, st)
       PROVE  MarkInv'
  <2> DEFINE p == WithStep(PlanOf(copy[h]), s, st)
             m == [copy[h] EXCEPT !.mode = ModeOf(p)]
  <2>1. HasPlan(copy[h]) /\ h \in Requests \cup Calls /\ Save(h, copy[h].path, p, m)
    BY <1>20 DEF SetStep, IsApproved
  <2>2. p \in Plan
    BY <1>p, <2>1, WithStepTyped
  <2> HIDE DEF p
  <2>3. m \in Meta /\ m.pending = copy[h].pending /\ m.outcomes = copy[h].outcomes
    <3>1. ModeOf(p) \in Mode
      BY <2>2, ModeOfTyped
    <3>2. copy[h] \in Meta /\ copy[h].status \in Status
      BY <1>0 DEF Meta
    <3>3. m \in Meta
      BY <3>1, <3>2, MetaWith
    <3>4. QED
      BY <3>2, <3>3 DEF Meta
  <2> HIDE DEF m
  <2>4. QED
    BY <2>1, <2>3, <1>s
<1>21. ASSUME NEW h \in Hands, CompleteAll(h) PROVE MarkInv'
  <2> DEFINE p == [PlanOf(copy[h]) EXCEPT !.steps = [s \in Steps |-> "done"], !.status = "done"]
             m == [copy[h] EXCEPT !.mode = "done"]
  <2>1. h \in Requests \cup Calls /\ Save(h, copy[h].path, p, m)
    BY <1>21 DEF CompleteAll
  <2>2. m \in Meta /\ m.pending = copy[h].pending /\ m.outcomes = copy[h].outcomes
    BY <1>0 DEF Meta, Mode
  <2> HIDE DEF p, m
  <2>3. QED
    BY <2>1, <2>2, <1>s
<1>22. ASSUME NEW h \in Hands, NEW affected \in SUBSET Steps, Replan(h, affected)
       PROVE  MarkInv'
  <2> DEFINE o == PlanOf(copy[h])
             hit(s) == o.steps[s] = "in_progress" /\ (affected = {} \/ s \in affected)
             p == Redraft(o, FALSE, [s \in Steps |-> IF hit(s) THEN "blocked" ELSE o.steps[s]])
             m == [copy[h] EXCEPT !.mode = "planning", !.replan = TRUE]
  <2>1. h \in Requests \cup Calls /\ Save(h, copy[h].path, p, m)
    BY <1>22 DEF Replan
  <2>2. m \in Meta /\ m.pending = copy[h].pending /\ m.outcomes = copy[h].outcomes
    BY <1>0 DEF Meta, Mode
  <2> HIDE DEF o, p, m
  <2>3. QED
    BY <2>1, <2>2, <1>s
<1>23. ASSUME NEW h \in Hands, Resume(h) PROVE MarkInv'
  <2> DEFINE p == PlanOf(copy[h])
             m == [copy[h] EXCEPT !.mode = IF p.status \in {"draft", "approved"} THEN "planning"
                                                                               ELSE p.status]
  <2>1. HasPlan(copy[h]) /\ h \in Requests \cup Calls /\ Save(h, copy[h].path, p, m)
    BY <1>23 DEF Resume
  <2>2. p.status \in Status
    BY <1>p, <2>1 DEF Plan
  <2> HIDE DEF p
  <2>3. m \in Meta
    <3>1. (IF p.status \in {"draft", "approved"} THEN "planning" ELSE p.status) \in Mode
      BY <2>2 DEF Status, Mode
    <3>2. copy[h] \in Meta /\ copy[h].status \in Status
      BY <1>0 DEF Meta
    <3>3. QED
      BY <3>1, <3>2, MetaWith
  <2>4. m.pending = copy[h].pending /\ m.outcomes = copy[h].outcomes
    BY <1>0 DEF Meta
  <2> HIDE DEF m
  <2>5. QED
    BY <2>1, <2>3, <2>4, <1>s
<1>24. ASSUME NEW h \in Hands, Progress(h) PROVE MarkInv'
  <2>1. HasPlan(copy[h]) /\ h \in Requests \cup Calls /\ h # Supervisor
    BY <1>24, SupervisorApart DEF Progress, IsApproved
  <2> DEFINE a == Accounted(copy[h])
  <2>2. a \in Meta
    BY <1>0, AccountedTyped
  <2>3. Extends(a, copy[h])
    BY <1>0 DEF Accounted, Meta, Extends
  <2> HIDE DEF a
  <2>4. CASE Note(h, a)
    BY <2>1, <2>2, <2>3, <2>4, NoteOwes
  <2>5. ASSUME NEW s \in Steps, NEW st \in {"done", "blocked"},
               Save(h, copy[h].path, WithStep(PlanOf(copy[h]), s, st),
                    [a EXCEPT !.mode = ModeOf(WithStep(PlanOf(copy[h]), s, st))])
        PROVE  MarkInv'
    <3> DEFINE p == WithStep(PlanOf(copy[h]), s, st)
               m == [a EXCEPT !.mode = ModeOf(p)]
    <3>1. p \in Plan
      BY <1>p, <2>1, WithStepTyped DEF StepStatus
    <3>2. Save(h, copy[h].path, p, m)
      BY <2>5
    <3> HIDE DEF p
    <3>3. m \in Meta /\ m.pending = a.pending /\ m.outcomes = a.outcomes
      BY <2>2, <3>1 DEF Meta, Mode, ModeOf, Plan
    <3> HIDE DEF m
    <3>4. Extends(m, copy[h])
      BY <2>3, <3>3 DEF Extends
    <3>5. QED
      BY <2>1, <3>2, <3>3, <3>4, SaveOwes
  <2>6. QED
    BY <1>24, <2>4, <2>5 DEF Progress, a
<1>25. ASSUME NEW h \in Hands, Draft(h) PROVE MarkInv'
  BY <1>25, <1>11, <1>13, <1>14, <1>16, <1>17, <1>18 DEF Draft
<1>26. ASSUME NEW h \in Hands, Execute(h) PROVE MarkInv'
  BY <1>26, <1>12, <1>19, <1>20, <1>21, <1>22, <1>23, <1>24 DEF Execute
<1>27. QED
  BY <1>1, <1>2, <1>3, <1>4, <1>5, <1>6, <1>7, <1>8, <1>9, <1>10, <1>25, <1>26 DEF Next

(* A marked turn stays marked until it has an outcome, unless a stale copy *)
(* of the metadata is committed.                                           *)
THEOREM MarksOwed == Spec => []MarkedTurnsOwe
<1>1. Init => TypeOK /\ MarkInv
  BY InitTyped, MarkInit
<1>2. TypeOK /\ MarkInv /\ [Next]_vars => (TypeOK /\ MarkInv)'
  BY NextTyped, MarkNext
<1>3. MarkInv => MarkedTurnsOwe
  BY DEF MarkInv, MarkedTurnsOwe, Owes
<1>4. QED
  BY <1>1, <1>2, <1>3, PTL DEF Spec

---------------------------------------------------------------------------
(* Agreement.  While no stale copy and no lost commit is behind it, at     *)
(* most one handler is between its write and its commit, what it will      *)
(* commit agrees with its file, and the metadata agrees with its own file  *)
(* unless it is that one.  A copy that is not stale is the metadata, or it *)
(* changed only what keeps the agreement.                                  *)
Fits(m, st) ==
    /\ m.mode = "executing" => st \in {"executing", "approved"}
    /\ m.mode \in {"blocked", "done"} => st = m.mode
    /\ st # "draft" => m.accepted = m.rev
Shows(m) == PlanOf(m).rev = m.rev /\ PlanOf(m).status = m.status
Tells(m) == HasPlan(m) => Shows(m) /\ Fits(m, m.status)
Near(c, m) ==
    /\ c.path = m.path /\ c.rev = m.rev /\ c.accepted = m.accepted
    /\ c.mode \in {m.mode, "chat", "planning"}

Writing(s) == \E h \in Hands : pc[h] = "saved" /\ copy[h].path = s

Lone   == \A g, h \in Hands : pc[g] = "saved" /\ pc[h] = "saved" => g = h
Writes == \A h \in Hands :
    pc[h] = "saved" =>
        HasPlan(copy[h]) /\ Shows(copy[h]) /\ (h \notin stale => Fits(copy[h], copy[h].status))
Copied == \A g \in Hands : pc[g] = "read" /\ g \notin stale => copy[g] = meta
Noted  == \A g \in Hands :
    pc[g] = "noted" /\ g \notin stale =>
        /\ Near(copy[g], meta)
        /\ \/ copy[g].status = meta.status
           \/ \E h \in Hands : pc[h] = "saved" /\ copy[g].status = copy[h].status
        /\ ~Writing(meta.path) => Tells(copy[g])

AgreeInv ==
    ~overwritten /\ ~torn =>
        Lone /\ Writes /\ Copied /\ Noted /\ (~Writing(meta.path) => Tells(meta))

(* A copy near the metadata, of the same status, agrees as it does.        *)
LEMMA NearTells ==
  ASSUME NEW c \in Meta, NEW m \in Meta, Near(c, m), c.status = m.status, Tells(m)
  PROVE  Tells(c)
  BY DEF Near, Tells, Shows, Fits, HasPlan, PlanOf

(* A handler that writes no file.                                          *)
LEMMA NoteAgrees ==
  ASSUME TypeOK, AgreeInv, NEW h \in Hands, NEW m \in Meta, Note(h, m), Near(m, copy[h]),
         \/ m.status = copy[h].status
         \/ HasPlan(copy[h]) /\ m.status = PlanOf(copy[h]).status
  PROVE  AgreeInv'
<1> SUFFICES ASSUME ~overwritten, ~torn PROVE AgreeInv'
  BY DEF Note, AgreeInv, flaws
<1>1. UNCHANGED <<meta, file, stale, overwritten, torn>>
  BY DEF Note, store, flaws
<1>2. /\ \A g \in Hands : g # h => pc'[g] = pc[g] /\ copy'[g] = copy[g]
      /\ pc[h] = "read" /\ pc'[h] = "noted" /\ copy'[h] = m
  BY DEF Note, TypeOK
<1>3. /\ Lone /\ Writes /\ Copied /\ Noted /\ (~Writing(meta.path) => Tells(meta))
      /\ meta \in Meta
  BY DEF AgreeInv, TypeOK
<1>4. \A s : Writing(s)' <=> Writing(s)
  BY <1>2 DEF Writing
<1>5. Lone' /\ Writes' /\ Copied'
  BY <1>1, <1>2, <1>3 DEF Lone, Writes, Copied, HasPlan, Shows, PlanOf, Fits
<1>6. ASSUME h \notin stale
      PROVE  /\ Near(m, meta)
             /\ \/ m.status = meta.status
                \/ \E g \in Hands : pc[g] = "saved" /\ m.status = copy[g].status
             /\ ~Writing(meta.path) => Tells(m)
  <2>1. copy[h] = meta
    BY <1>2, <1>3, <1>6 DEF Copied
  <2>2. CASE Writing(meta.path)
    <3>1. PICK g \in Hands : pc[g] = "saved" /\ copy[g].path = meta.path
      BY <2>2 DEF Writing
    <3>2. PlanOf(meta).status = copy[g].status
      BY <1>3, <3>1 DEF Writes, Shows, PlanOf
    <3> QED
      BY <2>1, <2>2, <3>1, <3>2
  <2>3. CASE ~Writing(meta.path)
    <3>1. m.status = meta.status
      BY <1>3, <2>1, <2>3 DEF Tells, Shows
    <3> QED
      BY <1>3, <2>1, <2>3, <3>1, NearTells
  <2> QED
    BY <2>2, <2>3
<1>7. Noted'
  <2> SUFFICES ASSUME NEW g \in Hands, pc'[g] = "noted", g \notin stale
               PROVE  /\ Near(copy'[g], meta)
                      /\ \/ copy'[g].status = meta.status
                         \/ \E k \in Hands : pc'[k] = "saved" /\ copy'[g].status = copy'[k].status
                      /\ ~Writing(meta.path) => Tells(copy'[g])
    BY <1>1, <1>4 DEF Noted, Near, Tells, Shows, HasPlan, PlanOf, Fits
  <2>1. \A k \in Hands : pc[k] = "saved" => pc'[k] = "saved" /\ copy'[k] = copy[k]
    BY <1>2
  <2>2. CASE g = h
    BY <1>2, <1>6, <2>1, <2>2
  <2>3. CASE g # h
    BY <1>2, <1>3, <2>1, <2>3 DEF Noted
  <2> QED
    BY <2>2, <2>3
<1> QED
  BY <1>1, <1>3, <1>4, <1>5, <1>7 DEF AgreeInv, Tells, Shows, HasPlan, PlanOf, Fits

(* A handler that writes a file: it is the only one, or the flaw is noted. *)
LEMMA SaveAgrees ==
  ASSUME TypeOK, AgreeInv, NEW h \in Hands, NEW s \in Slugs, NEW p \in Plan, NEW m \in Meta,
         Save(h, s, p, m),
         Tells(copy[h]) => Fits([m EXCEPT !.rev = p.rev], p.status)
  PROVE  AgreeInv'
<1> SUFFICES ASSUME ~overwritten', ~torn' PROVE AgreeInv'
  BY DEF AgreeInv
<1>1. UNCHANGED <<meta, stale, overwritten>> /\ ~torn /\ ~overwritten
      /\ \A g \in Hands \ {h} : pc[g] # "saved"
  BY DEF Save
<1> DEFINE c == [m EXCEPT !.path = s, !.rev = p.rev, !.status = p.status]
<1>2. /\ \A g \in Hands : g # h => pc'[g] = pc[g] /\ copy'[g] = copy[g]
      /\ pc[h] = "read" /\ pc'[h] = "saved" /\ copy'[h] = c
      /\ file'[s] = p /\ \A r \in Slugs : r # s => file'[r] = file[r]
  BY DEF Save, TypeOK
<1>3. /\ c.path = s /\ c.rev = p.rev /\ c.status = p.status /\ c.mode = m.mode
      /\ c.accepted = m.accepted
  BY DEF Meta
<1> HIDE DEF c
<1>4. /\ Copied /\ Noted /\ Tells(meta) /\ meta \in Meta
      /\ \A r : ~Writing(r)
  BY <1>1, <1>2 DEF AgreeInv, TypeOK, Writing
<1>5. h \notin stale => Fits(c, c.status)
  <2> SUFFICES ASSUME h \notin stale PROVE Fits(c, c.status)
    OBVIOUS
  <2>1. Tells(copy[h])
    BY <1>2, <1>4 DEF Copied
  <2>2. [m EXCEPT !.rev = p.rev].mode = m.mode /\ [m EXCEPT !.rev = p.rev].rev = p.rev
        /\ [m EXCEPT !.rev = p.rev].accepted = m.accepted
    BY DEF Meta
  <2> QED
    BY <1>3, <2>1, <2>2 DEF Fits
<1>6. Lone' /\ Copied'
  BY <1>1, <1>2, <1>4 DEF Lone, Copied
<1>7. Writes'
  <2>1. s # "none"
    OBVIOUS
  <2> QED
    BY <1>1, <1>2, <1>3, <1>5, <2>1 DEF Writes, HasPlan, Shows, PlanOf, Fits
<1>8. Writing(s)'
  BY <1>2, <1>3 DEF Writing
<1>9. \A k \in Meta : k.path # s => (Tells(k)' <=> Tells(k))
  BY <1>2 DEF Tells, HasPlan, Shows, PlanOf, Fits, Meta
<1>10. Noted'
  <2> SUFFICES ASSUME NEW g \in Hands, pc'[g] = "noted", g \notin stale
               PROVE  \E k \in Meta : /\ copy'[g] = k /\ Near(k, meta)
                                      /\ k.status = meta.status
                                      /\ ~Writing(meta.path)' => Tells(k)'
    BY <1>1 DEF Noted, Near, Tells, Shows, HasPlan, PlanOf, Fits
  <2>1. PICK k \in Meta : copy[g] = k /\ copy'[g] = k /\ pc[g] = "noted"
    BY <1>2 DEF TypeOK
  <2>2. Near(k, meta) /\ k.status = meta.status /\ Tells(k)
    BY <1>4, <2>1 DEF Noted, Writing
  <2>3. meta.path # s => Tells(k)'
    BY <1>9, <2>2 DEF Near
  <2>4. meta' = meta /\ (Writing(meta.path)' \/ meta.path # s)
    BY <1>1, <1>8
  <2> QED
    BY <2>1, <2>2, <2>3, <2>4
<1>11. ~Writing(meta.path)' => Tells(meta)'
  BY <1>1, <1>4, <1>8, <1>9 DEF Tells, Shows, HasPlan, PlanOf, Fits
<1> QED
  BY <1>1, <1>6, <1>7, <1>10, <1>11 DEF AgreeInv, Writing

(* The handler that commits was not overtaken, so what it commits agrees.  *)
LEMMA CommitAgrees ==
  ASSUME TypeOK, AgreeInv, NEW h \in Hands, Commit(h)
  PROVE  AgreeInv'
<1> SUFFICES ASSUME ~overwritten', ~torn' PROVE AgreeInv'
  BY DEF AgreeInv
<1>1. ~overwritten /\ ~torn /\ h \notin stale /\ UNCHANGED <<file, torn>>
      /\ meta' = copy[h] /\ pc[h] \in {"noted", "saved"}
  BY DEF Commit
<1>2. /\ \A g \in Hands : g # h => pc'[g] = pc[g] /\ copy'[g] = copy[g]
      /\ pc'[h] = "idle"
  BY DEF Commit, Leave, TypeOK
<1>3. /\ Lone /\ Writes /\ Copied /\ Noted /\ (~Writing(meta.path) => Tells(meta))
      /\ meta \in Meta /\ \A g \in Hands : copy[g] \in Meta
  BY <1>1 DEF AgreeInv, TypeOK
<1>4. IF copy[h] = meta THEN stale' = stale \ {h}
      ELSE \A g \in Hands : g # h /\ pc'[g] # "idle" => g \in stale'
  BY <1>2 DEF Commit
<1>5. Lone' /\ Copied'
  BY <1>2, <1>3, <1>4, <1>1 DEF Lone, Copied
<1>6. Writes'
  <2>1. \A g \in Hands : pc'[g] = "saved" =>
          g # h /\ pc[g] = "saved" /\ copy'[g] = copy[g] /\ (g \notin stale' => g \notin stale)
    BY <1>2, <1>4
  <2> QED
    BY <1>1, <1>3, <2>1 DEF Writes, HasPlan, Shows, PlanOf, Fits
<1>7. ~Writing(meta.path)' => Tells(meta)'
  <2>1. CASE pc[h] = "saved"
    BY <1>1, <1>3, <2>1 DEF Writes, Tells, HasPlan, Shows, PlanOf, Fits
  <2>2. CASE pc[h] = "noted"
    <3>1. Near(copy[h], meta) /\ (~Writing(meta.path) => Tells(copy[h]))
      BY <1>1, <1>3, <2>2 DEF Noted
    <3>2. Writing(meta.path)' <=> Writing(meta.path)
      BY <1>1, <1>2, <2>2, <3>1 DEF Writing, Near
    <3> QED
      BY <1>1, <3>1, <3>2 DEF Tells, HasPlan, Shows, PlanOf, Fits
  <2> QED
    BY <1>1, <2>1, <2>2
<1>8. Noted'
  <2> SUFFICES ASSUME NEW g \in Hands, pc'[g] = "noted", g \notin stale'
               PROVE  /\ Near(copy[g], meta) /\ copy[h] = meta /\ copy'[g] = copy[g]
                      /\ \/ copy[g].status = meta.status
                         \/ \E k \in Hands : pc'[k] = "saved" /\ copy[g].status = copy'[k].status
                      /\ ~Writing(meta.path)' => Tells(copy[g])
    BY <1>1 DEF Noted, Near, Tells, Shows, HasPlan, PlanOf, Fits
  <2>1. g # h /\ pc[g] = "noted" /\ copy'[g] = copy[g] /\ copy[h] = meta /\ g \notin stale
    BY <1>2, <1>4
  <2>2. /\ Near(copy[g], meta)
        /\ \/ copy[g].status = meta.status
           \/ \E k \in Hands : pc[k] = "saved" /\ copy[g].status = copy[k].status
        /\ ~Writing(meta.path) => Tells(copy[g])
    BY <1>3, <2>1 DEF Noted
  <2>3. CASE pc[h] = "noted"
    <3>1. Writing(meta.path)' <=> Writing(meta.path)
      BY <1>1, <1>2, <2>1, <2>3 DEF Writing
    <3>2. \A k \in Hands : pc[k] = "saved" => pc'[k] = "saved" /\ copy'[k] = copy[k]
      BY <1>2, <2>3
    <3> QED
      BY <2>1, <2>2, <3>1, <3>2
  <2>4. CASE pc[h] = "saved"
    <3>1. copy[g].status = meta.status
      BY <1>3, <2>1, <2>2, <2>4 DEF Lone
    <3>2. Tells(meta)
      BY <1>1, <1>3, <2>1, <2>4 DEF Writes, Tells
    <3>3. Tells(copy[g])
      BY <1>3, <2>2, <3>1, <3>2, NearTells
    <3> QED
      BY <2>1, <2>2, <3>1, <3>3
  <2> QED
    BY <1>1, <2>3, <2>4
<1> QED
  BY <1>5, <1>6, <1>7, <1>8 DEF AgreeInv

(* A handler that ends without a commit had written nothing.               *)
LEMMA LeaveAgrees ==
  ASSUME TypeOK, AgreeInv, NEW h \in Hands, Leave(h), UNCHANGED <<meta, file, overwritten>>,
         stale' = stale \ {h}, torn' = (torn \/ pc[h] = "saved")
  PROVE  AgreeInv'
<1> SUFFICES ASSUME ~overwritten', ~torn' PROVE AgreeInv'
  BY DEF AgreeInv
<1>1. ~overwritten /\ ~torn /\ pc[h] # "saved"
  OBVIOUS
<1>2. /\ \A g \in Hands : g # h => pc'[g] = pc[g] /\ copy'[g] = copy[g]
      /\ pc'[h] = "idle"
  BY DEF Leave, TypeOK
<1>3. /\ Lone /\ Writes /\ Copied /\ Noted /\ (~Writing(meta.path) => Tells(meta))
  BY <1>1 DEF AgreeInv
<1>4. \A s : Writing(s)' <=> Writing(s)
  BY <1>1, <1>2 DEF Writing
<1>5. Lone' /\ Writes' /\ Copied'
  BY <1>1, <1>2, <1>3 DEF Lone, Writes, Copied, HasPlan, Shows, PlanOf, Fits
<1>6. \A k \in Hands : pc[k] = "saved" => pc'[k] = "saved" /\ copy'[k] = copy[k]
  BY <1>1, <1>2
<1>7. Noted'
  <2> SUFFICES ASSUME NEW g \in Hands, pc'[g] = "noted", g \notin stale'
               PROVE  /\ Near(copy[g], meta) /\ copy'[g] = copy[g]
                      /\ \/ copy[g].status = meta.status
                         \/ \E k \in Hands : pc'[k] = "saved" /\ copy[g].status = copy'[k].status
                      /\ ~Writing(meta.path) => Tells(copy[g])
    BY <1>4 DEF Noted, Near, Tells, Shows, HasPlan, PlanOf, Fits
  <2>1. g # h /\ pc[g] = "noted" /\ copy'[g] = copy[g] /\ g \notin stale
    BY <1>2
  <2> QED
    BY <1>3, <1>6, <2>1 DEF Noted
<1> QED
  BY <1>3, <1>4, <1>5, <1>7 DEF AgreeInv, Tells, Shows, HasPlan, PlanOf, Fits

LEMMA AgreeInit == Init => AgreeInv
  BY DEF Init, Blank, AgreeInv, Lone, Writes, Copied, Noted, Tells, HasPlan

(* A revised plan is a draft.                                              *)
LEMMA RedraftFits ==
  ASSUME NEW p \in Plan, NEW sound \in BOOLEAN, NEW steps \in [Steps -> StepStatus],
         NEW m \in Meta, m.mode = "planning"
  PROVE  Fits([m EXCEPT !.rev = Redraft(p, sound, steps).rev], Redraft(p, sound, steps).status)
<1>1. Redraft(p, sound, steps).status = "draft"
  BY DEF Redraft, Plan
<1> DEFINE c == [m EXCEPT !.rev = Redraft(p, sound, steps).rev]
<1>2. c.mode = "planning"
  BY DEF Meta
<1> HIDE DEF c
<1>3. Fits(c, "draft")
  BY <1>2 DEF Fits
<1> QED
  BY <1>1, <1>3 DEF c

(* A step is set only in the accepted revision.                            *)
LEMMA WithStepFits ==
  ASSUME NEW p \in Plan, NEW s \in Steps, NEW st \in StepStatus, NEW m \in Meta,
         m.mode = ModeOf(WithStep(p, s, st)), m.accepted = p.rev
  PROVE  Fits([m EXCEPT !.rev = WithStep(p, s, st).rev], WithStep(p, s, st).status)
<1> DEFINE q == WithStep(p, s, st)
           c == [m EXCEPT !.rev = q.rev]
<1>1. q.rev = p.rev /\ q.status \in Status
  BY WithStepTyped DEF Plan
<1>2. q.status \in {"approved", "executing", "blocked", "done"}
  BY DEF WithStep, Plan, StepStatus
<1>3. c.mode = ModeOf(q) /\ c.accepted = p.rev /\ c.rev = q.rev
  BY DEF Meta
<1> HIDE DEF q, c
<1>4. Fits(c, q.status)
  BY <1>1, <1>2, <1>3 DEF Fits, ModeOf
<1> QED
  BY <1>4 DEF c, q

(* One case per action.                                                    *)
LEMMA AgreeNext == TypeOK /\ AgreeInv /\ [Next]_vars => AgreeInv'
<1> SUFFICES ASSUME TypeOK, AgreeInv, [Next]_vars PROVE AgreeInv'
  OBVIOUS
<1>0. /\ \A h \in Hands : copy[h] \in Meta
      /\ \A s \in Slugs : file[s] \in Plan
  BY DEF TypeOK
<1>p. \A h \in Hands : HasPlan(copy[h]) => copy[h].path \in Slugs /\ PlanOf(copy[h]) \in Plan
  BY <1>0 DEF HasPlan, PlanOf, Meta
<1>1. ASSUME NEW h \in Hands, Read(h) PROVE AgreeInv'
  <2>1. UNCHANGED <<meta, file, stale, overwritten, torn>>
    BY <1>1 DEF Read, store, flaws
  <2>2. /\ \A g \in Hands : g # h => pc'[g] = pc[g] /\ copy'[g] = copy[g]
        /\ pc[h] = "idle" /\ pc'[h] = "read" /\ copy'[h] = meta
    BY <1>1 DEF Read, TypeOK
  <2>3. \A s : Writing(s)' <=> Writing(s)
    BY <2>2 DEF Writing
  <2>4. \A k \in Hands : pc[k] = "saved" => pc'[k] = "saved" /\ copy'[k] = copy[k]
    BY <2>2
  <2>5. Lone /\ Writes /\ Copied => Lone' /\ Writes' /\ Copied'
    BY <2>1, <2>2 DEF Lone, Writes, Copied, HasPlan, Shows, PlanOf, Fits
  <2>6. Noted => Noted'
    <3> SUFFICES ASSUME Noted, NEW g \in Hands, pc'[g] = "noted", g \notin stale
                 PROVE  /\ Near(copy[g], meta) /\ copy'[g] = copy[g]
                        /\ \/ copy[g].status = meta.status
                           \/ \E k \in Hands : pc'[k] = "saved" /\ copy[g].status = copy'[k].status
                        /\ ~Writing(meta.path) => Tells(copy[g])
      BY <2>1, <2>3 DEF Noted, Near, Tells, Shows, HasPlan, PlanOf, Fits
    <3>1. pc[g] = "noted" /\ copy'[g] = copy[g]
      BY <2>2
    <3> QED
      BY <2>4, <3>1 DEF Noted
  <2> QED
    BY <2>1, <2>3, <2>5, <2>6 DEF AgreeInv, Tells, Shows, HasPlan, PlanOf, Fits
<1>2. ASSUME NEW h \in Hands, Refuse(h) PROVE AgreeInv'
  <2>1. pc[h] = "read" /\ torn' = torn /\ torn \in BOOLEAN
    BY <1>2 DEF Refuse, flaws, TypeOK
  <2>2. torn' = (torn \/ pc[h] = "saved")
    BY <2>1
  <2> QED
    BY <1>2, <2>2, LeaveAgrees DEF Refuse, store, flaws
<1>3. ASSUME NEW h \in Hands, Commit(h) PROVE AgreeInv'
  BY <1>3, CommitAgrees
<1>4. ASSUME NEW h \in Hands, Fail(h) PROVE AgreeInv'
  BY <1>4, LeaveAgrees DEF Fail, store
<1>5. CASE Restart
  <2> SUFFICES ASSUME ~overwritten', ~torn' PROVE AgreeInv'
    BY DEF AgreeInv
  <2>1. ~overwritten /\ ~torn /\ UNCHANGED <<meta, file>>
        /\ \A h \in Hands : pc[h] # "saved" /\ pc'[h] = "idle"
    BY <1>5 DEF Restart, store
  <2>2. Tells(meta)
    BY <2>1 DEF AgreeInv, Writing
  <2> QED
    BY <2>1, <2>2 DEF AgreeInv, Lone, Writes, Copied, Noted, Tells, Shows, HasPlan, PlanOf, Fits
<1>6. ASSUME NEW h \in Hands, RunTool(h) PROVE AgreeInv'
  <2>1. pc[h] = "read" /\ torn' = torn /\ torn \in BOOLEAN
    BY <1>6 DEF RunTool, flaws, TypeOK
  <2>2. torn' = (torn \/ pc[h] = "saved")
    BY <2>1
  <2> QED
    BY <1>6, <2>2, LeaveAgrees DEF RunTool, store, flaws
<1>7. CASE BeginTurn \/ UNCHANGED vars \/ \E ok \in BOOLEAN : EndTurn(ok)
  <2>1. UNCHANGED <<meta, file, pc, copy, stale, overwritten, torn>>
    BY <1>7 DEF BeginTurn, EndTurn, vars, store, hands, flaws
  <2> QED
    BY <2>1 DEF AgreeInv, Lone, Writes, Copied, Noted, Writing, Near, Tells, Shows, HasPlan,
                PlanOf, Fits
<1>8. CASE Mark
  <2> DEFINE m == [copy[Supervisor] EXCEPT !.pending = turn]
  <2>1. m \in Meta /\ Near(m, copy[Supervisor]) /\ m.status = copy[Supervisor].status
    BY <1>0, SupervisorApart DEF Meta, Near, TypeOK
  <2>2. Note(Supervisor, m)
    BY <1>8 DEF Mark
  <2> HIDE DEF m
  <2> QED
    BY <2>1, <2>2, SupervisorApart, NoteAgrees
<1>11. ASSUME NEW h \in Hands, Enter(h) PROVE AgreeInv'
  <2> DEFINE m == [copy[h] EXCEPT !.mode = "planning"]
  <2>1. m \in Meta /\ Near(m, copy[h]) /\ m.status = copy[h].status
    BY <1>0 DEF Meta, Mode, Near
  <2>2. Note(h, m)
    BY <1>11 DEF Enter
  <2> HIDE DEF m
  <2> QED
    BY <2>1, <2>2, NoteAgrees
<1>12. ASSUME NEW h \in Hands, Exit(h) PROVE AgreeInv'
  <2> DEFINE st == IF HasPlan(copy[h]) THEN PlanOf(copy[h]).status ELSE copy[h].status
             m == [copy[h] EXCEPT !.mode = "chat", !.status = st]
  <2>1. Note(h, m)
    BY <1>12 DEF Exit
  <2>2. st \in Status
    BY <1>0, <1>p DEF Meta, Plan
  <2>3. \/ st = copy[h].status
        \/ HasPlan(copy[h]) /\ st = PlanOf(copy[h]).status
    OBVIOUS
  <2> HIDE DEF st
  <2>4. m \in Meta /\ Near(m, copy[h]) /\ m.status = st
    BY <1>0, <2>2 DEF Meta, Mode, Near
  <2> HIDE DEF m
  <2> QED
    BY <2>1, <2>3, <2>4, NoteAgrees
<1>13. ASSUME NEW h \in Hands, Remark(h) PROVE AgreeInv'
  BY <1>13, <1>0, NoteAgrees DEF Remark, Near
<1>14. ASSUME NEW h \in Hands, AppendArtifact(h) PROVE AgreeInv'
  <2> DEFINE p == PlanOf(copy[h])
             c == [copy[h] EXCEPT !.rev = p.rev]
  <2>1. Save(h, copy[h].path, p, copy[h]) /\ copy[h].path \in Slugs /\ p \in Plan
        /\ HasPlan(copy[h])
    BY <1>14, <1>p DEF AppendArtifact
  <2>2. c.mode = copy[h].mode /\ c.accepted = copy[h].accepted /\ c.rev = p.rev
    BY <1>0 DEF Meta
  <2>3. Tells(copy[h]) => Fits(c, p.status)
    BY <2>1, <2>2 DEF Tells, Shows, Fits
  <2> HIDE DEF p
  <2> QED
    BY <1>0, <2>1, <2>3, SaveAgrees
<1>16. ASSUME NEW h \in Hands, NEW s \in Slugs, NEW sound \in BOOLEAN, NEW steps \in Drafted,
              Create(h, s, sound, steps)
       PROVE  AgreeInv'
  <2> DEFINE m == [copy[h] EXCEPT !.mode = "planning"]
             p == [rev |-> 1, status |-> "draft", steps |-> steps, sound |-> sound,
                   text |-> file[s].text + 1]
             c == [m EXCEPT !.rev = p.rev]
  <2>1. m \in Meta /\ c.mode = "planning"
    BY <1>0 DEF Meta, Mode
  <2>2. p \in Plan /\ p.status = "draft"
    <3>1. file[s].text + 1 \in Nat /\ steps \in [Steps -> StepStatus]
      BY <1>0 DEF Plan, StepStatus, Steps
    <3> QED
      BY <3>1 DEF Plan, Status
  <2>3. Save(h, s, p, m)
    BY <1>16 DEF Create
  <2> HIDE DEF m, p
  <2>4. Fits(c, p.status)
    BY <2>1, <2>2 DEF Fits
  <2> QED
    BY <2>1, <2>2, <2>3, <2>4, SaveAgrees
<1>17. ASSUME NEW h \in Hands, NEW sound \in BOOLEAN, NEW steps \in Drafted,
              Publish(h, sound, steps)
       PROVE  AgreeInv'
  <2> DEFINE o == PlanOf(copy[h])
             p == Redraft(o, sound, steps)
  <2>1. Save(h, copy[h].path, p, copy[h]) /\ HasPlan(copy[h]) /\ copy[h].mode = "planning"
    BY <1>17 DEF Publish
  <2>2. copy[h].path \in Slugs /\ o \in Plan /\ steps \in [Steps -> StepStatus]
    BY <1>p, <2>1 DEF StepStatus, Steps
  <2> HIDE DEF o
  <2>3. p \in Plan /\ Fits([copy[h] EXCEPT !.rev = p.rev], p.status)
    BY <1>0, <2>1, <2>2, RedraftTyped, RedraftFits
  <2> HIDE DEF p
  <2> QED
    BY <1>0, <2>1, <2>2, <2>3, SaveAgrees
<1>18. ASSUME NEW h \in Hands, NEW sound \in BOOLEAN, Update(h, sound) PROVE AgreeInv'
  <2> DEFINE o == PlanOf(copy[h])
             m == [copy[h] EXCEPT !.mode = "planning"]
             p == Redraft(o, sound, o.steps)
  <2>1. Save(h, copy[h].path, p, m) /\ HasPlan(copy[h])
    BY <1>18 DEF Update
  <2>2. copy[h].path \in Slugs /\ o \in Plan /\ o.steps \in [Steps -> StepStatus]
    BY <1>p, <2>1 DEF Plan
  <2>3. m \in Meta /\ m.mode = "planning"
    BY <1>0 DEF Meta, Mode
  <2> HIDE DEF o, m
  <2>4. p \in Plan /\ Fits([m EXCEPT !.rev = p.rev], p.status)
    BY <2>2, <2>3, RedraftTyped, RedraftFits
  <2> HIDE DEF p
  <2> QED
    BY <2>1, <2>2, <2>3, <2>4, SaveAgrees
<1>19. ASSUME NEW h \in Hands, Approve(h) PROVE AgreeInv'
  <2> DEFINE o == PlanOf(copy[h])
             steps == IF Active(o.steps) = {} THEN Advance(o.steps) ELSE o.steps
             p == [o EXCEPT !.status = "executing", !.steps = steps]
             m == [copy[h] EXCEPT !.mode = "executing", !.accepted = o.rev]
             c == [m EXCEPT !.rev = p.rev]
  <2>1. HasPlan(copy[h]) /\ Save(h, copy[h].path, p, m)
    BY <1>19 DEF Approve
  <2>2. copy[h].path \in Slugs /\ o \in Plan /\ o.rev \in Nat
    BY <1>p, <2>1 DEF Plan
  <2>3. steps \in [Steps -> StepStatus]
    BY <2>2, AdvanceTyped DEF Plan
  <2> HIDE DEF o, steps
  <2>4. m \in Meta /\ m.mode = "executing" /\ m.accepted = o.rev
    BY <1>0, <2>2 DEF Meta, Mode
  <2>5. p \in Plan /\ p.rev = o.rev /\ p.status = "executing"
    BY <2>2, <2>3 DEF Plan, Status
  <2> HIDE DEF m, p
  <2>6. c.mode = "executing" /\ c.accepted = o.rev /\ c.rev = o.rev
    BY <2>4, <2>5 DEF Meta
  <2>7. Fits(c, p.status)
    BY <2>5, <2>6 DEF Fits
  <2> QED
    BY <2>1, <2>2, <2>4, <2>5, <2>7, SaveAgrees
<1>20. ASSUME NEW h \in Hands, NEW s \in Steps, NEW st \in StepStatus, SetStep(h, s, st)
       PROVE  AgreeInv'
  <2> DEFINE o == PlanOf(copy[h])
             p == WithStep(o, s, st)
             m == [copy[h] EXCEPT !.mode = ModeOf(p)]
  <2>1. HasPlan(copy[h]) /\ o.rev = copy[h].accepted /\ Save(h, copy[h].path, p, m)
    BY <1>20 DEF SetStep, IsApproved
  <2>2. copy[h].path \in Slugs /\ o \in Plan /\ p \in Plan
    BY <1>p, <2>1, WithStepTyped
  <2> HIDE DEF o
  <2>3. m \in Meta /\ m.mode = ModeOf(p) /\ m.accepted = o.rev
    <3> HIDE DEF p
    <3>1. ModeOf(p) \in Mode
      BY <2>2, ModeOfTyped
    <3>2. copy[h] \in Meta /\ copy[h].status \in Status
      BY <1>0 DEF Meta
    <3>3. m \in Meta /\ m.accepted = copy[h].accepted
      BY <3>1, <3>2, MetaWith
    <3>4. m.mode = ModeOf(p)
      BY <1>0 DEF Meta
    <3> QED
      BY <2>1, <3>3, <3>4
  <2> HIDE DEF m
  <2>4. Fits([m EXCEPT !.rev = p.rev], p.status)
    BY <2>2, <2>3, WithStepFits
  <2> HIDE DEF p
  <2> QED
    BY <2>1, <2>2, <2>3, <2>4, SaveAgrees
<1>21. ASSUME NEW h \in Hands, CompleteAll(h) PROVE AgreeInv'
  <2> DEFINE o == PlanOf(copy[h])
             p == [o EXCEPT !.steps = [s \in Steps |-> "done"], !.status = "done"]
             m == [copy[h] EXCEPT !.mode = "done"]
             c == [m EXCEPT !.rev = p.rev]
  <2>1. HasPlan(copy[h]) /\ o.rev = copy[h].accepted /\ Save(h, copy[h].path, p, m)
    BY <1>21 DEF CompleteAll, IsApproved
  <2>2. copy[h].path \in Slugs /\ o \in Plan
    BY <1>p, <2>1
  <2> HIDE DEF o
  <2>3. m \in Meta /\ m.mode = "done" /\ m.accepted = o.rev
    BY <1>0, <2>1 DEF Meta, Mode
  <2>4. p \in Plan /\ p.rev = o.rev /\ p.status = "done"
    BY <2>2 DEF Plan, Status, StepStatus
  <2> HIDE DEF p, m
  <2>5. c.mode = "done" /\ c.accepted = o.rev /\ c.rev = o.rev
    BY <2>3, <2>4 DEF Meta
  <2>6. Fits(c, p.status)
    BY <2>4, <2>5 DEF Fits
  <2> QED
    BY <2>1, <2>2, <2>3, <2>4, <2>6, SaveAgrees
<1>22. ASSUME NEW h \in Hands, NEW affected \in SUBSET Steps, Replan(h, affected)
       PROVE  AgreeInv'
  <2> DEFINE o == PlanOf(copy[h])
             hit(s) == o.steps[s] = "in_progress" /\ (affected = {} \/ s \in affected)
             steps == [s \in Steps |-> IF hit(s) THEN "blocked" ELSE o.steps[s]]
             p == Redraft(o, FALSE, steps)
             m == [copy[h] EXCEPT !.mode = "planning", !.replan = TRUE]
  <2>1. HasPlan(copy[h]) /\ Save(h, copy[h].path, p, m)
    BY <1>22 DEF Replan
  <2>2. copy[h].path \in Slugs /\ o \in Plan
    BY <1>p, <2>1
  <2>3. steps \in [Steps -> StepStatus]
    BY <2>2 DEF Plan, StepStatus
  <2>4. m \in Meta /\ m.mode = "planning"
    BY <1>0 DEF Meta, Mode
  <2> HIDE DEF o, steps, m
  <2>5. p \in Plan /\ Fits([m EXCEPT !.rev = p.rev], p.status)
    BY <2>2, <2>3, <2>4, RedraftTyped, RedraftFits
  <2> HIDE DEF p
  <2> QED
    BY <2>1, <2>2, <2>4, <2>5, SaveAgrees
<1>23. ASSUME NEW h \in Hands, Resume(h) PROVE AgreeInv'
  <2> DEFINE p == PlanOf(copy[h])
             mode == IF p.status \in {"draft", "approved"} THEN "planning" ELSE p.status
             m == [copy[h] EXCEPT !.mode = mode]
             c == [m EXCEPT !.rev = p.rev]
  <2>1. HasPlan(copy[h]) /\ Save(h, copy[h].path, p, m)
    BY <1>23 DEF Resume
  <2>2. copy[h].path \in Slugs /\ p \in Plan /\ p.status \in Status
    BY <1>p, <2>1 DEF Plan
  <2>3. /\ mode \in Mode /\ mode # "chat"
        /\ mode = "executing" => p.status = "executing"
        /\ mode \in {"blocked", "done"} => p.status = mode
    BY <2>2 DEF Mode, Status
  <2>4. Tells(copy[h]) => copy[h].rev = p.rev /\ (p.status # "draft" => copy[h].accepted = p.rev)
    BY <2>1 DEF Tells, Shows, Fits
  <2> HIDE DEF p, mode
  <2>5. m \in Meta /\ c.mode = mode /\ c.accepted = copy[h].accepted /\ c.rev = p.rev
    BY <1>0, <2>3 DEF Meta
  <2> HIDE DEF m
  <2>6. Tells(copy[h]) => Fits(c, p.status)
    BY <2>3, <2>4, <2>5 DEF Fits
  <2> QED
    BY <2>1, <2>2, <2>5, <2>6, SaveAgrees
<1>24. ASSUME NEW h \in Hands, Progress(h) PROVE AgreeInv'
  <2> DEFINE o == PlanOf(copy[h])
             a == Accounted(copy[h])
  <2>1. HasPlan(copy[h]) /\ o.rev = copy[h].accepted
    BY <1>24 DEF Progress, IsApproved
  <2>2. /\ a \in Meta /\ Near(a, copy[h]) /\ a.status = copy[h].status
        /\ a.accepted = copy[h].accepted
    <3>1. turn \in Nat /\ copy[h].pending \in Nat
      BY <1>0 DEF TypeOK, Meta
    <3> QED
      BY <1>0, <3>1 DEF Accounted, Meta, Near
  <2>3. copy[h].path \in Slugs /\ o \in Plan
    BY <1>p, <2>1
  <2>4. CASE Note(h, a)
    <3> HIDE DEF a
    <3> QED
      BY <2>2, <2>4, NoteAgrees
  <2>5. ASSUME NEW s \in Steps, NEW st \in {"done", "blocked"},
               Save(h, copy[h].path, WithStep(o, s, st),
                    [a EXCEPT !.mode = ModeOf(WithStep(o, s, st))])
        PROVE  AgreeInv'
    <3> HIDE DEF a, o
    <3> DEFINE p == WithStep(o, s, st)
               m == [a EXCEPT !.mode = ModeOf(p)]
    <3>1. p \in Plan /\ st \in StepStatus
      BY <2>3, WithStepTyped DEF StepStatus
    <3>2. Save(h, copy[h].path, p, m)
      BY <2>5
    <3>3. m \in Meta /\ m.mode = ModeOf(p) /\ m.accepted = o.rev
      <4> HIDE DEF p
      <4> QED
        BY <2>1, <2>2, <3>1 DEF Meta, Mode, ModeOf, Plan
    <3> HIDE DEF m
    <3>4. Fits([m EXCEPT !.rev = p.rev], p.status)
      BY <2>3, <3>1, <3>3, WithStepFits
    <3> HIDE DEF p
    <3> QED
      BY <2>3, <3>1, <3>2, <3>3, <3>4, SaveAgrees
  <2> QED
    BY <1>24, <2>4, <2>5 DEF Progress
<1>25. ASSUME NEW h \in Hands, Draft(h) PROVE AgreeInv'
  BY <1>25, <1>11, <1>13, <1>14, <1>16, <1>17, <1>18 DEF Draft
<1>26. ASSUME NEW h \in Hands, Execute(h) PROVE AgreeInv'
  BY <1>26, <1>12, <1>19, <1>20, <1>21, <1>22, <1>23, <1>24 DEF Execute
<1> QED
  BY <1>1, <1>2, <1>3, <1>4, <1>5, <1>6, <1>7, <1>8, <1>25, <1>26 DEF Next

(* With nobody between write and commit, file and metadata tell the same,  *)
(* unless a stale copy was committed or a commit was lost.                 *)
THEOREM PlanAndFileAgree == Spec => []PlanAgrees
<1>1. Init => TypeOK /\ AgreeInv
  BY InitTyped, AgreeInit
<1>2. TypeOK /\ AgreeInv /\ [Next]_vars => (TypeOK /\ AgreeInv)'
  BY NextTyped, AgreeNext
<1>3. TypeOK /\ AgreeInv => PlanAgrees
  <2> SUFFICES ASSUME TypeOK, AgreeInv, ~overwritten, ~torn,
                      \A h \in Hands : pc[h] \in {"idle", "read"}
               PROVE  Agree(meta)
    BY DEF PlanAgrees
  <2>1. Tells(meta)
    BY DEF AgreeInv, Writing
  <2> QED
    BY <2>1 DEF Tells, Shows, Fits, Agree
<1> QED
  BY <1>1, <1>2, <1>3, PTL DEF Spec
=============================================================================
