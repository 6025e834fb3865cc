------------------------------ MODULE RiskProofs ----------------------------
(***************************************************************************)
(* Proofs about the radar, the screening and the findings.                 *)
(*                                                                         *)
(* The radar, for every set of users, tasks and rule colours.  However     *)
(* many requests overlap: the type invariant, NeverRed and                 *)
(* ReleaseHasTasks.  Where requests do not overlap: RedNotReleased,        *)
(* DispositionKept and CardSettles.  All of them in the lanes of the run,  *)
(* too.  The screening, for any number of requests: HitNotLost and         *)
(* OnlyClearedPartyPasses.  The findings, for any bound on hits:           *)
(* RescreenSettles, ListedPartnerShows, PassedPapersComplete and           *)
(* OverdueIsOwed.                                                          *)
(***************************************************************************)
EXTENDS MCRisk, TLAPS, FiniteSetTheorems, WellFoundedInduction, SequenceTheorems

Found == RuleColors \cup {"NONE"}

Record == [step : Steps, found : Found, row : RiskRow, late : BOOLEAN,
           user : Users \cup {NoUser}, conclusion : Protected, task : SUBSET TaskIds]
Request == {q \in Record : q.step \in UserSteps => q.user \in Users}

(***************************************************************************)
(* What a recalculation makes of a row.                                    *)
(***************************************************************************)
LEMMA FoundColors == Found \subseteq MaybeColor
BY RadarAssumption DEF Found, MaybeColor

LEMMA NoRowType == NoRow \in RiskRow
BY DEF NoRow, RiskRow, RiskStatus, MaybeColor

LEMMA OverdueType ==
  ASSUME NEW row \in RiskRow, NEW late \in BOOLEAN
  PROVE  ApplyOverdueEscalation(row, late) \in RiskRow
BY DEF ApplyOverdueEscalation, EscalateDisplayColor, RiskRow, RiskStatus, MaybeColor, Colors,
   Protected, Terminal

LEMMA FromFindingType ==
  ASSUME NEW row \in RiskRow, NEW found \in MaybeColor, NEW late \in BOOLEAN
  PROVE  FromFinding(row, found, late) \in RiskRow
<1> DEFINE open == [row EXCEPT !.status = IF @ = "SYSTEM_CLOSED" THEN "PENDING" ELSE @,
                               !.color = ColorForOpen(found, row.escalated),
                               !.ruleColor = found]
<1>1. [NoRow EXCEPT !.status = "PENDING", !.color = found, !.ruleColor = found] \in RiskRow
  BY DEF NoRow, RiskRow, RiskStatus, MaybeColor
<1>2. ReopenAfterSeverityRise(row, found) \in RiskRow
  BY DEF ReopenAfterSeverityRise, RiskRow, RiskStatus, MaybeColor
<1>3. [row EXCEPT !.ruleColor = found] \in RiskRow
  BY DEF RiskRow
<1>4. open \in RiskRow
  BY DEF RiskRow, RiskStatus, ColorForOpen, MaybeColor, Colors
<1>5. ApplyOverdueEscalation(open, late) \in RiskRow
  BY <1>4, OverdueType
<1> QED
  BY <1>1, <1>2, <1>3, <1>5 DEF FromFinding

LEMMA SyncType ==
  ASSUME NEW row \in RiskRow, NEW found \in Found, NEW late \in BOOLEAN
  PROVE  SyncRiskState(row, found, late) \in RiskRow
<1>1. WithoutFinding(row, late) \in RiskRow
  <2>1. [row EXCEPT !.status = "SYSTEM_CLOSED"] \in RiskRow
    BY DEF RiskRow, RiskStatus
  <2> QED BY <2>1, OverdueType DEF WithoutFinding
<1>2. FromFinding(row, found, late) \in RiskRow
  BY FoundColors, FromFindingType
<1> QED
  BY <1>1, <1>2 DEF SyncRiskState

(* A recalculation shows red only what the rule calls red.                 *)
LEMMA SyncNotRed ==
  ASSUME NEW row \in RiskRow, NEW found \in Found, NEW late \in BOOLEAN,
         row.color # "RED", found # "RED"
  PROVE  SyncRiskState(row, found, late).color # "RED"
<1>1. ASSUME NEW r \in RiskRow, r.color # "RED"
      PROVE  ApplyOverdueEscalation(r, late).color # "RED"
  BY <1>1 DEF ApplyOverdueEscalation, EscalateDisplayColor, RiskRow
<1>2. WithoutFinding(row, late).color # "RED"
  BY <1>1 DEF WithoutFinding, RiskRow
<1>3. FromFinding(row, found, late).color # "RED"
  <2> DEFINE open == [row EXCEPT !.status = IF @ = "SYSTEM_CLOSED" THEN "PENDING" ELSE @,
                                 !.color = ColorForOpen(found, row.escalated),
                                 !.ruleColor = found]
  <2>1. open \in RiskRow /\ open.color # "RED"
    BY FoundColors DEF RiskRow, RiskStatus, ColorForOpen, MaybeColor, Colors
  <2>2. ApplyOverdueEscalation(open, late).color # "RED"
    BY <2>1, <1>1
  <2>3. [NoRow EXCEPT !.status = "PENDING", !.color = found, !.ruleColor = found].color # "RED"
    BY DEF NoRow
  <2>4. /\ ReopenAfterSeverityRise(row, found).color # "RED"
        /\ [row EXCEPT !.ruleColor = found].color # "RED"
    BY DEF ReopenAfterSeverityRise, RiskRow
  <2> QED BY <2>2, <2>3, <2>4 DEF FromFinding
<1> QED
  BY <1>2, <1>3 DEF SyncRiskState

(* A row somebody released or resolved was not red then, nor is it now.    *)
Released == {"CONDITIONAL_RELEASE", "RESOLVED"}
Lawful(row) == row.status \in Released => row.color # "RED" /\ row.disposition # "RED"

LEMMA OverdueLawful ==
  ASSUME NEW row \in RiskRow, NEW late \in BOOLEAN, Lawful(row)
  PROVE  Lawful(ApplyOverdueEscalation(row, late))
BY DEF ApplyOverdueEscalation, EscalateDisplayColor, RiskRow, Lawful, Released

(* A recalculation keeps it so: a rule that turns red reopens such a row.  *)
LEMMA SyncLawful ==
  ASSUME NEW row \in RiskRow, NEW found \in Found, NEW late \in BOOLEAN, Lawful(row)
  PROVE  Lawful(SyncRiskState(row, found, late))
<1> USE DEF Lawful, Released
<1>1. Lawful(WithoutFinding(row, late))
  BY OverdueLawful DEF WithoutFinding, RiskRow
<1>2. CASE row.status = "ABSENT" \/ RuleSeverityRose(row, found)
  <2>1. Lawful([NoRow EXCEPT !.status = "PENDING", !.color = found, !.ruleColor = found])
    BY DEF NoRow
  <2>2. Lawful(ReopenAfterSeverityRise(row, found))
    BY DEF ReopenAfterSeverityRise, RiskRow
  <2> QED BY <1>1, <1>2, <2>1, <2>2 DEF SyncRiskState, FromFinding
<1>3. CASE /\ row.status # "ABSENT" /\ ~RuleSeverityRose(row, found)
           /\ row.status \in Terminal
  <2>1. Lawful([row EXCEPT !.ruleColor = found])
    BY DEF RiskRow
  <2> QED BY <1>1, <1>3, <2>1 DEF SyncRiskState, FromFinding
<1>4. CASE /\ row.status # "ABSENT" /\ ~RuleSeverityRose(row, found)
           /\ row.status \notin Terminal
  <2> DEFINE open == [row EXCEPT !.status = IF @ = "SYSTEM_CLOSED" THEN "PENDING" ELSE @,
                                 !.color = ColorForOpen(found, row.escalated),
                                 !.ruleColor = found]
  <2>1. open \in RiskRow
    BY FoundColors DEF RiskRow, RiskStatus, ColorForOpen, MaybeColor, Colors
  <2>2. Lawful(open)
    <3>1. SUFFICES ASSUME row.status = "CONDITIONAL_RELEASE" PROVE Lawful(open)
      BY <1>4 DEF RiskRow, RiskStatus, Terminal, Protected
    <3>2. Baseline(row) # "RED" /\ Baseline(row) \in MaybeColor
      BY <3>1 DEF Baseline, RiskRow
    <3>3. found # "RED"
      BY <1>4, <3>1, <3>2 DEF RuleSeverityRose, Severity, Protected, MaybeColor, Colors
    <3> QED BY <3>1, <3>3, FoundColors DEF RiskRow, ColorForOpen, MaybeColor, Colors
  <2>3. Lawful(ApplyOverdueEscalation(open, late))
    BY <2>1, <2>2, OverdueLawful
  <2> QED BY <1>1, <1>4, <2>3 DEF SyncRiskState, FromFinding
<1> QED
  BY <1>2, <1>3, <1>4

(***************************************************************************)
(* The type invariant.                                                     *)
(***************************************************************************)
LEMMA IdleType == Idle \in Request
BY NoRowType DEF Idle, Request, Record, Steps, UserSteps, Found, Protected, Terminal

LEMMA TypeParts ==
  /\ TypeOK => req \in [Requests -> Request]
  /\ TypeOK' <=> /\ rule' \in Found
                 /\ risk' \in RiskRow
                 /\ by' \in Users \cup {NoUser}
                 /\ seen' \subseteq Users
                 /\ tasks' \in [TaskIds -> TaskStatus]
                 /\ overdue' \in BOOLEAN
                 /\ req' \in [Requests -> Request]
BY DEF TypeOK, Request, Record, Found

LEMMA InitTyped == Init => TypeOK
<1> SUFFICES ASSUME Init PROVE TypeOK
  OBVIOUS
<1>1. req \in [Requests -> Request]
  BY IdleType DEF Init
<1> QED
  BY <1>1, NoRowType DEF Init, TypeOK, Request, Record, Found, TaskStatus

LEMMA LateBoolean == TypeOK => LateTasks \in BOOLEAN
BY DEF TypeOK, LateTasks

LEMMA StepTyped == TypeOK /\ [Next]_vars => TypeOK'
<1> SUFFICES ASSUME TypeOK, [Next]_vars PROVE TypeOK'
  OBVIOUS
<1> USE TypeParts DEF rowVars
<1>held. \A r \in Requests : req[r] \in Request
  OBVIOUS
<1>rows. /\ rule \in Found /\ risk \in RiskRow /\ by \in Users \cup {NoUser}
         /\ seen \subseteq Users /\ tasks \in [TaskIds -> TaskStatus] /\ overdue \in BOOLEAN
  BY DEF TypeOK, Found
<1>to. ASSUME NEW r \in Requests, NEW q \in Request, req' = [req EXCEPT ![r] = q]
       PROVE  req' \in [Requests -> Request]
  BY <1>to
<1>fin. ASSUME NEW r \in Requests, Finish(r) PROVE req' \in [Requests -> Request]
  BY <1>fin, <1>to, IdleType DEF Finish
<1>step. ASSUME NEW r \in Requests, NEW step \in Steps, Goto(r, step),
                step \in UserSteps => req[r].user \in Users
         PROVE  req' \in [Requests -> Request]
  <2>1. [req[r] EXCEPT !.step = step] \in Request
    BY <1>step, <1>held DEF Request, Record
  <2>2. req' = [req EXCEPT ![r] = [req[r] EXCEPT !.step = step]]
    BY <1>step DEF Goto
  <2> QED BY <2>1, <2>2, <1>to
<1>1. ASSUME NEW r \in Requests, RuleChanges(r) \/ Expire(r) PROVE TypeOK'
  BY <1>1, <1>rows DEF RuleChanges, Expire, Found
<1>2. ASSUME NEW r \in Requests, CollectFindings(r) PROVE TypeOK'
  <2>1. [Idle EXCEPT !.step = "rows", !.found = rule] \in Request
    BY IdleType, <1>rows DEF Request, Record, Steps, UserSteps
  <2> QED BY <1>2, <2>1, <1>to, <1>rows DEF CollectFindings
<1>3. ASSUME NEW r \in Requests, ReadRows(r) PROVE TypeOK'
  <2>1. [req[r] EXCEPT !.step = "tasks", !.row = risk] \in Request
    BY <1>held, <1>rows DEF Request, Record, Steps, UserSteps
  <2>2. req' = [req EXCEPT ![r] = [req[r] EXCEPT !.step = "tasks", !.row = risk]]
    BY <1>3 DEF ReadRows
  <2> QED BY <1>3, <2>1, <2>2, <1>to, <1>rows DEF ReadRows
<1>4. ASSUME NEW r \in Requests, ReadTasks(r) PROVE TypeOK'
  <2>1. [req[r] EXCEPT !.step = "write", !.late = LateTasks] \in Request
    BY <1>held, LateBoolean DEF Request, Record, Steps, UserSteps
  <2>2. req' = [req EXCEPT ![r] = [req[r] EXCEPT !.step = "write", !.late = LateTasks]]
    BY <1>4 DEF ReadTasks
  <2> QED BY <1>4, <2>1, <2>2, <1>to, <1>rows DEF ReadTasks
<1>5. ASSUME NEW r \in Requests, WriteRow(r) PROVE TypeOK'
  <2>1. SyncRiskState(req[r].row, req[r].found, req[r].late) \in RiskRow
    BY <1>held, SyncType DEF Request, Record
  <2>2. risk' \in RiskRow /\ by' \in Users \cup {NoUser}
    BY <1>5, <2>1, <1>rows DEF WriteRow
  <2>3. [Idle EXCEPT !.step = "clearViews"] \in Request
    BY IdleType DEF Request, Record, Steps, UserSteps
  <2>4. req' \in [Requests -> Request]
    BY <1>5, <2>3, <1>to, <1>fin DEF WriteRow
  <2> QED BY <1>5, <2>2, <2>4, <1>rows DEF WriteRow
<1>6. ASSUME NEW r \in Requests, ClearViews(r) PROVE TypeOK'
  BY <1>6, <1>fin, <1>rows DEF ClearViews
<1>7. ASSUME NEW r \in Requests, NEW u \in Users, NEW conclusion \in Protected,
             Act(r, u, conclusion)
      PROVE  TypeOK'
  <2> DEFINE s == IF conclusion = "CONDITIONAL_RELEASE" THEN "dropTasks" ELSE "actWrite"
             q == [Idle EXCEPT !.step = s, !.user = u, !.conclusion = conclusion,
                               !.row.color = risk.color]
  <2>1. [NoRow EXCEPT !.color = risk.color] \in RiskRow
    BY NoRowType, <1>rows DEF RiskRow
  <2>2. q \in Request
    BY IdleType, <2>1 DEF Idle, Request, Record, Steps, UserSteps
  <2>3. req' = [req EXCEPT ![r] = q]
    BY <1>7 DEF Act
  <2> QED BY <1>7, <2>2, <2>3, <1>to, <1>rows DEF Act
<1>8. ASSUME NEW r \in Requests, DropTasks(r) PROVE TypeOK'
  <2>1. tasks' \in [TaskIds -> TaskStatus]
    BY <1>8 DEF DropTasks, TaskStatus
  <2> QED BY <1>8, <2>1, <1>step, <1>rows, <1>held DEF DropTasks, At, Steps, Request, UserSteps
<1>9. ASSUME NEW r \in Requests, AddTasks(r) PROVE TypeOK'
  <2>1. tasks' \in [TaskIds -> TaskStatus]
    BY <1>9, <1>rows DEF AddTasks, TaskStatus, FreeTaskIds
  <2> QED BY <1>9, <2>1, <1>step, <1>rows, <1>held DEF AddTasks, At, Steps, Request, UserSteps
<1>10. ASSUME NEW r \in Requests, ActWrite(r) PROVE TypeOK'
  <2>1. risk' \in RiskRow
    BY <1>10, <1>held, <1>rows DEF ActWrite, Request, Record, RiskRow, RiskStatus
  <2>2. [Idle EXCEPT !.step = "open", !.user = req[r].user] \in Request
    BY <1>10, IdleType, <1>held DEF ActWrite, At, Idle, Request, Record, Steps, UserSteps
  <2> QED BY <1>10, <2>1, <2>2, <1>to, <1>rows DEF ActWrite
<1>11. ASSUME NEW r \in Requests, NEW u \in Users, Open(r, u) PROVE TypeOK'
  <2>1. [Idle EXCEPT !.step = "open", !.user = u] \in Request
    BY IdleType DEF Request, Record, Steps, UserSteps
  <2> QED BY <1>11, <2>1, <1>to, <1>rows DEF Open
<1>12. ASSUME NEW r \in Requests, ReadForOpen(r) PROVE TypeOK'
  <2>1. req' \in [Requests -> Request]
    BY <1>12, <1>fin, <1>step, <1>held DEF ReadForOpen, At, Steps, Request, UserSteps
  <2> QED BY <1>12, <2>1, <1>rows DEF ReadForOpen
<1>13. ASSUME NEW r \in Requests, Claim(r) PROVE TypeOK'
  <2>1. by' \in Users \cup {NoUser}
    BY <1>13, <1>held DEF Claim, Request, Record, At, UserSteps
  <2> QED BY <1>13, <2>1, <1>step, <1>rows, <1>held DEF Claim, At, Steps, Request, UserSteps
<1>14. ASSUME NEW r \in Requests, View(r) PROVE TypeOK'
  <2>1. req[r].user \in Users
    BY <1>14, <1>held DEF View, At, Request, UserSteps
  <2> QED BY <1>14, <2>1, <1>fin, <1>rows DEF View
<1>15. ASSUME NEW r \in Requests, NEW t \in TaskIds,
              UploadSupplement(r, t) \/ AcceptSupplement(r, t)
       PROVE  TypeOK'
  <2>1. ASSUME NEW step \in {"upload", "accept"}, HoldTask(r, step, t)
        PROVE  req' \in [Requests -> Request]
    <3>1. [Idle EXCEPT !.step = step, !.task = {t}] \in Request
      BY IdleType DEF Request, Record, Steps, UserSteps
    <3> QED BY <2>1, <3>1, <1>to DEF HoldTask
  <2> QED BY <1>15, <2>1, <1>rows DEF UploadSupplement, AcceptSupplement
<1>16. ASSUME NEW r \in Requests, NEW step, NEW mark \in TaskStatus, WriteTask(r, step, mark)
       PROVE  TypeOK'
  <2>1. tasks' \in [TaskIds -> TaskStatus]
    BY <1>16, <1>rows DEF WriteTask
  <2> QED BY <1>16, <2>1, <1>fin, <1>rows DEF WriteTask
<1>17. CASE UNCHANGED vars
  BY <1>17, <1>rows DEF vars
<1>18. ASSUME NEW r \in Requests, Submit(r) PROVE TypeOK'
  BY <1>18, <1>1, <1>2, <1>7, <1>11, <1>15 DEF Submit
<1>19. ASSUME NEW r \in Requests, Handle(r) PROVE TypeOK'
  BY <1>19, <1>3, <1>4, <1>5, <1>6, <1>8, <1>9, <1>10, <1>12, <1>13, <1>14, <1>16
     DEF Handle, TaskStatus
<1> QED
  BY <1>17, <1>18, <1>19 DEF Next

(* Every row, task and request of the radar keeps its shape, however many  *)
(* recalculations and disposals overlap.                                   *)
THEOREM RadarTypeCorrect == Spec => []TypeOK
<1> QED
  BY InitTyped, StepTyped, PTL DEF Spec

(***************************************************************************)
(* NeverRed: the colours of the row and of the copies requests hold.       *)
(***************************************************************************)
NotRed(q) == q.row.color # "RED" /\ q.found # "RED"

NeverRedInv ==
  /\ rule # "RED" /\ risk.color # "RED"
  /\ \A r \in Requests : NotRed(req[r])

LEMMA NeverRedStep ==
  ASSUME TypeOK, NeverRedInv, [Next]_vars, rule' # "RED"
  PROVE  NeverRedInv'
<1> SUFFICES risk'.color # "RED" /\ \A x \in Requests : NotRed(req'[x])
  BY DEF NeverRedInv, NotRed
<1> USE DEF rowVars
<1>typed. /\ req \in [Requests -> Request] /\ risk \in RiskRow
          /\ \A r \in Requests : req[r] \in Record
  BY TypeParts DEF TypeOK, Request
<1>now. risk.color # "RED" /\ rule # "RED" /\ \A x \in Requests : NotRed(req[x])
  BY DEF NeverRedInv
<1>to. ASSUME NEW r \in Requests, NEW q, req' = [req EXCEPT ![r] = q], NotRed(q),
              risk'.color # "RED"
       PROVE  risk'.color # "RED" /\ \A x \in Requests : NotRed(req'[x])
  BY <1>to, <1>typed, <1>now
<1>idle. NotRed(Idle)
  BY DEF Idle, NoRow, NotRed
<1>fin. ASSUME NEW r \in Requests, Finish(r), risk'.color # "RED"
        PROVE  risk'.color # "RED" /\ \A x \in Requests : NotRed(req'[x])
  BY <1>fin, <1>to, <1>idle DEF Finish
<1>step. ASSUME NEW r \in Requests, NEW step, Goto(r, step), risk'.color # "RED"
         PROVE  risk'.color # "RED" /\ \A x \in Requests : NotRed(req'[x])
  <2>1. req' = [req EXCEPT ![r] = [req[r] EXCEPT !.step = step]]
    BY <1>step DEF Goto
  <2>2. NotRed([req[r] EXCEPT !.step = step])
    BY <1>typed, <1>now DEF Record, NotRed
  <2> QED BY <2>1, <2>2, <1>step, <1>to
<1>1. ASSUME NEW r \in Requests, Submit(r)
      PROVE  risk'.color # "RED" /\ \A x \in Requests : NotRed(req'[x])
  <2>1. CASE RuleChanges(r) \/ Expire(r)
    BY <2>1, <1>now DEF RuleChanges, Expire
  <2>2. CASE CollectFindings(r)
    <3>1. NotRed([Idle EXCEPT !.step = "rows", !.found = rule])
      BY <1>now DEF Idle, NoRow, NotRed
    <3> QED BY <2>2, <3>1, <1>to, <1>now DEF CollectFindings
  <2>3. ASSUME NEW u \in Users, Open(r, u)
        PROVE  risk'.color # "RED" /\ \A x \in Requests : NotRed(req'[x])
    <3>1. NotRed([Idle EXCEPT !.step = "open", !.user = u])
      BY DEF Idle, NoRow, NotRed
    <3> QED BY <2>3, <3>1, <1>to, <1>now DEF Open
  <2>4. ASSUME NEW u \in Users, NEW conclusion \in Protected, Act(r, u, conclusion)
        PROVE  risk'.color # "RED" /\ \A x \in Requests : NotRed(req'[x])
    <3> DEFINE s == IF conclusion = "CONDITIONAL_RELEASE" THEN "dropTasks" ELSE "actWrite"
               q == [Idle EXCEPT !.step = s, !.user = u, !.conclusion = conclusion,
                                 !.row.color = risk.color]
    <3>1. NotRed(q)
      BY <1>now DEF Idle, NoRow, NotRed
    <3> QED BY <2>4, <3>1, <1>to, <1>now DEF Act
  <2>5. ASSUME NEW t \in TaskIds, NEW step, HoldTask(r, step, t), UNCHANGED risk
        PROVE  risk'.color # "RED" /\ \A x \in Requests : NotRed(req'[x])
    <3>1. NotRed([Idle EXCEPT !.step = step, !.task = {t}])
      BY DEF Idle, NoRow, NotRed
    <3> QED BY <2>5, <3>1, <1>to, <1>now DEF HoldTask
  <2> QED BY <1>1, <2>1, <2>2, <2>3, <2>4, <2>5 DEF Submit, UploadSupplement, AcceptSupplement
<1>2. ASSUME NEW r \in Requests, Handle(r)
      PROVE  risk'.color # "RED" /\ \A x \in Requests : NotRed(req'[x])
  <2>1. CASE ReadRows(r)
    <3>1. NotRed([req[r] EXCEPT !.step = "tasks", !.row = risk])
      BY <1>typed, <1>now DEF Record, NotRed
    <3>2. req' = [req EXCEPT ![r] = [req[r] EXCEPT !.step = "tasks", !.row = risk]]
      BY <2>1 DEF ReadRows
    <3> QED BY <2>1, <3>1, <3>2, <1>to, <1>now DEF ReadRows
  <2>2. CASE ReadTasks(r)
    <3>1. NotRed([req[r] EXCEPT !.step = "write", !.late = LateTasks])
      BY <1>typed, <1>now DEF Record, NotRed
    <3>2. req' = [req EXCEPT ![r] = [req[r] EXCEPT !.step = "write", !.late = LateTasks]]
      BY <2>2 DEF ReadTasks
    <3> QED BY <2>2, <3>1, <3>2, <1>to, <1>now DEF ReadTasks
  <2>3. CASE WriteRow(r)
    <3>1. req[r].found # "RED" /\ req[r].row.color # "RED"
      BY <1>now DEF NotRed
    <3>2. SyncRiskState(req[r].row, req[r].found, req[r].late).color # "RED"
      BY <3>1, <1>typed, <1>now, SyncNotRed DEF Record
    <3>3. risk'.color # "RED"
      BY <2>3, <3>2, <1>now DEF WriteRow
    <3>4. NotRed([Idle EXCEPT !.step = "clearViews"])
      BY DEF Idle, NoRow, NotRed
    <3> QED BY <2>3, <3>3, <3>4, <1>to, <1>fin DEF WriteRow
  <2>4. CASE ActWrite(r)
    <3>1. risk'.color # "RED"
      BY <2>4, <1>typed, <1>now DEF ActWrite, RiskRow
    <3>2. NotRed([Idle EXCEPT !.step = "open", !.user = req[r].user])
      BY DEF Idle, NoRow, NotRed
    <3> QED BY <2>4, <3>1, <3>2, <1>to DEF ActWrite
  <2>5. CASE ClearViews(r) \/ DropTasks(r) \/ AddTasks(r)
    BY <2>5, <1>fin, <1>step, <1>now DEF ClearViews, DropTasks, AddTasks
  <2>6. CASE ReadForOpen(r) \/ Claim(r) \/ View(r)
    BY <2>6, <1>fin, <1>step, <1>now DEF ReadForOpen, Claim, View
  <2>7. CASE WriteTask(r, "upload", "SUBMITTED") \/ WriteTask(r, "accept", "ACCEPTED")
    BY <2>7, <1>fin, <1>now DEF WriteTask
  <2> QED BY <1>2, <2>1, <2>2, <2>3, <2>4, <2>5, <2>6, <2>7 DEF Handle
<1>3. CASE UNCHANGED vars
  BY <1>3, <1>now DEF vars
<1> QED
  BY <1>1, <1>2, <1>3 DEF Next

(* A risk whose rule never answers red is never shown red, so a            *)
(* conditional release or a resolution always remains open to the desk.    *)
THEOREM RadarNeverRed == Spec => []NeverRed
<1> DEFINE RedInv == "RED" \notin RuleColors => NeverRedInv
<1>1. Init => RedInv
  BY DEF Init, NeverRedInv, NotRed, Idle, NoRow
<1>2. TypeOK /\ RedInv /\ [Next]_vars => RedInv'
  <2> SUFFICES ASSUME TypeOK, RedInv, [Next]_vars, "RED" \notin RuleColors PROVE NeverRedInv'
    OBVIOUS
  <2>1. rule' # "RED"
    BY StepTyped DEF TypeOK
  <2> QED BY <2>1, NeverRedStep
<1>3. RedInv => NeverRed
  BY DEF NeverRedInv, NeverRed
<1> QED
  BY <1>1, <1>2, <1>3, RadarTypeCorrect, PTL DEF Spec

(***************************************************************************)
(* Requests one at a time: what a request has read is still so when it     *)
(* writes.                                                                 *)
(***************************************************************************)
OneAtATime == \A r, s \in Requests : At(r, "idle") \/ At(s, "idle") \/ r = s

LEMMA SerialIsNext == SerialNext => Next
BY DEF SerialNext, Next

LEMMA OthersWait ==
  ASSUME TypeOK, NEW r \in Requests, Submit(r) \/ Handle(r)
  PROVE  \A s \in Requests : s # r => req'[s] = req[s]
<1>typed. req \in [Requests -> Request]
  BY TypeParts DEF TypeOK, Request
<1> QED
  BY <1>typed DEF Submit, Handle, RuleChanges, Expire, CollectFindings, Open, Act, UploadSupplement,
     AcceptSupplement, HoldTask, ReadRows, ReadTasks, WriteRow, ClearViews, DropTasks, AddTasks, ActWrite,
     ReadForOpen, Claim, View, WriteTask, Goto, Finish, rowVars

(* Who moves is the only one at work.                                      *)
LEMMA OthersIdle ==
  ASSUME TypeOK, OneAtATime, NEW r \in Requests, (Quiet /\ Submit(r)) \/ Handle(r)
  PROVE  OneAtATime' /\ \A s \in Requests : s # r => req'[s].step = "idle"
<1>1. Handle(r) => ~At(r, "idle")
  BY DEF Handle, ReadRows, ReadTasks, WriteRow, ClearViews, DropTasks, AddTasks, ActWrite, ReadForOpen, Claim,
     View, WriteTask, At
<1>2. \A s \in Requests : s # r => req[s].step = "idle"
  BY <1>1 DEF OneAtATime, Quiet, At
<1>3. \A s \in Requests : s # r => req'[s].step = "idle"
  BY <1>2, OthersWait
<1> QED BY <1>3 DEF OneAtATime, At

Fresh(r) ==
  LET q == req[r]
  IN /\ q.step \in {"tasks", "write"} => q.row = risk
     /\ q.step = "write" => q.late = LateTasks
     /\ q.step \in {"dropTasks", "addTasks", "actWrite"} =>
          /\ risk.status \in {"PENDING", "CONDITIONAL_RELEASE"}
          /\ q.row.color = risk.color
          /\ q.conclusion \in Conclusions(risk.color)

SerialInv == OneAtATime /\ Lawful(risk) /\ \A r \in Requests : Fresh(r)

LEMMA SerialStep ==
  ASSUME TypeOK, SerialInv, [SerialNext]_vars
  PROVE  SerialInv'
<1> USE DEF rowVars
<1>typed. /\ req \in [Requests -> Request] /\ risk \in RiskRow
          /\ \A r \in Requests : req[r] \in Record
  BY TypeParts DEF TypeOK, Request
<1>now. Lawful(risk) /\ \A r \in Requests : Fresh(r)
  BY DEF SerialInv
<1>alone. ASSUME NEW r \in Requests, (Quiet /\ Submit(r)) \/ Handle(r), Lawful(risk'), Fresh(r)'
          PROVE  SerialInv'
  <2>1. OneAtATime' /\ \A s \in Requests : s # r => req'[s].step = "idle"
    BY <1>alone, OthersIdle DEF SerialInv
  <2>2. \A s \in Requests : s # r => Fresh(s)'
    BY <2>1 DEF Fresh
  <2> QED BY <1>alone, <2>1, <2>2 DEF SerialInv
<1>law. UNCHANGED risk => Lawful(risk')
  BY <1>now
<1>rest. ASSUME NEW r \in Requests,
                req'[r].step \notin {"tasks", "write", "dropTasks", "addTasks", "actWrite"}
         PROVE  Fresh(r)'
  BY <1>rest DEF Fresh
<1>1. ASSUME NEW r \in Requests, Quiet /\ Submit(r) PROVE SerialInv'
  <2>alone. Lawful(risk') /\ Fresh(r)' => SerialInv'
    BY <1>1, <1>alone
  <2>1. CASE RuleChanges(r) \/ Expire(r)
    BY <2>1, <1>law, <2>alone, <1>rest DEF RuleChanges, Expire, At
  <2>2. CASE CollectFindings(r)
    <3>1. req'[r].step = "rows"
      BY <2>2, <1>typed DEF CollectFindings, Idle
    <3> QED BY <2>2, <3>1, <1>law, <2>alone, <1>rest DEF CollectFindings
  <2>3. ASSUME NEW u \in Users, Open(r, u) PROVE SerialInv'
    <3>1. req'[r].step = "open"
      BY <2>3, <1>typed DEF Open, Idle
    <3> QED BY <2>3, <3>1, <1>law, <2>alone, <1>rest DEF Open
  <2>4. ASSUME NEW u \in Users, NEW conclusion \in Protected, Act(r, u, conclusion)
        PROVE  SerialInv'
    <3>1. /\ req'[r].step \in {"dropTasks", "actWrite"}
          /\ req'[r].conclusion = conclusion
          /\ req'[r].row.color = risk.color
      BY <2>4, <1>typed DEF Act, Idle, NoRow
    <3>2. Fresh(r)'
      BY <2>4, <3>1 DEF Act, Fresh
    <3> QED BY <2>4, <3>2, <1>law, <2>alone DEF Act
  <2>5. ASSUME NEW t \in TaskIds, UploadSupplement(r, t) \/ AcceptSupplement(r, t)
        PROVE  SerialInv'
    <3>1. req'[r].step \in {"upload", "accept"}
      BY <2>5, <1>typed DEF UploadSupplement, AcceptSupplement, HoldTask, Idle
    <3> QED BY <2>5, <3>1, <1>law, <2>alone, <1>rest DEF UploadSupplement, AcceptSupplement
  <2> QED BY <1>1, <2>1, <2>2, <2>3, <2>4, <2>5 DEF Submit
<1>2. ASSUME NEW r \in Requests, Handle(r) PROVE SerialInv'
  <2>alone. Lawful(risk') /\ Fresh(r)' => SerialInv'
    BY <1>2, <1>alone
  <2>fin. ASSUME Finish(r), Lawful(risk') PROVE SerialInv'
    <3>1. req'[r].step = "idle"
      BY <2>fin, <1>typed DEF Finish, Idle
    <3> QED BY <2>fin, <3>1, <2>alone, <1>rest
  <2>1. CASE ReadRows(r)
    <3>1. req'[r].step = "tasks" /\ req'[r].row = risk
      BY <2>1, <1>typed DEF ReadRows, Record
    <3> QED BY <2>1, <3>1, <1>law, <2>alone DEF ReadRows, Fresh
  <2>2. CASE ReadTasks(r)
    <3>1. req'[r].step = "write" /\ req'[r].row = risk
      BY <2>2, <1>typed, <1>now DEF ReadTasks, Record, Fresh, At
    <3>2. req'[r].late = LateTasks
      BY <2>2, <1>typed DEF ReadTasks, Record
    <3>3. LateTasks' = LateTasks
      BY <2>2 DEF ReadTasks, LateTasks
    <3> QED BY <2>2, <3>1, <3>2, <3>3, <1>law, <2>alone DEF ReadTasks, Fresh
  <2>3. CASE WriteRow(r)
    <3>1. Lawful(SyncRiskState(req[r].row, req[r].found, req[r].late))
      BY <2>3, <1>typed, <1>now, SyncLawful DEF WriteRow, At, Fresh, Record
    <3>2. Lawful(risk')
      BY <2>3, <3>1, <1>now DEF WriteRow
    <3>3. req'[r].step \in {"idle", "clearViews"}
      BY <2>3, <1>typed DEF WriteRow, Finish, Idle
    <3> QED BY <3>2, <3>3, <2>alone, <1>rest
  <2>4. CASE DropTasks(r) \/ AddTasks(r)
    <3>1. /\ req'[r].step \in {"addTasks", "actWrite"}
          /\ req'[r].row = req[r].row
          /\ req'[r].conclusion = req[r].conclusion
      BY <2>4, <1>typed DEF DropTasks, AddTasks, Goto, Record
    <3>2. Fresh(r)'
      BY <2>4, <3>1, <1>now DEF DropTasks, AddTasks, At, Fresh
    <3> QED BY <2>4, <3>2, <1>law, <2>alone DEF DropTasks, AddTasks
  <2>5. CASE ActWrite(r)
    <3>1. /\ risk'.status = req[r].conclusion
          /\ risk'.color = risk.color
          /\ risk'.disposition = risk.color
      BY <2>5, <1>typed, <1>now DEF ActWrite, At, Fresh, RiskRow
    <3>2. req[r].conclusion \in Conclusions(risk.color)
      BY <2>5, <1>now DEF ActWrite, At, Fresh
    <3>3. Lawful(risk')
      BY <3>1, <3>2 DEF Conclusions, Lawful, Released
    <3>4. req'[r].step = "open"
      BY <2>5, <1>typed DEF ActWrite, Idle
    <3> QED BY <3>3, <3>4, <2>alone, <1>rest
  <2>6. CASE ReadForOpen(r) \/ Claim(r) \/ View(r)
    <3>1. req'[r].step \in {"idle", "claim", "view"}
      BY <2>6, <1>typed DEF ReadForOpen, Claim, View, Goto, Finish, Idle, Record
    <3> QED BY <2>6, <3>1, <1>law, <2>alone, <1>rest DEF ReadForOpen, Claim, View
  <2>7. CASE ClearViews(r)
    BY <2>7, <2>fin, <1>law DEF ClearViews
  <2>8. CASE WriteTask(r, "upload", "SUBMITTED") \/ WriteTask(r, "accept", "ACCEPTED")
    BY <2>8, <2>fin, <1>law DEF WriteTask
  <2> QED BY <1>2, <2>1, <2>2, <2>3, <2>4, <2>5, <2>6, <2>7, <2>8 DEF Handle
<1>3. CASE UNCHANGED vars
  <2>1. LateTasks' = LateTasks
    BY <1>3 DEF vars, LateTasks
  <2> QED BY <1>3, <2>1, <1>now DEF vars, SerialInv, Fresh, OneAtATime, At
<1> QED
  BY <1>1, <1>2, <1>3 DEF SerialNext

LEMMA SerialStart == Init => SerialInv
BY DEF Init, SerialInv, OneAtATime, At, Lawful, Released, Fresh, Idle, NoRow

LEMMA SerialTyped == TypeOK /\ [SerialNext]_vars => TypeOK'
BY SerialIsNext, StepTyped

LEMMA SerialInductive == SerialSpec => [](TypeOK /\ SerialInv)
<1>1. Init => TypeOK /\ SerialInv
  BY InitTyped, SerialStart
<1>2. TypeOK /\ SerialInv /\ [SerialNext]_vars => (TypeOK /\ SerialInv)'
  BY SerialStep, SerialTyped
<1> QED
  BY <1>1, <1>2, PTL DEF SerialSpec

(* Where requests do not overlap no red risk stands released or resolved:  *)
(* a rule that turns red reopens what a person let through.                *)
THEOREM RadarRedNotReleased == SerialSpec => []RedNotReleased
<1>1. SerialInv => RedNotReleased
  BY DEF SerialInv, Lawful, Released, RedNotReleased
<1> QED
  BY <1>1, SerialInductive, PTL

(* What a recalculation may do to a row somebody has disposed of.          *)
LEMMA SyncProtected ==
  ASSUME NEW row \in RiskRow, NEW found \in Found, NEW late \in BOOLEAN,
         row.status \in Protected, SyncRiskState(row, found, late).status # row.status
  PROVE  LET new == SyncRiskState(row, found, late)
         IN /\ new.status = "PENDING"
            /\ \/ Severity[new.ruleColor] > Severity[Baseline(row)]
               \/ row.status = "CONDITIONAL_RELEASE" /\ late
<1> DEFINE open == [row EXCEPT !.status = IF @ = "SYSTEM_CLOSED" THEN "PENDING" ELSE @,
                               !.color = ColorForOpen(found, row.escalated),
                               !.ruleColor = found]
<1>1. CASE found = "NONE"
  BY <1>1 DEF SyncRiskState, WithoutFinding, ApplyOverdueEscalation, RiskRow, Protected, Terminal
<1>2. CASE found # "NONE" /\ RuleSeverityRose(row, found)
  BY <1>2 DEF SyncRiskState, FromFinding, RuleSeverityRose, ReopenAfterSeverityRise, RiskRow,
     Protected, Terminal
<1>3. CASE found # "NONE" /\ ~RuleSeverityRose(row, found)
  <2>1. SyncRiskState(row, found, late) = IF row.status \in Terminal
                                          THEN [row EXCEPT !.ruleColor = found]
                                          ELSE ApplyOverdueEscalation(open, late)
    BY <1>3 DEF SyncRiskState, FromFinding, Protected, Terminal
  <2>2. row.status \notin Terminal
    BY <2>1 DEF RiskRow
  <2>3. open.status = "CONDITIONAL_RELEASE" /\ open \in RiskRow
    BY <2>2, FoundColors DEF RiskRow, RiskStatus, ColorForOpen, MaybeColor, Colors, Protected
  <2>4. late /\ ApplyOverdueEscalation(open, late).status = "PENDING"
    <3> HIDE DEF open
    <3> QED BY <2>1, <2>2, <2>3 DEF ApplyOverdueEscalation, RiskRow, Protected
  <2> QED BY <2>1, <2>2, <2>4 DEF Protected
<1> QED
  BY <1>1, <1>2, <1>3

LEMMA KeepsStep ==
  ASSUME TypeOK, SerialInv, [SerialNext]_vars
  PROVE  KeepsDisposition
<1> DEFINE Kept == \/ risk.status = "CONDITIONAL_RELEASE" /\ risk'.status \in Protected
                   \/ /\ risk'.status = "PENDING"
                      /\ \/ Severity[risk'.ruleColor] > Severity[Baseline(risk)]
                         \/ risk.status = "CONDITIONAL_RELEASE" /\ LateTasks
<1> SUFFICES ASSUME risk.status \in Protected, risk'.status # risk.status PROVE Kept
  BY DEF KeepsDisposition
<1>typed. /\ req \in [Requests -> Request] /\ risk \in RiskRow
          /\ \A r \in Requests : req[r] \in Record /\ Fresh(r)
  BY TypeParts DEF TypeOK, Request, SerialInv
<1>1. ASSUME NEW r \in Requests, WriteRow(r) PROVE Kept
  <2>1. /\ risk' = SyncRiskState(risk, req[r].found, req[r].late)
        /\ req[r].late = LateTasks
    BY <1>1, <1>typed DEF WriteRow, At, Fresh
  <2>2. req[r].found \in Found /\ req[r].late \in BOOLEAN
    BY <1>typed DEF Record
  <2> QED BY <2>1, <2>2, <1>typed, SyncProtected
<1>2. ASSUME NEW r \in Requests, ActWrite(r) PROVE Kept
  <2>1. risk.status = "CONDITIONAL_RELEASE"
    BY <1>2, <1>typed DEF ActWrite, At, Fresh, Protected, Terminal
  <2>2. risk'.status \in Protected
    BY <1>2, <1>typed DEF ActWrite, RiskRow, Record
  <2> QED BY <2>1, <2>2
<1>3. ASSUME NEW r \in Requests, Submit(r) PROVE UNCHANGED risk
  BY <1>3 DEF Submit, RuleChanges, Expire, CollectFindings, Open, Act, UploadSupplement,
     AcceptSupplement, rowVars
<1>4. ASSUME NEW r \in Requests, Handle(r), ~WriteRow(r), ~ActWrite(r) PROVE UNCHANGED risk
  BY <1>4 DEF Handle, ReadRows, ReadTasks, ClearViews, DropTasks, AddTasks, ReadForOpen, Claim,
     View, WriteTask, rowVars
<1> QED BY <1>1, <1>2, <1>3, <1>4 DEF SerialNext, vars

(* Where requests do not overlap a person's disposition holds until a      *)
(* person changes it, the rule gets worse than what that person saw, or    *)
(* the tasks of a release are late.                                        *)
THEOREM RadarDispositionKept == SerialSpec => DispositionKept
BY KeepsStep, SerialInductive, PTL DEF SerialSpec, DispositionKept

(***************************************************************************)
(* Recalculating twice.                                                    *)
(***************************************************************************)
LEMMA RowsEqual ==
  ASSUME NEW a \in RiskRow, NEW b \in RiskRow, a.status = b.status, a.color = b.color,
         a.ruleColor = b.ruleColor, a.escalated = b.escalated, a.disposition = b.disposition,
         a.reopened = b.reopened
  PROVE  a = b
BY DEF RiskRow

(* A row that is there has a colour.                                       *)
Sound(row) == IF row.status = "ABSENT" THEN row = NoRow ELSE row.color # "NONE"

(* The fields of a row after a recalculation that did not reopen it.       *)
LEMMA OpenRow ==
  ASSUME NEW row \in RiskRow, NEW found \in Colors, NEW late \in BOOLEAN,
         row.status \notin Terminal \cup {"ABSENT"}, ~RuleSeverityRose(row, found)
  PROVE  LET new == SyncRiskState(row, found, late)
             color == ColorForOpen(found, row.escalated)
             mark == IF row.status = "SYSTEM_CLOSED" THEN "PENDING" ELSE row.status
         IN /\ new \in RiskRow
            /\ new.status = IF late THEN "PENDING" ELSE mark
            /\ new.color = IF late THEN EscalateDisplayColor(color) ELSE color
            /\ new.ruleColor = found
            /\ new.escalated = (row.escalated \/ (late /\ (mark = "CONDITIONAL_RELEASE" \/ color = "YELLOW")))
            /\ new.disposition = row.disposition /\ new.reopened = row.reopened
<1> DEFINE color == ColorForOpen(found, row.escalated)
           mark == IF row.status = "SYSTEM_CLOSED" THEN "PENDING" ELSE row.status
           open == [row EXCEPT !.status = IF @ = "SYSTEM_CLOSED" THEN "PENDING" ELSE @,
                               !.color = ColorForOpen(found, row.escalated),
                               !.ruleColor = found]
<1>1. SyncRiskState(row, found, late) = ApplyOverdueEscalation(open, late)
  BY DEF SyncRiskState, FromFinding, Terminal, Colors
<1>2. color \in Colors /\ mark \in {"PENDING", "CONDITIONAL_RELEASE"}
  BY DEF ColorForOpen, Colors, RiskRow, RiskStatus, Terminal, Protected
<1>3. /\ open \in RiskRow /\ open.status = mark /\ open.color = color /\ open.ruleColor = found
      /\ open.escalated = row.escalated /\ open.disposition = row.disposition /\ open.reopened = row.reopened
  BY <1>2 DEF RiskRow, RiskStatus, MaybeColor
<1> HIDE DEF open
<1>4. ApplyOverdueEscalation(open, late) \in RiskRow
  BY <1>3, OverdueType
<1> HIDE DEF color, mark
<1>5. CASE ~late
  <2>1. SyncRiskState(row, found, late) = open
    BY <1>1, <1>5 DEF ApplyOverdueEscalation
  <2>2. open.escalated = (row.escalated \/ (late /\ (mark = "CONDITIONAL_RELEASE" \/ color = "YELLOW")))
    <3>1. row.escalated \in BOOLEAN
      BY DEF RiskRow
    <3> QED BY <3>1, <1>3, <1>5
  <2> QED BY <2>1, <2>2, <1>3, <1>5 DEF color, mark
<1>6. CASE late
  <2> DEFINE new == [open EXCEPT !.status = IF @ = "CONDITIONAL_RELEASE" THEN "PENDING" ELSE @,
                                 !.color = EscalateDisplayColor(@),
                                 !.escalated = @ \/ open.status = "CONDITIONAL_RELEASE" \/ open.color = "YELLOW"]
  <2>1. ApplyOverdueEscalation(open, late) = new
    BY <1>6 DEF ApplyOverdueEscalation
  <2>2. /\ new.status = "PENDING" /\ new.color = EscalateDisplayColor(color) /\ new.ruleColor = found
        /\ new.disposition = row.disposition /\ new.reopened = row.reopened
    BY <1>2, <1>3 DEF RiskRow
  <2>3. new.escalated = (row.escalated \/ mark = "CONDITIONAL_RELEASE" \/ color = "YELLOW")
    BY <1>3 DEF RiskRow
  <2> HIDE DEF new
  <2> QED BY <1>1, <1>4, <1>6, <2>1, <2>2, <2>3 DEF color, mark
<1> QED
  BY <1>5, <1>6

LEMMA SyncTwice ==
  ASSUME NEW row \in RiskRow, NEW found \in Colors, NEW late \in BOOLEAN,
         Sound(row), row.status = "ABSENT" => ~late, found \in RuleColors
  PROVE  LET once == SyncRiskState(row, found, late)
         IN SyncRiskState(once, found, late) = once
<1> DEFINE once == SyncRiskState(row, found, late)
           twice == SyncRiskState(once, found, late)
<1>found. found \in Found
  BY DEF Found
<1>typ. once \in RiskRow /\ twice \in RiskRow
  BY <1>found, SyncType
<1>1. CASE row.status = "ABSENT"
  <2>1. /\ once = [NoRow EXCEPT !.status = "PENDING", !.color = found, !.ruleColor = found]
    BY <1>1 DEF SyncRiskState, FromFinding, Colors
  <2>2. once.status = "PENDING" /\ once.color = found /\ once.ruleColor = found /\ once.escalated = FALSE
    BY <2>1 DEF NoRow
  <2> HIDE DEF once
  <2>3. ~RuleSeverityRose(once, found)
    BY <2>2 DEF RuleSeverityRose, Protected, Terminal
  <2> HIDE DEF twice
  <2>4. ColorForOpen(found, once.escalated) = found
    BY <2>2 DEF ColorForOpen
  <2>5. /\ twice.status = "PENDING" /\ twice.color = found /\ twice.ruleColor = found
        /\ twice.escalated = FALSE /\ twice.disposition = once.disposition /\ twice.reopened = once.reopened
    BY <1>1, <1>typ, <2>2, <2>3, <2>4, OpenRow DEF Terminal, twice
  <2>6. twice = once
    BY <1>typ, <2>2, <2>5, RowsEqual
  <2> QED BY <2>6 DEF twice, once
<1>2. CASE row.status # "ABSENT" /\ RuleSeverityRose(row, found)
  <2>1. once = ReopenAfterSeverityRise(row, found)
    BY <1>2 DEF SyncRiskState, FromFinding, Colors
  <2>2. once.status = "PENDING" /\ once.color = found /\ once.ruleColor = found /\ once.escalated = FALSE
    BY <2>1 DEF ReopenAfterSeverityRise, RiskRow
  <2>3. found # "YELLOW"
    <3>1. row.color \in Colors /\ row.disposition \in MaybeColor
      BY <1>2 DEF Sound, RiskRow, MaybeColor
    <3>2. Baseline(row) \in Colors
      BY <3>1 DEF Baseline, MaybeColor
    <3> QED BY <3>2, <1>2 DEF RuleSeverityRose, Severity, Colors
  <2> HIDE DEF once
  <2>4. ~RuleSeverityRose(once, found)
    BY <2>2 DEF RuleSeverityRose, Protected, Terminal
  <2>5. ColorForOpen(found, once.escalated) = found /\ EscalateDisplayColor(found) = found
    BY <2>2, <2>3 DEF ColorForOpen, EscalateDisplayColor
  <2> HIDE DEF twice
  <2>6. /\ twice.status = "PENDING" /\ twice.color = found /\ twice.ruleColor = found
        /\ twice.disposition = once.disposition /\ twice.reopened = once.reopened
    BY <1>typ, <2>2, <2>4, <2>5, OpenRow DEF Terminal, twice
  <2>7. twice.escalated = (FALSE \/ (late /\ ("PENDING" = "CONDITIONAL_RELEASE" \/ found = "YELLOW")))
    BY <1>typ, <2>2, <2>4, <2>5, OpenRow DEF Terminal, twice
  <2>8. twice.escalated = once.escalated
    BY <2>2, <2>3, <2>7
  <2>9. twice = once
    BY <1>typ, <2>2, <2>6, <2>8, RowsEqual
  <2> QED BY <2>9 DEF twice, once
<1>3. CASE row.status \in Terminal /\ ~RuleSeverityRose(row, found)
  <2>1. once = [row EXCEPT !.ruleColor = found]
    BY <1>3 DEF SyncRiskState, FromFinding, Colors, Terminal
  <2>2. /\ once.status = row.status /\ once.color = row.color /\ once.disposition = row.disposition
        /\ once.ruleColor = found /\ once = [once EXCEPT !.ruleColor = found]
    BY <2>1 DEF RiskRow
  <2> HIDE DEF once
  <2>3. ~RuleSeverityRose(once, found)
    BY <1>3, <2>2 DEF RuleSeverityRose, Baseline
  <2>4. once.status \in Terminal /\ once.status # "ABSENT" /\ found # "NONE"
    BY <1>3, <2>2 DEF Terminal, Colors
  <2>5. twice = [once EXCEPT !.ruleColor = found]
    BY <2>3, <2>4 DEF SyncRiskState, FromFinding
  <2> QED BY <2>2, <2>5 DEF once
<1>4. CASE row.status \notin Terminal \cup {"ABSENT"} /\ ~RuleSeverityRose(row, found)
  <2> DEFINE color == ColorForOpen(found, row.escalated)
             mark == IF row.status = "SYSTEM_CLOSED" THEN "PENDING" ELSE row.status
  <2>1. /\ once.status = IF late THEN "PENDING" ELSE mark
        /\ once.color = IF late THEN EscalateDisplayColor(color) ELSE color
        /\ once.ruleColor = found
        /\ once.escalated = (row.escalated \/ (late /\ (mark = "CONDITIONAL_RELEASE" \/ color = "YELLOW")))
        /\ once.disposition = row.disposition /\ once.reopened = row.reopened
    BY <1>4, OpenRow
  <2> HIDE DEF once
  <2>2. mark \in {"PENDING", "CONDITIONAL_RELEASE"} /\ row.escalated \in BOOLEAN
    BY <1>4 DEF RiskRow, RiskStatus, Terminal, Protected
  <2>3. once.status \notin Terminal \cup {"ABSENT"}
    BY <2>1, <2>2 DEF Terminal
  <2>4. ~RuleSeverityRose(once, found)
    <3>1. SUFFICES ASSUME once.status = "CONDITIONAL_RELEASE" PROVE ~(Severity[found] > Severity[Baseline(once)])
      BY <2>2, <2>1 DEF RuleSeverityRose, Protected, Terminal
    <3>2. ~late /\ row.status = "CONDITIONAL_RELEASE"
      BY <3>1, <2>1, <2>2
    <3>3. ~(Severity[found] > Severity[Baseline(row)])
      BY <3>2, <1>4 DEF RuleSeverityRose, Protected
    <3>4. CASE row.disposition # "NONE"
      BY <3>3, <3>4, <2>1 DEF Baseline
    <3>5. CASE row.disposition = "NONE"
      BY <3>2, <3>5, <2>1 DEF Baseline, ColorForOpen, Severity, Colors
    <3> QED BY <3>4, <3>5
  <2>5. ColorForOpen(found, once.escalated) = IF late /\ found = "YELLOW" THEN "ORANGE" ELSE color
    BY <2>1, <2>2 DEF ColorForOpen
  <2>6. LET again == ColorForOpen(found, once.escalated)
        IN (IF late THEN EscalateDisplayColor(again) ELSE again) = once.color
    BY <2>1, <2>5 DEF ColorForOpen, EscalateDisplayColor
  <2>7. LET again == ColorForOpen(found, once.escalated)
        IN (once.escalated \/ (late /\ (once.status = "CONDITIONAL_RELEASE" \/ again = "YELLOW"))) = once.escalated
    BY <2>1, <2>2, <2>5 DEF ColorForOpen
  <2>8. /\ twice.status = once.status /\ twice.color = once.color /\ twice.ruleColor = once.ruleColor
        /\ twice.escalated = once.escalated /\ twice.disposition = once.disposition
        /\ twice.reopened = once.reopened
    BY <2>1, <2>2, <2>3, <2>4, <2>6, <2>7, <1>typ, OpenRow
  <2> HIDE DEF twice
  <2>9. twice = once
    BY <2>8, <1>typ, RowsEqual
  <2> QED BY <2>9 DEF twice, once
<1> QED
  BY <1>1, <1>2, <1>3, <1>4 DEF RuleSeverityRose, Protected

(***************************************************************************)
(* The card and its tasks, however many requests overlap.                  *)
(***************************************************************************)
ActSteps == {"dropTasks", "addTasks", "actWrite"}

(* No card is a row without colour, and a card that is not there has no    *)
(* tasks and nobody disposing of it.                                       *)
CardInv ==
  /\ Sound(risk)
  /\ \A r \in Requests : req[r].step \in {"tasks", "write"} => Sound(req[r].row)
  /\ risk.status = "ABSENT" => /\ \A t \in TaskIds : tasks[t] = "NONE"
                              /\ \A r \in Requests : req[r].step \notin ActSteps

(* A release, or a request about to write one, has tasks, or tasks are     *)
(* about to be added: who drops them adds some.                            *)
Releases(r) ==
  \/ req[r].step \in {"tasks", "write"} /\ req[r].row.status = "CONDITIONAL_RELEASE"
  \/ req[r].step = "actWrite" /\ req[r].conclusion = "CONDITIONAL_RELEASE"
HasTask == \E t \in TaskIds : tasks[t] # "NONE"
TasksInv ==
  (risk.status = "CONDITIONAL_RELEASE" \/ \E r \in Requests : Releases(r))
    => HasTask \/ \E r \in Requests : req[r].step = "addTasks"

(* What a recalculation makes of a row: it neither removes nor releases.   *)
LEMMA SyncStatus ==
  ASSUME NEW row \in RiskRow, NEW found \in Found, NEW late \in BOOLEAN, Sound(row)
  PROVE  LET new == SyncRiskState(row, found, late)
         IN /\ Sound(new)
            /\ new.status = "ABSENT" => row.status = "ABSENT" /\ new = NoRow
            /\ new.status \in {"CONDITIONAL_RELEASE", "RESOLVED", "REJECTED"} => new.status = row.status
<1> DEFINE new == SyncRiskState(row, found, late)
<1>1. CASE found = "NONE"
  <2>1. CASE row.status = "CONDITIONAL_RELEASE" /\ late
    <3>1. new = ApplyOverdueEscalation(row, late)
      BY <1>1, <2>1 DEF SyncRiskState, WithoutFinding
    <3>2. new.status = "PENDING" /\ new.color # "NONE"
      BY <2>1, <3>1 DEF ApplyOverdueEscalation, EscalateDisplayColor, RiskRow, Sound
    <3> HIDE DEF new
    <3>3. Sound(new) /\ new.status = "PENDING"
      BY <3>2 DEF Sound
    <3> QED BY <3>3 DEF new
  <2>2. CASE ~(row.status = "CONDITIONAL_RELEASE" /\ late) /\ row.status = "PENDING"
    <3>1. new = [row EXCEPT !.status = "SYSTEM_CLOSED"]
      BY <1>1, <2>2 DEF SyncRiskState, WithoutFinding
    <3>2. new.status = "SYSTEM_CLOSED" /\ new.color # "NONE"
      BY <2>2, <3>1 DEF RiskRow, Sound
    <3> HIDE DEF new
    <3>3. Sound(new) /\ new.status = "SYSTEM_CLOSED"
      BY <3>2 DEF Sound
    <3> QED BY <3>3 DEF new
  <2>3. CASE ~(row.status = "CONDITIONAL_RELEASE" /\ late) /\ row.status # "PENDING"
    <3>1. new = row
      BY <1>1, <2>3 DEF SyncRiskState, WithoutFinding
    <3> QED BY <3>1 DEF Sound
  <2> QED BY <2>1, <2>2, <2>3
<1>2. CASE found # "NONE" /\ (row.status = "ABSENT" \/ RuleSeverityRose(row, found))
  <2>1. new.status = "PENDING" /\ new.color = found
    BY <1>2 DEF SyncRiskState, FromFinding, ReopenAfterSeverityRise, NoRow, RiskRow
  <2> HIDE DEF new
  <2>2. Sound(new) /\ new.status = "PENDING"
    BY <1>2, <2>1 DEF Sound
  <2> QED BY <2>2 DEF new
<1>3. CASE found # "NONE" /\ row.status \in Terminal /\ ~RuleSeverityRose(row, found)
  <2>1. new = [row EXCEPT !.ruleColor = found]
    BY <1>3 DEF SyncRiskState, FromFinding, Terminal
  <2>2. new.status = row.status /\ new.color = row.color
    BY <2>1 DEF RiskRow
  <2> HIDE DEF new
  <2>3. Sound(new) /\ new.status = row.status /\ new.status # "ABSENT"
    BY <1>3, <2>2 DEF Sound, Terminal
  <2> QED BY <2>3 DEF new
<1>4. CASE found # "NONE" /\ row.status \notin Terminal \cup {"ABSENT"} /\ ~RuleSeverityRose(row, found)
  <2>1. found \in Colors
    BY <1>4, FoundColors DEF MaybeColor
  <2>2. /\ new.status \in {"PENDING", row.status} /\ new.status # "ABSENT"
        /\ new.color = IF late THEN EscalateDisplayColor(ColorForOpen(found, row.escalated))
                       ELSE ColorForOpen(found, row.escalated)
    BY <1>4, <2>1, OpenRow
  <2>3. new.color # "NONE"
    BY <2>1, <2>2 DEF EscalateDisplayColor, ColorForOpen, Colors
  <2> HIDE DEF new
  <2>4. Sound(new)
    BY <2>2, <2>3 DEF Sound
  <2>5. new.status \in {"CONDITIONAL_RELEASE", "RESOLVED", "REJECTED"} => new.status = row.status
    BY <2>2
  <2> QED BY <2>2, <2>4, <2>5 DEF new
<1> QED
  BY <1>1, <1>2, <1>3, <1>4 DEF RuleSeverityRose, Protected

(* One step, as the invariants of the card see it: what the request comes  *)
(* to, and what becomes of the row and the tasks.                          *)
LEMMA CardMoves ==
  ASSUME TypeOK, CardInv, NEW r \in Requests, Submit(r) \/ Handle(r)
  PROVE  /\ \A s \in Requests : s # r => req'[s] = req[s]
         /\ \/ /\ UNCHANGED <<risk, tasks>> /\ req[r].step # "addTasks"
               /\ \/ req'[r].step \notin ActSteps \cup {"tasks", "write"}
                  \/ req'[r].step = "tasks" /\ req'[r].row = risk
                  \/ req[r].step = "tasks" /\ req'[r].step = "write" /\ req'[r].row = req[r].row
                  \/ /\ risk.status # "ABSENT" /\ req'[r].step \in {"dropTasks", "actWrite"}
                     /\ req'[r].step = "actWrite" => req'[r].conclusion # "CONDITIONAL_RELEASE"
                  \/ req'[r] = req[r]
            \/ /\ req[r].step = "write" /\ UNCHANGED tasks /\ req'[r].step \in {"idle", "clearViews"}
               /\ \/ risk' = risk
                  \/ risk' # NoRow /\ risk' = SyncRiskState(req[r].row, req[r].found, req[r].late)
            \/ req[r].step = "dropTasks" /\ UNCHANGED risk /\ req'[r].step = "addTasks"
            \/ /\ req[r].step = "addTasks" /\ UNCHANGED risk /\ req'[r].step = "actWrite" /\ HasTask'
            \/ /\ req[r].step = "actWrite" /\ UNCHANGED tasks /\ req'[r].step = "open"
               /\ risk' = [risk EXCEPT !.status = req[r].conclusion, !.disposition = req[r].row.color,
                                       !.reopened = FALSE]
            \/ /\ UNCHANGED risk /\ req[r].step # "addTasks" /\ req'[r].step = "idle"
               /\ \A t \in TaskIds : tasks'[t] = "NONE" <=> tasks[t] = "NONE"
<1> USE DEF rowVars
<1>typed. /\ req \in [Requests -> Request] /\ risk \in RiskRow /\ tasks \in [TaskIds -> TaskStatus]
          /\ \A s \in Requests : req[s] \in Record
  BY TypeParts DEF TypeOK, Request
<1>others. \A s \in Requests : s # r => req'[s] = req[s]
  BY <1>typed DEF Submit, Handle, RuleChanges, Expire, CollectFindings, Open, Act, UploadSupplement,
     AcceptSupplement, HoldTask, ReadRows, ReadTasks, WriteRow, ClearViews, DropTasks, AddTasks, ActWrite,
     ReadForOpen, Claim, View, WriteTask, Goto, Finish
<1>fin. Finish(r) => req'[r].step = "idle"
  BY <1>typed DEF Finish, Idle
<1> USE DEF ActSteps
<1>1. CASE RuleChanges(r) \/ Expire(r)
  BY <1>1, <1>others DEF RuleChanges, Expire, At
<1>2. CASE CollectFindings(r)
  <2>1. req'[r].step = "rows"
    BY <1>2, <1>typed DEF CollectFindings, Idle
  <2> QED BY <2>1, <1>2, <1>others DEF CollectFindings, At
<1>3. ASSUME NEW u \in Users, Open(r, u)
      PROVE  UNCHANGED <<risk, tasks>> /\ req[r].step = "idle" /\ req'[r].step = "open"
  BY <1>3, <1>typed DEF Open, Idle, At
<1>4. ASSUME NEW u \in Users, NEW conclusion \in Protected, Act(r, u, conclusion)
      PROVE  /\ UNCHANGED <<risk, tasks>> /\ risk.status # "ABSENT" /\ req[r].step = "idle"
             /\ req'[r].step = IF conclusion = "CONDITIONAL_RELEASE" THEN "dropTasks" ELSE "actWrite"
             /\ req'[r].conclusion = conclusion
  BY <1>4, <1>typed DEF Act, Idle, NoRow, At
<1>5. ASSUME NEW t \in TaskIds, UploadSupplement(r, t) \/ AcceptSupplement(r, t)
      PROVE  UNCHANGED <<risk, tasks>> /\ req[r].step = "idle" /\ req'[r].step \in {"upload", "accept"}
  BY <1>5, <1>typed DEF UploadSupplement, AcceptSupplement, HoldTask, Idle, At
<1>6. CASE ReadRows(r)
  <2>1. req'[r].step = "tasks" /\ req'[r].row = risk
    BY <1>6, <1>typed DEF ReadRows, Record
  <2> QED BY <2>1, <1>6, <1>others DEF ReadRows, At
<1>7. CASE ReadTasks(r)
  <2>1. req[r].step = "tasks" /\ req'[r].step = "write" /\ req'[r].row = req[r].row
    BY <1>7, <1>typed DEF ReadTasks, Record, At
  <2> QED BY <2>1, <1>7, <1>others DEF ReadTasks, At
<1>8. CASE WriteRow(r)
  <2> DEFINE new == SyncRiskState(req[r].row, req[r].found, req[r].late)
  <2>1. /\ req[r].step = "write" /\ UNCHANGED tasks /\ req'[r].step \in {"idle", "clearViews"}
    BY <1>8, <1>typed, <1>fin DEF WriteRow, At, Idle
  <2>2. /\ req[r].row \in RiskRow /\ req[r].found \in Found /\ req[r].late \in BOOLEAN /\ Sound(req[r].row)
    BY <2>1, <1>typed DEF Record, CardInv
  <2>3. new = NoRow => req[r].row.status = "ABSENT"
    BY <2>2, SyncStatus DEF NoRow
  <2>4. risk' = risk \/ (risk' # NoRow /\ risk' = new)
    <3>1. PICK written \in BOOLEAN :
            /\ risk' = IF written THEN new ELSE risk
            /\ written => IF req[r].row.status = "ABSENT" THEN new # NoRow
                          ELSE req[r].found # "NONE" \/ new # req[r].row
      BY <1>8 DEF WriteRow
    <3> HIDE DEF new
    <3> QED BY <2>3, <3>1
  <2> HIDE DEF new
  <2>5. risk' = risk \/ (risk' # NoRow /\ risk' = SyncRiskState(req[r].row, req[r].found, req[r].late))
    BY <2>4 DEF new
  <2> QED BY <2>1, <2>5, <1>others
<1>9. CASE DropTasks(r)
  <2>1. req[r].step = "dropTasks" /\ UNCHANGED risk /\ req'[r].step = "addTasks"
    BY <1>9, <1>typed DEF DropTasks, At, Goto, Record
  <2> QED BY <2>1, <1>others
<1>10. CASE AddTasks(r)
  <2>1. req[r].step = "addTasks" /\ UNCHANGED risk /\ req'[r].step = "actWrite"
    BY <1>10, <1>typed DEF AddTasks, At, Goto, Record
  <2>2. PICK new \in (SUBSET FreeTaskIds) \ {{}} :
          tasks' = [t \in TaskIds |-> IF t \in new THEN "OPEN" ELSE tasks[t]]
    BY <1>10 DEF AddTasks
  <2>3. PICK t \in new : t \in TaskIds
    BY DEF FreeTaskIds
  <2>4. HasTask'
    BY <2>2, <2>3 DEF HasTask
  <2> QED BY <2>1, <2>4, <1>others
<1>11. CASE ActWrite(r)
  <2>1. req[r].step = "actWrite" /\ UNCHANGED tasks /\ req'[r].step = "open"
    BY <1>11, <1>typed DEF ActWrite, At, Idle
  <2> QED BY <2>1, <1>11, <1>others DEF ActWrite
<1>12. CASE ReadForOpen(r) \/ Claim(r) \/ View(r) \/ ClearViews(r)
  <2>1. req'[r].step \in {"idle", "claim", "view"} /\ UNCHANGED <<risk, tasks>>
    BY <1>12, <1>typed DEF ReadForOpen, Claim, View, ClearViews, Goto, Finish, Idle, Record
  <2>2. req[r].step # "addTasks"
    BY <1>12 DEF ReadForOpen, Claim, View, ClearViews, At
  <2> QED BY <2>1, <2>2, <1>others
<1>13. ASSUME NEW step \in {"upload", "accept"}, NEW mark \in {"SUBMITTED", "ACCEPTED"}, WriteTask(r, step, mark)
       PROVE  /\ UNCHANGED risk /\ req[r].step # "addTasks" /\ req'[r].step = "idle"
              /\ \A t \in TaskIds : tasks'[t] = "NONE" <=> tasks[t] = "NONE"
  BY <1>13, <1>fin DEF WriteTask, At
<1> QED
  BY <1>1, <1>2, <1>3, <1>4, <1>5, <1>6, <1>7, <1>8, <1>9, <1>10, <1>11, <1>12, <1>13, <1>others
  DEF Submit, Handle

LEMMA CardStep ==
  ASSUME TypeOK, CardInv, [Next]_vars
  PROVE  CardInv'
<1>1. ASSUME NEW r \in Requests, Submit(r) \/ Handle(r) PROVE CardInv'
  <2>1. \A s \in Requests : s # r => req'[s] = req[s]
    BY <1>1, CardMoves
  <2>2. risk'.status = "ABSENT" => risk.status = "ABSENT"
    <3>1. ASSUME req[r].step = "write", risk' = SyncRiskState(req[r].row, req[r].found, req[r].late), risk' # NoRow
          PROVE  risk'.status # "ABSENT"
      <4>1. /\ req[r].row \in RiskRow /\ req[r].found \in Found /\ req[r].late \in BOOLEAN /\ Sound(req[r].row)
        BY <3>1, TypeParts DEF TypeOK, Request, Record, CardInv
      <4> QED BY <3>1, <4>1, SyncStatus
    <3>2. ASSUME NEW color, risk' = [risk EXCEPT !.status = req[r].conclusion, !.disposition = color,
                                                 !.reopened = FALSE]
          PROVE  risk'.status # "ABSENT"
      BY <3>2, TypeParts DEF TypeOK, Request, Record, RiskRow, Protected, Terminal
    <3>3. \/ risk' = risk
          \/ risk' = [risk EXCEPT !.status = req[r].conclusion, !.disposition = req[r].row.color,
                                  !.reopened = FALSE]
          \/ /\ req[r].step = "write" /\ risk' # NoRow
             /\ risk' = SyncRiskState(req[r].row, req[r].found, req[r].late)
      BY <1>1, CardMoves
    <3>4. CASE risk' = risk
      BY <3>4
    <3>5. CASE risk' = [risk EXCEPT !.status = req[r].conclusion, !.disposition = req[r].row.color,
                                    !.reopened = FALSE]
      BY <3>5, <3>2
    <3>6. CASE /\ req[r].step = "write" /\ risk' # NoRow
               /\ risk' = SyncRiskState(req[r].row, req[r].found, req[r].late)
      BY <3>6, <3>1
    <3> QED BY <3>3, <3>4, <3>5, <3>6
  <2>3. Sound(risk')
    <3>1. ASSUME req[r].step = "write", risk' = SyncRiskState(req[r].row, req[r].found, req[r].late)
          PROVE  Sound(risk')
      <4>1. /\ req[r].row \in RiskRow /\ req[r].found \in Found /\ req[r].late \in BOOLEAN /\ Sound(req[r].row)
        BY <3>1, TypeParts DEF TypeOK, Request, Record, CardInv
      <4> QED BY <3>1, <4>1, SyncStatus
    <3>2. ASSUME req[r].step = "actWrite",
                 risk' = [risk EXCEPT !.status = req[r].conclusion, !.disposition = req[r].row.color,
                                      !.reopened = FALSE]
          PROVE  Sound(risk')
      <4>1. risk \in RiskRow /\ req[r].conclusion \in Protected
        BY TypeParts DEF TypeOK, Request, Record
      <4>2. risk.status # "ABSENT"
        BY <3>2 DEF CardInv, ActSteps
      <4>3. risk'.status # "ABSENT" /\ risk'.color # "NONE"
        BY <3>2, <4>1, <4>2 DEF RiskRow, Protected, Terminal, CardInv, Sound
      <4> QED BY <4>3 DEF Sound
    <3>3. risk' = risk => Sound(risk')
      BY DEF CardInv
    <3> QED BY <1>1, <3>1, <3>2, <3>3, CardMoves
  <2>4. req'[r].step \in {"tasks", "write"} => Sound(req'[r].row)
    BY <1>1, CardMoves DEF CardInv, ActSteps
  <2>5. risk'.status = "ABSENT" =>
          (\A t \in TaskIds : tasks'[t] = "NONE") /\ \A s \in Requests : req'[s].step \notin ActSteps
    <3> SUFFICES ASSUME risk'.status = "ABSENT"
                 PROVE  (\A t \in TaskIds : tasks'[t] = "NONE") /\ req'[r].step \notin ActSteps
      BY <2>1, <2>2 DEF CardInv
    <3>1. risk.status = "ABSENT" /\ (\A t \in TaskIds : tasks[t] = "NONE") /\ req[r].step \notin ActSteps
      BY <2>2 DEF CardInv
    <3> QED BY <1>1, <3>1, CardMoves DEF ActSteps
  <2> QED BY <2>1, <2>3, <2>4, <2>5 DEF CardInv
<1>2. CASE UNCHANGED vars
  BY <1>2 DEF vars, CardInv
<1> QED
  BY <1>1, <1>2 DEF Next
LEMMA CardStart ==
  ASSUME Init
  PROVE  CardInv /\ TasksInv
BY DEF Init, CardInv, TasksInv, Sound, Releases, ActSteps, Idle, NoRow

LEMMA TasksStep ==
  ASSUME TypeOK, CardInv, TasksInv, [Next]_vars
  PROVE  TasksInv'
<1>1. ASSUME NEW r \in Requests, Submit(r) \/ Handle(r) PROVE TasksInv'
  <2>aside. \A s \in Requests : s # r => req'[s] = req[s]
    BY <1>1, CardMoves
  <2>1. CASE req[r].step # "addTasks" /\ \A t \in TaskIds : tasks'[t] = "NONE" <=> tasks[t] = "NONE"
    <3>1. ASSUME risk'.status = "CONDITIONAL_RELEASE" \/ Releases(r)'
          PROVE  risk.status = "CONDITIONAL_RELEASE" \/ Releases(r)
      <4>1. CASE risk' = risk
        BY <1>1, <2>1, <3>1, <4>1, CardMoves DEF Releases, ActSteps
      <4>2. CASE /\ req[r].step = "write" /\ req'[r].step \in {"idle", "clearViews"}
                 /\ risk' = SyncRiskState(req[r].row, req[r].found, req[r].late)
        <5>1. /\ req[r].row \in RiskRow /\ req[r].found \in Found /\ req[r].late \in BOOLEAN /\ Sound(req[r].row)
          BY <4>2, TypeParts DEF TypeOK, Request, Record, CardInv
        <5>2. risk'.status = "CONDITIONAL_RELEASE" => req[r].row.status = "CONDITIONAL_RELEASE"
          BY <4>2, <5>1, SyncStatus
        <5> QED BY <3>1, <4>2, <5>2 DEF Releases
      <4>3. CASE /\ req[r].step = "actWrite" /\ req'[r].step = "open"
                 /\ risk' = [risk EXCEPT !.status = req[r].conclusion, !.disposition = req[r].row.color,
                                         !.reopened = FALSE]
        <5>1. risk'.status = req[r].conclusion
          BY <4>3, TypeParts DEF TypeOK, RiskRow
        <5> QED BY <3>1, <4>3, <5>1 DEF Releases
      <4> QED BY <1>1, <4>1, <4>2, <4>3, CardMoves
    <3>2. \A s \in Requests : s # r => (Releases(s)' <=> Releases(s))
      BY <2>aside DEF Releases
    <3>3. HasTask' <=> HasTask
      BY <2>1 DEF HasTask
    <3>4. (\E s \in Requests : req[s].step = "addTasks") => \E s \in Requests : req'[s].step = "addTasks"
      BY <2>1, <2>aside
    <3> QED BY <3>1, <3>2, <3>3, <3>4 DEF TasksInv
  <2>2. CASE req[r].step = "dropTasks" /\ req'[r].step = "addTasks"
    BY <2>2 DEF TasksInv
  <2>3. CASE HasTask'
    BY <2>3 DEF TasksInv
  <2> QED BY <1>1, <2>1, <2>2, <2>3, CardMoves DEF ActSteps
<1>2. CASE UNCHANGED vars
  BY <1>2 DEF vars, TasksInv, HasTask, Releases
<1> QED
  BY <1>1, <1>2 DEF Next

(***************************************************************************)
(* A risk released on conditions has its tasks.  When nothing is in        *)
(* flight nobody is about to add them, so TasksInv leaves the tasks; any   *)
(* number of recalculations and disposals may have crossed before.         *)
(***************************************************************************)
THEOREM ReleasesHaveTasks == Spec => []ReleaseHasTasks
<1>1. Init => TypeOK /\ CardInv /\ TasksInv
  BY CardStart, InitTyped
<1>2. TypeOK /\ CardInv /\ TasksInv /\ [Next]_vars => (TypeOK /\ CardInv /\ TasksInv)'
  BY CardStep, TasksStep, StepTyped
<1>3. TypeOK /\ CardInv /\ TasksInv => ReleaseHasTasks
  BY DEF TasksInv, ReleaseHasTasks, HasTask, Quiet, At
<1> QED
  BY <1>1, <1>2, <1>3, PTL DEF Spec

(***************************************************************************)
(* The card at rest, where requests do not overlap.  Nobody holds a        *)
(* settled card, and nobody is about to: who opens it claims it at once.   *)
(***************************************************************************)
HolderInv ==
  /\ risk.status \in Terminal => by = NoUser
  /\ \A r \in Requests : req[r].step = "claim" => risk.status \notin Terminal

LEMMA HolderStep ==
  ASSUME TypeOK, CardInv, SerialInv, HolderInv, [SerialNext]_vars
  PROVE  HolderInv'
<1> USE DEF rowVars
<1>typed. /\ req \in [Requests -> Request] /\ risk \in RiskRow
          /\ \A r \in Requests : req[r] \in Record
  BY TypeParts DEF TypeOK, Request
<1>alone. ASSUME NEW r \in Requests, (Quiet /\ Submit(r)) \/ Handle(r),
                 risk'.status \in Terminal => by' = NoUser,
                 req'[r].step = "claim" => risk'.status \notin Terminal
          PROVE  HolderInv'
  <2>1. \A s \in Requests : s # r => req'[s].step = "idle"
    BY <1>alone, OthersIdle DEF SerialInv
  <2> QED BY <1>alone, <2>1 DEF HolderInv
<1>1. ASSUME NEW r \in Requests, Quiet /\ Submit(r) PROVE HolderInv'
  <2>1. UNCHANGED <<risk, by>>
    BY <1>1 DEF Submit, RuleChanges, Expire, CollectFindings, Open, Act, UploadSupplement, AcceptSupplement
  <2>2. req'[r].step # "claim"
    <3>1. CASE RuleChanges(r) \/ Expire(r)
      BY <3>1 DEF RuleChanges, Expire, At
    <3>2. CASE CollectFindings(r)
      BY <3>2, <1>typed DEF CollectFindings, Idle
    <3>3. ASSUME NEW u \in Users, Open(r, u) PROVE req'[r].step # "claim"
      BY <3>3, <1>typed DEF Open, Idle
    <3>4. ASSUME NEW u \in Users, NEW conclusion \in Protected, Act(r, u, conclusion)
          PROVE  req'[r].step # "claim"
      BY <3>4, <1>typed DEF Act, Idle
    <3>5. ASSUME NEW t \in TaskIds, UploadSupplement(r, t) \/ AcceptSupplement(r, t)
          PROVE  req'[r].step # "claim"
      BY <3>5, <1>typed DEF UploadSupplement, AcceptSupplement, HoldTask, Idle
    <3> QED BY <1>1, <3>1, <3>2, <3>3, <3>4, <3>5 DEF Submit
  <2> QED BY <1>1, <2>1, <2>2, <1>alone DEF HolderInv
<1>2. ASSUME NEW r \in Requests, Handle(r), WriteRow(r) PROVE HolderInv'
  <2>1. req[r].step = "write" /\ req[r].row = risk /\ req[r].found \in Found /\ req[r].late \in BOOLEAN
    BY <1>2, <1>typed DEF WriteRow, At, SerialInv, Fresh, Record
  <2>2. req'[r].step # "claim"
    BY <1>2, <1>typed DEF WriteRow, Finish, Idle
  <2>3. risk' = risk \/ risk' = SyncRiskState(risk, req[r].found, req[r].late)
    BY <1>2, <2>1 DEF WriteRow
  <2>4. risk'.status \in Terminal => risk'.status = risk.status
    BY <2>1, <2>3, <1>typed, SyncStatus DEF CardInv, Terminal
  <2>5. by' \in {by, NoUser}
    BY <1>2 DEF WriteRow
  <2> QED BY <1>2, <2>2, <2>4, <2>5, <1>alone DEF HolderInv
<1>3. ASSUME NEW r \in Requests, Handle(r), ActWrite(r) PROVE HolderInv'
  <2>1. req'[r].step = "open"
    BY <1>3, <1>typed DEF ActWrite, Idle
  <2> QED BY <2>1, <1>3, <1>alone DEF ActWrite
<1>4. ASSUME NEW r \in Requests, Handle(r), ReadForOpen(r) PROVE HolderInv'
  <2>1. req'[r].step = "claim" => risk.status \notin Terminal
    BY <1>4, <1>typed DEF ReadForOpen, Goto, Finish, Idle, Record
  <2> QED BY <2>1, <1>4, <1>alone DEF ReadForOpen, HolderInv
<1>5. ASSUME NEW r \in Requests, Handle(r), Claim(r) PROVE HolderInv'
  <2>1. req'[r].step = "view" /\ UNCHANGED risk /\ risk.status \notin Terminal
    BY <1>5, <1>typed DEF Claim, Goto, At, HolderInv, Record
  <2> QED BY <1>5, <2>1, <1>alone
<1>6. ASSUME NEW r \in Requests, Handle(r),
             ReadRows(r) \/ ReadTasks(r) \/ ClearViews(r) \/ DropTasks(r) \/ AddTasks(r) \/ View(r)
               \/ WriteTask(r, "upload", "SUBMITTED") \/ WriteTask(r, "accept", "ACCEPTED")
      PROVE  HolderInv'
  <2>1. UNCHANGED <<risk, by>>
    BY <1>6 DEF ReadRows, ReadTasks, ClearViews, DropTasks, AddTasks, View, WriteTask
  <2>2. req'[r].step # "claim"
    <3>1. CASE ClearViews(r) \/ View(r) \/ WriteTask(r, "upload", "SUBMITTED") \/ WriteTask(r, "accept", "ACCEPTED")
      BY <3>1, <1>typed DEF ClearViews, View, WriteTask, Finish, Idle
    <3>2. CASE ReadRows(r) \/ ReadTasks(r) \/ DropTasks(r) \/ AddTasks(r)
      BY <3>2, <1>typed DEF ReadRows, ReadTasks, DropTasks, AddTasks, Goto, Record
    <3> QED BY <1>6, <3>1, <3>2
  <2> QED BY <1>6, <2>1, <2>2, <1>alone DEF HolderInv
<1>7. CASE UNCHANGED vars
  BY <1>7 DEF vars, HolderInv
<1> QED
  BY <1>1, <1>2, <1>3, <1>4, <1>5, <1>6, <1>7 DEF SerialNext, Handle

LEMMA RestInductive == SerialSpec => [](TypeOK /\ CardInv /\ SerialInv /\ HolderInv)
<1>1. Init => TypeOK /\ CardInv /\ SerialInv /\ HolderInv
  <2>1. Init => HolderInv
    BY DEF Init, HolderInv, Idle, NoRow, Terminal
  <2> QED BY <2>1, InitTyped, CardStart, SerialStart
<1>2. TypeOK /\ CardInv /\ SerialInv /\ HolderInv /\ [SerialNext]_vars
        => (TypeOK /\ CardInv /\ SerialInv /\ HolderInv)'
  BY SerialTyped, SerialStep, SerialIsNext, CardStep, HolderStep
<1> QED
  BY <1>1, <1>2, PTL DEF SerialSpec

LEMMA RestSettles == TypeOK /\ CardInv /\ HolderInv => CardSettles
<1>1. HolderInv => NobodyHoldsSettled
  BY DEF HolderInv, NobodyHoldsSettled
<1>2. ASSUME TypeOK, CardInv PROVE RecalculateSettles
  <2>1. ASSUME rule # "NONE"
        PROVE  LET once == SyncRiskState(risk, rule, LateTasks)
               IN SyncRiskState(once, rule, LateTasks) = once
    <3>1. rule \in Colors /\ rule \in RuleColors
      BY <1>2, <2>1, RadarAssumption DEF TypeOK
    <3>2. risk \in RiskRow /\ LateTasks \in BOOLEAN /\ Sound(risk)
      BY <1>2, LateBoolean DEF TypeOK, CardInv
    <3>3. risk.status = "ABSENT" => ~LateTasks
      BY <1>2 DEF CardInv, LateTasks
    <3> QED BY <3>1, <3>2, <3>3, SyncTwice
  <2> QED BY <2>1 DEF RecalculateSettles
<1> QED BY <1>1, <1>2 DEF CardSettles

(* Where requests do not overlap a card comes to rest: recalculating it    *)
(* again while the rule holds changes nothing, and nobody is shown as      *)
(* handling a settled risk.                                                *)
THEOREM RadarCardSettles == SerialSpec => []CardSettles
BY RestInductive, RestSettles, PTL

(***************************************************************************)
(* The lanes of the run that move the card.                                *)
(***************************************************************************)
CardLaneInv ==
  /\ TypeOK /\ CardInv /\ TasksInv
  /\ lane = "radar" => SerialInv /\ HolderInv
  /\ lane = "overlap" => NeverRedInv

LEMMA CardLaneStart == MCInit => CardLaneInv
<1>1. Init => HolderInv /\ NeverRedInv
  BY DEF Init, HolderInv, NeverRedInv, NotRed, Idle, NoRow, Terminal
<1> QED BY <1>1, InitTyped, CardStart, SerialStart DEF MCInit, CardLaneInv

LEMMA CardLanes ==
  ASSUME [MCNext]_<<vars, screenVars, findVars, lane>>
  PROVE  /\ lane' = lane /\ [Next]_vars
         /\ lane = "radar" => [SerialNext]_vars
         /\ lane = "overlap" => rule' \in {rule, "NONE", "YELLOW"}
<1>1. CASE lane = "radar" /\ SerialNext /\ lane' = lane
  BY <1>1, SerialIsNext
<1>2. CASE lane = "overlap" /\ Next /\ Mild /\ lane' = lane
  BY <1>2 DEF Mild
<1>3. CASE UNCHANGED <<vars, lane>>
  BY <1>3 DEF vars
<1> QED BY <1>1, <1>2, <1>3 DEF MCNext

LEMMA CardLaneStep ==
  ASSUME CardLaneInv, [MCNext]_<<vars, screenVars, findVars, lane>>
  PROVE  CardLaneInv'
<1>1. /\ lane' = lane /\ [Next]_vars
      /\ lane = "radar" => [SerialNext]_vars
      /\ lane = "overlap" => rule' \in {rule, "NONE", "YELLOW"}
  BY CardLanes
<1>2. TypeOK /\ CardInv /\ TasksInv
  BY DEF CardLaneInv
<1>3. (TypeOK /\ CardInv /\ TasksInv)'
  BY <1>1, <1>2, StepTyped, CardStep, TasksStep
<1>4. ASSUME lane' = "radar" PROVE (SerialInv /\ HolderInv)'
  BY <1>1, <1>2, <1>4, SerialStep, HolderStep DEF CardLaneInv
<1>5. ASSUME lane' = "overlap" PROVE NeverRedInv'
  <2>1. NeverRedInv /\ rule' # "RED"
    BY <1>1, <1>5 DEF CardLaneInv, NeverRedInv
  <2> QED BY <1>1, <1>2, <2>1, NeverRedStep
<1> QED BY <1>3, <1>4, <1>5 DEF CardLaneInv

LEMMA CardLaneInvariance == MCSpec => []CardLaneInv
BY CardLaneStart, CardLaneStep, PTL DEF MCSpec

(* Requests may overlap in any number and write over one another: a        *)
(* release keeps its tasks, and a card whose rule is mild is never red.    *)
THEOREM OverlapHolds == MCSpec => []OverlapLawful
<1>1. CardLaneInv => OverlapLawful
  <2>1. TypeOK /\ CardInv /\ TasksInv => ReleaseHasTasks
    BY DEF TasksInv, ReleaseHasTasks, HasTask, Quiet, At
  <2> QED BY <2>1 DEF CardLaneInv, OverlapLawful, NeverRedInv
<1> QED BY <1>1, CardLaneInvariance, PTL

(* One request after the other no red risk is left released or resolved.   *)
THEOREM LaneRedNotReleased == MCSpec => []SerialRedNotReleased
<1>1. CardLaneInv => SerialRedNotReleased
  BY DEF CardLaneInv, SerialInv, Lawful, Released, RedNotReleased, SerialRedNotReleased
<1> QED BY <1>1, CardLaneInvariance, PTL

(* One request after the other the card comes to rest.                     *)
THEOREM LaneCardSettles == MCSpec => []SerialCardSettles
<1>1. CardLaneInv => SerialCardSettles
  BY RestSettles DEF CardLaneInv, SerialCardSettles
<1> QED BY <1>1, CardLaneInvariance, PTL

(* One request after the other a disposition holds until there is reason   *)
(* to take it back.                                                        *)
THEOREM LaneDispositionKept == MCSpec => SerialDispositionKept
<1> DEFINE Step == lane = "radar" => KeepsDisposition
<1>1. ASSUME CardLaneInv, [MCNext]_<<vars, screenVars, findVars, lane>> PROVE [Step]_vars
  <2>1. lane = "radar" => [SerialNext]_vars
    BY <1>1, CardLanes
  <2> QED BY <1>1, <2>1, KeepsStep DEF CardLaneInv
<1>2. CardLaneInv /\ [MCNext]_<<vars, screenVars, findVars, lane>> => [Step]_vars
  BY <1>1
<1> QED
  BY <1>2, CardLaneInvariance, PTL DEF MCSpec, SerialDispositionKept

(***************************************************************************)
(* Screening, however requests overlap, parties are renamed and requests   *)
(* fail: a name on file that may not pass is never without an open hit,    *)
(* except while a screening of it stands between its delete and its write; *)
(* and a request that is about to write a pass, under which nothing has    *)
(* moved, has no open hit before it.                                       *)
(***************************************************************************)
AtStep(r, step) == screenReq[r].step = step
IsOpen(h) == h.disposition \in {"OPEN", "CONFIRMED_TRUE"}
Owes(name) == Level[name] # "NONE" /\ name \notin cleared

ScreenRecord == [step : Screen!Steps, name : Names \cup {blank}, verdict : Screen!Verdicts]

ScreenTyped ==
  /\ subject \in {"N3", "N5"}
  /\ party \in Names \cup {blank}
  /\ hits \subseteq [name : Names, by : ScreenRequests, disposition : Screen!Dispositions]
  /\ screenReq \in [ScreenRequests -> ScreenRecord]

MatchStands ==
  \A name \in onFile \cap Names : Owes(name) =>
    \/ \E h \in hits : IsOpen(h) /\ h.name = name
    \/ \E r \in ScreenRequests : AtStep(r, "match") /\ screenReq[r].name = name

PassIsOwed ==
  \A r \in ScreenRequests \ overtaken :
    AtStep(r, "write") /\ screenReq[r].verdict = "PASS" =>
      /\ party # blank
      /\ \A h \in hits : ~IsOpen(h)
      /\ \A q \in ScreenRequests : ~AtStep(q, "match")

ScreenInv == ScreenTyped /\ MatchStands /\ PassIsOwed

LEMMA ScreenStart == Screen!Init => ScreenInv
<1> SUFFICES ASSUME Screen!Init PROVE ScreenInv
  OBVIOUS
<1> USE DEF Screen!Init, Screen!Idle
<1>1. ScreenTyped
  BY ScreeningAssumption DEF ScreenTyped, ScreenRecord, Screen!Steps, Screen!Verdicts
<1>2. MatchStands /\ PassIsOwed
  BY DEF MatchStands, PassIsOwed, AtStep
<1> QED
  BY <1>1, <1>2 DEF ScreenInv

LEMMA ScreenMoves ==
  ASSUME ScreenTyped, NEW r \in ScreenRequests, NEW new \in ScreenRecord,
         screenReq' = [screenReq EXCEPT ![r] = new]
  PROVE  /\ screenReq'[r] = new
         /\ \A q \in ScreenRequests \ {r} : screenReq'[q] = screenReq[q]
         /\ screenReq' \in [ScreenRequests -> ScreenRecord]
BY DEF ScreenTyped, ScreenRecord

(* A pass comes of a screening that found nothing open.                    *)
LEMMA PassVerdict ==
  ASSUME "PASS" \in Screen!GateVerdicts
  PROVE  party # blank /\ \A h \in hits : ~IsOpen(h)
<1>1. Screen!ScreeningVerdict = "PASS"
  <2>1. Screen!ScreeningVerdict \in {"PASS", "REVIEW", "HARD_BLOCK"}
    BY DEF Screen!ScreeningVerdict
  <2> QED BY <2>1 DEF Screen!GateVerdicts
<1>2. Screen!OpenHits = {} /\ party # blank
  BY <1>1 DEF Screen!ScreeningVerdict
<1> QED
  BY <1>2 DEF Screen!OpenHits, IsOpen

(* What a step of a request leaves true of the rows, and what it does to   *)
(* the requests.                                                           *)
Effect(r) ==
  /\ ScreenTyped' /\ MatchStands'
  /\ party # blank => party' # blank
  /\ \A q \in ScreenRequests \ {r} : screenReq'[q] = screenReq[q]
  /\ AtStep(r, "write")' /\ screenReq'[r].verdict = "PASS" => "PASS" \in Screen!GateVerdicts

(* A step that changes no hit moves its request, and not out of the wait   *)
(* between delete and write.                                               *)
LEMMA OnlyMoves ==
  ASSUME ScreenTyped, MatchStands, NEW r \in ScreenRequests, NEW new \in ScreenRecord,
         screenReq' = [screenReq EXCEPT ![r] = new],
         UNCHANGED <<subject, hits, cleared, onFile>>,
         party' \in Names \cup {blank}, party # blank => party' # blank,
         ~AtStep(r, "match"),
         new.step = "write" /\ new.verdict = "PASS" => "PASS" \in Screen!GateVerdicts
  PROVE  Effect(r)
<1>1. /\ screenReq'[r] = new
      /\ \A q \in ScreenRequests \ {r} : screenReq'[q] = screenReq[q]
      /\ screenReq' \in [ScreenRequests -> ScreenRecord]
  BY ScreenMoves
<1>2. ScreenTyped'
  BY <1>1 DEF ScreenTyped, ScreenRecord
<1>3. MatchStands'
  <2> SUFFICES ASSUME NEW name \in onFile \cap Names, Owes(name)
               PROVE  \/ \E h \in hits : IsOpen(h) /\ h.name = name
                      \/ \E q \in ScreenRequests : AtStep(q, "match")' /\ screenReq'[q].name = name
    BY DEF MatchStands, Owes
  <2>1. ASSUME NEW q \in ScreenRequests, AtStep(q, "match"), screenReq[q].name = name
        PROVE  AtStep(q, "match")' /\ screenReq'[q].name = name
    BY <1>1, <2>1 DEF AtStep
  <2> QED BY <2>1 DEF MatchStands
<1> QED
  BY <1>1, <1>2, <1>3 DEF Effect, AtStep

LEMMA SubmitEffect ==
  ASSUME ScreenTyped, MatchStands, NEW r \in ScreenRequests, Screen!Submit(r)
  PROVE  Effect(r)
<1> USE DEF Screen!At
<1> DEFINE put(step, name) == [Screen!Idle EXCEPT !.step = step, !.name = name]
<1>1. \A step \in Screen!Steps, name \in Names \cup {blank} :
        put(step, name) \in ScreenRecord /\ put(step, name).step = step
  BY DEF ScreenRecord, Screen!Idle, Screen!Verdicts
<1>2. ASSUME NEW name \in Names, Screen!UpsertParty(r, name) PROVE Effect(r)
  <2>1. screenReq' = [screenReq EXCEPT ![r] = put("touch", blank)]
    BY <1>2 DEF Screen!UpsertParty, Screen!Begin
  <2>2. put("touch", blank) \in ScreenRecord /\ put("touch", blank).step = "touch"
    BY <1>1 DEF Screen!Steps
  <2>3. /\ UNCHANGED <<subject, hits, cleared, onFile>> /\ AtStep(r, "idle")
        /\ party' \in Names /\ party' # blank
    BY <1>2, ScreeningAssumption DEF Screen!UpsertParty, AtStep
  <2> HIDE DEF put
  <2> QED BY <2>1, <2>2, <2>3, OnlyMoves DEF AtStep
<1>3. ASSUME Screen!ReadParty(r) PROVE Effect(r)
  <2>1. screenReq' = [screenReq EXCEPT ![r] = put("delete", party)]
    BY <1>3 DEF Screen!ReadParty, Screen!Begin
  <2>2. put("delete", party) \in ScreenRecord /\ put("delete", party).step = "delete"
    BY <1>1 DEF Screen!Steps, ScreenTyped
  <2>3. UNCHANGED <<subject, party, hits, cleared, onFile>> /\ AtStep(r, "idle")
    BY <1>3 DEF Screen!ReadParty, Screen!rowVars, AtStep
  <2> HIDE DEF put
  <2> QED BY <2>1, <2>2, <2>3, OnlyMoves DEF AtStep, ScreenTyped
<1>4. ASSUME NEW h \in hits, NEW disposition \in {"CONFIRMED_TRUE", "FALSE_POSITIVE"},
             Screen!DisposeHit(r, h, disposition)
      PROVE  Effect(r)
  <2>1. PICK new \in ScreenRecord : /\ screenReq' = [screenReq EXCEPT ![r] = new]
                                    /\ new.step \in {"idle", "reeval"}
    <3>1. CASE subject = "N5"
      <4>1. screenReq' = [screenReq EXCEPT ![r] = put("reeval", blank)]
        BY <1>4, <3>1 DEF Screen!DisposeHit, Screen!Begin
      <4>2. put("reeval", blank) \in ScreenRecord /\ put("reeval", blank).step = "reeval"
        BY <1>1 DEF Screen!Steps
      <4> QED BY <4>1, <4>2
    <3>2. CASE subject # "N5"
      BY <1>4, <3>2 DEF Screen!DisposeHit, Screen!Finish, Screen!Idle, ScreenRecord, Screen!Steps, Screen!Verdicts
    <3> QED BY <3>1, <3>2
  <2>2. /\ screenReq'[r] = new
        /\ \A q \in ScreenRequests \ {r} : screenReq'[q] = screenReq[q]
        /\ screenReq' \in [ScreenRequests -> ScreenRecord]
    BY <2>1, ScreenMoves
  <2> DEFINE done == [h EXCEPT !.disposition = disposition]
  <2>3. /\ hits' = (hits \ {h}) \cup {done} /\ UNCHANGED <<subject, party, onFile>>
        /\ cleared' = IF disposition = "FALSE_POSITIVE" THEN cleared \cup {h.name} ELSE cleared \ {h.name}
        /\ AtStep(r, "idle")
    BY <1>4 DEF Screen!DisposeHit, AtStep
  <2>4. /\ done \in [name : Names, by : ScreenRequests, disposition : Screen!Dispositions]
        /\ done.name = h.name /\ done.disposition = disposition
    BY DEF ScreenTyped, Screen!Dispositions
  <2> HIDE DEF done
  <2>5. ScreenTyped'
    BY <2>2, <2>3, <2>4 DEF ScreenTyped, ScreenRecord
  <2>6. MatchStands'
    <3> SUFFICES ASSUME NEW name \in onFile \cap Names, Owes(name)'
                 PROVE  \/ \E g \in hits' : IsOpen(g) /\ g.name = name
                        \/ \E q \in ScreenRequests : AtStep(q, "match")' /\ screenReq'[q].name = name
      BY <2>3 DEF MatchStands
    <3>1. CASE name = h.name
      <4>1. disposition = "CONFIRMED_TRUE"
        BY <2>3, <3>1 DEF Owes
      <4> QED BY <2>3, <2>4, <3>1, <4>1 DEF IsOpen
    <3>2. CASE name # h.name
      <4>1. Owes(name)
        BY <2>3, <3>2 DEF Owes
      <4>2. ASSUME NEW q \in ScreenRequests, AtStep(q, "match"), screenReq[q].name = name
            PROVE  AtStep(q, "match")' /\ screenReq'[q].name = name
        BY <2>2, <2>3, <4>2 DEF AtStep
      <4>3. ASSUME NEW g \in hits, g.name = name PROVE g \in hits'
        BY <2>3, <3>2, <4>3
      <4> QED BY <4>1, <4>2, <4>3 DEF MatchStands
    <3> QED BY <3>1, <3>2
  <2> QED BY <2>1, <2>2, <2>3, <2>5, <2>6 DEF Effect, AtStep
<1>5. ASSUME Screen!Advance(r) PROVE Effect(r)
  <2>1. screenReq' = [screenReq EXCEPT ![r] = put("gate", blank)]
    BY <1>5 DEF Screen!Advance, Screen!Begin
  <2>2. put("gate", blank) \in ScreenRecord /\ put("gate", blank).step = "gate"
    BY <1>1 DEF Screen!Steps
  <2>3. UNCHANGED <<subject, party, hits, cleared, onFile>> /\ AtStep(r, "idle")
    BY <1>5 DEF Screen!Advance, Screen!rowVars, AtStep
  <2> HIDE DEF put
  <2> QED BY <2>1, <2>2, <2>3, OnlyMoves DEF AtStep, ScreenTyped
<1> QED
  BY <1>2, <1>3, <1>4, <1>5 DEF Screen!Submit

LEMMA HandleEffect ==
  ASSUME ScreenTyped, MatchStands, NEW r \in ScreenRequests, Screen!Handle(r)
  PROVE  Effect(r)
<1> USE DEF Screen!At
<1> DEFINE old == screenReq[r]
           to(step) == [old EXCEPT !.step = step]
           decided(step, verdict) == [old EXCEPT !.step = step, !.verdict = verdict]
<1>1. old \in ScreenRecord
  BY DEF ScreenTyped, ScreenRecord
<1>2. \A step \in Screen!Steps :
        to(step) \in ScreenRecord /\ to(step).step = step /\ to(step).name = old.name
  BY <1>1 DEF ScreenRecord
<1>3. \A step \in Screen!Steps, verdict \in Screen!Verdicts :
        /\ decided(step, verdict) \in ScreenRecord
        /\ decided(step, verdict).step = step /\ decided(step, verdict).verdict = verdict
  BY <1>1 DEF ScreenRecord
<1>4. Screen!Idle \in ScreenRecord /\ Screen!Idle.step = "idle"
  BY DEF Screen!Idle, ScreenRecord, Screen!Steps, Screen!Verdicts
<1>5. ASSUME Screen!TouchNode(r) \/ Screen!RewriteNode(r) \/ Screen!WriteVerdict(r) PROVE Effect(r)
  <2>1. /\ screenReq' = [screenReq EXCEPT ![r] = Screen!Idle] /\ ~AtStep(r, "match")
        /\ UNCHANGED <<subject, party, hits, cleared, onFile>>
    BY <1>5 DEF Screen!TouchNode, Screen!RewriteNode, Screen!WriteVerdict, Screen!Finish, Screen!rowVars, AtStep
  <2> QED BY <2>1, <1>4, OnlyMoves DEF ScreenTyped
<1>6. Screen!GateVerdicts \subseteq Screen!Verdicts
  BY DEF Screen!GateVerdicts, Screen!Verdicts
<1>7. ASSUME Screen!Reevaluate(r) PROVE Effect(r)
  <2>1. PICK verdict \in Screen!GateVerdicts : screenReq' = [screenReq EXCEPT ![r] = decided("rewrite", verdict)]
    <3>1. PICK verdict \in Screen!GateVerdicts : Screen!Decided(r, "rewrite", verdict)
      BY <1>7 DEF Screen!Reevaluate
    <3>2. screenReq' = [screenReq EXCEPT ![r] = decided("rewrite", verdict)]
      BY <3>1 DEF Screen!Decided, ScreenTyped
    <3> QED BY <3>2
  <2>2. decided("rewrite", verdict) \in ScreenRecord /\ decided("rewrite", verdict).step = "rewrite"
    BY <1>3, <1>6 DEF Screen!Steps
  <2>3. UNCHANGED <<subject, party, hits, cleared, onFile>> /\ AtStep(r, "reeval")
    BY <1>7 DEF Screen!Reevaluate, Screen!rowVars, AtStep
  <2> HIDE DEF decided
  <2> QED BY <2>1, <2>2, <2>3, OnlyMoves DEF AtStep, ScreenTyped
<1>8. ASSUME Screen!Gate(r) PROVE Effect(r)
  <2>1. PICK verdict \in Screen!GateVerdicts : screenReq' = [screenReq EXCEPT ![r] = decided("write", verdict)]
    <3>1. PICK verdict \in Screen!GateVerdicts : Screen!Decided(r, "write", verdict)
      BY <1>8 DEF Screen!Gate
    <3>2. screenReq' = [screenReq EXCEPT ![r] = decided("write", verdict)]
      BY <3>1 DEF Screen!Decided, ScreenTyped
    <3> QED BY <3>2
  <2>2. /\ decided("write", verdict) \in ScreenRecord
        /\ decided("write", verdict).verdict = verdict
    BY <1>3, <1>6 DEF Screen!Steps
  <2>3. UNCHANGED <<subject, party, hits, cleared, onFile>> /\ AtStep(r, "gate")
    BY <1>8 DEF Screen!Gate, Screen!rowVars, AtStep
  <2> HIDE DEF decided
  <2> QED BY <2>1, <2>2, <2>3, OnlyMoves DEF AtStep, ScreenTyped
<1>9. ASSUME Screen!DeleteHits(r) PROVE Effect(r)
  <2>1. /\ screenReq' = [screenReq EXCEPT ![r] = to("match")] /\ hits' = {}
        /\ onFile' = onFile \cap {old.name} /\ UNCHANGED <<subject, party>>
    BY <1>9 DEF Screen!DeleteHits, Screen!Goto, ScreenTyped
  <2>2. to("match") \in ScreenRecord /\ to("match").step = "match" /\ to("match").name = old.name
    BY <1>2 DEF Screen!Steps
  <2> HIDE DEF to
  <2>3. /\ screenReq'[r] = to("match")
        /\ \A q \in ScreenRequests \ {r} : screenReq'[q] = screenReq[q]
        /\ screenReq' \in [ScreenRequests -> ScreenRecord]
    BY <2>1, <2>2, ScreenMoves
  <2>4. ScreenTyped'
    BY <2>1, <2>3 DEF ScreenTyped, ScreenRecord
  <2>5. MatchStands'
    BY <2>1, <2>2, <2>3 DEF MatchStands, AtStep
  <2> QED BY <2>1, <2>2, <2>3, <2>4, <2>5 DEF Effect, AtStep
<1>10. ASSUME Screen!WriteHit(r) PROVE Effect(r)
  <2> DEFINE hit == [name |-> old.name, by |-> r, disposition |-> "OPEN"]
  <2>1. /\ screenReq' = [screenReq EXCEPT ![r] = to("report")]
        /\ hits' = IF old.name \in Names /\ Level[old.name] # "NONE" THEN hits \cup {hit} ELSE hits
        /\ onFile' = onFile \cup {old.name} /\ UNCHANGED <<subject, party, cleared>>
    BY <1>10 DEF Screen!WriteHit, Screen!Goto, ScreenTyped
  <2>2. to("report") \in ScreenRecord /\ to("report").step = "report"
    BY <1>2 DEF Screen!Steps
  <2> HIDE DEF to
  <2>3. /\ screenReq'[r] = to("report")
        /\ \A q \in ScreenRequests \ {r} : screenReq'[q] = screenReq[q]
        /\ screenReq' \in [ScreenRequests -> ScreenRecord]
    BY <2>1, <2>2, ScreenMoves
  <2>4. /\ hit.name = old.name /\ IsOpen(hit)
        /\ old.name \in Names => hit \in [name : Names, by : ScreenRequests, disposition : Screen!Dispositions]
    BY DEF Screen!Dispositions, IsOpen
  <2> HIDE DEF hit
  <2>5. ScreenTyped'
    BY <2>1, <2>3, <2>4 DEF ScreenTyped, ScreenRecord
  <2>6. MatchStands'
    <3> SUFFICES ASSUME NEW name \in onFile' \cap Names, Owes(name)
                 PROVE  \/ \E g \in hits' : IsOpen(g) /\ g.name = name
                        \/ \E q \in ScreenRequests : AtStep(q, "match")' /\ screenReq'[q].name = name
      BY <2>1 DEF MatchStands, Owes
    <3>1. CASE name = old.name
      BY <2>1, <2>4, <3>1 DEF Owes
    <3>2. CASE name # old.name
      <4>1. ASSUME NEW q \in ScreenRequests, AtStep(q, "match"), screenReq[q].name = name
            PROVE  AtStep(q, "match")' /\ screenReq'[q].name = name
        BY <2>3, <3>2, <4>1 DEF AtStep
      <4>2. name \in onFile
        BY <2>1, <3>2
      <4> QED BY <2>1, <4>1, <4>2 DEF MatchStands
    <3> QED BY <3>1, <3>2
  <2> QED BY <2>1, <2>2, <2>3, <2>5, <2>6 DEF Effect, AtStep
<1>11. ASSUME Screen!FileReport(r) PROVE Effect(r)
  <2> DEFINE touch == [Screen!Idle EXCEPT !.step = "touch", !.name = blank]
  <2>1. /\ screenReq' = [screenReq EXCEPT ![r] = touch] /\ AtStep(r, "report")
        /\ UNCHANGED <<subject, party, hits, cleared, onFile>>
    BY <1>11 DEF Screen!FileReport, Screen!Begin, AtStep
  <2>2. touch \in ScreenRecord /\ touch.step = "touch"
    BY DEF ScreenRecord, Screen!Idle, Screen!Steps, Screen!Verdicts
  <2> HIDE DEF touch
  <2> QED BY <2>1, <2>2, OnlyMoves DEF AtStep, ScreenTyped
<1> QED
  BY <1>5, <1>7, <1>8, <1>9, <1>10, <1>11 DEF Screen!Handle

(* A request that stops half way takes every name off the file.            *)
LEMMA StopEffect ==
  ASSUME ScreenTyped, MatchStands, NEW r \in ScreenRequests, Screen!Stop(r)
  PROVE  Effect(r)
<1>1. /\ screenReq' = [screenReq EXCEPT ![r] = Screen!Idle]
      /\ onFile' = IF AtStep(r, "match") THEN {} ELSE onFile
      /\ UNCHANGED <<subject, party, hits, cleared>>
  BY DEF Screen!Stop, Screen!Finish, Screen!At, AtStep
<1>2. Screen!Idle \in ScreenRecord /\ Screen!Idle.step = "idle"
  BY DEF Screen!Idle, ScreenRecord, Screen!Steps, Screen!Verdicts
<1>3. CASE ~AtStep(r, "match")
  BY <1>1, <1>2, <1>3, OnlyMoves DEF ScreenTyped
<1>4. CASE AtStep(r, "match")
  <2>1. /\ screenReq'[r] = Screen!Idle
        /\ \A q \in ScreenRequests \ {r} : screenReq'[q] = screenReq[q]
        /\ screenReq' \in [ScreenRequests -> ScreenRecord]
    BY <1>1, <1>2, ScreenMoves
  <2>2. ScreenTyped'
    BY <1>1, <2>1 DEF ScreenTyped, ScreenRecord
  <2>3. MatchStands'
    BY <1>1, <1>4 DEF MatchStands
  <2> QED BY <1>1, <1>2, <2>1, <2>2, <2>3 DEF Effect, AtStep
<1> QED
  BY <1>3, <1>4

LEMMA ScreenStep ==
  ASSUME ScreenInv, Screen!Next
  PROVE  ScreenInv'
<1> USE DEF ScreenInv
<1>1. PICK r \in ScreenRequests :
        /\ Screen!Submit(r) \/ Screen!Handle(r) \/ Screen!Stop(r)
        /\ overtaken' = {q \in ScreenRequests :
                      /\ Screen!At(q, "write")'
                      /\ q \in overtaken \/ hits' # hits \/ Screen!HalfWay'}
  BY DEF Screen!Next
<1>2. Effect(r)
  BY <1>1, SubmitEffect, HandleEffect, StopEffect
<1>3. PassIsOwed'
  <2> SUFFICES ASSUME NEW q \in ScreenRequests, q \notin overtaken', AtStep(q, "write")',
                      screenReq'[q].verdict = "PASS"
               PROVE  /\ party' # blank
                      /\ \A h \in hits' : ~IsOpen(h)
                      /\ \A p \in ScreenRequests : ~AtStep(p, "match")'
    BY DEF PassIsOwed
  <2>1. q \notin overtaken /\ hits' = hits /\ ~Screen!HalfWay'
    BY <1>1 DEF Screen!At, AtStep
  <2>2. \A p \in ScreenRequests : ~AtStep(p, "match")'
    BY <2>1 DEF Screen!HalfWay, Screen!At, AtStep
  <2>3. party # blank /\ \A h \in hits : ~IsOpen(h)
    <3>1. CASE q = r
      BY <1>2, <3>1, PassVerdict DEF Effect
    <3>2. CASE q # r
      <4>1. AtStep(q, "write") /\ screenReq[q].verdict = "PASS"
        BY <1>2, <3>2 DEF Effect, AtStep
      <4> QED BY <2>1, <4>1 DEF PassIsOwed
    <3> QED BY <3>1, <3>2
  <2> QED BY <1>2, <2>1, <2>2, <2>3 DEF Effect
<1> QED
  BY <1>2, <1>3 DEF Effect

LEMMA ScreenStutter ==
  ASSUME ScreenInv, UNCHANGED screenVars
  PROVE  ScreenInv'
BY DEF ScreenInv, screenVars, ScreenTyped, MatchStands, PassIsOwed, Owes, AtStep

(* Every step of a behaviour is one of the screening or leaves it alone.   *)
LEMMA ScreenLane ==
  ASSUME [MCNext]_<<vars, screenVars, findVars, lane>>
  PROVE  Screen!Next \/ UNCHANGED screenVars
BY DEF MCNext

LEMMA ScreenInvariance == MCSpec => []ScreenInv
<1>1. MCInit => ScreenInv
  BY ScreenStart DEF MCInit
<1>2. ScreenInv /\ [MCNext]_<<vars, screenVars, findVars, lane>> => ScreenInv'
  BY ScreenLane, ScreenStep, ScreenStutter
<1> QED
  BY <1>1, <1>2, PTL DEF MCSpec

(* However screenings, renamings, dispositions, gates and failures         *)
(* overlap, the matches of a name screened in full stay in the gate's      *)
(* sight until the desk clears it, another name is screened or a screening *)
(* stops half way (screenParties, applyWorkbench, upsertParty).            *)
THEOREM HitsStand == MCSpec => []HitNotLost
<1>1. ScreenInv => HitNotLost
  <2> SUFFICES ASSUME ScreenInv, ~Screen!HalfWay, NEW name \in onFile \cap Names, ~Screen!MayPass(name)
               PROVE  \E h \in Screen!OpenHits : h.name = name
    BY DEF HitNotLost, Screen!HitNotLost
  <2>1. \A r \in ScreenRequests : ~AtStep(r, "match")
    BY DEF Screen!HalfWay, Screen!At, AtStep
  <2>2. Owes(name)
    BY DEF Owes, Screen!MayPass
  <2>3. PICK h \in hits : IsOpen(h) /\ h.name = name
    BY <2>1, <2>2 DEF ScreenInv, MatchStands
  <2> QED BY <2>3 DEF Screen!OpenHits, IsOpen
<1> QED
  BY <1>1, ScreenInvariance, PTL

(* However requests overlap, N3 and N5 pass, where the party's name is on  *)
(* file and nothing has moved since the gate answered, only for a name the *)
(* lists do not hold or the desk has cleared since it was last screened.   *)
THEOREM PassesWhenCleared == MCSpec => OnlyClearedPartyPasses
<1> DEFINE Owed == status # "PASSED" /\ status' = "PASSED" =>
                     \/ Screen!MayPass(party)
                     \/ party \notin onFile
                     \/ \E r \in overtaken : Screen!At(r, "write") /\ Screen!At(r, "idle")'
<1>1. ASSUME ScreenInv, Screen!Next PROVE Owed
  <2> SUFFICES ASSUME status # "PASSED", status' = "PASSED", party \in onFile,
                      \A r \in overtaken : ~(Screen!At(r, "write") /\ Screen!At(r, "idle")')
               PROVE  Screen!MayPass(party)
    OBVIOUS
  <2>1. PICK r \in ScreenRequests : Screen!Submit(r) \/ Screen!Handle(r) \/ Screen!Stop(r)
    BY <1>1 DEF Screen!Next
  <2>2. ~Screen!Submit(r) /\ ~Screen!Stop(r)
    BY DEF Screen!Submit, Screen!UpsertParty, Screen!ReadParty, Screen!DisposeHit, Screen!Advance, Screen!Stop
  <2>3. /\ ~Screen!DeleteHits(r) /\ ~Screen!WriteHit(r) /\ ~Screen!FileReport(r)
        /\ ~Screen!Reevaluate(r) /\ ~Screen!Gate(r)
    BY DEF Screen!DeleteHits, Screen!WriteHit, Screen!FileReport, Screen!Reevaluate, Screen!Gate
  <2>4. ~Screen!TouchNode(r)
    BY DEF Screen!TouchNode, Screen!Touched
  <2>5. \A verdict : Screen!NodeStatusOf(verdict) # "PASSED"
    BY DEF Screen!NodeStatusOf
  <2>6. ~Screen!RewriteNode(r)
    BY <2>5 DEF Screen!RewriteNode
  <2>7. Screen!WriteVerdict(r)
    BY <2>1, <2>2, <2>3, <2>4, <2>6 DEF Screen!Handle
  <2>8. AtStep(r, "write") /\ screenReq[r].verdict = "PASS"
    BY <2>5, <2>7 DEF Screen!WriteVerdict, Screen!At, AtStep
  <2>9. Screen!At(r, "write") /\ Screen!At(r, "idle")'
    BY <1>1, <2>7 DEF Screen!WriteVerdict, Screen!Finish, Screen!Idle, Screen!At, ScreenInv, ScreenTyped
  <2>10. /\ party # blank /\ \A h \in hits : ~IsOpen(h)
         /\ \A q \in ScreenRequests : ~AtStep(q, "match")
    BY <1>1, <2>8, <2>9 DEF ScreenInv, PassIsOwed
  <2>11. party \in Names /\ ~Owes(party)
    BY <1>1, <2>10 DEF ScreenInv, ScreenTyped, MatchStands
  <2> QED BY <2>11 DEF Owes, Screen!MayPass
<1>2. ASSUME UNCHANGED screenVars PROVE Owed
  BY <1>2 DEF screenVars
<1>3. ScreenInv /\ [MCNext]_<<vars, screenVars, findVars, lane>> => [Owed]_Screen!vars
  BY <1>1, <1>2, ScreenLane
<1> QED
  BY <1>3, ScreenInvariance, PTL DEF MCSpec, OnlyClearedPartyPasses, Screen!OnlyClearedPartyPasses

(***************************************************************************)
(* The lists, and how well a name fits them.                               *)
(***************************************************************************)
Tiers == {"LOW", "MEDIUM", "HIGH"}
LEMMA MenuType ==
  ASSUME NEW menu \in Menus, NEW name \in {"cn", "en"}
  PROVE  DOMAIN menu[name] = {"ofac"} /\ menu[name]["ofac"] \subseteq Tiers
<1>1. PICK cn \in SUBSET Tiers, en \in SUBSET Tiers : menu = Fits(cn, en)
  <2>1. {"LOW", "HIGH"} \in SUBSET Tiers /\ {"HIGH"} \in SUBSET Tiers /\ {"LOW"} \in SUBSET Tiers
        /\ {"MEDIUM"} \in SUBSET Tiers /\ {} \in SUBSET Tiers
    BY DEF Tiers
  <2> QED BY <2>1 DEF Menus
<1>2. menu[name] = [entry \in {"ofac"} |-> IF name = "cn" THEN cn ELSE en]
  BY <1>1 DEF Fits
<1> QED BY <1>2

LEMMA BestOfTiers ==
  ASSUME NEW tiers \in SUBSET Tiers, tiers # {}
  PROVE  Find!BestTier(tiers) \in tiers
<1>1. Find!Rank["LOW"] = 1 /\ Find!Rank["MEDIUM"] = 2 /\ Find!Rank["HIGH"] = 3
  BY DEF Find!Rank
<1>2. \E t \in tiers : \A u \in tiers : Find!Rank[u] <= Find!Rank[t]
  <2>1. CASE "HIGH" \in tiers
    BY <1>1, <2>1 DEF Tiers
  <2>2. CASE "HIGH" \notin tiers /\ "MEDIUM" \in tiers
    BY <1>1, <2>2 DEF Tiers
  <2>3. CASE tiers = {"LOW"}
    BY <1>1, <2>3 DEF Tiers
  <2> QED BY <2>1, <2>2, <2>3 DEF Tiers
<1> QED BY <1>2 DEF Find!BestTier

LEMMA Listed ==
  ASSUME NEW S \in SUBSET {"ofac"}
  PROVE  /\ S = {} => Find!Cardinality(S) = 0
         /\ S # {} => Find!Cardinality(S) = 1
         /\ Find!SetToSeq(S) \in [1..Find!Cardinality(S) -> S]
<1> DEFINE n == Find!Cardinality(S)
<1>1. /\ S = {} => n = 0
      /\ S # {} => n = 1 /\ S = {"ofac"}
  <2>1. n = Cardinality(S)
    BY DEF Find!Cardinality, Cardinality
  <2>2. Cardinality({}) = 0
    BY FS_EmptySet
  <2>3. Cardinality({"ofac"}) = 1
    BY FS_Singleton
  <2>4. S = {} \/ S = {"ofac"}
    OBVIOUS
  <2> HIDE DEF n
  <2> QED BY <2>1, <2>2, <2>3, <2>4
<1> HIDE DEF n
<1>2. PICK f \in [1..n -> S] : \A a, b \in DOMAIN f : f[a] = f[b] => a = b
  <2> DEFINE f == [k \in 1..n |-> "ofac"]
  <2>1. f \in [1..n -> S]
    BY <1>1
  <2>2. \A a, b \in DOMAIN f : a = b
    BY <1>1
  <2> QED BY <2>1, <2>2
<1>3. Find!IsInjective(f)
  BY <1>2 DEF Find!IsInjective
<1>4. Find!SetToSeq(S) = CHOOSE g \in [1..n -> S] : Find!IsInjective(g)
  BY DEF Find!SetToSeq, n
<1>5. Find!SetToSeq(S) \in [1..n -> S]
  BY <1>3, <1>4
<1> QED BY <1>1, <1>5 DEF n

(***************************************************************************)
(* Sequences h of hits against matches m of one name.                      *)
(***************************************************************************)
Hit == [entry : {"ofac"}, party : {1, 2}, tier : Tiers,
        disposition : {"OPEN", "CONFIRMED_TRUE", "FALSE_POSITIVE", "MONITORING", "GONE"}]
Matches == UNION {[E -> Tiers] : E \in SUBSET {"ofac"}}

StandingIn(h, e) == {i \in DOMAIN h : h[i].entry = e /\ h[i].disposition \notin {"GONE", "FALSE_POSITIVE"}}
OpenIn(h, e) == {i \in StandingIn(h, e) : h[i].disposition \in Find!Suspect}
SettledIn(h, e) == \E i \in StandingIn(h, e) : h[i].disposition = "CONFIRMED_TRUE"
Leads(h, S, i) == \A j \in S \ {i} :
  \/ h[j].party < h[i].party
  \/ h[j].party = h[i].party /\ i < j
FirstIn(h, S) == CHOOSE i \in S : Leads(h, S, i)
FreshIn(h, m) == {e \in DOMAIN m : StandingIn(h, e) = {}}
StaleIn(h, m) == {d \in DOMAIN m : ~SettledIn(h, d) /\ OpenIn(h, d) # {}
                                   /\ h[FirstIn(h, OpenIn(h, d))].tier # m[d]}
ChangedIn(h, m) == {FirstIn(h, OpenIn(h, e)) : e \in StaleIn(h, m)}

LEMMA ReadsHits ==
  ASSUME NEW m
  PROVE  Find!Fresh(m) = FreshIn(matched, m) /\ Find!Changed(m) = ChangedIn(matched, m)
<1>1. \A e : Find!Standing(e) = StandingIn(matched, e)
  BY DEF Find!Standing, StandingIn
<1>2. \A S : Find!FirstOf(S) = FirstIn(matched, S)
  BY DEF Find!FirstOf, FirstIn, Leads
<1>3. Find!Fresh(m) = FreshIn(matched, m)
  BY <1>1 DEF Find!Fresh, FreshIn
<1>4. Find!Changed(m) = ChangedIn(matched, m)
  BY <1>1, <1>2 DEF Find!Changed, ChangedIn, StaleIn, OpenIn, SettledIn
<1> QED BY <1>3, <1>4

LEMMA FirstIsOne ==
  ASSUME NEW h \in Seq(Hit), NEW S \in SUBSET DOMAIN h, S # {}
  PROVE  FirstIn(h, S) \in S /\ Leads(h, S, FirstIn(h, S))
<1> DEFINE newest == {i \in S : h[i].party = 2}
           T == IF newest # {} THEN newest ELSE S
<1>1. T \in SUBSET Nat /\ T # {} /\ T \subseteq S
  BY LenProperties
<1>2. PICK i \in T : \A j \in T : ~(j < i)
  <2>1. PICK i \in T : \A j \in T : ~(<<j, i>> \in OpToRel(<, Nat))
    BY <1>1, NatLessThanWellFounded, WFMin
  <2> QED BY <1>1, <2>1 DEF OpToRel
<1>3. Leads(h, S, i)
  <2> SUFFICES ASSUME NEW j \in S \ {i}
               PROVE  h[j].party < h[i].party \/ (h[j].party = h[i].party /\ i < j)
    BY DEF Leads
  <2>1. h[i] \in Hit /\ h[j] \in Hit
    BY <1>1, ElementOfSeq, LenProperties
  <2>2. h[i].party \in {1, 2} /\ h[j].party \in {1, 2} /\ i \in Nat /\ j \in Nat
    BY <1>1, <2>1, LenProperties DEF Hit
  <2>3. CASE newest # {}
    BY <1>1, <1>2, <2>2, <2>3
  <2>4. CASE newest = {}
    BY <1>1, <1>2, <2>2, <2>4
  <2> QED BY <2>3, <2>4
<1> QED BY <1>1, <1>3 DEF FirstIn

(* The first of some rows is the first by their parties alone.             *)
LEMMA FirstStays ==
  ASSUME NEW h \in Seq(Hit), NEW g \in Seq(Hit), NEW S, S \subseteq DOMAIN h, S \subseteq DOMAIN g,
         S # {}, \A i \in S : g[i].party = h[i].party
  PROVE  FirstIn(g, S) = FirstIn(h, S)
<1>1. FirstIn(h, S) \in S /\ Leads(h, S, FirstIn(h, S))
  BY FirstIsOne
<1>2. FirstIn(g, S) \in S /\ Leads(h, S, FirstIn(g, S))
  BY FirstIsOne DEF Leads
<1>3. \A i \in S : h[i].party \in {1, 2} /\ i \in Nat
  <2> SUFFICES ASSUME NEW i \in S PROVE h[i].party \in {1, 2} /\ i \in Nat
    OBVIOUS
  <2>1. i \in 1..Len(h) /\ Len(h) \in Nat
    BY LenProperties
  <2>2. h[i] \in Hit
    BY <2>1, ElementOfSeq
  <2> QED BY <2>1, <2>2 DEF Hit
<1> QED
  BY <1>1, <1>2, <1>3 DEF Leads

(* Rows for the fresh matches leave none fresh, and the same ones changed. *)
LEMMA AfterFresh ==
  ASSUME NEW m \in Matches, NEW h \in Seq(Hit), NEW g \in Seq(Hit),
         Len(h) <= Len(g), \A i \in DOMAIN h : g[i] = h[i],
         \A i \in DOMAIN g \ DOMAIN h :
           /\ g[i].entry \in FreshIn(h, m)
           /\ g[i].disposition = "OPEN" /\ g[i].tier = m[g[i].entry],
         \A e \in FreshIn(h, m) : \E i \in DOMAIN g \ DOMAIN h : g[i].entry = e
  PROVE  FreshIn(g, m) = {} /\ ChangedIn(g, m) = ChangedIn(h, m)
<1>1. DOMAIN h \subseteq DOMAIN g
  BY LenProperties
<1>2. \A e \in FreshIn(h, m) : StandingIn(g, e) # {}
  BY DEF StandingIn
<1>3. ASSUME NEW e \in DOMAIN m, e \notin FreshIn(h, m)
      PROVE  StandingIn(g, e) = StandingIn(h, e) /\ StandingIn(g, e) # {}
  BY <1>1, <1>3 DEF StandingIn, FreshIn
<1>4. FreshIn(g, m) = {}
  BY <1>2, <1>3 DEF FreshIn
<1>5. ASSUME NEW e \in FreshIn(h, m)
      PROVE  e \notin StaleIn(h, m) /\ e \notin StaleIn(g, m)
  <2>1. StandingIn(h, e) = {}
    BY <1>5 DEF FreshIn
  <2>2. e \notin StaleIn(h, m)
    BY <2>1 DEF StaleIn, OpenIn
  <2>3. \A i \in StandingIn(g, e) : g[i].tier = m[e]
    BY <1>1, <2>1 DEF StandingIn
  <2>4. ASSUME OpenIn(g, e) # {} PROVE g[FirstIn(g, OpenIn(g, e))].tier = m[e]
    <3>1. OpenIn(g, e) \subseteq StandingIn(g, e) /\ OpenIn(g, e) \in SUBSET DOMAIN g
      BY DEF OpenIn, StandingIn
    <3> QED BY <2>3, <2>4, <3>1, FirstIsOne
  <2> QED BY <2>2, <2>4 DEF StaleIn
<1>6. ASSUME NEW e \in DOMAIN m, e \notin FreshIn(h, m)
      PROVE  /\ SettledIn(g, e) <=> SettledIn(h, e)
             /\ OpenIn(g, e) = OpenIn(h, e)
             /\ OpenIn(h, e) # {} => FirstIn(g, OpenIn(g, e)) = FirstIn(h, OpenIn(h, e))
             /\ OpenIn(h, e) # {} => FirstIn(h, OpenIn(h, e)) \in DOMAIN h
  <2>1. StandingIn(g, e) = StandingIn(h, e) /\ StandingIn(h, e) \subseteq DOMAIN h
    BY <1>3, <1>6 DEF StandingIn
  <2>2. SettledIn(g, e) <=> SettledIn(h, e)
    BY <2>1 DEF SettledIn
  <2>3. OpenIn(g, e) = OpenIn(h, e) /\ OpenIn(h, e) \in SUBSET DOMAIN h
    BY <2>1 DEF OpenIn
  <2>4. ASSUME OpenIn(h, e) # {}
        PROVE  /\ FirstIn(g, OpenIn(h, e)) = FirstIn(h, OpenIn(h, e))
               /\ FirstIn(h, OpenIn(h, e)) \in DOMAIN h
    BY <1>1, <2>3, <2>4, FirstStays, FirstIsOne
  <2> QED BY <2>2, <2>3, <2>4
<1>7. StaleIn(g, m) = StaleIn(h, m)
  BY <1>5, <1>6 DEF StaleIn
<1>8. \A e \in StaleIn(h, m) : FirstIn(g, OpenIn(g, e)) = FirstIn(h, OpenIn(h, e))
  BY <1>5, <1>6 DEF StaleIn
<1> QED
  BY <1>4, <1>7, <1>8 DEF ChangedIn

(* With the changed rows rewritten nothing is fresh and nothing changed.   *)
LEMMA AfterUpdate ==
  ASSUME NEW m \in Matches, NEW h \in Seq(Hit), NEW g \in Seq(Hit),
         FreshIn(h, m) = {}, DOMAIN g = DOMAIN h,
         \A i \in DOMAIN h :
           /\ g[i].entry = h[i].entry /\ g[i].party = h[i].party /\ g[i].disposition = h[i].disposition
           /\ g[i].tier = IF i \in ChangedIn(h, m) THEN m[h[i].entry] ELSE h[i].tier
  PROVE  FreshIn(g, m) = {} /\ ChangedIn(g, m) = {}
<1>1. \A e : StandingIn(g, e) = StandingIn(h, e)
  BY DEF StandingIn
<1>2. FreshIn(g, m) = {}
  BY <1>1 DEF FreshIn
<1>3. \A e : (SettledIn(g, e) <=> SettledIn(h, e)) /\ OpenIn(g, e) = OpenIn(h, e)
  BY <1>1 DEF SettledIn, OpenIn, StandingIn
<1>4. ASSUME NEW e \in StaleIn(g, m) PROVE FALSE
  <2> DEFINE i == FirstIn(h, OpenIn(h, e))
  <2>1. e \in DOMAIN m /\ ~SettledIn(h, e) /\ OpenIn(h, e) # {} /\ g[FirstIn(g, OpenIn(h, e))].tier # m[e]
    BY <1>3, <1>4 DEF StaleIn
  <2>2. OpenIn(h, e) \in SUBSET DOMAIN h /\ \A j \in OpenIn(h, e) : h[j].entry = e
    BY DEF OpenIn, StandingIn
  <2>3. FirstIn(g, OpenIn(h, e)) = i
    BY <2>1, <2>2, FirstStays
  <2>4. i \in DOMAIN h /\ h[i].entry = e
    BY <2>1, <2>2, FirstIsOne
  <2>5. i \notin ChangedIn(h, m)
    BY <2>1, <2>3, <2>4
  <2>6. e \notin StaleIn(h, m)
    BY <2>5 DEF ChangedIn
  <2>7. h[i].tier = m[e]
    BY <2>1, <2>6 DEF StaleIn
  <2> QED BY <2>1, <2>3, <2>4, <2>5, <2>7
<1> QED
  BY <1>2, <1>4 DEF ChangedIn

(* An entry that fits best then shows in orange or in red.                 *)
LEMMA Shows ==
  ASSUME NEW m \in Matches, NEW h \in Seq(Hit), FreshIn(h, m) = {}, ChangedIn(h, m) = {},
         NEW e \in DOMAIN m, m[e] = "HIGH"
  PROVE  \E i \in DOMAIN h : Find!SanctionBucket(h[i]) \in {"ORANGE", "RED"}
<1>1. StandingIn(h, e) # {} /\ e \notin StaleIn(h, m)
  BY DEF FreshIn, ChangedIn
<1>2. CASE SettledIn(h, e)
  <2>1. PICK i \in StandingIn(h, e) : h[i].disposition = "CONFIRMED_TRUE"
    BY <1>2 DEF SettledIn
  <2>2. i \in DOMAIN h /\ Find!SanctionBucket(h[i]) = "RED"
    BY <2>1 DEF StandingIn, Find!SanctionBucket, Find!Suspect
  <2> QED BY <2>2
<1>3. CASE ~SettledIn(h, e)
  <2>1. \A i \in StandingIn(h, e) : i \in DOMAIN h /\ h[i] \in Hit
    BY ElementOfSeq, LenProperties DEF StandingIn
  <2>2. \A i \in StandingIn(h, e) : h[i].disposition \in Find!Suspect
    BY <1>3, <2>1 DEF SettledIn, StandingIn, Hit, Find!Suspect
  <2>3. OpenIn(h, e) # {} /\ OpenIn(h, e) \in SUBSET DOMAIN h
    BY <1>1, <2>2 DEF OpenIn, StandingIn
  <2>4. PICK i : i = FirstIn(h, OpenIn(h, e))
    OBVIOUS
  <2>5. i \in OpenIn(h, e)
    BY <2>3, <2>4, FirstIsOne
  <2>6. h[i].tier = "HIGH"
    BY <1>1, <1>3, <2>3, <2>4 DEF StaleIn
  <2>7. i \in DOMAIN h /\ h[i].disposition \in Find!Suspect
    BY <2>5 DEF OpenIn, StandingIn
  <2>8. Find!SanctionBucket(h[i]) = "ORANGE"
    BY <2>6, <2>7 DEF Find!SanctionBucket, Find!Suspect
  <2> QED BY <2>7, <2>8
<1> QED BY <1>2, <1>3

(***************************************************************************)
(* The findings' own invariant.                                            *)
(***************************************************************************)
Now == Find!MatchAgainstLists("cn")

RescreenAgrees(q) ==
  /\ q.step \in {"fresh", "update"} =>
       /\ q.matches = Now /\ q.fresh \subseteq DOMAIN Now
       /\ \A i \in q.changed : i \in DOMAIN matched /\ matched[i].entry \in DOMAIN Now
  /\ q.step = "fresh" /\ q.alone => q.fresh = FreshIn(matched, Now) /\ q.changed = ChangedIn(matched, Now)
  /\ q.step = "update" /\ q.alone => FreshIn(matched, Now) = {} /\ q.changed = ChangedIn(matched, Now)

Rescreen == rescreens["rescreen"]

FindInv ==
  /\ lists \in Menus
  /\ matched \in Seq(Hit)
  /\ rescreens = [r \in {"rescreen"} |-> Rescreen]
  /\ Rescreen = [step |-> Rescreen.step, matches |-> Rescreen.matches, fresh |-> Rescreen.fresh,
                 changed |-> Rescreen.changed, alone |-> Rescreen.alone]
  /\ RescreenAgrees(Rescreen)

LEMMA MatchType ==
  ASSUME lists \in Menus, NEW name \in {"cn", "en"}
  PROVE  Find!MatchAgainstLists(name) \in Matches
<1> DEFINE E == {e \in DOMAIN lists[name] : lists[name][e] # {}}
<1>1. E \in SUBSET {"ofac"}
  BY MenuType
<1>2. \A e \in E : Find!BestTier(lists[name][e]) \in Tiers
  <2> SUFFICES ASSUME NEW e \in E PROVE Find!BestTier(lists[name][e]) \in Tiers
    OBVIOUS
  <2>1. lists[name][e] \in SUBSET Tiers /\ lists[name][e] # {}
    BY MenuType
  <2> QED BY <2>1, BestOfTiers
<1>3. Find!MatchAgainstLists(name) = [e \in E |-> Find!BestTier(lists[name][e])]
  BY DEF Find!MatchAgainstLists
<1> HIDE DEF E
<1>4. Find!MatchAgainstLists(name) \in [E -> Tiers]
  BY <1>2, <1>3
<1> QED BY <1>1, <1>4 DEF Matches

LEMMA FindStart == Find!Init => FindInv
<1> SUFFICES ASSUME Find!Init PROVE FindInv
  OBVIOUS
<1>1. lists \in Menus /\ matched = <<>> /\ rescreens = [r \in {"rescreen"} |-> Find!Idle]
  BY DEF Find!Init
<1>2. Rescreen = Find!Idle
  BY <1>1 DEF Rescreen
<1> QED BY <1>1, <1>2 DEF FindInv, RescreenAgrees, Find!Idle

LEMMA Joined ==
  ASSUME NEW h \in Seq(Hit), NEW rows \in Seq(Hit), NEW n \in Nat, Len(rows) = n, NEW g, g = h \o rows
  PROVE  /\ g \in Seq(Hit) /\ Len(h) \in Nat
         /\ DOMAIN g = 1..(Len(h) + n) /\ DOMAIN h = 1..Len(h) /\ Len(h) <= Len(g)
         /\ \A i \in 1..Len(h) : g[i] = h[i]
         /\ \A i \in 1..n : g[Len(h) + i] = rows[i]
         /\ \A i \in DOMAIN g \ DOMAIN h : i - Len(h) \in 1..n /\ g[i] = rows[i - Len(h)]
<1>1. Len(h) \in Nat /\ DOMAIN h = 1..Len(h)
  BY LenProperties
<1>2. /\ g \in Seq(Hit) /\ Len(g) = Len(h) + n
      /\ \A i \in 1..Len(h) + n : g[i] = IF i <= Len(h) THEN h[i] ELSE rows[i - Len(h)]
  BY ConcatProperties
<1>3. DOMAIN g = 1..(Len(h) + n)
  BY <1>2, LenProperties
<1>4. ASSUME NEW i \in 1..n PROVE g[Len(h) + i] = rows[i]
  <2>1. Len(h) + i \in 1..(Len(h) + n) /\ ~(Len(h) + i <= Len(h)) /\ (Len(h) + i) - Len(h) = i
    BY <1>1
  <2> QED BY <1>2, <2>1
<1>5. ASSUME NEW i \in DOMAIN g \ DOMAIN h PROVE i - Len(h) \in 1..n /\ g[i] = rows[i - Len(h)]
  <2>1. i \in 1..(Len(h) + n) /\ i \notin 1..Len(h)
    BY <1>1, <1>3
  <2>2. i - Len(h) \in 1..n /\ ~(i <= Len(h))
    BY <1>1, <2>1
  <2> QED BY <1>2, <2>1, <2>2
<1> QED BY <1>1, <1>2, <1>3, <1>4, <1>5

(* The rows written for some matches, one each.                            *)
RowsFor(rows, S, m) ==
  /\ rows \in Seq(Hit)
  /\ \A k \in DOMAIN rows :
       rows[k].entry \in S /\ rows[k].disposition = "OPEN" /\ rows[k].tier = m[rows[k].entry]
  /\ \A e \in S : \E k \in DOMAIN rows : rows[k].entry = e

LEMMA NewRows ==
  ASSUME NEW m \in Matches, NEW S \in SUBSET DOMAIN m, NEW p \in {1, 2}
  PROVE  RowsFor([k \in 1..Find!Cardinality(S) |->
                    Find!NewHit(Find!SetToSeq(S)[k], p, m[Find!SetToSeq(S)[k]])], S, m)
<1> DEFINE n == Find!Cardinality(S)
           f == Find!SetToSeq(S)
           rows == [k \in 1..n |-> Find!NewHit(f[k], p, m[f[k]])]
<1>1. /\ S \in SUBSET {"ofac"} /\ \A e \in DOMAIN m : m[e] \in Tiers
  BY DEF Matches
<1>2. /\ S = {} => n = 0
      /\ S # {} => n = 1
      /\ f \in [1..n -> S] /\ n \in Nat
  BY <1>1, Listed
<1> HIDE DEF n, f
<1>3. \A k \in 1..n : /\ rows[k] \in Hit /\ rows[k].entry \in S
                      /\ rows[k].disposition = "OPEN" /\ rows[k].tier = m[rows[k].entry]
  <2> SUFFICES ASSUME NEW k \in 1..n
               PROVE  /\ rows[k] \in Hit /\ rows[k].entry \in S
                      /\ rows[k].disposition = "OPEN" /\ rows[k].tier = m[rows[k].entry]
    OBVIOUS
  <2>1. f[k] \in S /\ f[k] = "ofac" /\ m[f[k]] \in Tiers
    BY <1>1, <1>2
  <2>2. rows[k] = [entry |-> f[k], party |-> p, tier |-> m[f[k]], disposition |-> "OPEN"]
    BY DEF Find!NewHit
  <2> QED BY <2>1, <2>2 DEF Hit
<1>4. rows \in Seq(Hit) /\ DOMAIN rows = 1..n
  BY <1>2, <1>3
<1> HIDE DEF rows
<1>5. ASSUME NEW e \in S PROVE \E k \in DOMAIN rows : rows[k].entry = e
  <2>1. n = 1 /\ S = {"ofac"} /\ 1 \in 1..n
    BY <1>1, <1>2
  <2> QED BY <1>3, <1>4, <2>1
<1>6. RowsFor(rows, S, m)
  BY <1>3, <1>4, <1>5 DEF RowsFor
<1> QED BY <1>6 DEF rows, n, f

(* g is h with rows behind it, one for every match of S.                   *)
Extends(g, h, S, m) ==
  /\ g \in Seq(Hit) /\ Len(h) <= Len(g) /\ \A i \in DOMAIN h : g[i] = h[i]
  /\ \A i \in DOMAIN g \ DOMAIN h :
       g[i].entry \in S /\ g[i].disposition = "OPEN" /\ g[i].tier = m[g[i].entry]
  /\ \A e \in S : \E i \in DOMAIN g \ DOMAIN h : g[i].entry = e

LEMMA Appended ==
  ASSUME NEW h \in Seq(Hit), NEW m, NEW S, NEW rows, RowsFor(rows, S, m)
  PROVE  Extends(h \o rows, h, S, m)
<1> PICK g : g = h \o rows
  OBVIOUS
<1>1. rows \in Seq(Hit) /\ Len(rows) \in Nat /\ DOMAIN rows = 1..Len(rows)
  BY LenProperties DEF RowsFor
<1>2. PICK n \in Nat : n = Len(rows)
  BY <1>1
<1>3. /\ g \in Seq(Hit) /\ Len(h) \in Nat
      /\ DOMAIN g = 1..(Len(h) + n) /\ DOMAIN h = 1..Len(h) /\ Len(h) <= Len(g)
      /\ \A i \in 1..Len(h) : g[i] = h[i]
      /\ \A i \in 1..n : g[Len(h) + i] = rows[i]
      /\ \A i \in DOMAIN g \ DOMAIN h : i - Len(h) \in 1..n /\ g[i] = rows[i - Len(h)]
  BY <1>1, <1>2, Joined
<1>4. ASSUME NEW e \in S PROVE \E i \in DOMAIN g \ DOMAIN h : g[i].entry = e
  <2>1. PICK k \in 1..n : rows[k].entry = e
    BY <1>1, <1>2 DEF RowsFor
  <2>2. g[Len(h) + k].entry = e
    BY <1>3, <2>1
  <2>3. Len(h) + k \in DOMAIN g \ DOMAIN h
    BY <1>3
  <2> QED BY <2>2, <2>3
<1>5. \A i \in DOMAIN g \ DOMAIN h :
        g[i].entry \in S /\ g[i].disposition = "OPEN" /\ g[i].tier = m[g[i].entry]
  BY <1>1, <1>2, <1>3 DEF RowsFor
<1> QED BY <1>3, <1>4, <1>5 DEF Extends

LEMMA ChangedAreRows ==
  ASSUME NEW m \in Matches, NEW h \in Seq(Hit), NEW i \in ChangedIn(h, m)
  PROVE  i \in DOMAIN h /\ h[i].entry \in DOMAIN m /\ h[i].disposition # "GONE"
<1>1. PICK e \in StaleIn(h, m) : i = FirstIn(h, OpenIn(h, e))
  BY DEF ChangedIn
<1>2. e \in DOMAIN m /\ OpenIn(h, e) # {} /\ OpenIn(h, e) \in SUBSET DOMAIN h
  BY DEF StaleIn, OpenIn, StandingIn
<1>3. i \in OpenIn(h, e)
  BY <1>1, <1>2, FirstIsOne
<1> QED
  BY <1>2, <1>3 DEF OpenIn, StandingIn

LEMMA NowType == lists \in Menus => Now \in Matches
BY MatchType DEF Now

(* A sequence with every row rewritten.                                    *)
LEMMA Rewritten ==
  ASSUME NEW h \in Seq(Hit), NEW g, DOMAIN g = DOMAIN h, g = [i \in DOMAIN h |-> g[i]],
         \A i \in DOMAIN h : g[i] \in Hit
  PROVE  g \in Seq(Hit) /\ Len(g) = Len(h)
<1>1. Len(h) \in Nat /\ DOMAIN h = 1..Len(h)
  BY LenProperties
<1>2. g \in [1..Len(h) -> Hit]
  BY <1>1
<1> QED BY <1>1, <1>2

(* What the list lane does to the rescreening it does not move itself: it  *)
(* is no longer alone.                                                     *)
LEMMA Disturbs ==
  ASSUME FindInv, rescreens' = Find!Disturbed("nobody"),
         matched' \in Seq(Hit), UNCHANGED lists, DOMAIN matched \subseteq DOMAIN matched',
         \A i \in DOMAIN matched : matched'[i].entry = matched[i].entry
  PROVE  FindInv' /\ Rescreen'.step = Rescreen.step
<1>1. rescreens' = [r \in {"rescreen"} |-> IF Rescreen.step = "idle" THEN Rescreen
                                          ELSE [Rescreen EXCEPT !.alone = FALSE]]
  BY DEF Find!Disturbed, FindInv, Rescreen
<1>2. Rescreen' = IF Rescreen.step = "idle" THEN Rescreen ELSE [Rescreen EXCEPT !.alone = FALSE]
  BY <1>1 DEF Rescreen
<1>3. Now' = Now
  BY DEF Now, Find!MatchAgainstLists
<1>4. PICK q : q = Rescreen
  OBVIOUS
<1>5. PICK n : n = Rescreen'
  OBVIOUS
<1>6. /\ n.step = q.step /\ n.matches = q.matches /\ n.fresh = q.fresh /\ n.changed = q.changed
      /\ n.step # "idle" => ~n.alone
      /\ n = [step |-> n.step, matches |-> n.matches, fresh |-> n.fresh,
              changed |-> n.changed, alone |-> n.alone]
  <2>1. q = [step |-> q.step, matches |-> q.matches, fresh |-> q.fresh, changed |-> q.changed, alone |-> q.alone]
    BY <1>4 DEF FindInv
  <2>2. n = IF q.step = "idle" THEN q ELSE [q EXCEPT !.alone = FALSE]
    BY <1>2, <1>4, <1>5
  <2>3. CASE q.step = "idle"
    BY <2>1, <2>2, <2>3
  <2>4. CASE q.step # "idle"
    BY <2>1, <2>2, <2>4
  <2> QED BY <2>3, <2>4
<1>7. RescreenAgrees(Rescreen)'
  <2>1. RescreenAgrees(q)
    BY <1>4 DEF FindInv
  <2> QED BY <1>3, <1>5, <1>6, <2>1 DEF RescreenAgrees
<1>8. rescreens' = [r \in {"rescreen"} |-> Rescreen']
  BY <1>1, <1>2
<1> QED BY <1>4, <1>5, <1>6, <1>7, <1>8 DEF FindInv

LEMMA ReadHitsKeeps ==
  ASSUME FindInv, Find!ReadHits("rescreen")
  PROVE  FindInv'
<1> DEFINE new == [step |-> "fresh", matches |-> Now, fresh |-> FreshIn(matched, Now),
                   changed |-> ChangedIn(matched, Now), alone |-> TRUE]
<1>1. rescreens' = [rescreens EXCEPT !["rescreen"] = new] /\ UNCHANGED <<lists, matched>>
  BY ReadsHits DEF Find!ReadHits, Now
<1>2. Now' = Now
  BY <1>1 DEF Now, Find!MatchAgainstLists
<1>3. Rescreen' = new /\ rescreens' = [r \in {"rescreen"} |-> Rescreen']
  BY <1>1 DEF FindInv, Rescreen
<1>4. Now \in Matches /\ matched \in Seq(Hit)
  BY NowType DEF FindInv
<1>5. /\ new.step = "fresh" /\ new.matches = Now /\ new.fresh = FreshIn(matched, Now)
      /\ new.changed = ChangedIn(matched, Now)
  OBVIOUS
<1>6. RescreenAgrees(new)
  BY <1>4, <1>5, ChangedAreRows DEF RescreenAgrees, FreshIn
<1>7. RescreenAgrees(Rescreen)'
  BY <1>1, <1>2, <1>3, <1>6 DEF RescreenAgrees
<1> QED
  BY <1>1, <1>3, <1>7 DEF FindInv

LEMMA CreateFreshKeeps ==
  ASSUME FindInv, Find!CreateFresh("rescreen")
  PROVE  FindInv'
<1> PICK q : q = Rescreen
  OBVIOUS
<1>1. /\ q.step = "fresh" /\ q.matches = Now /\ q.fresh \in SUBSET DOMAIN Now /\ RescreenAgrees(q)
      /\ Now \in Matches /\ matched \in Seq(Hit)
      /\ q = [step |-> q.step, matches |-> q.matches, fresh |-> q.fresh, changed |-> q.changed, alone |-> q.alone]
  BY NowType DEF FindInv, Find!CreateFresh, Rescreen, RescreenAgrees
<1>2. Len(<<"first", "second">>) = 2
  OBVIOUS
<1>3. PICK rows : rows = [k \in 1..Find!Cardinality(q.fresh) |->
                            Find!NewHit(Find!SetToSeq(q.fresh)[k], 2, Now[Find!SetToSeq(q.fresh)[k]])]
  OBVIOUS
<1>4. matched' = matched \o rows
  BY <1>1, <1>2, <1>3 DEF Find!CreateFresh, Rescreen
<1>5. RowsFor(rows, q.fresh, Now)
  BY <1>1, <1>3, NewRows
<1>6. /\ matched' \in Seq(Hit) /\ Len(matched) <= Len(matched')
      /\ \A i \in DOMAIN matched : matched'[i] = matched[i]
      /\ \A i \in DOMAIN matched' \ DOMAIN matched :
           /\ matched'[i].entry \in q.fresh
           /\ matched'[i].disposition = "OPEN" /\ matched'[i].tier = Now[matched'[i].entry]
      /\ \A e \in q.fresh : \E i \in DOMAIN matched' \ DOMAIN matched : matched'[i].entry = e
  BY <1>1, <1>4, <1>5, Appended DEF Extends
<1>7. rescreens' = [r \in {"rescreen"} |-> [q EXCEPT !.step = "update"]] /\ UNCHANGED lists
  BY DEF Find!CreateFresh, Find!Disturbed, FindInv, Rescreen
<1>8. PICK n : n = Rescreen'
  OBVIOUS
<1>9. /\ n.step = "update" /\ n.matches = q.matches /\ n.fresh = q.fresh /\ n.changed = q.changed
      /\ n.alone = q.alone
      /\ n = [step |-> n.step, matches |-> n.matches, fresh |-> n.fresh, changed |-> n.changed, alone |-> n.alone]
  BY <1>1, <1>7, <1>8 DEF Rescreen
<1>10. Now' = Now
  BY <1>7 DEF Now, Find!MatchAgainstLists
<1>11. ASSUME q.alone
       PROVE  FreshIn(matched', Now) = {} /\ ChangedIn(matched', Now) = ChangedIn(matched, Now)
  <2>1. q.fresh = FreshIn(matched, Now)
    BY <1>1, <1>11 DEF RescreenAgrees
  <2> QED BY <1>1, <1>6, <2>1, AfterFresh
<1>12. \A i \in q.changed : i \in DOMAIN matched' /\ matched'[i].entry \in DOMAIN Now
  <2>1. DOMAIN matched \subseteq DOMAIN matched'
    BY <1>1, <1>6, LenProperties
  <2> QED BY <1>1, <1>6, <2>1 DEF RescreenAgrees
<1>13. RescreenAgrees(Rescreen)'
  BY <1>1, <1>8, <1>9, <1>10, <1>11, <1>12 DEF RescreenAgrees
<1>14. rescreens' = [r \in {"rescreen"} |-> Rescreen']
  BY <1>7 DEF Rescreen
<1> QED
  BY <1>6, <1>7, <1>8, <1>9, <1>13, <1>14 DEF FindInv

(* A row deleted meanwhile fails a request that is not alone; the one that *)
(* is alone rewrites all it meant to.                                      *)
LEMMA UpdateChangedKeeps ==
  ASSUME FindInv, Find!UpdateChanged("rescreen")
  PROVE  /\ FindInv'
         /\ Rescreen.step = "update" /\ Rescreen'.step = "idle"
         /\ Now' = Now
         /\ Rescreen.alone => FreshIn(matched', Now') = {} /\ ChangedIn(matched', Now') = {}
<1> PICK q : q = Rescreen
  OBVIOUS
<1>1. /\ q.step = "update" /\ q.matches = Now /\ RescreenAgrees(q)
      /\ Now \in Matches /\ matched \in Seq(Hit)
  BY NowType DEF FindInv, Find!UpdateChanged, Rescreen, RescreenAgrees
<1> DEFINE there == {i \in q.changed : matched[i].disposition # "GONE"}
<1>2. PICK done \in SUBSET there :
        /\ there = q.changed => done = there
        /\ matched' = [i \in DOMAIN matched |->
                         IF i \in done THEN [matched[i] EXCEPT !.tier = Now[matched[i].entry]] ELSE matched[i]]
  BY <1>1 DEF Find!UpdateChanged, Rescreen
<1>3. rescreens' = [r \in {"rescreen"} |-> Find!Idle] /\ UNCHANGED lists
  BY DEF Find!UpdateChanged, Find!Disturbed, FindInv, Rescreen
<1>4. Now' = Now
  BY <1>3 DEF Now, Find!MatchAgainstLists
<1>5. ASSUME NEW i \in DOMAIN matched
      PROVE  /\ matched'[i] \in Hit
             /\ matched'[i].entry = matched[i].entry /\ matched'[i].party = matched[i].party
             /\ matched'[i].disposition = matched[i].disposition
             /\ matched'[i].tier = IF i \in done THEN Now[matched[i].entry] ELSE matched[i].tier
  <2>1. matched[i] \in Hit
    BY <1>1, LenProperties, ElementOfSeq
  <2>2. i \in done => Now[matched[i].entry] \in Tiers
    <3>1. i \in done => matched[i].entry \in DOMAIN Now
      BY <1>1, <1>2 DEF RescreenAgrees
    <3>2. \A e \in DOMAIN Now : Now[e] \in Tiers
      <4>1. PICK E \in SUBSET {"ofac"} : Now \in [E -> Tiers]
        BY <1>1 DEF Matches
      <4> QED BY <4>1
    <3> QED BY <3>1, <3>2
  <2> QED BY <1>2, <2>1, <2>2 DEF Hit
<1>6. matched' \in Seq(Hit) /\ DOMAIN matched' = DOMAIN matched
  <2>1. PICK g : g = matched'
    OBVIOUS
  <2>2. DOMAIN g = DOMAIN matched /\ g = [i \in DOMAIN matched |-> g[i]] /\ \A i \in DOMAIN matched : g[i] \in Hit
    BY <1>2, <1>5, <2>1
  <2> QED BY <1>1, <2>1, <2>2, Rewritten
<1>7. Rescreen' = Find!Idle
  BY <1>3 DEF Rescreen
<1>8. FindInv'
  BY <1>3, <1>6, <1>7 DEF FindInv, RescreenAgrees, Find!Idle
<1>9. ASSUME q.alone
      PROVE  FreshIn(matched', Now) = {} /\ ChangedIn(matched', Now) = {}
  <2>1. q.changed = ChangedIn(matched, Now) /\ FreshIn(matched, Now) = {}
    BY <1>1, <1>9 DEF RescreenAgrees
  <2>2. there = q.changed
    BY <1>1, <2>1, ChangedAreRows
  <2>3. done = ChangedIn(matched, Now)
    BY <1>2, <2>1, <2>2
  <2>4. PICK h \in Seq(Hit), g \in Seq(Hit), m \in Matches : h = matched /\ g = matched' /\ m = Now
    BY <1>1, <1>6
  <2>5. /\ FreshIn(h, m) = {} /\ DOMAIN g = DOMAIN h
        /\ \A i \in DOMAIN h :
             /\ g[i].entry = h[i].entry /\ g[i].party = h[i].party /\ g[i].disposition = h[i].disposition
             /\ g[i].tier = IF i \in ChangedIn(h, m) THEN m[h[i].entry] ELSE h[i].tier
    BY <1>5, <1>6, <2>1, <2>3, <2>4
  <2>6. FreshIn(g, m) = {} /\ ChangedIn(g, m) = {}
    BY <2>5, AfterUpdate
  <2> QED BY <2>4, <2>6
<1> QED
  BY <1>1, <1>4, <1>7, <1>8, <1>9 DEF Find!Idle

LEMMA ScreenPartiesKeeps ==
  ASSUME FindInv, NEW p \in {1, 2}, Find!ScreenParties(p)
  PROVE  FindInv' /\ Rescreen'.step = Rescreen.step
<1>1. PICK name \in {"cn", "en"} : name = <<"cn", "en">>[p]
  OBVIOUS
<1>2. PICK m \in Matches : m = Find!MatchAgainstLists(name)
  BY MatchType DEF FindInv
<1>3. PICK h : h = [i \in DOMAIN matched |-> IF matched[i].party = p
                                             THEN [matched[i] EXCEPT !.disposition = "GONE"] ELSE matched[i]]
  OBVIOUS
<1>4. PICK S : S = DOMAIN m
  OBVIOUS
<1>5. PICK rows : rows = [k \in 1..Find!Cardinality(S) |->
                            Find!NewHit(Find!SetToSeq(S)[k], p, m[Find!SetToSeq(S)[k]])]
  OBVIOUS
<1>6. RowsFor(rows, S, m)
  BY <1>4, <1>5, NewRows
<1>7. DOMAIN Find!SetToSeq(S) = 1..Find!Cardinality(S)
  <2>1. S \in SUBSET {"ofac"}
    BY <1>4 DEF Matches
  <2> QED BY <2>1, Listed
<1>8. /\ matched' = h \o rows /\ rescreens' = Find!Disturbed("nobody") /\ UNCHANGED lists
  BY <1>1, <1>2, <1>3, <1>4, <1>5, <1>7 DEF Find!ScreenParties
<1>9. matched \in Seq(Hit)
  BY DEF FindInv
<1>10. ASSUME NEW i \in DOMAIN matched PROVE h[i] \in Hit /\ h[i].entry = matched[i].entry
  <2>1. matched[i] \in Hit
    BY <1>9, LenProperties, ElementOfSeq
  <2> QED BY <1>3, <2>1 DEF Hit
<1>11. h \in Seq(Hit) /\ DOMAIN h = DOMAIN matched
  <2>1. DOMAIN h = DOMAIN matched /\ h = [i \in DOMAIN matched |-> h[i]]
    BY <1>3
  <2> QED BY <1>9, <1>10, <2>1, Rewritten
<1>12. PICK g : g = matched'
  OBVIOUS
<1>13. g \in Seq(Hit) /\ Len(h) <= Len(g) /\ \A i \in DOMAIN h : g[i] = h[i]
  BY <1>6, <1>8, <1>11, <1>12, Appended DEF Extends
<1>14. DOMAIN h \subseteq DOMAIN g
  BY <1>11, <1>13, LenProperties
<1> QED
  BY <1>8, <1>10, <1>11, <1>12, <1>13, <1>14, Disturbs

LEMMA DisposeHitKeeps ==
  ASSUME FindInv, NEW i \in DOMAIN matched,
         NEW d \in {"FALSE_POSITIVE", "CONFIRMED_TRUE", "MONITORING"}, Find!DisposeHit(i, d)
  PROVE  FindInv' /\ Rescreen'.step = Rescreen.step
<1>1. PICK g : g = matched'
  OBVIOUS
<1>2. g = [matched EXCEPT ![i].disposition = d] /\ rescreens' = Find!Disturbed("nobody") /\ UNCHANGED lists
  BY <1>1 DEF Find!DisposeHit
<1>3. matched \in Seq(Hit)
  BY DEF FindInv
<1>4. ASSUME NEW j \in DOMAIN matched PROVE g[j] \in Hit /\ g[j].entry = matched[j].entry
  <2>1. matched[j] \in Hit
    BY <1>3, LenProperties, ElementOfSeq
  <2>2. g[j] = IF j = i THEN [matched[j] EXCEPT !.disposition = d] ELSE matched[j]
    BY <1>2
  <2> QED BY <2>1, <2>2 DEF Hit
<1>5. g \in Seq(Hit) /\ DOMAIN g = DOMAIN matched
  <2>1. DOMAIN g = DOMAIN matched /\ g = [j \in DOMAIN matched |-> g[j]]
    BY <1>2
  <2> QED BY <1>3, <1>4, <2>1, Rewritten
<1> QED
  BY <1>1, <1>2, <1>4, <1>5, Disturbs

LEMMA RelistKeeps ==
  ASSUME FindInv, Find!Relist
  PROVE  FindInv' /\ Rescreen'.step = "idle"
<1>1. Rescreen.step = "idle" /\ lists' \in Menus /\ UNCHANGED <<matched, rescreens>>
  BY DEF Find!Relist, Rescreen
<1> QED
  BY <1>1 DEF FindInv, RescreenAgrees, Rescreen

LEMMA ListUnmoved == FindInv /\ UNCHANGED listVars => FindInv'
<1> SUFFICES ASSUME FindInv, UNCHANGED listVars PROVE FindInv'
  OBVIOUS
<1>1. UNCHANGED <<lists, matched, rescreens>>
  BY DEF listVars
<1>2. Now' = Now /\ Rescreen' = Rescreen
  BY <1>1 DEF Now, Rescreen, Find!MatchAgainstLists
<1>3. RescreenAgrees(Rescreen)'
  BY <1>1, <1>2 DEF FindInv, RescreenAgrees
<1> QED BY <1>1, <1>2, <1>3 DEF FindInv

(* Of every step of a behaviour: it keeps the invariant, and a rescreening *)
(* that ends where nobody disturbed it leaves nothing fresh or changed.    *)
LEMMA FindStep ==
  ASSUME FindInv, [MCNext]_<<vars, screenVars, findVars, lane>>
  PROVE  /\ FindInv'
         /\ (Rescreen.step = "update" /\ Rescreen.alone /\ Rescreen'.step = "idle") =>
              Now' = Now /\ FreshIn(matched', Now') = {} /\ ChangedIn(matched', Now') = {}
<1>1. CASE Find!Screen
  <2>1. CASE \E r \in {"rescreen"} : Find!ReadHits(r) \/ Find!CreateFresh(r) \/ Find!UpdateChanged(r)
    <3>1. CASE Find!ReadHits("rescreen")
      <4>1. Rescreen.step = "idle"
        BY <3>1 DEF Find!ReadHits, Rescreen
      <4> QED BY <3>1, <4>1, ReadHitsKeeps
    <3>2. CASE Find!CreateFresh("rescreen")
      <4>1. Rescreen.step = "fresh"
        BY <3>2 DEF Find!CreateFresh, Rescreen
      <4> QED BY <3>2, <4>1, CreateFreshKeeps
    <3>3. CASE Find!UpdateChanged("rescreen")
      BY <3>3, UpdateChangedKeeps
    <3> QED BY <2>1, <3>1, <3>2, <3>3
  <2>2. CASE \E p \in DOMAIN <<"first", "second">> : Find!ScreenParties(p)
    <3>1. PICK p \in {1, 2} : Find!ScreenParties(p)
      BY <2>2
    <3> QED BY <3>1, ScreenPartiesKeeps
  <2>3. CASE \E i \in DOMAIN matched, d \in {"FALSE_POSITIVE", "CONFIRMED_TRUE", "MONITORING"} :
               Find!DisposeHit(i, d)
    BY <2>3, DisposeHitKeeps
  <2>4. CASE Find!Relist
    <3>1. Rescreen.step = "idle"
      BY <2>4 DEF Find!Relist, Rescreen
    <3> QED BY <2>4, <3>1, RelistKeeps
  <2> QED BY <1>1, <2>1, <2>2, <2>3, <2>4 DEF Find!Screen
<1>2. CASE UNCHANGED listVars
  <2>1. Rescreen' = Rescreen
    BY <1>2 DEF listVars, Rescreen
  <2> QED BY <1>2, <2>1, ListUnmoved
<1>3. Find!Screen \/ UNCHANGED listVars
  BY DEF MCNext, FindNext, findVars, listVars
<1> QED BY <1>1, <1>2, <1>3

LEMMA FindInvariance == MCSpec => []FindInv
<1>1. MCInit => FindInv
  BY FindStart DEF MCInit
<1>2. FindInv /\ [MCNext]_<<vars, screenVars, findVars, lane>> => FindInv'
  BY FindStep
<1> QED BY <1>1, <1>2, PTL DEF MCSpec

LEMMA ReadsNow ==
  /\ Find!Fresh(Find!MatchesNow) = FreshIn(matched, Now)
  /\ Find!Changed(Find!MatchesNow) = ChangedIn(matched, Now)
BY ReadsHits DEF Now, Find!MatchesNow

(* A rescreening nobody disturbed leaves nothing for the next one, however *)
(* his hits were graded and decided before (diffScreeningMatches,          *)
(* applyRescreen).                                                         *)
THEOREM RescreeningSettles == MCSpec => RescreenSettles
<1> DEFINE Settles == \A r \in {"rescreen"} : Find!Rescreened(r) =>
             Find!Fresh(Find!MatchesNow)' = {} /\ Find!Changed(Find!MatchesNow)' = {}
<1>1. ASSUME FindInv, [MCNext]_<<vars, screenVars, findVars, lane>>
      PROVE  Settles
  <2> SUFFICES ASSUME Find!Rescreened("rescreen")
               PROVE  Find!Fresh(Find!MatchesNow)' = {} /\ Find!Changed(Find!MatchesNow)' = {}
    OBVIOUS
  <2>1. Rescreen.step = "update" /\ Rescreen.alone /\ Rescreen'.step = "idle"
    BY DEF Find!Rescreened, Rescreen
  <2>2. FreshIn(matched', Now') = {} /\ ChangedIn(matched', Now') = {}
    BY <1>1, <2>1, FindStep
  <2>3. /\ Find!Fresh(Find!MatchesNow)' = FreshIn(matched', Now')
        /\ Find!Changed(Find!MatchesNow)' = ChangedIn(matched', Now')
    <3>1. (/\ Find!Fresh(Find!MatchesNow) = FreshIn(matched, Now)
           /\ Find!Changed(Find!MatchesNow) = ChangedIn(matched, Now))'
      BY ReadsNow, PTL
    <3> QED BY <3>1
  <2> QED BY <2>2, <2>3
<1>2. FindInv /\ [MCNext]_<<vars, screenVars, findVars, lane>> => [Settles]_Find!vars
  BY <1>1
<1> QED
  BY <1>2, FindInvariance, PTL DEF MCSpec, RescreenSettles, Find!RescreenSettles

(* And a partner whose name fits an entry best has an orange or a red card *)
(* then (sanctionBucket).                                                  *)
THEOREM ListedShows == MCSpec => ListedPartnerShows
<1> DEFINE ShowsNow == \A r \in {"rescreen"} :
             Find!Rescreened(r) /\ (\E e \in DOMAIN Find!MatchesNow : Find!MatchesNow[e] = "HIGH")
               => Find!SanctionFindings' \cap {"ORANGE", "RED"} # {}
<1>1. ASSUME FindInv, [MCNext]_<<vars, screenVars, findVars, lane>>
      PROVE  ShowsNow
  <2> SUFFICES ASSUME Find!Rescreened("rescreen"), NEW e \in DOMAIN Now, Now[e] = "HIGH"
               PROVE  Find!SanctionFindings' \cap {"ORANGE", "RED"} # {}
    BY DEF Now, Find!MatchesNow
  <2>1. Rescreen.step = "update" /\ Rescreen.alone /\ Rescreen'.step = "idle"
    BY DEF Find!Rescreened, Rescreen
  <2>2. /\ FreshIn(matched', Now) = {} /\ ChangedIn(matched', Now) = {}
        /\ matched' \in Seq(Hit) /\ Now \in Matches
    BY <1>1, <2>1, FindStep, NowType DEF FindInv
  <2>3. PICK i \in DOMAIN matched' : Find!SanctionBucket(matched'[i]) \in {"ORANGE", "RED"}
    BY <2>2, Shows
  <2>4. Find!SanctionBucket(matched'[i]) \in Find!SanctionFindings'
    BY <2>3 DEF Find!SanctionFindings, Find!SanctionBucket
  <2> QED BY <2>3, <2>4
<1>2. FindInv /\ [MCNext]_<<vars, screenVars, findVars, lane>> => [ShowsNow]_Find!vars
  BY <1>1
<1> QED
  BY <1>2, FindInvariance, PTL DEF MCSpec, ListedPartnerShows, Find!ListedPartnerShows

(***************************************************************************)
(* The papers of a batch.                                                  *)
(***************************************************************************)
BatchFields ==
  batch = [eta |-> batch.eta, n6 |-> batch.n6, n7 |-> batch.n7, evidences |-> batch.evidences,
           shipment |-> batch.shipment, settlement |-> batch.settlement]

LEMMA FactsMove ==
  ASSUME [MCNext]_<<vars, screenVars, findVars, lane>>
  PROVE  \/ UNCHANGED batch
         \/ \E eta, override : Find!SaveShipment(eta, override)
         \/ \E arrived, memo, a : Find!SaveSettlement(arrived, memo, a)
         \/ \E kinds : Find!UploadNodeDocuments(kinds)
         \/ Find!AdvanceN6
         \/ Find!AdvanceN7
<1>1. CASE Find!Screen
  BY <1>1 DEF Find!Screen, Find!ReadHits, Find!CreateFresh, Find!UpdateChanged, Find!ScreenParties,
     Find!DisposeHit, Find!Relist, Find!saleVars
<1>2. CASE Find!Insure
  BY <1>2 DEF Find!Insure, Find!SaveSinosure
<1>3. CASE Find!Sell
  BY <1>3 DEF Find!Sell, Find!SaveContract
<1>4. CASE Find!Collect
  BY <1>4 DEF Find!Collect
<1>5. CASE Find!Ship
  <2>1. ASSUME NEW term, Find!SaveContract(term, contract.timing, contract.days, contract.amount)
        PROVE  UNCHANGED batch
    BY <2>1 DEF Find!SaveContract
  <2> QED BY <1>5, <2>1 DEF Find!Ship
<1>6. CASE Find!LaterDay
  BY <1>6 DEF Find!LaterDay
<1>7. CASE UNCHANGED findVars
  BY <1>7 DEF findVars
<1>8. CASE \E eta \in {0, today} : Find!SaveShipment(eta, "")
  BY <1>8
<1>9. CASE Find!AdvanceN6
  BY <1>9
<1> QED
  BY <1>1, <1>2, <1>3, <1>4, <1>5, <1>6, <1>7, <1>8, <1>9 DEF MCNext, FindNext

LEMMA PapersStep ==
  ASSUME BatchFields, [MCNext]_<<vars, screenVars, findVars, lane>>
  PROVE  BatchFields' /\ (~batch.n7 /\ batch'.n7 => Find!DocMissing' = {})
<1>1. CASE UNCHANGED batch
  BY <1>1 DEF BatchFields
<1>2. CASE \E eta, override : Find!SaveShipment(eta, override)
  <2>1. PICK eta, shipment : batch' = [batch EXCEPT !.eta = eta, !.shipment = shipment]
    BY <1>2 DEF Find!SaveShipment
  <2> QED BY <2>1 DEF BatchFields
<1>3. CASE \E arrived, memo, a : Find!SaveSettlement(arrived, memo, a)
  <2>1. PICK settlement : batch' = [batch EXCEPT !.settlement = settlement]
    BY <1>3 DEF Find!SaveSettlement
  <2> QED BY <2>1 DEF BatchFields
<1>4. CASE \E kinds : Find!UploadNodeDocuments(kinds)
  <2>1. PICK evidences : batch' = [batch EXCEPT !.evidences = evidences]
    BY <1>4 DEF Find!UploadNodeDocuments
  <2> QED BY <2>1 DEF BatchFields
<1>5. CASE Find!AdvanceN6
  <2>1. batch' = [batch EXCEPT !.n6 = today]
    BY <1>5 DEF Find!AdvanceN6
  <2> QED BY <2>1 DEF BatchFields
<1>6. CASE Find!AdvanceN7
  <2>1. /\ batch' = [batch EXCEPT !.n7 = TRUE] /\ UNCHANGED contract
        /\ Find!EvaluateN7(Find!Snapshot).proceed
    BY <1>6 DEF Find!AdvanceN7
  <2>2. BatchFields' /\ batch'.shipment = batch.shipment /\ batch'.evidences = batch.evidences
    BY <2>1 DEF BatchFields
  <2>3. Find!Snapshot' = Find!Snapshot
    BY <2>1, <2>2 DEF Find!Snapshot
  <2>4. ASSUME NEW missing, Find!FinalizeHard(missing, {}).proceed PROVE missing = {}
    BY <2>4 DEF Find!FinalizeHard, Find!BlockMissing, Find!Stopped, Find!NoResult
  <2>5. LET required == IF Find!EffectiveN6Incoterms(Find!Snapshot) = "FOB"
                        THEN Find!N7_UPLOADS \ {"N7_ORIGIN_CERT"} ELSE Find!N7_UPLOADS
        IN required \ Find!Snapshot.evidences = {}
    <3>1. ~Find!BlockMissing({"N7_PENDING_CHANGE"}).proceed
      BY DEF Find!BlockMissing, Find!Stopped, Find!NoResult
    <3> QED BY <2>1, <2>4, <3>1 DEF Find!EvaluateN7
  <2>6. Find!Snapshot.evidences = batch.evidences
    BY DEF Find!Snapshot
  <2>7. Find!EffectiveN6Incoterms(Find!Snapshot)' = Find!EffectiveN6Incoterms(Find!Snapshot)
    BY <2>3 DEF Find!EffectiveN6Incoterms, Find!RawIncoterms
  <2>8. Find!DocMissing' = {}
    BY <2>2, <2>5, <2>6, <2>7 DEF Find!DocMissing
  <2> QED BY <2>2, <2>8
<1> QED BY <1>1, <1>2, <1>3, <1>4, <1>5, <1>6, FactsMove

LEMMA FieldsStart == MCInit => BatchFields
BY DEF MCInit, Find!Init, BatchFields

(* Passing N7 never leaves a card of missing papers behind: the gate and   *)
(* the radar ask for the same papers (evaluateN7, docMissingLines).        *)
THEOREM PassedPapers == MCSpec => PassedPapersComplete
<1> DEFINE Complete == ~batch.n7 /\ batch'.n7 => Find!DocMissing' = {}
<1>1. BatchFields /\ [MCNext]_<<vars, screenVars, findVars, lane>> => BatchFields' /\ [Complete]_Find!vars
  BY PapersStep
<1> QED
  BY <1>1, FieldsStart, PTL DEF MCSpec, PassedPapersComplete, Find!PassedPapersComplete

(***************************************************************************)
(* What is overdue.  The exposure of one batch is a sum of one term.       *)
(***************************************************************************)
Pick(s) == CHOOSE x \in s : TRUE
SumTo(g, f, D) == [s \in D |-> IF s = {} THEN 0 ELSE f[Pick(s)] + g[s \ {Pick(s)}]]
SumOf(f, S) == (CHOOSE g : g = SumTo(g, f, SUBSET S))[S]

LEMMA SumOfOne ==
  ASSUME NEW f, f[1] \in Int
  PROVE  SumOf(f, {1}) = f[1]
<1> DEFINE g0 == [s \in SUBSET {1} |-> IF s = {} THEN 0 ELSE f[1]]
<1>0. Pick({1}) = 1 /\ SUBSET {1} = {{}, {1}} /\ {1} \ {1} = {}
  BY DEF Pick
<1>1. g0 = SumTo(g0, f, SUBSET {1})
  <2>1. g0[{}] = 0 /\ g0[{1}] = f[1]
    OBVIOUS
  <2>2. SumTo(g0, f, SUBSET {1}) = [s \in SUBSET {1} |-> IF s = {} THEN 0 ELSE f[1]]
    <3> HIDE DEF g0
    <3>1. \A s \in SUBSET {1} : s # {} => s = {1}
      BY <1>0
    <3>2. f[1] + g0[{}] = f[1]
      BY <2>1
    <3> QED BY <1>0, <3>1, <3>2 DEF SumTo
  <2> QED BY <2>2
<1>2. PICK g : g = SumTo(g, f, SUBSET {1}) /\ SumOf(f, {1}) = g[{1}]
  <2> HIDE DEF g0
  <2> QED BY <1>1 DEF SumOf
<1>3. SumTo(g, f, SUBSET {1})[{}] = 0 /\ SumTo(g, f, SUBSET {1})[{1}] = f[1] + g[{}]
  BY <1>0 DEF SumTo
<1> QED BY <1>2, <1>3

SaleTyped ==
  /\ contract.amount \in Amounts
  /\ batch.settlement.amount \in Amounts \cup {Find!NoAmount}

LEMMA ExposedIs ==
  ASSUME NEW received \in Int,
         received = Find!ReceivedFenForBatch(Find!Ledger, contract.amount, TRUE), contract.amount \in Int
  PROVE  Find!Exposed.occupancy = Find!UnpaidFenOf(contract.amount, received)
<1> DEFINE row == [amount |-> contract.amount, shipped |-> batch.n6 > 0, received |-> received]
           rows == <<row>>
           I == DOMAIN rows
           f == [i \in I |-> rows[i].received]
           g == [i \in I |-> IF rows[i].shipped THEN Find!UnpaidFenOf(rows[i].amount, rows[i].received) ELSE 0]
<1>0. I = {1} /\ rows[1] = row
  OBVIOUS
<1>a. \A u, v \in Int : Find!UnpaidFenOf(u, v) \in Int
  BY DEF Find!UnpaidFenOf, Find!AtLeastZero
<1>b. rows[1].received = received /\ rows[1].amount = contract.amount
  OBVIOUS
<1> HIDE DEF rows, row
<1>1. Find!Total(rows, LAMBDA b : b.received) = SumOf(f, I)
  BY DEF Find!Total, Find!MapThenSumSet, Find!MapThenFoldSet, SumOf, SumTo, Pick
<1>2. Find!Total(rows, LAMBDA b : IF b.shipped THEN Find!UnpaidFenOf(b.amount, b.received) ELSE 0) = SumOf(g, I)
  BY DEF Find!Total, Find!MapThenSumSet, Find!MapThenFoldSet, SumOf, SumTo, Pick
<1>3. f[1] = received
  BY <1>0, <1>b
<1>4. g[1] \in Int
  <2>1. Find!UnpaidFenOf(rows[1].amount, rows[1].received) \in Int
    BY <1>a, <1>b
  <2>2. g[1] = IF rows[1].shipped THEN Find!UnpaidFenOf(rows[1].amount, rows[1].received) ELSE 0
    BY <1>0
  <2> HIDE DEF g
  <2> QED BY <2>1, <2>2
<1>5. SumOf(f, I) = received /\ SumOf(g, I) \in Int
  <2> HIDE DEF f, g, I
  <2> QED BY <1>0, <1>3, <1>4, SumOfOne
<1> HIDE DEF f, g
<1>6. PICK n \in Int : n = SumOf(g, I)
  BY <1>5
<1> DEFINE occupied == Find!UnpaidFenOf(contract.amount, received)
<1>7. Find!ContractOccupancyPortions(contract.amount, rows) =
        [received |-> received, open |-> occupied - Find!Least(occupied, n), fulfilled |-> Find!Least(occupied, n)]
  BY <1>1, <1>2, <1>5, <1>6 DEF Find!ContractOccupancyPortions
<1>8. Find!Exposed.occupancy = (occupied - Find!Least(occupied, n)) + Find!Least(occupied, n) + 0
  <2> DEFINE parts == [received |-> received, open |-> occupied - Find!Least(occupied, n), fulfilled |-> Find!Least(occupied, n)]
  <2>1. Find!Exposed = LET split == [open |-> parts.open, fulfilled |-> parts.fulfilled]
                       IN Find!EvaluateOccupancy(split, 0, TRUE, Find!QuotaFromLimits.effective, TRUE)
    <3> HIDE DEF occupied
    <3>1. rows = <<[amount |-> contract.amount, shipped |-> batch.n6 > 0,
                    received |-> Find!ReceivedFenForBatch(Find!Ledger, contract.amount, TRUE)]>>
      BY DEF rows, row
    <3> HIDE DEF parts
    <3>2. parts = Find!ContractOccupancyPortions(contract.amount, <<[amount |-> contract.amount, shipped |-> batch.n6 > 0,
                    received |-> Find!ReceivedFenForBatch(Find!Ledger, contract.amount, TRUE)]>>)
      BY <1>7, <3>1 DEF parts
    <3> QED BY <3>2 DEF Find!Exposed
  <2> HIDE DEF occupied
  <2> QED BY <2>1 DEF Find!EvaluateOccupancy
<1>9. occupied \in Int /\ Find!Least(occupied, n) \in Int
  <2>1. occupied \in Int
    BY <1>a
  <2> HIDE DEF occupied
  <2> QED BY <2>1, <1>6 DEF Find!Least
<1> QED
  <2> HIDE DEF occupied
  <2>1. Find!Exposed.occupancy = occupied
    BY <1>8, <1>9
  <2> QED BY <2>1 DEF occupied

LEMMA OverdueOwes == SaleTyped => OverdueIsOwed
<1> SUFFICES ASSUME SaleTyped, ~Find!BatchCollected PROVE Find!Exposed.occupancy > 0
  <2>1. ASSUME Find!BatchCollected PROVE Find!OverdueRuleColor = "NONE"
    <3> QED BY <2>1 DEF Find!OverdueRuleColor
  <2> QED BY <2>1 DEF OverdueIsOwed, Find!OverdueIsOwed
<1>0. contract.amount \in Nat \ {0}
  BY FindingsAssumption DEF FindingsAssumption, SaleTyped
<1>1. contract.amount \in Nat /\ contract.amount > 0
  BY <1>0
<1> DEFINE received == Find!ReceivedFenOf(batch.settlement, contract.amount)
<1>2. Find!ReceivedFenForBatch(Find!Ledger, contract.amount, TRUE) = received
  BY DEF Find!ReceivedFenForBatch, Find!Ledger
<1>3. received \in Int
  <2>1. batch.settlement.amount \in Int
    <3>1. Find!NoAmount \in Int
      BY DEF Find!NoAmount
    <3>2. batch.settlement.amount \in Amounts \/ batch.settlement.amount = Find!NoAmount
      BY DEF SaleTyped
    <3>3. CASE batch.settlement.amount \in Amounts
      <4>1. Amounts \subseteq Nat
        BY FindingsAssumption DEF FindingsAssumption
      <4>2. batch.settlement.amount \in Nat
        BY <3>3, <4>1
      <4> QED BY <4>2
    <3>4. CASE batch.settlement.amount = Find!NoAmount
      BY <3>1, <3>4
    <3> QED BY <3>2, <3>3, <3>4
  <2> QED BY <1>1, <2>1 DEF Find!ReceivedFenOf
<1>4. Find!UnpaidFenOf(contract.amount, received) > 0
  <2>1. CASE ~batch.settlement.arrived /\ ~batch.settlement.memo
    BY <1>1, <2>1 DEF Find!ReceivedFenOf, Find!UnpaidFenOf, Find!AtLeastZero
  <2>2. CASE batch.settlement.arrived \/ batch.settlement.memo
    <3>1. Find!UnpaidFenOf(contract.amount, received) # 0
      BY <2>2 DEF Find!BatchCollected, Find!IsSettlementPaid
    <3> QED BY <3>1, <1>1, <1>3 DEF Find!UnpaidFenOf, Find!AtLeastZero
  <2> QED BY <2>1, <2>2
<1> HIDE DEF received
<1>5. PICK n \in Int : n = received
  BY <1>3
<1>6. Find!Exposed.occupancy = Find!UnpaidFenOf(contract.amount, n)
  <2>1. contract.amount \in Int
    BY <1>1
  <2>2. n = Find!ReceivedFenForBatch(Find!Ledger, contract.amount, TRUE)
    BY <1>2, <1>5
  <2> QED BY <2>1, <2>2, ExposedIs
<1> QED BY <1>4, <1>5, <1>6

LEMMA SalesMove ==
  ASSUME BatchFields, SaleTyped, [MCNext]_<<vars, screenVars, findVars, lane>>
  PROVE  SaleTyped'
<1>1. ASSUME NEW term, NEW timing, NEW days, NEW a \in Amounts, Find!SaveContract(term, timing, days, a)
      PROVE  SaleTyped'
  BY <1>1 DEF Find!SaveContract, SaleTyped
<1>2. CASE UNCHANGED contract /\ batch'.settlement = batch.settlement
  BY <1>2 DEF SaleTyped
<1>3. ASSUME NEW eta, NEW override, Find!SaveShipment(eta, override) PROVE SaleTyped'
  BY <1>3, <1>2 DEF Find!SaveShipment, BatchFields
<1>4. CASE Find!Screen
  BY <1>4, <1>2 DEF Find!Screen, Find!ReadHits, Find!CreateFresh, Find!UpdateChanged, Find!ScreenParties,
     Find!DisposeHit, Find!Relist, Find!saleVars
<1>5. CASE Find!Insure \/ Find!LaterDay
  BY <1>5, <1>2 DEF Find!Insure, Find!SaveSinosure, Find!LaterDay
<1>6. CASE Find!Sell
  BY <1>6, <1>1 DEF Find!Sell
<1>7. CASE Find!Collect
  <2>1. ASSUME NEW arrived, NEW memo, NEW a \in Amounts \cup {Find!NoAmount}, Find!SaveSettlement(arrived, memo, a)
        PROVE  SaleTyped'
    BY <2>1 DEF Find!SaveSettlement, SaleTyped, BatchFields
  <2> QED BY <1>7, <2>1 DEF Find!Collect
<1>8. CASE Find!AdvanceN6
  BY <1>8, <1>2 DEF Find!AdvanceN6, BatchFields
<1>9. CASE Find!Ship
  <2>1. ASSUME NEW term, Find!SaveContract(term, contract.timing, contract.days, contract.amount) PROVE SaleTyped'
    BY <2>1, <1>1 DEF SaleTyped
  <2>2. ASSUME NEW kinds, Find!UploadNodeDocuments(kinds) PROVE SaleTyped'
    BY <2>2, <1>2 DEF Find!UploadNodeDocuments, BatchFields
  <2>3. CASE Find!AdvanceN7
    BY <2>3, <1>2 DEF Find!AdvanceN7, BatchFields
  <2> QED BY <1>9, <1>3, <1>8, <2>1, <2>2, <2>3 DEF Find!Ship
<1>10. CASE UNCHANGED findVars
  BY <1>10, <1>2 DEF findVars
<1> QED
  BY <1>3, <1>4, <1>5, <1>6, <1>7, <1>8, <1>9, <1>10 DEF MCNext, FindNext

LEMMA SaleStart == MCInit => SaleTyped
<1> SUFFICES ASSUME MCInit PROVE SaleTyped
  OBVIOUS
<1>1. contract \in [incoterms : {"FOB", "CIF"}, timing : {""}, days : {Find!NoTerm}, amount : Amounts]
  BY DEF MCInit, Find!Init
<1>2. batch.settlement.amount = Find!NoAmount
  BY DEF MCInit, Find!Init
<1> QED BY <1>1, <1>2 DEF SaleTyped

(* What the radar calls overdue still takes of the limit: it settles a     *)
(* batch exactly when the ledger of the exposure does (batchCollected).    *)
THEOREM OverdueTakesLimit == MCSpec => []OverdueIsOwed
<1>1. BatchFields /\ SaleTyped /\ [MCNext]_<<vars, screenVars, findVars, lane>> => (BatchFields /\ SaleTyped)'
  BY PapersStep, SalesMove
<1> QED
  BY <1>1, FieldsStart, SaleStart, OverdueOwes, PTL DEF MCSpec
=============================================================================
