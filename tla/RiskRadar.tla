------------------------------ MODULE RiskRadar -----------------------------
(***************************************************************************)
(* One row of the risk radar: the RiskItem of one fingerprint, the people  *)
(* who open and dispose of it, its supplement tasks, and recalculate(),    *)
(* which every list request runs and which writes the row back from a      *)
(* snapshot of findings, rows and tasks it read earlier.  One step is one  *)
(* database read that is kept, or one write.  RiskAction and audit rows,   *)
(* which nothing reads back, and sample rows, the only grey ones, are      *)
(* left out.                                                               *)
(***************************************************************************)
EXTENDS Integers

CONSTANTS
  Requests,    \* slots for HTTP requests in flight; one slot means no overlap
  Users,       \* the people who may read the radar: risk desk and manager
  NoUser,
  RuleColors,  \* what the rule of this fingerprint can answer when it holds
  TaskIds      \* ids for supplement tasks, reused once nobody holds them

Colors == {"YELLOW", "ORANGE", "RED"}

ASSUME RadarAssumption ==
  /\ NoUser \notin Users
  /\ RuleColors \subseteq Colors

VARIABLES
  rule,     \* what the rule answers of the current data: a colour or "NONE"
  risk,     \* the RiskItem row
  by,       \* processingById
  seen,     \* the users with a RiskView row
  tasks,    \* SupplementTask rows: their status, "NONE" for no row
  overdue,  \* has the due date of the tasks passed
  req       \* the requests in flight and what each has read

vars == <<rule, risk, by, seen, tasks, overdue, req>>
rowVars == <<rule, risk, by, seen, tasks, overdue>>

Terminal == {"RESOLVED", "REJECTED"}
Protected == Terminal \cup {"CONDITIONAL_RELEASE"}
RiskStatus == Protected \cup {"ABSENT", "PENDING", "SYSTEM_CLOSED"}
TaskStatus == {"NONE", "OPEN", "SUBMITTED", "ACCEPTED"}
MaybeColor == Colors \cup {"NONE"}

(* escalated and reopened say whether escalatedAt and reopenedAt are set;  *)
(* disposition is dispositionSeverity, the colour the last disposer saw.   *)
RiskRow == [status : RiskStatus, color : MaybeColor, ruleColor : MaybeColor,
            escalated : BOOLEAN, disposition : MaybeColor, reopened : BOOLEAN]

NoRow == [status |-> "ABSENT", color |-> "NONE", ruleColor |-> "NONE",
          escalated |-> FALSE, disposition |-> "NONE", reopened |-> FALSE]

Severity == [NONE |-> 0, YELLOW |-> 1, ORANGE |-> 2, RED |-> 3]

(***************************************************************************)
(* risk-rules.ts: what a recalculation makes of a row.                     *)
(***************************************************************************)
Baseline(row) == IF row.disposition # "NONE" THEN row.disposition ELSE row.color

(* Variant: the same severity counts as risen.                             *)
RuleSeverityNotFallen(row, found) ==
  row.status \in Protected /\ Severity[found] >= Severity[Baseline(row)]

RuleSeverityRose(row, found) ==
  row.status \in Protected /\ Severity[found] > Severity[Baseline(row)]

EscalateDisplayColor(color) == IF color = "YELLOW" THEN "ORANGE" ELSE color

ColorForOpen(found, escalated) ==
  IF escalated /\ found = "YELLOW" THEN "ORANGE" ELSE found

ApplyOverdueEscalation(row, late) ==
  IF ~late THEN row
  ELSE [row EXCEPT
         !.status = IF @ = "CONDITIONAL_RELEASE" THEN "PENDING" ELSE @,
         !.color = EscalateDisplayColor(@),
         !.escalated = @ \/ row.status = "CONDITIONAL_RELEASE" \/ row.color = "YELLOW"]

(* Variant: a reopened row keeps the colour of its last disposition.       *)
ReopenKeepingColor(row, found) ==
  [row EXCEPT !.status = "PENDING", !.ruleColor = found]

ReopenAfterSeverityRise(row, found) ==
  [row EXCEPT !.status = "PENDING", !.color = found, !.ruleColor = found,
              !.escalated = FALSE, !.disposition = "NONE", !.reopened = TRUE]

FromFinding(row, found, late) ==
  IF row.status = "ABSENT"
  THEN [NoRow EXCEPT !.status = "PENDING", !.color = found, !.ruleColor = found]
  ELSE IF RuleSeverityRose(row, found) THEN ReopenAfterSeverityRise(row, found)
  ELSE IF row.status \in Terminal THEN [row EXCEPT !.ruleColor = found]
  ELSE ApplyOverdueEscalation(
         [row EXCEPT !.status = IF @ = "SYSTEM_CLOSED" THEN "PENDING" ELSE @,
                     !.color = ColorForOpen(found, row.escalated),
                     !.ruleColor = found],
         late)

WithoutFinding(row, late) ==
  IF row.status = "CONDITIONAL_RELEASE" /\ late THEN ApplyOverdueEscalation(row, late)
  ELSE IF row.status = "PENDING" THEN [row EXCEPT !.status = "SYSTEM_CLOSED"]
  ELSE row

SyncRiskState(row, found, late) ==
  IF found = "NONE" THEN WithoutFinding(row, late) ELSE FromFinding(row, found, late)

(* Variant: a red risk may be resolved.                                    *)
ConclusionsRedResolved(color) == IF color = "RED" THEN Terminal ELSE Protected

(* dispositionError: the conclusions a colour admits.                      *)
Conclusions(color) == IF color = "RED" THEN {"REJECTED"} ELSE Protected

-----------------------------------------------------------------------------
Steps == {"idle", "rows", "tasks", "write", "clearViews",
          "dropTasks", "addTasks", "actWrite", "open", "claim", "view",
          "upload", "accept"}
UserSteps == {"dropTasks", "addTasks", "actWrite", "open", "claim", "view"}

(* found, row and late are what a recalculation has read; user, conclusion *)
(* and row what a disposal has; task what a supplement handler has.        *)
Idle == [step |-> "idle", found |-> "NONE", row |-> NoRow, late |-> FALSE,
         user |-> NoUser, conclusion |-> "REJECTED", task |-> {}]

At(r, step) == req[r].step = step
Goto(r, step) == req' = [req EXCEPT ![r].step = step]
Finish(r) == req' = [req EXCEPT ![r] = Idle]
Quiet == \A r \in Requests : At(r, "idle")

Init ==
  /\ rule = "NONE"
  /\ risk = NoRow
  /\ by = NoUser
  /\ seen = {}
  /\ tasks = [t \in TaskIds |-> "NONE"]
  /\ overdue = FALSE
  /\ req = [r \in Requests |-> Idle]

(* Requests to the rest of the system change what the rule answers; time   *)
(* or expireSupplements takes the tasks past their due date.               *)
RuleChanges(r) ==
  /\ At(r, "idle")
  /\ rule' \in RuleColors \cup {"NONE"}
  /\ UNCHANGED <<risk, by, seen, tasks, overdue, req>>

Expire(r) ==
  /\ At(r, "idle")
  /\ overdue' = TRUE
  /\ UNCHANGED <<rule, risk, by, seen, tasks, req>>

(***************************************************************************)
(* recalculate.                                                            *)
(***************************************************************************)
LateTasks == overdue /\ \E t \in TaskIds : tasks[t] = "OPEN"

CollectFindings(r) ==
  /\ At(r, "idle")
  /\ req' = [req EXCEPT ![r] = [Idle EXCEPT !.step = "rows", !.found = rule]]
  /\ UNCHANGED rowVars

ReadRows(r) ==
  /\ At(r, "rows")
  /\ req' = [req EXCEPT ![r].step = "tasks", ![r].row = risk]
  /\ UNCHANGED rowVars

ReadTasks(r) ==
  /\ At(r, "tasks")
  /\ req' = [req EXCEPT ![r].step = "write", ![r].late = LateTasks]
  /\ UNCHANGED rowVars

(* A row that another recalculation created meanwhile breaks the unique    *)
(* fingerprint and fails the request; a row to be left alone is not        *)
(* written; a reopened one also loses its handler and its views.           *)
WriteRow(r) ==
  LET old == req[r].row
      new == SyncRiskState(old, req[r].found, req[r].late)
      reopens == RuleSeverityRose(old, req[r].found)
      written == IF old.status = "ABSENT" THEN risk.status = "ABSENT" /\ new # NoRow
                 ELSE req[r].found # "NONE" \/ new # old
  IN /\ At(r, "write")
     /\ risk' = IF written THEN new ELSE risk
     /\ by' = IF reopens THEN NoUser ELSE by
     /\ IF reopens
        THEN req' = [req EXCEPT ![r] = [Idle EXCEPT !.step = "clearViews"]]
        ELSE Finish(r)
     /\ UNCHANGED <<rule, seen, tasks, overdue>>

ClearViews(r) ==
  /\ At(r, "clearViews")
  /\ seen' = {}
  /\ Finish(r)
  /\ UNCHANGED <<rule, risk, by, tasks, overdue>>

(***************************************************************************)
(* act: read the row and judge the conclusion by its colour, replace the   *)
(* tasks for a conditional release, write the row, then open it.           *)
(***************************************************************************)
Act(r, u, conclusion) ==
  /\ At(r, "idle")
  /\ risk.status \in {"PENDING", "CONDITIONAL_RELEASE"}
  /\ conclusion \in Conclusions(risk.color)
  /\ req' = [req EXCEPT ![r] =
       [Idle EXCEPT !.step = IF conclusion = "CONDITIONAL_RELEASE" THEN "dropTasks" ELSE "actWrite",
                    !.user = u, !.conclusion = conclusion, !.row.color = risk.color]]
  /\ UNCHANGED rowVars

(* Variant: a conditional release keeps no task.                           *)
DropTasksOnly(r) ==
  /\ At(r, "dropTasks")
  /\ tasks' = [t \in TaskIds |-> "NONE"]
  /\ Goto(r, "actWrite")
  /\ UNCHANGED <<rule, risk, by, seen, overdue>>

DropTasks(r) ==
  /\ At(r, "dropTasks")
  /\ tasks' = [t \in TaskIds |-> "NONE"]
  /\ Goto(r, "addTasks")
  /\ UNCHANGED <<rule, risk, by, seen, overdue>>

(* One task per document asked for.  The desk chooses the due date, which  *)
(* may lie in the past.                                                    *)
FreeTaskIds == {t \in TaskIds : tasks[t] = "NONE" /\ \A r \in Requests : t \notin req[r].task}

AddTasks(r) ==
  /\ At(r, "addTasks")
  /\ \E new \in (SUBSET FreeTaskIds) \ {{}} :
       tasks' = [t \in TaskIds |-> IF t \in new THEN "OPEN" ELSE tasks[t]]
  /\ overdue' \in BOOLEAN
  /\ Goto(r, "actWrite")
  /\ UNCHANGED <<rule, risk, by, seen>>

ActWrite(r) ==
  /\ At(r, "actWrite")
  /\ risk' = [risk EXCEPT !.status = req[r].conclusion,
                          !.disposition = req[r].row.color, !.reopened = FALSE]
  /\ by' = NoUser
  /\ req' = [req EXCEPT ![r] = [Idle EXCEPT !.step = "open", !.user = req[r].user]]
  /\ UNCHANGED <<rule, seen, tasks, overdue>>

(***************************************************************************)
(* open: read the row, claim it if nobody else has, record the view.       *)
(***************************************************************************)
Open(r, u) ==
  /\ At(r, "idle")
  /\ req' = [req EXCEPT ![r] = [Idle EXCEPT !.step = "open", !.user = u]]
  /\ UNCHANGED rowVars

ReadForOpen(r) ==
  LET found == risk.status \notin {"ABSENT", "SYSTEM_CLOSED"}
      claims == risk.status \notin Terminal /\ by \in {NoUser, req[r].user}
  IN /\ At(r, "open")
     /\ \/ ~found /\ Finish(r)
        \/ found /\ claims /\ Goto(r, "claim")
        \/ found /\ ~claims /\ Goto(r, "view")
     /\ UNCHANGED rowVars

Claim(r) ==
  /\ At(r, "claim")
  /\ by' = req[r].user
  /\ Goto(r, "view")
  /\ UNCHANGED <<rule, risk, seen, tasks, overdue>>

View(r) ==
  /\ At(r, "view")
  /\ seen' = seen \cup {req[r].user}
  /\ Finish(r)
  /\ UNCHANGED <<rule, risk, by, tasks, overdue>>

(***************************************************************************)
(* uploadSupplement and acceptSupplement: check the task, then write it.   *)
(* A task deleted meanwhile fails the request.                             *)
(***************************************************************************)
HoldTask(r, step, t) == req' = [req EXCEPT ![r] = [Idle EXCEPT !.step = step, !.task = {t}]]

UploadSupplement(r, t) ==
  /\ At(r, "idle")
  /\ tasks[t] \in {"OPEN", "SUBMITTED"}
  /\ HoldTask(r, "upload", t)
  /\ UNCHANGED rowVars

AcceptSupplement(r, t) ==
  /\ At(r, "idle")
  /\ tasks[t] = "SUBMITTED"
  /\ HoldTask(r, "accept", t)
  /\ UNCHANGED rowVars

WriteTask(r, step, status) ==
  /\ At(r, step)
  /\ tasks' = [t \in TaskIds |->
                 IF t \in req[r].task /\ tasks[t] # "NONE" THEN status ELSE tasks[t]]
  /\ Finish(r)
  /\ UNCHANGED <<rule, risk, by, seen, overdue>>

Submit(r) ==
  \/ RuleChanges(r) \/ Expire(r) \/ CollectFindings(r)
  \/ \E u \in Users : Open(r, u) \/ \E conclusion \in Protected : Act(r, u, conclusion)
  \/ \E t \in TaskIds : UploadSupplement(r, t) \/ AcceptSupplement(r, t)

Handle(r) ==
  \/ ReadRows(r) \/ ReadTasks(r) \/ WriteRow(r) \/ ClearViews(r)
  \/ DropTasks(r) \/ AddTasks(r) \/ ActWrite(r)
  \/ ReadForOpen(r) \/ Claim(r) \/ View(r)
  \/ WriteTask(r, "upload", "SUBMITTED") \/ WriteTask(r, "accept", "ACCEPTED")

Next == \E r \in Requests : Submit(r) \/ Handle(r)

Spec == Init /\ [][Next]_vars

(* The same where requests come one after the other.                       *)
SerialNext == \E r \in Requests : (Quiet /\ Submit(r)) \/ Handle(r)
SerialSpec == Init /\ [][SerialNext]_vars
-----------------------------------------------------------------------------
(***************************************************************************)
(* Properties.                                                             *)
(***************************************************************************)

(* Every variable has its declared shape.                                  *)
TypeOK ==
  /\ rule \in RuleColors \cup {"NONE"}
  /\ risk \in RiskRow
  /\ by \in Users \cup {NoUser}
  /\ seen \subseteq Users
  /\ tasks \in [TaskIds -> TaskStatus]
  /\ overdue \in BOOLEAN
  /\ req \in [Requests -> [step : Steps, found : RuleColors \cup {"NONE"}, row : RiskRow,
                           late : BOOLEAN, user : Users \cup {NoUser},
                           conclusion : Protected, task : SUBSET TaskIds]]
  /\ \A r \in Requests : req[r].step \in UserSteps => req[r].user \in Users

(* Nothing but a rule turns a risk red: where the rule never answers red,  *)
(* no escalation, reopening or stale write shows red, so that the desk is  *)
(* never left with rejection as its only choice.                           *)
NeverRed == "RED" \notin RuleColors => risk.color # "RED"

(* A risk released on conditions has the tasks that are the conditions.    *)
ReleaseHasTasks ==
  (Quiet /\ risk.status = "CONDITIONAL_RELEASE") => \E t \in TaskIds : tasks[t] # "NONE"

(* A red risk can only be rejected: none stands released or resolved.      *)
RedNotReleased == risk.color = "RED" => risk.status \notin {"CONDITIONAL_RELEASE", "RESOLVED"}

(* A person's disposition holds until a person changes it, the rule gets   *)
(* worse than what that person saw, or the tasks of a release are late.    *)
KeepsDisposition ==
  risk.status \in Protected /\ risk'.status # risk.status =>
    \/ risk.status = "CONDITIONAL_RELEASE" /\ risk'.status \in Protected
    \/ /\ risk'.status = "PENDING"
       /\ \/ Severity[risk'.ruleColor] > Severity[Baseline(risk)]
          \/ risk.status = "CONDITIONAL_RELEASE" /\ LateTasks

DispositionKept == [][KeepsDisposition]_vars

(* Nobody is shown as handling a risk that is already settled.             *)
NobodyHoldsSettled == (Quiet /\ risk.status \in Terminal) => by = NoUser

(* While the rule holds, recalculating again changes nothing: opening the  *)
(* radar twice never reopens or recolours a risk a second time.            *)
RecalculateSettles ==
  LET once == SyncRiskState(risk, rule, LateTasks)
  IN rule # "NONE" => SyncRiskState(once, rule, LateTasks) = once

(* So a card comes to rest: nobody is kept busy by what is settled.        *)
CardSettles == RecalculateSettles /\ NobodyHoldsSettled
=============================================================================
