------------------------------- MODULE Reviews --------------------------------
(***************************************************************************)
(* The review desk of one node: the Sinosure occupancy review of N3 and N4 *)
(* and the tax and finance review of N3 and N5.  A gate evaluation reads   *)
(* the figures and the review rows, supersedes rows and files a new one;   *)
(* the desk claims, approves or rejects a row; advance() asks the gate.    *)
(* Both kinds of review follow one protocol, so one module models both.    *)
(* One step is one database write.                                         *)
(***************************************************************************)
EXTENDS Pipeline, Sequences, FiniteSets

CONSTANTS
  Requests,   \* slots for HTTP requests in flight; one slot means no overlap
  Kinds,      \* the kinds of review a behaviour may be about
  Figures,    \* what a review judges: one value for each fingerprint
  NoFigures,  \* a request has judged none yet
  Band,       \* how the gate judges figures
  MaxChanges, \* bound: how often the figures change
  MaxOverlaps \* bound: how often a request comes in while another is running

Bands == {"FREE", "REVIEW", "STOP", "RED"}
ReviewKinds == {"occupancy", "tax"}
RowStatus == {"OPEN", "CLAIMED", "APPROVED", "REJECTED", "SUPERSEDED", "HARD_BLOCKED"}
Verdicts == {"PASS", "REVIEW", "HARD_BLOCK"}

(* OCCUPANCY_QUEUE_STATUSES and TAX_FINANCE_QUEUE_STATUSES: no occupancy   *)
(* row is ever HARD_BLOCKED.                                               *)
QueueStatus == {"OPEN", "CLAIMED", "REJECTED", "HARD_BLOCKED"}

ASSUME ReviewsAssumption ==
  /\ Kinds \subseteq ReviewKinds
  /\ NoFigures \notin Figures
  /\ Band \in [Figures -> Bands]
  /\ MaxChanges \in Nat
  /\ MaxOverlaps \in Nat

VARIABLES
  kind,       \* which review this is
  figures,    \* the figures the case stands at
  rows,       \* review rows of the node, oldest first
  status,     \* the CaseNode row's status
  req,        \* the requests in flight and what each has read
  changes,    \* how often the figures have changed
  approved,   \* history: figures whose row a desk has approved
  filed,      \* history: have the rows been synchronised with these figures
  overlaps    \* history: how often a request came in while another was running

vars == <<kind, figures, rows, status, req, changes, approved, filed, overlaps>>

(* Only the tax review knows a red band; to the occupancy review the same  *)
(* figures are beyond its desk (ULTRA_HIGH).                               *)
BandOf(f) == IF kind = "occupancy" /\ Band[f] = "RED" THEN "STOP" ELSE Band[f]

Idle == [step |-> "idle", task |-> "none", row |-> 0, next |-> "OPEN",
         judged |-> NoFigures, stale |-> {}, create |-> FALSE, verdict |-> "PASS"]
Begin(r, task, step) == req' = [req EXCEPT ![r] = [Idle EXCEPT !.step = step, !.task = task]]
Goto(r, step) == req' = [req EXCEPT ![r].step = step]
Finish(r) == req' = [req EXCEPT ![r] = Idle]
At(r, step) == req[r].step = step

Init ==
  /\ kind \in Kinds
  /\ figures \in Figures
  /\ rows = <<>>
  /\ status = "IN_PROGRESS"
  /\ req = [r \in Requests |-> Idle]
  /\ changes = 0
  /\ approved = {}
  /\ filed = FALSE
  /\ overlaps = 0

(***************************************************************************)
(* The rules: which row answers for figures, what the desk may do with a   *)
(* row, what a synchronisation does to the rows.                           *)
(***************************************************************************)
(* Variant: any row that is not superseded answers for the figures.        *)
MatchingAny(f) == {i \in DOMAIN rows : rows[i].status # "SUPERSEDED"}

Matching(f) == {i \in DOMAIN rows : rows[i].fp = f /\ rows[i].status # "SUPERSEDED"}

(* matching...Review walks the rows from the end.                          *)
LatestMatch(f) == CHOOSE i \in Matching(f) : \A j \in Matching(f) : j <= i

IsApproved(f) == Matching(f) # {} /\ rows[LatestMatch(f)].status = "APPROVED"

(* Variant: a desk may act on a row whatever has become of it.             *)
ActionNextAlways(rowStatus, action) ==
  CASE action = "CLAIM" -> "CLAIMED" [] action = "APPROVE" -> "APPROVED" [] OTHER -> "REJECTED"

(* "refused" is the error answer: a decided row is closed for good, and no *)
(* desk releases a red line.                                               *)
OccupancyActionNextStatus(rowStatus, action) ==
  IF rowStatus \in {"APPROVED", "SUPERSEDED"} THEN "refused" ELSE ActionNextAlways(rowStatus, action)

TaxFinanceActionNextStatus(rowStatus, action) ==
  IF rowStatus \in {"HARD_BLOCKED", "APPROVED", "SUPERSEDED"} THEN "refused"
  ELSE ActionNextAlways(rowStatus, action)

ActionNextStatus(rowStatus, action) ==
  IF kind = "tax" THEN TaxFinanceActionNextStatus(rowStatus, action)
  ELSE OccupancyActionNextStatus(rowStatus, action)

(* What the workbench lists.                                               *)
Queue == {i \in DOMAIN rows : rows[i].status \in QueueStatus}

(* Variant: an approval of other figures goes with the queue.              *)
PlanStaleAll(f) ==
  IF BandOf(f) \in {"REVIEW", "RED"} /\ Matching(f) # {} THEN {} ELSE DOMAIN rows

(* plan...ReviewSync: a row that answers for the figures keeps every row;  *)
(* otherwise all rows still in the queue go.                               *)
PlanStale(f) ==
  IF BandOf(f) \in {"REVIEW", "RED"} /\ Matching(f) # {} THEN {}
  ELSE Queue

PlanCreate(f) == BandOf(f) \in {"REVIEW", "RED"} /\ Matching(f) = {}

NewRow(f) == [fp |-> f, status |-> IF BandOf(f) = "RED" THEN "HARD_BLOCKED" ELSE "OPEN"]

(* The verdict of the whole gate: other conditions of the node may refuse  *)
(* what the review lets through.                                           *)
GateVerdicts(f) ==
  CASE BandOf(f) = "FREE" -> {"PASS", "HARD_BLOCK"}
    [] BandOf(f) = "REVIEW" -> {IF IsApproved(f) THEN "PASS" ELSE "REVIEW", "HARD_BLOCK"}
    [] OTHER -> {"HARD_BLOCK"}

NodeStatusOf(verdict) ==
  CASE verdict = "PASS" -> "IN_PROGRESS"
    [] verdict = "REVIEW" -> "REVIEW"
    [] OTHER -> "BLOCKED"

(***************************************************************************)
(* Forms (saveContract, saveSinosure, savePlan) set the figures and touch  *)
(* the node; another case of the buyer, or the linked sales case, moves    *)
(* them without any request here.                                          *)
(***************************************************************************)
SetFigures(f) ==
  /\ f # figures => changes < MaxChanges
  /\ figures' = f
  /\ changes' = IF f = figures THEN changes ELSE changes + 1
  /\ filed' = (filed /\ f = figures)

SaveForm(r, f) ==
  /\ At(r, "idle")
  /\ SetFigures(f)
  /\ Begin(r, "form", "touch")
  /\ UNCHANGED <<kind, rows, status, approved>>

FiguresMove(f) ==
  /\ f # figures
  /\ SetFigures(f)
  /\ UNCHANGED <<kind, rows, status, req, approved>>

TouchNode(r) ==
  /\ At(r, "touch")
  /\ status' = IF status = "PASSED" THEN "PASSED" ELSE "IN_PROGRESS"
  /\ Goto(r, "evaluate")
  /\ UNCHANGED <<kind, figures, rows, changes, approved, filed>>

(***************************************************************************)
(* The desk: read the row, refuse or write it, evaluate again.             *)
(***************************************************************************)
ReadRow(r, i, action) ==
  LET next == ActionNextStatus(rows[i].status, action)
  IN /\ At(r, "idle")
     /\ IF next = "refused" THEN UNCHANGED req
        ELSE req' = [req EXCEPT ![r] =
               [Idle EXCEPT !.step = "mark", !.task = "desk", !.row = i, !.next = next]]
     /\ UNCHANGED <<kind, figures, rows, status, changes, approved, filed>>

WriteRow(r) ==
  LET i == req[r].row
  IN /\ At(r, "mark")
     /\ rows' = [rows EXCEPT ![i].status = req[r].next]
     /\ approved' = IF req[r].next = "APPROVED" THEN approved \cup {rows[i].fp} ELSE approved
     /\ Begin(r, "desk", "evaluate")
     /\ UNCHANGED <<kind, figures, status, changes, filed>>

Advance(r) ==
  /\ At(r, "idle")
  /\ ResolveAdvance("N3", "N3", status) = "allow"
  /\ Begin(r, "advance", "evaluate")
  /\ UNCHANGED <<kind, figures, rows, status, changes, approved, filed>>

(***************************************************************************)
(* evaluateAndPersist and refreshOccupancyReview: one snapshot decides the *)
(* verdict and the plan, two writes carry the plan out.                    *)
(***************************************************************************)
Evaluate(r) ==
  /\ At(r, "evaluate")
  /\ \E verdict \in GateVerdicts(figures) :
       req' = [req EXCEPT ![r].step = "supersede", ![r].judged = figures,
                          ![r].stale = PlanStale(figures), ![r].create = PlanCreate(figures),
                          ![r].verdict = verdict]
  /\ filed' = TRUE
  /\ UNCHANGED <<kind, figures, rows, status, changes, approved>>

(* updateMany by id, whatever has become of the rows.                      *)
Supersede(r) ==
  /\ At(r, "supersede")
  /\ rows' = [i \in DOMAIN rows |->
                IF i \in req[r].stale THEN [rows[i] EXCEPT !.status = "SUPERSEDED"] ELSE rows[i]]
  /\ req' = [req EXCEPT ![r].step = "create", ![r].stale = {}]
  /\ UNCHANGED <<kind, figures, status, changes, approved, filed>>

FileRow(r) ==
  /\ At(r, "create")
  /\ rows' = IF req[r].create THEN Append(rows, NewRow(req[r].judged)) ELSE rows
  /\ req' = [req EXCEPT ![r].step = "status", ![r].create = FALSE]
  /\ UNCHANGED <<kind, figures, status, changes, approved, filed>>

(* advance() writes the node by id; the desk and the forms leave a PASSED  *)
(* node alone, and write only what is flagged (apply...NodeStatus).  Both  *)
(* kinds of status follow a saved contract, saveSinosure only has the      *)
(* occupancy's; the tax one also flags a HARD_BLOCK.                       *)
Flagged(r, contractSaved) ==
  \/ req[r].verdict = "REVIEW"
  \/ BandOf(req[r].judged) = "REVIEW"
  \/ (kind = "tax" \/ contractSaved) /\ req[r].verdict = "HARD_BLOCK"

WriteStatus(r) ==
  /\ At(r, "status")
  /\ \E contractSaved \in {FALSE, req[r].task = "form"} :
       status' =
         IF req[r].task = "advance"
         THEN IF req[r].verdict = "PASS" THEN "PASSED" ELSE NodeStatusOf(req[r].verdict)
         ELSE IF status = "PASSED" \/ ~Flagged(r, contractSaved) THEN status
         ELSE NodeStatusOf(req[r].verdict)
  /\ Finish(r)
  /\ UNCHANGED <<kind, figures, rows, changes, approved, filed>>

Submit(r) ==
  \/ \E f \in Figures : SaveForm(r, f)
  \/ \E i \in DOMAIN rows, action \in {"CLAIM", "APPROVE", "REJECT"} : ReadRow(r, i, action)
  \/ Advance(r)

Handle(r) ==
  \/ TouchNode(r) \/ WriteRow(r) \/ Evaluate(r)
  \/ Supersede(r) \/ FileRow(r) \/ WriteStatus(r)

Quiet == \A r \in Requests : At(r, "idle")

CountOverlap ==
  /\ Quiet \/ overlaps < MaxOverlaps
  /\ overlaps' = IF Quiet THEN overlaps ELSE overlaps + 1

Next ==
  \/ \E r \in Requests : Submit(r) /\ CountOverlap
  \/ \E r \in Requests : Handle(r) /\ UNCHANGED overlaps
  \/ \E f \in Figures : FiguresMove(f) /\ UNCHANGED overlaps

Spec == Init /\ [][Next]_vars
-----------------------------------------------------------------------------
(***************************************************************************)
(* Properties.                                                             *)
(***************************************************************************)
(* However requests overlap, a node passes only on figures that need no    *)
(* review, or whose own row a desk has approved: an approval of other      *)
(* figures never lets a case through (isOccupancyHighApproved).            *)
PassNeedsApproval ==
  [][(status # "PASSED" /\ status' = "PASSED") =>
       \E r \in Requests :
         /\ At(r, "status")
         /\ req[r].judged \in Figures
         /\ BandOf(req[r].judged) = "FREE" \/ req[r].judged \in approved]_vars

(* Handled one after the other, requests never take back an approval and   *)
(* never bring a superseded row back.                                      *)
EndedReviewStays ==
  [][overlaps = 0 => \A i \in DOMAIN rows :
       rows[i].status \in {"APPROVED", "SUPERSEDED"} => rows'[i].status = rows[i].status]_vars

(* However requests overlap, no desk ever approves a red line.             *)
RedNeverReleased == \A i \in DOMAIN rows :
  BandOf(rows[i].fp) = "RED" => rows[i].status \in {"HARD_BLOCKED", "SUPERSEDED"}

(* Handled one after the other, requests leave the desk the right work:    *)
(* figures that need a review (or are a red line) have exactly one row     *)
(* that answers for them, other figures leave nothing in the queue.        *)
ReviewFiled ==
  (Quiet /\ filed /\ overlaps = 0) =>
    IF BandOf(figures) \in {"REVIEW", "RED"} THEN Cardinality(Matching(figures)) = 1
    ELSE Queue = {}

(* So the queue holds what a desk may and should decide, and no more.      *)
QueueIsRight == RedNeverReleased /\ ReviewFiled
=============================================================================
