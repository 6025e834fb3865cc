---------------------------- MODULE ReviewsProofs ----------------------------
(***************************************************************************)
(* Proofs about Reviews, for every number of requests, of rows, of figures *)
(* and of overlaps.  That a node passes only on figures a desk approved,   *)
(* and that no desk releases a red line, needs nothing of how requests     *)
(* overlap.  That an ended row stays ended and that the queue holds the    *)
(* right work needs requests handled one after another: the invariant      *)
(* there says what the plan of the request in flight is still worth.       *)
(***************************************************************************)
EXTENDS Reviews, SequenceTheorems, FiniteSetTheorems, WellFoundedInduction, TLAPS

ReviewRow == [fp : Figures, status : RowStatus]

PlanSteps == {"supersede", "create", "status"}
Steps == {"idle", "touch", "evaluate", "mark", "supersede", "create", "status"}

Request == [step : Steps, task : {"none", "form", "desk", "advance"}, row : Nat,
            next : {"OPEN", "CLAIMED", "APPROVED", "REJECTED"}, judged : Figures \cup {NoFigures},
            stale : SUBSET Nat, create : BOOLEAN, verdict : Verdicts]

TypeOK ==
  /\ kind \in Kinds
  /\ figures \in Figures
  /\ rows \in Seq(ReviewRow)
  /\ status \in NodeStatus
  /\ req \in [Requests -> Request]
  /\ changes \in Nat
  /\ approved \subseteq Figures
  /\ filed \in BOOLEAN
  /\ overlaps \in Nat
  /\ \A r \in Requests : /\ At(r, "mark") => req[r].row \in DOMAIN rows
                         /\ req[r].step \in PlanSteps => req[r].judged \in Figures

(* An approved row was approved by a desk, and a request that may pass the *)
(* node has judged figures that need no approval or have it.               *)
ApprovedByDesk == \A i \in DOMAIN rows : rows[i].status = "APPROVED" => rows[i].fp \in approved

Passable(f) == BandOf(f) = "FREE" \/ f \in approved

PassesOnApproved == \A r \in Requests :
  req[r].step \in PlanSteps /\ req[r].verdict = "PASS" => Passable(req[r].judged)

(* No desk is about to decide a red line.                                  *)
NoDeskAtRed == \A r \in Requests : At(r, "mark") => BandOf(rows[req[r].row].fp) # "RED"

DeskInv == ApprovedByDesk /\ PassesOnApproved /\ RedNeverReleased /\ NoDeskAtRed

(* Requests handled one after the other: one is in flight, at most one row *)
(* answers for the same figures, and what the request has read and planned *)
(* still holds; of figures that moved since, only the queue it read does.  *)
Alone == \A r, s \in Requests : At(r, "idle") \/ At(s, "idle") \/ r = s

OneMatch == \A f \in Figures : \A i, j \in Matching(f) : i = j

NeedsRow(f) == BandOf(f) \in {"REVIEW", "RED"}

(* The desk has the right work for these figures.                          *)
WorkFiled == IF NeedsRow(figures) THEN Matching(figures) # {} ELSE Queue = {}

PlanHolds(r) ==
  /\ At(r, "mark") => rows[req[r].row].status \notin {"APPROVED", "SUPERSEDED"}
  /\ At(r, "supersede") =>
       /\ req[r].stale \subseteq Queue
       /\ req[r].create => Matching(req[r].judged) = {}
       /\ filed => /\ req[r].judged = figures
                   /\ req[r].stale = PlanStale(figures)
                   /\ req[r].create = PlanCreate(figures)
  /\ At(r, "create") =>
       /\ req[r].create => Matching(req[r].judged) = {}
       /\ filed => /\ req[r].judged = figures
                   /\ req[r].create => NeedsRow(figures)
                   /\ ~req[r].create => WorkFiled

AloneInv ==
  overlaps = 0 =>
    /\ Alone
    /\ OneMatch
    /\ \A r \in Requests : PlanHolds(r)
    /\ filed /\ (\A r \in Requests : req[r].step \notin {"supersede", "create"}) => WorkFiled

IInv == TypeOK /\ DeskInv /\ AloneInv

(* A set of positions has a last one.                                      *)
LEMMA LastExists ==
  ASSUME NEW n \in Nat, NEW S, S \subseteq 1..n, S # {}
  PROVE  \E i \in S : \A j \in S : j <= i
<1> DEFINE T == {k \in Nat : n - k \in S}
<1>1. T \subseteq Nat /\ T # {}
  <2>1. PICK i \in S : TRUE
    OBVIOUS
  <2>2. n - i \in Nat /\ n - (n - i) = i
    BY <2>1
  <2> QED BY <2>2
<1>2. IsWellFoundedOn(OpToRel(<, Nat), Nat)
  BY NatLessThanWellFounded
<1>3. PICK x \in T : \A y \in T : ~(<<y, x>> \in OpToRel(<, Nat))
  <2> HIDE DEF T
  <2> QED BY <1>1, <1>2, WFMin
<1>4. \A y \in T : ~(y < x)
  BY <1>1, <1>3 DEF OpToRel
<1>5. ASSUME NEW j \in S PROVE j <= n - x
  <2>1. n - j \in T
    BY <1>5
  <2>2. ~(n - j < x) /\ x \in Nat
    <3> HIDE DEF T
    <3> QED BY <2>1, <1>1, <1>3, <1>4
  <2> QED BY <2>2, <1>5
<1> QED
  BY <1>3, <1>5

(* A step of the request r, or of the figures alone.                       *)
Moves(r) == (Submit(r) /\ CountOverlap) \/ (Handle(r) /\ UNCHANGED overlaps)
Drifts == \E f \in Figures : FiguresMove(f) /\ UNCHANGED overlaps

LEMMA NextMoves == Next <=> (\E r \in Requests : Moves(r)) \/ Drifts
BY DEF Next, Moves, Drifts

LEMMA OthersStay ==
  ASSUME TypeOK, NEW r \in Requests, Moves(r)
  PROVE  \A s \in Requests : s # r => req'[s] = req[s]
BY DEF Moves, TypeOK, Submit, Handle, SaveForm, ReadRow, Advance, TouchNode, WriteRow, Evaluate,
   Supersede, FileRow, WriteStatus, Begin, Goto, Finish

LEMMA IdleRequest == Idle \in Request /\ Idle.step = "idle"
BY DEF Idle, Request, Steps, Verdicts

(* A request that begins a task.                                           *)
LEMMA BegunRequest ==
  ASSUME NEW step \in Steps, NEW task \in {"form", "desk", "advance"}
  PROVE  /\ [Idle EXCEPT !.step = step, !.task = task] \in Request
         /\ [Idle EXCEPT !.step = step, !.task = task].step = step
BY DEF Idle, Request, Verdicts

LEMMA RowsSeq ==
  ASSUME TypeOK
  PROVE  /\ Len(rows) \in Nat /\ DOMAIN rows = 1..Len(rows)
         /\ \A i \in DOMAIN rows : rows[i] \in ReviewRow
BY DEF TypeOK

(* What each write does to the rows, and what it keeps.                    *)
LEMMA RowWrites ==
  ASSUME TypeOK, NEW r \in Requests
  PROVE  /\ WriteRow(r) => /\ rows' \in Seq(ReviewRow) /\ DOMAIN rows' = DOMAIN rows
                           /\ req[r].row \in DOMAIN rows
                           /\ \A i \in DOMAIN rows :
                                /\ rows'[i].fp = rows[i].fp
                                /\ rows'[i].status = IF i = req[r].row THEN req[r].next ELSE rows[i].status
         /\ Supersede(r) => /\ rows' \in Seq(ReviewRow) /\ DOMAIN rows' = DOMAIN rows
                            /\ \A i \in DOMAIN rows :
                                 /\ rows'[i].fp = rows[i].fp
                                 /\ rows'[i].status = IF i \in req[r].stale THEN "SUPERSEDED" ELSE rows[i].status
         /\ FileRow(r) /\ req[r].create =>
              /\ rows' \in Seq(ReviewRow) /\ DOMAIN rows' = 1..(Len(rows) + 1)
              /\ \A i \in DOMAIN rows : rows'[i] = rows[i]
              /\ rows'[Len(rows) + 1] = NewRow(req[r].judged)
<1>rows. /\ Len(rows) \in Nat /\ DOMAIN rows = 1..Len(rows) /\ rows \in Seq(ReviewRow)
         /\ \A i \in DOMAIN rows : rows[i] \in ReviewRow
         /\ req[r] \in Request
  BY RowsSeq DEF TypeOK
<1>1. ASSUME WriteRow(r)
      PROVE  /\ rows' \in Seq(ReviewRow) /\ DOMAIN rows' = DOMAIN rows
             /\ req[r].row \in DOMAIN rows
             /\ \A i \in DOMAIN rows :
                  /\ rows'[i].fp = rows[i].fp
                  /\ rows'[i].status = IF i = req[r].row THEN req[r].next ELSE rows[i].status
  <2>1. req[r].row \in DOMAIN rows
    BY <1>1 DEF WriteRow, TypeOK
  <2> DEFINE o == [rows[req[r].row] EXCEPT !.status = req[r].next]
  <2>2. o \in ReviewRow /\ o.fp = rows[req[r].row].fp /\ o.status = req[r].next
    BY <2>1, <1>rows DEF ReviewRow, Request, RowStatus
  <2>3. rows' = [rows EXCEPT ![req[r].row] = o]
    BY <1>1 DEF WriteRow
  <2> HIDE DEF o
  <2>4. rows' \in Seq(ReviewRow)
    BY <2>1, <2>2, <2>3, <1>rows, ExceptSeq
  <2> QED BY <2>1, <2>2, <2>3, <2>4, <1>rows
<1>2. ASSUME Supersede(r)
      PROVE  /\ rows' \in Seq(ReviewRow) /\ DOMAIN rows' = DOMAIN rows
             /\ \A i \in DOMAIN rows :
                  /\ rows'[i].fp = rows[i].fp
                  /\ rows'[i].status = IF i \in req[r].stale THEN "SUPERSEDED" ELSE rows[i].status
  <2>1. \A i \in DOMAIN rows : [rows[i] EXCEPT !.status = "SUPERSEDED"] \in ReviewRow
    BY <1>rows DEF ReviewRow, RowStatus
  <2>2. rows' \in [1..Len(rows) -> ReviewRow]
    BY <2>1, <1>2, <1>rows DEF Supersede
  <2>3. rows' \in Seq(ReviewRow)
    BY <2>2, <1>rows
  <2> QED BY <2>2, <2>3, <1>2, <1>rows DEF Supersede, ReviewRow
<1>3. ASSUME FileRow(r), req[r].create
      PROVE  /\ rows' \in Seq(ReviewRow) /\ DOMAIN rows' = 1..(Len(rows) + 1)
             /\ \A i \in DOMAIN rows : rows'[i] = rows[i]
             /\ rows'[Len(rows) + 1] = NewRow(req[r].judged)
  <2>1. NewRow(req[r].judged) \in ReviewRow
    <3>1. req[r].judged \in Figures
      BY <1>3 DEF FileRow, At, TypeOK, PlanSteps
    <3> QED BY <3>1 DEF NewRow, ReviewRow, RowStatus
  <2>2. rows' = Append(rows, NewRow(req[r].judged))
    BY <1>3 DEF FileRow
  <2> QED BY <2>1, <2>2, <1>rows, AppendProperties, LenProperties
<1> QED
  BY <1>1, <1>2, <1>3

LEMMA InitTyped == Init => TypeOK
<1> SUFFICES ASSUME Init PROVE TypeOK
  OBVIOUS
<1>1. req \in [Requests -> Request] /\ \A r \in Requests : req[r].step = "idle"
  BY IdleRequest DEF Init
<1>2. <<>> \in Seq(ReviewRow)
  OBVIOUS
<1> QED
  BY <1>1, <1>2 DEF Init, TypeOK, NodeStatus, PlanSteps, At

LEMMA StepTyped ==
  ASSUME TypeOK, NEW r \in Requests, Moves(r)
  PROVE  TypeOK'
<1> USE DEF Begin, Goto, Finish
<1>typ. /\ req \in [Requests -> Request] /\ kind \in Kinds /\ figures \in Figures
        /\ rows \in Seq(ReviewRow) /\ status \in NodeStatus /\ changes \in Nat
        /\ approved \subseteq Figures /\ filed \in BOOLEAN /\ overlaps \in Nat
        /\ \A s \in Requests : /\ At(s, "mark") => req[s].row \in DOMAIN rows
                               /\ req[s].step \in PlanSteps => req[s].judged \in Figures
  BY DEF TypeOK
<1>over. overlaps' \in Nat
  BY <1>typ DEF Moves, CountOverlap
<1>kind. kind' = kind
  BY DEF Moves, Submit, Handle, SaveForm, ReadRow, Advance, TouchNode, WriteRow, Evaluate,
     Supersede, FileRow, WriteStatus
<1>rows. rows' \in Seq(ReviewRow) /\ DOMAIN rows \subseteq DOMAIN rows'
  <2>1. CASE WriteRow(r) \/ Supersede(r)
    BY <2>1, RowWrites
  <2>2. CASE FileRow(r)
    <3>1. CASE req[r].create
      BY <3>1, <2>2, RowWrites, RowsSeq
    <3>2. CASE ~req[r].create
      BY <3>2, <2>2, <1>typ DEF FileRow
    <3> QED BY <3>1, <3>2
  <2>3. CASE UNCHANGED rows
    BY <2>3, <1>typ
  <2> QED BY <2>1, <2>2, <2>3 DEF Moves, Submit, Handle, SaveForm, ReadRow, Advance, TouchNode,
             Evaluate, WriteStatus
<1>others. \A s \in Requests : s # r => req'[s] = req[s]
  BY OthersStay
<1>enough. ASSUME req'[r] \in Request, req' = [req EXCEPT ![r] = req'[r]],
                  req'[r].step = "mark" => req'[r].row \in DOMAIN rows,
                  req'[r].step \in PlanSteps => req'[r].judged \in Figures,
                  figures' \in Figures, status' \in NodeStatus, changes' \in Nat,
                  approved' \subseteq Figures, filed' \in BOOLEAN
           PROVE  TypeOK'
  <2>1. req' \in [Requests -> Request]
    BY <1>enough, <1>typ
  <2>2. \A s \in Requests : /\ req'[s].step = "mark" => req'[s].row \in DOMAIN rows'
                            /\ req'[s].step \in PlanSteps => req'[s].judged \in Figures
    BY <1>enough, <1>rows, <1>others, <1>typ DEF At
  <2> QED BY <2>1, <2>2, <1>enough, <1>typ, <1>over, <1>kind, <1>rows DEF TypeOK, At
<1>req. req \in [Requests -> Request]
  BY <1>typ
<1>1. ASSUME NEW f \in Figures, SaveForm(r, f) PROVE TypeOK'
  <2>1. req'[r] \in Request /\ req'[r].step = "touch" /\ req' = [req EXCEPT ![r] = req'[r]]
    BY <1>1, <1>req, BegunRequest DEF SaveForm, Steps
  <2>2. figures' \in Figures /\ changes' \in Nat /\ filed' \in BOOLEAN
    BY <1>1, <1>typ DEF SaveForm, SetFigures
  <2> QED BY <2>1, <2>2, <1>1, <1>typ, <1>enough DEF SaveForm, PlanSteps
<1>2. ASSUME NEW i \in DOMAIN rows, NEW action \in {"CLAIM", "APPROVE", "REJECT"}, ReadRow(r, i, action)
      PROVE  TypeOK'
  <2> DEFINE next == ActionNextStatus(rows[i].status, action)
  <2>0. UNCHANGED <<kind, figures, rows, status, changes, approved, filed>>
    BY <1>2 DEF ReadRow
  <2>1. CASE next = "refused"
    <3>1. req' = req
      BY <2>1, <1>2 DEF ReadRow
    <3> QED BY <3>1, <2>0, <1>typ, <1>over DEF TypeOK, At
  <2>2. CASE next # "refused"
    <3>1. next \in {"CLAIMED", "APPROVED", "REJECTED"}
      BY <2>2 DEF ActionNextStatus, OccupancyActionNextStatus, TaxFinanceActionNextStatus, ActionNextAlways
    <3> DEFINE q == [Idle EXCEPT !.step = "mark", !.task = "desk", !.row = i, !.next = next]
    <3>2. i \in Nat
      BY RowsSeq
    <3>3. req'[r] = q /\ req' = [req EXCEPT ![r] = q]
      BY <2>2, <1>2, <1>req DEF ReadRow
    <3> HIDE DEF next
    <3>4. q \in Request /\ q.row = i /\ q.step = "mark"
      BY <3>1, <3>2 DEF Idle, Request, Steps, Verdicts
    <3> QED BY <3>3, <3>4, <2>0, <1>typ, <1>enough DEF PlanSteps
  <2> QED BY <2>1, <2>2
<1>3. CASE Advance(r)
  <2>1. req'[r] \in Request /\ req'[r].step = "evaluate" /\ req' = [req EXCEPT ![r] = req'[r]]
    BY <1>3, <1>req, BegunRequest DEF Advance, Steps
  <2> QED BY <2>1, <1>3, <1>typ, <1>enough DEF Advance, PlanSteps
<1>4. CASE TouchNode(r)
  <2>1. req'[r] \in Request /\ req'[r].step = "evaluate" /\ req' = [req EXCEPT ![r] = req'[r]]
    BY <1>4, <1>req DEF TouchNode, Request, Steps
  <2>2. status' \in NodeStatus
    BY <1>4 DEF TouchNode, NodeStatus
  <2> QED BY <2>1, <2>2, <1>4, <1>typ, <1>enough DEF TouchNode, PlanSteps
<1>5. CASE WriteRow(r)
  <2>1. req'[r] \in Request /\ req'[r].step = "evaluate" /\ req' = [req EXCEPT ![r] = req'[r]]
    BY <1>5, <1>req, BegunRequest DEF WriteRow, Steps
  <2>2. approved' \subseteq Figures
    BY <1>5, <1>typ, RowsSeq DEF WriteRow, ReviewRow
  <2> QED BY <2>1, <2>2, <1>5, <1>typ, <1>enough DEF WriteRow, PlanSteps
<1>6. CASE Evaluate(r)
  <2>1. PICK verdict \in GateVerdicts(figures) :
          req' = [req EXCEPT ![r].step = "supersede", ![r].judged = figures,
                             ![r].stale = PlanStale(figures), ![r].create = PlanCreate(figures),
                             ![r].verdict = verdict]
    BY <1>6 DEF Evaluate
  <2>2. verdict \in Verdicts
    BY DEF GateVerdicts, Verdicts
  <2>3. PlanStale(figures) \subseteq Nat /\ PlanCreate(figures) \in BOOLEAN
    BY RowsSeq DEF PlanStale, PlanCreate, Queue
  <2>4. /\ req'[r] \in Request /\ req'[r].step = "supersede" /\ req'[r].judged = figures
        /\ req' = [req EXCEPT ![r] = req'[r]]
    <3> DEFINE q == [req[r] EXCEPT !.step = "supersede", !.judged = figures,
                                   !.stale = PlanStale(figures), !.create = PlanCreate(figures),
                                   !.verdict = verdict]
    <3>1. req[r] \in Request
      BY <1>req
    <3>2. q \in Request /\ q.step = "supersede" /\ q.judged = figures
      BY <2>2, <2>3, <3>1, <1>typ DEF Request, Steps
    <3>3. req'[r] = q /\ req' = [req EXCEPT ![r] = q]
      BY <2>1, <1>req
    <3> HIDE DEF q
    <3> QED BY <3>2, <3>3
  <2> QED BY <2>4, <1>6, <1>typ, <1>enough DEF Evaluate
<1>7. CASE Supersede(r)
  <2>1. /\ req'[r] \in Request /\ req'[r].step = "create" /\ req'[r].judged = req[r].judged
        /\ req' = [req EXCEPT ![r] = req'[r]]
    BY <1>7, <1>req DEF Supersede, Request, Steps
  <2>2. req[r].judged \in Figures
    BY <1>7, <1>typ DEF Supersede, At, PlanSteps
  <2> QED BY <2>1, <2>2, <1>7, <1>typ, <1>enough DEF Supersede
<1>8. CASE FileRow(r)
  <2>1. /\ req'[r] \in Request /\ req'[r].step = "status" /\ req'[r].judged = req[r].judged
        /\ req' = [req EXCEPT ![r] = req'[r]]
    BY <1>8, <1>req DEF FileRow, Request, Steps
  <2>2. req[r].judged \in Figures
    BY <1>8, <1>typ DEF FileRow, At, PlanSteps
  <2> QED BY <2>1, <2>2, <1>8, <1>typ, <1>enough DEF FileRow
<1>9. CASE WriteStatus(r)
  <2>1. req'[r] \in Request /\ req'[r].step = "idle" /\ req' = [req EXCEPT ![r] = req'[r]]
    BY <1>9, <1>req, IdleRequest DEF WriteStatus
  <2>2. status' \in NodeStatus
    BY <1>9, <1>typ DEF WriteStatus, NodeStatusOf, NodeStatus
  <2> QED BY <2>1, <2>2, <1>9, <1>typ, <1>enough DEF WriteStatus, PlanSteps
<1> QED
  BY <1>1, <1>2, <1>3, <1>4, <1>5, <1>6, <1>7, <1>8, <1>9 DEF Moves, Submit, Handle

LEMMA DriftTyped == TypeOK /\ Drifts => TypeOK'
BY DEF TypeOK, Drifts, FiguresMove, SetFigures, At

(* Rows are only added, and keep their figures; approvals are only added.  *)
LEMMA RowsKept ==
  ASSUME TypeOK, NEW r \in Requests, Moves(r)
  PROVE  /\ \A i \in DOMAIN rows : i \in DOMAIN rows' /\ rows'[i].fp = rows[i].fp
         /\ approved \subseteq approved'
         /\ kind' = kind
<1>1. \A i \in DOMAIN rows : i \in DOMAIN rows' /\ rows'[i].fp = rows[i].fp
  <2>1. CASE WriteRow(r) \/ Supersede(r)
    BY <2>1, RowWrites
  <2>2. CASE FileRow(r)
    <3>1. CASE req[r].create
      BY <3>1, <2>2, RowWrites, RowsSeq
    <3>2. CASE ~req[r].create
      BY <3>2, <2>2 DEF FileRow
    <3> QED BY <3>1, <3>2
  <2>3. CASE UNCHANGED rows
    BY <2>3
  <2> QED BY <2>1, <2>2, <2>3 DEF Moves, Submit, Handle, SaveForm, ReadRow, Advance, TouchNode,
             Evaluate, WriteStatus
<1>2. approved \subseteq approved' /\ kind' = kind
  BY DEF Moves, Submit, Handle, SaveForm, ReadRow, Advance, TouchNode, WriteRow, Evaluate,
     Supersede, FileRow, WriteStatus
<1> QED
  BY <1>1, <1>2

(* The row that answers for approved figures bears those figures.          *)
LEMMA ApprovedAnswers ==
  ASSUME TypeOK, ApprovedByDesk, NEW f \in Figures, IsApproved(f)
  PROVE  f \in approved
<1>1. Matching(f) \subseteq 1..Len(rows) /\ Len(rows) \in Nat /\ Matching(f) # {}
  BY RowsSeq DEF Matching, IsApproved
<1>2. \E i \in Matching(f) : \A j \in Matching(f) : j <= i
  BY <1>1, LastExists
<1>3. LatestMatch(f) \in Matching(f)
  BY <1>2 DEF LatestMatch
<1>4. rows[LatestMatch(f)].status = "APPROVED"
  BY DEF IsApproved
<1> QED
  BY <1>3, <1>4 DEF Matching, ApprovedByDesk

(* What the desk knows, through one step of one request.                   *)
LEMMA StepDesk ==
  ASSUME TypeOK, DeskInv, NEW r \in Requests, Moves(r)
  PROVE  DeskInv'
<1> USE DEF Begin, Goto, Finish
<1>inv. ApprovedByDesk /\ PassesOnApproved /\ RedNeverReleased /\ NoDeskAtRed
  BY DEF DeskInv
<1>typ. /\ req \in [Requests -> Request] /\ kind \in ReviewKinds /\ figures \in Figures
        /\ \A s \in Requests : /\ At(s, "mark") => req[s].row \in DOMAIN rows
                               /\ req[s].step \in PlanSteps => req[s].judged \in Figures
        /\ \A i \in DOMAIN rows : rows[i] \in ReviewRow
  BY RowsSeq, ReviewsAssumption DEF TypeOK
<1>req. req \in [Requests -> Request]
  BY <1>typ
<1>others. \A s \in Requests : s # r => req'[s] = req[s]
  BY OthersStay
<1>kind. kind' = kind
  BY RowsKept
<1>kept. /\ \A i \in DOMAIN rows : i \in DOMAIN rows' /\ rows'[i].fp = rows[i].fp
         /\ approved \subseteq approved'
  BY RowsKept
<1>quiet. Submit(r) \/ TouchNode(r) \/ Evaluate(r) \/ WriteStatus(r) => UNCHANGED rows
  BY DEF Submit, SaveForm, ReadRow, Advance, TouchNode, Evaluate, WriteStatus
<1>1. ApprovedByDesk'
  <2> SUFFICES ASSUME NEW i \in DOMAIN rows', rows'[i].status = "APPROVED"
               PROVE  rows'[i].fp \in approved'
    BY DEF ApprovedByDesk
  <2>1. CASE WriteRow(r)
    <3>1. CASE i = req[r].row
      <4>1. req[r].next = "APPROVED" /\ rows'[i].fp = rows[req[r].row].fp
        BY <3>1, <2>1, RowWrites
      <4> QED BY <4>1, <2>1 DEF WriteRow
    <3>2. CASE i # req[r].row
      BY <3>2, <2>1, RowWrites, <1>inv, <1>kept DEF ApprovedByDesk
    <3> QED BY <3>1, <3>2
  <2>2. CASE Supersede(r)
    BY <2>2, RowWrites, <1>inv, <1>kept DEF ApprovedByDesk
  <2>3. CASE FileRow(r)
    <3>1. CASE req[r].create
      <4>1. NewRow(req[r].judged).status # "APPROVED"
        BY DEF NewRow
      <4>2. i \in DOMAIN rows /\ rows'[i] = rows[i]
        BY <4>1, <3>1, <2>3, RowWrites, RowsSeq
      <4> QED BY <4>2, <1>inv, <1>kept DEF ApprovedByDesk
    <3>2. CASE ~req[r].create
      BY <3>2, <2>3, <1>inv, <1>kept DEF FileRow, ApprovedByDesk
    <3> QED BY <3>1, <3>2
  <2>4. CASE UNCHANGED rows
    BY <2>4, <1>inv, <1>kept DEF ApprovedByDesk
  <2> QED BY <2>1, <2>2, <2>3, <2>4, <1>quiet DEF Moves, Handle
<1>2. PassesOnApproved'
  <2> SUFFICES ASSUME NEW s \in Requests, req'[s].step \in PlanSteps, req'[s].verdict = "PASS"
               PROVE  BandOf(req'[s].judged) = "FREE" \/ req'[s].judged \in approved'
    BY <1>kind DEF PassesOnApproved, Passable, BandOf
  <2>kept. \A f : Passable(f) => BandOf(f) = "FREE" \/ f \in approved'
    BY <1>kept DEF Passable
  <2>1. CASE s # r
    BY <2>1, <1>others, <1>inv, <2>kept DEF PassesOnApproved
  <2>2. CASE s = r /\ Evaluate(r)
    <3>1. req'[r].judged = figures /\ req'[r].verdict \in GateVerdicts(figures)
      <4>1. req[r] \in Request
        BY <1>req
      <4>2. PICK v \in GateVerdicts(figures) :
          req' = [req EXCEPT ![r].step = "supersede", ![r].judged = figures,
                             ![r].stale = PlanStale(figures), ![r].create = PlanCreate(figures),
                             ![r].verdict = v]
        BY <2>2 DEF Evaluate
      <4> QED BY <4>1, <4>2, <1>req DEF Request
    <3>2. BandOf(figures) = "FREE" \/ IsApproved(figures)
      BY <3>1, <2>2 DEF GateVerdicts
    <3>3. Passable(figures)
      BY <3>2, <1>inv, <1>typ, ApprovedAnswers DEF Passable
    <3> QED BY <3>1, <3>3, <2>2, <2>kept
  <2>3. CASE s = r /\ (Supersede(r) \/ FileRow(r))
    <3>1. req[r].step \in PlanSteps /\ req'[r].judged = req[r].judged /\ req'[r].verdict = req[r].verdict
      BY <2>3, <1>req DEF Supersede, FileRow, At, PlanSteps, Request
    <3> QED BY <3>1, <2>3, <1>inv, <2>kept DEF PassesOnApproved
  <2>4. CASE s = r /\ (TouchNode(r) \/ WriteRow(r) \/ WriteStatus(r))
    <3>1. req'[r].step \in {"evaluate", "idle"}
      <4>1. req[r] \in Request /\ [req[r] EXCEPT !.step = "evaluate"].step = "evaluate"
        BY <1>req DEF Request
      <4>2. TouchNode(r) => req'[r] = [req[r] EXCEPT !.step = "evaluate"]
        BY <1>req DEF TouchNode
      <4>3. WriteRow(r) => req'[r].step = "evaluate"
        BY <1>req, BegunRequest DEF WriteRow, Steps
      <4>4. WriteStatus(r) => req'[r].step = "idle"
        BY <1>req, IdleRequest DEF WriteStatus
      <4> QED BY <4>1, <4>2, <4>3, <4>4, <2>4
    <3> QED BY <3>1, <2>4 DEF PlanSteps
  <2>5. CASE s = r /\ Submit(r)
    <3>1. req'[r].step \in {"touch", "mark", "evaluate", "idle"}
      <4>1. \A f \in Figures : SaveForm(r, f) => req'[r].step = "touch"
        BY <1>req DEF SaveForm, Idle
      <4>2. \A i \in DOMAIN rows, action \in {"CLAIM", "APPROVE", "REJECT"} :
              ReadRow(r, i, action) => req'[r].step \in {"mark", "idle"}
        BY <1>req DEF ReadRow, Idle, At
      <4>3. Advance(r) => req'[r].step = "evaluate"
        BY <1>req DEF Advance, Idle
      <4> QED BY <4>1, <4>2, <4>3, <2>5 DEF Submit
    <3> QED BY <3>1, <2>5 DEF PlanSteps
  <2> QED BY <2>1, <2>2, <2>3, <2>4, <2>5 DEF Moves, Handle
<1>3. RedNeverReleased'
  <2> SUFFICES ASSUME NEW i \in DOMAIN rows', BandOf(rows'[i].fp) = "RED"
               PROVE  rows'[i].status \in {"HARD_BLOCKED", "SUPERSEDED"}
    BY <1>kind DEF RedNeverReleased, BandOf
  <2>1. CASE WriteRow(r)
    <3>1. i # req[r].row
      BY <2>1, RowWrites, <1>inv DEF NoDeskAtRed, WriteRow
    <3> QED BY <3>1, <2>1, RowWrites, <1>inv DEF RedNeverReleased
  <2>2. CASE Supersede(r)
    BY <2>2, RowWrites, <1>inv DEF RedNeverReleased
  <2>3. CASE FileRow(r)
    <3>1. CASE req[r].create
      <4>1. CASE i \in DOMAIN rows
        BY <4>1, <3>1, <2>3, RowWrites, <1>inv DEF RedNeverReleased
      <4>2. CASE i \notin DOMAIN rows
        <5>1. rows'[i] = NewRow(req[r].judged)
          BY <4>2, <3>1, <2>3, RowWrites, RowsSeq
        <5> QED BY <5>1 DEF NewRow
      <4> QED BY <4>1, <4>2
    <3>2. CASE ~req[r].create
      BY <3>2, <2>3, <1>inv DEF FileRow, RedNeverReleased
    <3> QED BY <3>1, <3>2
  <2>4. CASE UNCHANGED rows
    BY <2>4, <1>inv DEF RedNeverReleased
  <2> QED BY <2>1, <2>2, <2>3, <2>4, <1>quiet DEF Moves, Handle
<1>4. NoDeskAtRed'
  <2> SUFFICES ASSUME NEW s \in Requests, req'[s].step = "mark"
               PROVE  BandOf(rows'[req'[s].row].fp) # "RED"
    BY <1>kind DEF NoDeskAtRed, At, BandOf
  <2>1. CASE s # r
    <3>1. req'[s] = req[s] /\ req[s].row \in DOMAIN rows
      BY <2>1, <1>others, <1>typ DEF At
    <3>2. rows'[req'[s].row].fp = rows[req[s].row].fp
      BY <3>1, <1>kept
    <3> QED BY <3>1, <3>2, <2>1, <1>others, <1>inv DEF NoDeskAtRed, At
  <2>2. CASE s = r
    <3>1. PICK i \in DOMAIN rows, action \in {"CLAIM", "APPROVE", "REJECT"} :
            ReadRow(r, i, action) /\ ActionNextStatus(rows[i].status, action) # "refused"
      <4>1. \A f \in Figures : SaveForm(r, f) => req'[r].step = "touch"
        BY <1>req DEF SaveForm, Idle
      <4>2. \A i \in DOMAIN rows, action \in {"CLAIM", "APPROVE", "REJECT"} :
              ReadRow(r, i, action) /\ ActionNextStatus(rows[i].status, action) = "refused" => req'[r].step = "idle"
        BY <1>req DEF ReadRow, At
      <4>3. Advance(r) => req'[r].step = "evaluate"
        BY <1>req DEF Advance, Idle
      <4>4. Handle(r) => req'[r].step # "mark"
        <5>1. TouchNode(r) \/ Supersede(r) \/ FileRow(r) => req'[r].step # "mark"
          BY <1>req DEF TouchNode, Supersede, FileRow, Request
        <5>2. WriteRow(r) => req'[r].step = "evaluate"
          BY <1>req, BegunRequest DEF WriteRow, Steps
        <5>3. WriteStatus(r) => req'[r].step = "idle"
          BY <1>req, IdleRequest DEF WriteStatus
        <5>4. Evaluate(r) => req'[r].step = "supersede"
          BY <1>req DEF Evaluate, Request
        <5> QED BY <5>1, <5>2, <5>3, <5>4 DEF Handle
      <4> QED BY <4>1, <4>2, <4>3, <4>4, <2>2 DEF Moves, Submit
    <3>2. UNCHANGED rows /\ req'[r].row = i
      BY <3>1, <1>req DEF ReadRow, Idle
    <3>3. BandOf(rows[i].fp) # "RED"
      <4> SUFFICES ASSUME BandOf(rows[i].fp) = "RED" PROVE FALSE
        OBVIOUS
      <4>1. kind = "tax"
        BY <1>typ DEF BandOf, ReviewKinds
      <4>2. rows[i].status \in {"HARD_BLOCKED", "SUPERSEDED"}
        BY <1>inv DEF RedNeverReleased
      <4> QED BY <4>1, <4>2, <3>1 DEF ActionNextStatus, TaxFinanceActionNextStatus
    <3> QED BY <3>2, <3>3, <2>2
  <2> QED BY <2>1, <2>2
<1> QED
  BY <1>1, <1>2, <1>3, <1>4 DEF DeskInv

(* A row still open to the desk is in the queue.                           *)
LEMMA OpenIsQueued ==
  ASSUME TypeOK, NEW i \in DOMAIN rows, rows[i].status \notin {"APPROVED", "SUPERSEDED"}
  PROVE  i \in Queue
<1>1. rows[i].status \in RowStatus
  BY RowsSeq DEF ReviewRow
<1> QED
  BY <1>1 DEF Queue, QueueStatus, RowStatus

(* The one request in flight through its step.                             *)
LEMMA StepAlone ==
  ASSUME TypeOK, AloneInv, NEW r \in Requests, Moves(r)
  PROVE  AloneInv'
<1> USE DEF Begin, Goto, Finish
<1> DEFINE Goal == (/\ Alone
                    /\ OneMatch
                    /\ \A s \in Requests : PlanHolds(s)
                    /\ filed /\ (\A s \in Requests : req[s].step \notin {"supersede", "create"}) => WorkFiled)'
<1> SUFFICES ASSUME overlaps' = 0 PROVE Goal
  BY DEF AloneInv
<1>req. req \in [Requests -> Request] /\ req[r] \in Request
  BY DEF TypeOK
<1>rows. /\ Len(rows) \in Nat /\ DOMAIN rows = 1..Len(rows)
         /\ \A i \in DOMAIN rows : rows[i] \in ReviewRow
  BY RowsSeq
<1>kind. kind' = kind
  BY RowsKept
<1>zero. overlaps = 0 /\ ((Submit(r) /\ Quiet) \/ Handle(r))
  <2>1. overlaps \in Nat
    BY DEF TypeOK
  <2> QED BY <2>1 DEF Moves, CountOverlap
<1>inv. /\ Alone /\ OneMatch /\ PlanHolds(r)
        /\ filed /\ (\A s \in Requests : req[s].step \notin {"supersede", "create"}) => WorkFiled
  BY <1>zero DEF AloneInv
<1>mine. \A s \in Requests : s # r => req'[s] = req[s] /\ req[s].step = "idle"
  <2>1. Quiet => \A s \in Requests : req[s].step = "idle"
    BY DEF Quiet, At
  <2>2. Handle(r) => req[r].step # "idle"
    BY DEF Handle, TouchNode, WriteRow, Evaluate, Supersede, FileRow, WriteStatus, At
  <2> QED BY <2>1, <2>2, <1>zero, OthersStay, <1>inv DEF Alone, At
<1>filed. filed /\ req[r].step \notin {"supersede", "create"} => WorkFiled
  BY <1>mine, <1>inv
<1>enough. ASSUME OneMatch', PlanHolds(r)',
                  filed' /\ req'[r].step \notin {"supersede", "create"} => WorkFiled'
           PROVE  Goal
  <2>1. Alone'
    BY <1>mine DEF Alone, At
  <2>2. \A s \in Requests : s # r => PlanHolds(s)'
    BY <1>mine DEF PlanHolds, At
  <2> QED BY <2>1, <2>2, <1>enough
(* A step that leaves rows and figures alone leaves the work as filed.     *)
<1>still. ASSUME UNCHANGED <<rows, figures>>
          PROVE  OneMatch' /\ (WorkFiled => WorkFiled')
  BY <1>still, <1>kind, <1>inv DEF OneMatch, WorkFiled, NeedsRow, BandOf, Matching, Queue
<1>aside. ASSUME UNCHANGED <<rows, figures>>, filed' => filed,
                 req[r].step \notin {"supersede", "create"},
                 req'[r].step \in {"idle", "touch", "evaluate"}
          PROVE  Goal
  <2>1. PlanHolds(r)'
    BY <1>aside DEF PlanHolds, At
  <2> QED BY <2>1, <1>aside, <1>still, <1>filed, <1>enough
<1>1. ASSUME NEW f \in Figures, SaveForm(r, f) PROVE Goal
  <2>1. req'[r].step = "touch" /\ req[r].step = "idle" /\ UNCHANGED rows
    BY <1>1, <1>req DEF SaveForm, Idle, At
  <2>2. PlanHolds(r)'
    BY <2>1 DEF PlanHolds, At
  <2>3. OneMatch'
    BY <2>1, <1>inv DEF OneMatch, Matching
  <2>4. filed' => filed /\ figures' = figures
    BY <1>1 DEF SaveForm, SetFigures
  <2>5. filed' => WorkFiled'
    BY <2>1, <2>4, <1>filed, <1>still
  <2> QED BY <2>2, <2>3, <2>5, <1>enough
<1>2. ASSUME NEW i \in DOMAIN rows, NEW action \in {"CLAIM", "APPROVE", "REJECT"}, ReadRow(r, i, action)
      PROVE  Goal
  <2>1. UNCHANGED <<rows, figures, filed>> /\ req[r].step = "idle"
    BY <1>2 DEF ReadRow, At
  <2>2. CASE ActionNextStatus(rows[i].status, action) = "refused"
    <3>1. req' = req
      BY <2>2, <1>2 DEF ReadRow
    <3> QED BY <3>1, <2>1, <1>aside
  <2>3. CASE ActionNextStatus(rows[i].status, action) # "refused"
    <3>1. req'[r].step = "mark" /\ req'[r].row = i
      BY <2>3, <1>2, <1>req DEF ReadRow, Idle
    <3>2. rows[i].status \notin {"APPROVED", "SUPERSEDED"}
      BY <2>3 DEF ActionNextStatus, OccupancyActionNextStatus, TaxFinanceActionNextStatus
    <3>3. PlanHolds(r)'
      BY <3>1, <3>2, <2>1 DEF PlanHolds, At
    <3> QED BY <3>1, <3>3, <2>1, <1>still, <1>filed, <1>enough
  <2> QED BY <2>2, <2>3
<1>3. CASE Advance(r)
  <2>1. req'[r].step = "evaluate"
    BY <1>3, <1>req DEF Advance, Idle
  <2> QED BY <2>1, <1>3, <1>aside DEF Advance, At
<1>4. CASE TouchNode(r)
  <2>1. req'[r].step = "evaluate"
    BY <1>4, <1>req DEF TouchNode, Request
  <2> QED BY <2>1, <1>4, <1>aside DEF TouchNode, At
<1>5. CASE WriteRow(r)
  <2>1. req'[r].step = "evaluate" /\ req[r].step = "mark" /\ UNCHANGED <<figures, filed>>
    BY <1>5, <1>req, BegunRequest DEF WriteRow, At, Steps
  <2>2. /\ rows[req[r].row].status \notin {"APPROVED", "SUPERSEDED"}
        /\ req[r].row \in DOMAIN rows /\ req[r].next # "SUPERSEDED"
    BY <2>1, <1>5, <1>inv, <1>req, RowWrites DEF PlanHolds, At, Request
  <2>3. \A f : Matching(f)' = Matching(f)
    BY <2>2, <1>5, RowWrites DEF Matching
  <2>4. Queue # {}
    BY <2>2, OpenIsQueued
  <2>5. OneMatch'
    BY <2>3, <1>inv DEF OneMatch
  <2>6. WorkFiled => WorkFiled'
    BY <2>1, <2>3, <2>4, <1>kind DEF WorkFiled, NeedsRow, BandOf
  <2>7. PlanHolds(r)'
    BY <2>1 DEF PlanHolds, At
  <2> QED BY <2>1, <2>5, <2>6, <2>7, <1>filed, <1>enough
<1>6. CASE Evaluate(r)
  <2>1. PICK verdict \in GateVerdicts(figures) :
          req' = [req EXCEPT ![r].step = "supersede", ![r].judged = figures,
                             ![r].stale = PlanStale(figures), ![r].create = PlanCreate(figures),
                             ![r].verdict = verdict]
    BY <1>6 DEF Evaluate
  <2>2. /\ req'[r].step = "supersede" /\ req'[r].judged = figures
        /\ req'[r].stale = PlanStale(figures) /\ req'[r].create = PlanCreate(figures)
    BY <2>1, <1>req DEF Request
  <2>3. UNCHANGED <<kind, rows, figures>>
    BY <1>6 DEF Evaluate
  <2>4. /\ PlanStale(figures) \subseteq Queue
        /\ PlanCreate(figures) => Matching(figures) = {}
    BY DEF PlanStale, PlanCreate
  <2>5. /\ Queue' = Queue /\ Matching(figures)' = Matching(figures)
        /\ PlanStale(figures)' = PlanStale(figures) /\ PlanCreate(figures)' = PlanCreate(figures)
    BY <2>3 DEF Queue, Matching, PlanStale, PlanCreate, BandOf
  <2>7. PlanHolds(r)'
    BY <2>2, <2>3, <2>4, <2>5 DEF PlanHolds, At, Matching
  <2> QED BY <2>2, <2>3, <2>7, <1>still, <1>enough
<1>7. CASE Supersede(r)
  <2>1. /\ req[r].step = "supersede" /\ req'[r].step = "create" /\ UNCHANGED <<figures, filed>>
        /\ req'[r].create = req[r].create /\ req'[r].judged = req[r].judged
    BY <1>7, <1>req DEF Supersede, At, Request
  <2>2. /\ req[r].create => Matching(req[r].judged) = {}
        /\ filed => /\ req[r].judged = figures
                    /\ req[r].stale = PlanStale(figures)
                    /\ req[r].create = PlanCreate(figures)
    BY <2>1, <1>inv DEF PlanHolds, At
  <2>3. \A f : Matching(f)' \subseteq Matching(f)
    BY <1>7, RowWrites DEF Matching
  <2>4. OneMatch'
    BY <2>3, <1>inv DEF OneMatch
  <2>5. ASSUME filed, ~PlanCreate(figures) PROVE WorkFiled'
    <3>1. CASE NeedsRow(figures)
      <4>1. PlanStale(figures) = {} /\ Matching(figures) # {}
        BY <3>1, <2>5 DEF PlanStale, PlanCreate, NeedsRow
      <4>2. Matching(figures)' = Matching(figures)
        BY <4>1, <2>1, <2>2, <2>5, <1>7, RowWrites DEF Matching
      <4> QED BY <3>1, <4>1, <4>2, <2>1, <1>kind DEF WorkFiled, NeedsRow, BandOf
    <3>2. CASE ~NeedsRow(figures)
      <4>1. req[r].stale = Queue
        BY <3>2, <2>2, <2>5 DEF PlanStale, NeedsRow
      <4>2. Queue' = {}
        BY <4>1, <1>7, RowWrites DEF Queue, QueueStatus
      <4> QED BY <3>2, <4>2, <2>1, <1>kind DEF WorkFiled, NeedsRow, BandOf
    <3> QED BY <3>1, <3>2
  <2>6. PlanCreate(figures) => NeedsRow(figures)'
    BY <2>1, <1>kind DEF PlanCreate, NeedsRow, BandOf
  <2>7. req'[r].create => Matching(req[r].judged)' = {}
    BY <2>1, <2>2, <2>3 DEF Matching
  <2>8. PlanHolds(r)'
    BY <2>1, <2>2, <2>5, <2>6, <2>7 DEF PlanHolds, At
  <2> QED BY <2>1, <2>4, <2>8, <1>enough
<1>8. CASE FileRow(r)
  <2>1. req[r].step = "create" /\ req'[r].step = "status" /\ UNCHANGED <<figures, filed>>
    BY <1>8, <1>req DEF FileRow, At, Request
  <2>2. PlanHolds(r)'
    BY <2>1 DEF PlanHolds, At
  <2>3. /\ req[r].create => Matching(req[r].judged) = {}
        /\ filed => /\ req[r].judged = figures
                    /\ req[r].create => NeedsRow(figures)
                    /\ ~req[r].create => WorkFiled
    BY <2>1, <1>inv DEF PlanHolds, At
  <2>4. CASE ~req[r].create
    <3>1. UNCHANGED rows
      BY <2>4, <1>8 DEF FileRow
    <3> QED BY <3>1, <2>1, <2>2, <2>3, <2>4, <1>still, <1>enough
  <2>5. CASE req[r].create
    <3> DEFINE n == Len(rows) + 1
               f0 == req[r].judged
    <3>1. /\ DOMAIN rows' = 1..n /\ rows'[n] = NewRow(f0)
          /\ \A i \in DOMAIN rows : rows'[i] = rows[i]
      BY <2>5, <1>8, RowWrites
    <3>2. NewRow(f0).fp = f0 /\ NewRow(f0).status # "SUPERSEDED"
      BY DEF NewRow
    <3>3. \A f : Matching(f)' = IF f = f0 THEN Matching(f) \cup {n} ELSE Matching(f)
      <4> HIDE DEF f0
      <4> QED BY <3>1, <3>2, <1>rows DEF Matching
    <3>4. OneMatch'
      BY <3>3, <2>3, <2>5, <1>inv DEF OneMatch
    <3>5. filed => WorkFiled'
      <4>1. ASSUME filed PROVE n \in Matching(figures)'
        BY <4>1, <3>3, <2>1, <2>3, <2>5 DEF Matching
      <4> QED BY <4>1, <2>1, <2>3, <2>5, <1>kind DEF WorkFiled, NeedsRow, BandOf
    <3> QED BY <3>4, <3>5, <2>1, <2>2, <1>enough
  <2> QED BY <2>4, <2>5
<1>9. CASE WriteStatus(r)
  <2>1. req'[r].step = "idle"
    BY <1>9, <1>req, IdleRequest DEF WriteStatus
  <2> QED BY <2>1, <1>9, <1>aside DEF WriteStatus, At
<1> QED
  BY <1>1, <1>2, <1>3, <1>4, <1>5, <1>6, <1>7, <1>8, <1>9 DEF Moves, Submit, Handle

(* Figures that move unasked leave rows and requests alone; the rows wait  *)
(* to be synchronised.                                                     *)
LEMMA DriftInv ==
  ASSUME IInv, Drifts
  PROVE  IInv'
<1>1. /\ UNCHANGED <<kind, rows, status, req, approved, overlaps>>
      /\ filed' = FALSE
  BY DEF Drifts, FiguresMove, SetFigures
<1>2. TypeOK'
  BY DriftTyped DEF IInv
<1>3. DeskInv'
  BY <1>1 DEF IInv, DeskInv, ApprovedByDesk, PassesOnApproved, Passable, RedNeverReleased,
     NoDeskAtRed, BandOf, At
<1>4. AloneInv'
  <2>1. \A f : Matching(f)' = Matching(f) /\ Queue' = Queue
    BY <1>1 DEF Matching, Queue
  <2>2. \A r \in Requests : PlanHolds(r) => PlanHolds(r)'
    BY <1>1, <2>1 DEF PlanHolds, At, Matching
  <2> QED BY <1>1, <2>1, <2>2 DEF IInv, AloneInv, Alone, OneMatch, At
<1> QED
  BY <1>2, <1>3, <1>4 DEF IInv

LEMMA InitInv == Init => IInv
<1> SUFFICES ASSUME Init PROVE IInv
  OBVIOUS
<1>1. DOMAIN rows = {} /\ (\A r \in Requests : req[r].step = "idle") /\ filed = FALSE
  BY IdleRequest DEF Init
<1>2. DeskInv
  BY <1>1 DEF DeskInv, ApprovedByDesk, PassesOnApproved, RedNeverReleased, NoDeskAtRed, At, PlanSteps
<1>3. AloneInv
  <2>1. OneMatch
    BY <1>1 DEF OneMatch, Matching
  <2> QED BY <2>1, <1>1 DEF AloneInv, Alone, PlanHolds, At
<1> QED
  BY <1>2, <1>3, InitTyped DEF IInv

LEMMA StepInv == IInv /\ [Next]_vars => IInv'
<1>1. ASSUME IInv, NEW r \in Requests, Moves(r) PROVE IInv'
  BY <1>1, StepTyped, StepDesk, StepAlone DEF IInv
<1>2. ASSUME IInv, UNCHANGED vars PROVE IInv'
  <2>1. UNCHANGED <<kind, figures, rows, status, req, changes, approved, filed, overlaps>>
    BY <1>2 DEF vars
  <2>2. TypeOK'
    BY <1>2, <2>1 DEF IInv, TypeOK, At
  <2>3. DeskInv'
    BY <1>2, <2>1 DEF IInv, DeskInv, ApprovedByDesk, PassesOnApproved, Passable, RedNeverReleased,
       NoDeskAtRed, BandOf, At
  <2>4. AloneInv'
    <3>1. \A f : Matching(f)' = Matching(f)
      BY <2>1 DEF Matching
    <3>2. /\ Queue' = Queue /\ PlanStale(figures)' = PlanStale(figures)
          /\ PlanCreate(figures)' = PlanCreate(figures) /\ NeedsRow(figures)' = NeedsRow(figures)
          /\ WorkFiled' = WorkFiled
      BY <2>1 DEF Queue, PlanStale, PlanCreate, NeedsRow, WorkFiled, BandOf, Matching
    <3>3. \A r \in Requests : PlanHolds(r) => PlanHolds(r)'
      BY <2>1, <3>1, <3>2 DEF PlanHolds, At, Matching, NeedsRow, BandOf
    <3> QED BY <1>2, <2>1, <3>1, <3>2, <3>3 DEF IInv, AloneInv, Alone, OneMatch, At
  <2> QED BY <2>2, <2>3, <2>4 DEF IInv
<1> QED
  BY <1>1, <1>2, DriftInv, NextMoves

(* The inductive invariant holds in every reachable state.                 *)
THEOREM Invariance == Spec => []IInv
BY InitInv, StepInv, PTL DEF Spec

(* The rows, the node and the requests stay well formed.                   *)
THEOREM TypeCorrect == Spec => []TypeOK
<1>1. IInv => TypeOK
  BY DEF IInv
<1> QED
  BY <1>1, Invariance, PTL

(* However requests overlap, a node passes only on figures that need no    *)
(* review, or whose own row a desk has approved.                           *)
THEOREM PassNeedsOwnApproval == Spec => PassNeedsApproval
<1>1. ASSUME IInv, NEW r \in Requests, Moves(r), status # "PASSED", status' = "PASSED"
      PROVE  /\ At(r, "status")
             /\ req[r].judged \in Figures
             /\ BandOf(req[r].judged) = "FREE" \/ req[r].judged \in approved
  <2>1. WriteStatus(r)
    BY <1>1 DEF Moves, Submit, Handle, SaveForm, ReadRow, Advance, TouchNode, WriteRow, Evaluate,
       Supersede, FileRow
  <2>2. req[r].verdict = "PASS"
    BY <2>1, <1>1 DEF WriteStatus, NodeStatusOf
  <2>3. At(r, "status") /\ req[r].step \in PlanSteps
    BY <2>1 DEF WriteStatus, At, PlanSteps
  <2>4. req[r].judged \in Figures
    BY <2>3, <1>1 DEF IInv, TypeOK
  <2> QED
    BY <2>2, <2>3, <2>4, <1>1 DEF IInv, DeskInv, PassesOnApproved, Passable
<1>2. Drifts => status' = status
  BY DEF Drifts, FiguresMove
<1>3. IInv /\ [Next]_vars =>
        [(status # "PASSED" /\ status' = "PASSED") =>
           \E r \in Requests :
             /\ At(r, "status")
             /\ req[r].judged \in Figures
             /\ BandOf(req[r].judged) = "FREE" \/ req[r].judged \in approved]_vars
  BY <1>1, <1>2, NextMoves
<1> QED
  BY <1>3, Invariance, PTL DEF Spec, PassNeedsApproval

(* Handled one after the other, requests never take back an approval and   *)
(* never bring a superseded row back.                                      *)
THEOREM EndedRowStays == Spec => EndedReviewStays
<1>1. ASSUME IInv, NEW r \in Requests, Moves(r), overlaps = 0,
             NEW i \in DOMAIN rows, rows[i].status \in {"APPROVED", "SUPERSEDED"}
      PROVE  rows'[i].status = rows[i].status
  <2> USE <1>1
  <2>1. TypeOK /\ PlanHolds(r)
    BY DEF IInv, AloneInv
  <2>2. CASE WriteRow(r)
    <3>1. i # req[r].row
      BY <2>1, <2>2 DEF WriteRow, PlanHolds
    <3> QED BY <3>1, <2>1, <2>2, RowWrites
  <2>3. CASE Supersede(r)
    <3>1. i \notin req[r].stale
      BY <2>1, <2>3 DEF Supersede, PlanHolds, Queue, QueueStatus
    <3> QED BY <3>1, <2>1, <2>3, RowWrites
  <2>4. CASE FileRow(r)
    <3>1. CASE req[r].create
      BY <3>1, <2>1, <2>4, RowWrites
    <3>2. CASE ~req[r].create
      BY <3>2, <2>4 DEF FileRow
    <3> QED BY <3>1, <3>2
  <2>5. CASE UNCHANGED rows
    BY <2>5
  <2> QED
    BY <2>2, <2>3, <2>4, <2>5 DEF Moves, Submit, Handle, SaveForm, ReadRow, Advance, TouchNode,
       Evaluate, WriteStatus
<1>2. Drifts => UNCHANGED rows
  BY DEF Drifts, FiguresMove
<1>3. IInv /\ [Next]_vars =>
        [overlaps = 0 => \A i \in DOMAIN rows :
           rows[i].status \in {"APPROVED", "SUPERSEDED"} => rows'[i].status = rows[i].status]_vars
  BY <1>1, <1>2, NextMoves
<1> QED
  BY <1>3, Invariance, PTL DEF Spec, EndedReviewStays

(* However requests overlap, no desk ever approves a red line; handled one *)
(* after the other, they leave exactly one row that answers for figures    *)
(* that need a review, and nothing in the queue for the others.            *)
THEOREM QueueStaysRight == Spec => []QueueIsRight
<1>1. ASSUME IInv, Quiet, filed, overlaps = 0
      PROVE  IF BandOf(figures) \in {"REVIEW", "RED"} THEN Cardinality(Matching(figures)) = 1
             ELSE Queue = {}
  <2>1. WorkFiled /\ OneMatch /\ figures \in Figures
    BY <1>1 DEF IInv, AloneInv, TypeOK, Quiet, At
  <2>2. ASSUME NeedsRow(figures) PROVE Cardinality(Matching(figures)) = 1
    <3>1. PICK i \in Matching(figures) : TRUE
      BY <2>1, <2>2 DEF WorkFiled
    <3>2. Matching(figures) = {i}
      BY <3>1, <2>1 DEF OneMatch
    <3> QED BY <3>2, FS_Singleton
  <2> QED BY <2>1, <2>2 DEF WorkFiled, NeedsRow
<1>2. IInv => QueueIsRight
  BY <1>1 DEF IInv, DeskInv, QueueIsRight, ReviewFiled
<1> QED
  BY <1>2, Invariance, PTL
=============================================================================
