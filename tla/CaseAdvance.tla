----------------------------- MODULE CaseAdvance ----------------------------
(***************************************************************************)
(* The front half of one export case: quote N2, sales contract N3, change  *)
(* orders N4, procurement N5.  advance() moves the case pointer through    *)
(* the guard and the gates; the review desks, the screenings, the forms    *)
(* and the change orders write the same rows.  One step is one database    *)
(* write, with the reads just before it; no handler runs in a transaction. *)
(***************************************************************************)
EXTENDS Pipeline

CONSTANTS
  Requests,    \* slots for HTTP requests in flight; one slot means no overlap
  Desks,       \* the handlers besides advance() that write the case pointer
  FormNodes,   \* the nodes whose forms are saved
  ChangeIds    \* the change orders the case can get

CaseNodes == {"N2", "N3", "N4", "N5"}
ReviewNodes == {"N3", "N4", "N5"}
ScreenedNodes == {"N3", "N5"}
DeskNames == {"hit", "review", "supplier"}
Verdicts == {"PASS", "REVIEW", "HARD_BLOCK"}

ASSUME CaseAssumption ==
  /\ Desks \subseteq DeskNames
  /\ FormNodes \subseteq CaseNodes

VARIABLES
  currentNode,  \* tradeCase.currentNode
  caseStatus,   \* tradeCase.status
  node,         \* CaseNode rows N2..N5: their status
  queue,        \* the nodes with a review row the desk can act on
  approved,     \* the nodes with an APPROVED review row
  hits,         \* the nodes with a screening hit the desk can dispose of
  raised,       \* change orders created
  pending,      \* change orders that are not APPLIED
  req,          \* the requests in flight and what each has read
  deskMoved,    \* history: has a handler besides advance() moved the pointer
  passed        \* history: the nodes advance() has passed before that

vars == <<currentNode, caseStatus, node, queue, approved, hits, raised, pending, req,
          deskMoved, passed>>
caseVars == <<currentNode, caseStatus, deskMoved>>
deskVars == <<queue, approved, hits>>
changeVars == <<raised, pending>>

Steps == {"idle", "gate", "refuse", "refuseCase", "pass", "passCase",
          "refresh", "applyStatus", "reeval", "deskNode", "deskCase",
          "screenCase", "touch", "ack", "apply"}
AdvanceSteps == {"gate", "refuse", "refuseCase", "pass", "passCase"}

(* node is the node the handler works on, seen the pointer as it read it,  *)
(* verdict the decision of the gate, desk the review desk it is, and       *)
(* change the change order it was called for ({}: none).                   *)
Idle == [step |-> "idle", node |-> "N2", seen |-> "N2", verdict |-> "PASS",
         desk |-> "review", change |-> {}]

Goto(r, step) == req' = [req EXCEPT ![r].step = step]
Finish(r) == req' = [req EXCEPT ![r] = Idle]
At(r, step) == req[r].step = step
Decided(r, step, verdict) == req' = [req EXCEPT ![r].step = step, ![r].verdict = verdict]

(* create() opens the case on the quote and touches N2.                    *)
Init ==
  /\ currentNode = "N2"
  /\ caseStatus = "DRAFT"
  /\ node = [n \in CaseNodes |-> IF n = "N2" THEN "IN_PROGRESS" ELSE "NOT_STARTED"]
  /\ queue = {} /\ approved = {} /\ hits = {}
  /\ raised = {} /\ pending = {}
  /\ req = [r \in Requests |-> Idle]
  /\ deskMoved = FALSE
  /\ passed = {}

(***************************************************************************)
(* The gates, as far as this module tells their inputs apart: the forms,   *)
(* screenings and amounts they read are the environment's, the pending     *)
(* change orders are not.                                                  *)
(***************************************************************************)
GateVerdicts(n) ==
  CASE n = "N2" -> {"PASS", "HARD_BLOCK"}
    [] n = "N4" /\ raised = {} -> {"PASS"}
    [] n \in {"N4", "N5"} /\ pending # {} -> {"HARD_BLOCK"}
    [] n = "N1" -> {"PASS"}
    [] OTHER -> Verdicts

(* evaluateAndPersist creates the review the amounts ask for, which a      *)
(* refusal for another reason may come with, and supersedes those they no  *)
(* longer ask for.  A gate that passes on an approved review leaves the    *)
(* others in the queue.                                                    *)
QueueAfter(n, verdict) ==
  {queue \ {n}} \cup (IF n \in ReviewNodes /\ verdict # "PASS" THEN {queue \cup {n}} ELSE {})
                 \cup (IF n \in approved THEN {queue} ELSE {})

(* Variant: saving a form reopens a passed node.                           *)
TouchedAlways(status) == "IN_PROGRESS"

(* touchNode never takes a PASSED node back.                               *)
Touched(status) == IF status = "PASSED" THEN "PASSED" ELSE "IN_PROGRESS"

(***************************************************************************)
(* advance(code) for N2..N5.                                               *)
(***************************************************************************)
Advance(r, n) ==
  /\ At(r, "idle")
  /\ ResolveAdvance(currentNode, n, node[n]) = "allow"
  /\ req' = [req EXCEPT ![r] = [Idle EXCEPT !.step = "gate", !.node = n, !.seen = currentNode]]
  /\ UNCHANGED <<caseVars, node, deskVars, changeVars, passed>>

Gate(r) ==
  LET n == req[r].node
  IN /\ At(r, "gate")
     /\ \E verdict \in GateVerdicts(n) :
          /\ queue' \in QueueAfter(n, verdict)
          /\ Decided(r, IF verdict = "PASS" THEN "pass" ELSE "refuse", verdict)
     /\ UNCHANGED <<caseVars, node, approved, hits, changeVars, passed>>

Refuse(r) ==
  /\ At(r, "refuse")
  /\ node' = [node EXCEPT ![req[r].node] =
                IF req[r].verdict = "REVIEW" THEN "REVIEW" ELSE "BLOCKED"]
  /\ Goto(r, "refuseCase")
  /\ UNCHANGED <<caseVars, deskVars, changeVars, passed>>

RefuseCase(r) ==
  /\ At(r, "refuseCase")
  /\ currentNode' = LaterNode(req[r].seen, req[r].node)
  /\ caseStatus' = IF req[r].verdict = "HARD_BLOCK" THEN "BLOCKED" ELSE "IN_PROGRESS"
  /\ Finish(r)
  /\ UNCHANGED <<node, deskVars, changeVars, deskMoved, passed>>

Pass(r) ==
  /\ At(r, "pass")
  /\ node' = [node EXCEPT ![req[r].node] = "PASSED"]
  /\ passed' = IF deskMoved THEN passed ELSE passed \cup {req[r].node}
  /\ Goto(r, "passCase")
  /\ UNCHANGED <<caseVars, deskVars, changeVars>>

(* Variant: a passed node keeps the pointer.                               *)
PassCaseStaying(r) ==
  /\ At(r, "passCase")
  /\ currentNode' = req[r].seen
  /\ caseStatus' = "IN_PROGRESS"
  /\ Finish(r)
  /\ UNCHANGED <<node, deskVars, changeVars, deskMoved, passed>>

(* The next node is chosen from a fresh snapshot, the pointer from the     *)
(* case as it was read at the start.                                       *)
PassCase(r) ==
  /\ At(r, "passCase")
  /\ currentNode' = LaterNode(req[r].seen, NextNode(req[r].node, raised # {}))
  /\ caseStatus' = "IN_PROGRESS"
  /\ Finish(r)
  /\ UNCHANGED <<node, deskVars, changeVars, deskMoved, passed>>

(***************************************************************************)
(* The forms of N2..N5.  Those of N3..N5 then re-run the gate for its      *)
(* review rows and write its status on a node that is not PASSED.          *)
(***************************************************************************)
SaveForm(r, n) ==
  /\ At(r, "idle")
  /\ node' = [node EXCEPT ![n] = Touched(@)]
  /\ req' = [req EXCEPT ![r] = IF n \in ReviewNodes
                               THEN [Idle EXCEPT !.step = "refresh", !.node = n] ELSE Idle]
  /\ UNCHANGED <<caseVars, deskVars, changeVars, passed>>

Refresh(r) ==
  LET n == req[r].node
  IN /\ At(r, "refresh")
     /\ \E verdict \in GateVerdicts(n) :
          /\ queue' \in QueueAfter(n, verdict)
          /\ Decided(r, "applyStatus", verdict)
     /\ UNCHANGED <<caseVars, node, approved, hits, changeVars, passed>>

(* applyOccupancyNodeStatus and applyTaxFinanceNodeStatus: a result that   *)
(* raises neither flag, which a HARD_BLOCK for other reasons may be,       *)
(* leaves the node alone.                                                  *)
NodeStatusOf(verdict) ==
  CASE verdict = "PASS" -> "IN_PROGRESS"
    [] verdict = "REVIEW" -> "REVIEW"
    [] OTHER -> "BLOCKED"

ReviewedStatuses(status, verdict) ==
  IF status = "PASSED" THEN {"PASSED"}
  ELSE {NodeStatusOf(verdict)} \cup (IF verdict = "REVIEW" THEN {} ELSE {status})

ApplyStatus(r) ==
  /\ At(r, "applyStatus")
  /\ \E status \in ReviewedStatuses(node[req[r].node], req[r].verdict) :
       node' = [node EXCEPT ![req[r].node] = status]
  /\ Finish(r)
  /\ UNCHANGED <<caseVars, deskVars, changeVars, passed>>

(***************************************************************************)
(* The desks.  A screening hit of the customer is re-evaluated at N1, a    *)
(* node the flow has retired and evaluateNode does not know, and so is a   *)
(* request that names no hit; a review row at the node it was raised for.  *)
(***************************************************************************)
HitNode(n) == IF n = "N5" THEN "N5" ELSE "N1"

DisposeHit(r, n) ==
  /\ "hit" \in Desks
  /\ At(r, "idle")
  /\ n \in hits \/ HitNode(n) = "N1"
  /\ req' = [req EXCEPT ![r] = [Idle EXCEPT !.step = "reeval", !.node = HitNode(n), !.desk = "hit"]]
  /\ UNCHANGED <<caseVars, node, deskVars, changeVars, passed>>

(* CLAIM and REJECT leave the row in the queue, APPROVE takes it out.      *)
DecideReview(r, n) ==
  /\ "review" \in Desks
  /\ At(r, "idle")
  /\ n \in queue
  /\ \/ UNCHANGED <<queue, approved>>
     \/ queue' = queue \ {n} /\ approved' = approved \cup {n}
  /\ req' = [req EXCEPT ![r] = [Idle EXCEPT !.step = "reeval", !.node = n, !.desk = "review"]]
  /\ UNCHANGED <<caseVars, node, hits, changeVars, passed>>

Reeval(r) ==
  LET n == req[r].node
  IN /\ At(r, "reeval")
     /\ \E verdict \in GateVerdicts(n) :
          /\ queue' \in QueueAfter(n, verdict)
          /\ Decided(r, "deskNode", verdict)
     /\ UNCHANGED <<caseVars, node, approved, hits, changeVars, passed>>

(* The hit desk writes the node whatever its status; there is no N1 row.   *)
DeskNode(r) ==
  LET n == req[r].node
  IN /\ At(r, "deskNode")
     /\ \/ /\ req[r].desk = "hit"
           /\ node' = [c \in CaseNodes |-> IF c = n THEN NodeStatusOf(req[r].verdict) ELSE node[c]]
        \/ /\ req[r].desk = "review"
           /\ \E status \in ReviewedStatuses(node[n], req[r].verdict) :
                node' = [node EXCEPT ![n] = status]
     /\ Goto(r, "deskCase")
     /\ UNCHANGED <<caseVars, deskVars, changeVars, passed>>

DeskCase(r) ==
  /\ At(r, "deskCase")
  /\ currentNode' = req[r].node
  /\ caseStatus' = IF req[r].verdict = "HARD_BLOCK" THEN "BLOCKED" ELSE "IN_PROGRESS"
  /\ deskMoved' = TRUE
  /\ Finish(r)
  /\ UNCHANGED <<node, deskVars, changeVars, passed>>

(***************************************************************************)
(* screenParties for the buyer side (N3) or the supplier (N5).             *)
(***************************************************************************)
Screen(r, n) ==
  /\ n = "N5" => "supplier" \in Desks
  /\ At(r, "idle")
  /\ hits' \in {hits \ {n}, hits \cup {n}}
  /\ req' = [req EXCEPT ![r] = [Idle EXCEPT !.step = "screenCase", !.node = n]]
  /\ UNCHANGED <<caseVars, node, queue, approved, changeVars, passed>>

ScreenCase(r) ==
  /\ At(r, "screenCase")
  /\ currentNode' = IF req[r].node = "N5" THEN "N5" ELSE currentNode
  /\ caseStatus' = "IN_PROGRESS"
  /\ deskMoved' = (deskMoved \/ req[r].node = "N5")
  /\ Goto(r, "touch")
  /\ UNCHANGED <<node, deskVars, changeVars, passed>>

(* The last write of a screening and of createChange.  A screening that    *)
(* applyChange asked for goes on with the change order.                    *)
Touch(r) ==
  /\ At(r, "touch")
  /\ node' = [node EXCEPT ![req[r].node] = Touched(@)]
  /\ IF req[r].change = {} THEN Finish(r) ELSE Goto(r, "apply")
  /\ UNCHANGED <<caseVars, deskVars, changeVars, passed>>

(***************************************************************************)
(* Change orders: created pending; an internal acknowledgement or approval *)
(* writes the order back as pending whatever happened since it was read,   *)
(* the customer's leaves its status.  Which acknowledgements an order has  *)
(* is not told apart, so it may be applied at any time, and again.  One    *)
(* that renames a party screens the parties first.                         *)
(***************************************************************************)
CreateChange(r, id) ==
  /\ At(r, "idle")
  /\ id \notin raised
  /\ raised' = raised \cup {id}
  /\ pending' = pending \cup {id}
  /\ req' = [req EXCEPT ![r] = [Idle EXCEPT !.step = "touch", !.node = "N4"]]
  /\ UNCHANGED <<caseVars, node, deskVars, passed>>

AckChange(r, id) ==
  /\ At(r, "idle")
  /\ id \in pending
  /\ req' = [req EXCEPT ![r] = [Idle EXCEPT !.step = "ack", !.change = {id}]]
  /\ UNCHANGED <<caseVars, node, deskVars, changeVars, passed>>

AckWrite(r) ==
  /\ At(r, "ack")
  /\ pending' \in {pending, pending \cup req[r].change}
  /\ Finish(r)
  /\ UNCHANGED <<caseVars, node, deskVars, raised, passed>>

(* A renamed buyer touches N3 before the parties are screened.             *)
ApplyChange(r, id) ==
  /\ At(r, "idle")
  /\ id \in raised
  /\ \/ /\ req' = [req EXCEPT ![r] = [Idle EXCEPT !.step = "apply", !.change = {id}]]
        /\ UNCHANGED <<node, hits>>
     \/ /\ node' = [node EXCEPT !["N3"] = Touched(@)]
        /\ hits' \in {hits \ {"N3"}, hits \cup {"N3"}}
        /\ req' = [req EXCEPT ![r] = [Idle EXCEPT !.step = "screenCase", !.node = "N3",
                                                  !.change = {id}]]
  /\ UNCHANGED <<caseVars, queue, approved, changeVars, passed>>

ApplyWrite(r) ==
  /\ At(r, "apply")
  /\ pending' = pending \ req[r].change
  /\ Finish(r)
  /\ UNCHANGED <<caseVars, node, deskVars, raised, passed>>

Submit(r) ==
  \/ \E n \in CaseNodes : Advance(r, n)
  \/ \E n \in FormNodes : SaveForm(r, n)
  \/ \E n \in ScreenedNodes : DisposeHit(r, n) \/ Screen(r, n)
  \/ \E n \in ReviewNodes : DecideReview(r, n)
  \/ \E id \in ChangeIds : CreateChange(r, id) \/ AckChange(r, id) \/ ApplyChange(r, id)

Handle(r) ==
  \/ Gate(r) \/ Refuse(r) \/ RefuseCase(r) \/ Pass(r) \/ PassCase(r)
  \/ Refresh(r) \/ ApplyStatus(r)
  \/ Reeval(r) \/ DeskNode(r) \/ DeskCase(r)
  \/ ScreenCase(r) \/ Touch(r)
  \/ AckWrite(r) \/ ApplyWrite(r)

Next == \E r \in Requests : Submit(r) \/ Handle(r)

Spec == Init /\ [][Next]_vars

(* The same where requests come one after the other.                       *)
OneAtATime == \A r, s \in Requests : At(r, "idle") \/ At(s, "idle") \/ r = s
SerialSpec == Init /\ [][Next /\ OneAtATime']_vars
-----------------------------------------------------------------------------
(***************************************************************************)
(* Properties.                                                             *)
(***************************************************************************)

(* Every variable has its declared shape.                                  *)
TypeOK ==
  /\ currentNode \in CaseNodeCodes
  /\ caseStatus \in CaseStatus
  /\ node \in [CaseNodes -> NodeStatus]
  /\ queue \subseteq ReviewNodes
  /\ approved \subseteq ReviewNodes
  /\ hits \subseteq ScreenedNodes
  /\ raised \subseteq ChangeIds
  /\ pending \subseteq raised
  /\ deskMoved \in BOOLEAN
  /\ passed \subseteq CaseNodes
  /\ req \in [Requests -> [step : Steps, node : CaseNodeCodes, seen : CaseNodeCodes,
                           verdict : Verdicts, desk : {"hit", "review"},
                           change : SUBSET ChangeIds]]
  /\ \A r \in Requests : /\ req[r].step \in AdvanceSteps => req[r].node \in CaseNodes
                         /\ req[r].change \subseteq raised

(* The quote gate comes before the contract gate, and both before the      *)
(* procurement gate: no request passes a node whose predecessor was never  *)
(* passed.  The pointer shows no more than that, until a handler besides   *)
(* advance() moves it.                                                     *)
PointerEarned ==
  /\ currentNode \in {"N3", "N4", "N5", "N6"} => "N2" \in passed
  /\ currentNode \in {"N4", "N5", "N6"} => "N3" \in passed
  /\ currentNode = "N6" => "N5" \in passed

GatesInOrder ==
  /\ "N3" \in passed => "N2" \in passed
  /\ "N4" \in passed => "N3" \in passed
  /\ "N5" \in passed => "N3" \in passed
  /\ ~deskMoved => PointerEarned

(* The inductive strengthening of GatesInOrder: a request read the pointer *)
(* on the node it works on, when every node that one needs had been        *)
(* passed, and what is passed stays passed.                                *)
CaseNeeds == [n \in CaseNodes |->
  CASE n = "N2" -> {}
    [] n = "N3" -> {"N2"}
    [] OTHER -> {"N2", "N3"}]

RequestEarned(r) ==
  ~deskMoved =>
    /\ req[r].step \in AdvanceSteps => /\ req[r].seen = req[r].node
                                       /\ CaseNeeds[req[r].node] \subseteq passed
    /\ req[r].step = "passCase" => req[r].node \in passed

CaseInv ==
  /\ ~deskMoved => currentNode \in CaseNodes \cup {"N6"}
  /\ \A r \in Requests : RequestEarned(r)
  /\ GatesInOrder

(* The front half implements GatedPipeline for its one case.               *)
Gates == INSTANCE GatedPipeline
  WITH Units <- {"case"}, Stages <- CaseNodes, Needs <- CaseNeeds,
       done <- [u \in {"case"} |-> passed]

ImplementsGates == Gates!Spec

Quiet == \A r \in Requests : At(r, "idle")

(* Somebody can advance the case: it stands on a node of the flow, and not *)
(* on one it has already passed, which the guard would answer              *)
(* "idempotent" for ever.  What advance() alone does keeps it so.          *)
Advanceable ==
  /\ currentNode \in NODE_FLOW
  /\ currentNode \in CaseNodes => node[currentNode] # "PASSED"

NoParkedCase == (Quiet /\ ~deskMoved) => Advanceable

(* The same of the desks, which must not park a case either.               *)
DeskLeavesAdvanceable == Quiet => Advanceable

(* The case pointer never moves back in the flow, unless a desk or the     *)
(* screening of the supplier has moved it; and a passed node is never      *)
(* taken back, except by the hit desk, which writes N5 whatever its        *)
(* status.                                                                 *)
PointerForward ==
  ~deskMoved' => PipelineIndex(currentNode) <= PipelineIndex(currentNode')

HitDeskWrites == \E r \in Requests : At(r, "deskNode") /\ req[r].desk = "hit"

PassedNodeStays ==
  \A n \in CaseNodes : (node[n] = "PASSED" /\ ~HitDeskWrites) => node'[n] = "PASSED"

CaseForward == [][PointerForward /\ PassedNodeStays]_vars
=============================================================================
