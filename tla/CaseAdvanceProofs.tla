------------------------- MODULE CaseAdvanceProofs --------------------------
(***************************************************************************)
(* Proofs about CaseAdvance, for every number of overlapping requests and  *)
(* of change orders.  The type invariant holds whatever the desks do; the  *)
(* order of the gates is what the advance guard alone guarantees, in a     *)
(* case whose pointer no desk and no supplier screening has moved yet.     *)
(***************************************************************************)
EXTENDS MCCaseAdvance, TLAPS

Request == [step : Steps, node : CaseNodeCodes, seen : CaseNodeCodes, verdict : Verdicts,
            desk : {"hit", "review"}, change : SUBSET ChangeIds]

(* A request record is well formed in a state with these change orders.    *)
Shaped(q, orders) ==
  /\ q \in Request
  /\ q.step \in AdvanceSteps => q.node \in CaseNodes
  /\ q.change \subseteq orders

LEMMA IdleShaped == \A orders : Shaped(Idle, orders)
BY DEF Shaped, Idle, Request, Steps, CaseNodeCodes, NODE_FLOW, Verdicts, AdvanceSteps

(* The verdicts of a gate are verdicts.                                    *)
LEMMA VerdictType == \A n : GateVerdicts(n) \subseteq Verdicts
BY DEF GateVerdicts, Verdicts

LEMMA NextNodeType ==
  ASSUME NEW n \in CaseNodeCodes, NEW some \in BOOLEAN
  PROVE  NextNode(n, some) \in CaseNodeCodes \cup {"none"}
BY DEF NextNode, CaseNodeCodes, NODE_FLOW

LEMMA LaterNodeType ==
  ASSUME NEW a \in CaseNodeCodes, NEW b \in CaseNodeCodes \cup {"none"}
  PROVE  LaterNode(a, b) \in CaseNodeCodes
<1>1. PipelineIndex("none") = -1
  BY DEF PipelineIndex, FlowPosition
<1> QED
  BY <1>1 DEF LaterNode

(* Everything but the requests is well formed.                             *)
RowsTyped ==
  /\ currentNode \in CaseNodeCodes
  /\ caseStatus \in CaseStatus
  /\ node \in [CaseNodes -> NodeStatus]
  /\ queue \subseteq ReviewNodes
  /\ approved \subseteq ReviewNodes
  /\ hits \subseteq ScreenedNodes
  /\ raised \subseteq ChangeIds
  /\ pending \subseteq raised
  /\ deskMoved \in BOOLEAN
  /\ passed \subseteq CaseNodes

LEMMA TypeParts ==
  /\ TypeOK <=> /\ RowsTyped
                /\ req \in [Requests -> Request]
                /\ \A r \in Requests : Shaped(req[r], raised)
  /\ TypeOK' <=> /\ RowsTyped'
                 /\ req' \in [Requests -> Request]
                 /\ \A r \in Requests : Shaped(req'[r], raised')
BY DEF TypeOK, RowsTyped, Shaped, Request

(* One request moved on, the others as they were.                          *)
LEMMA OneRequestShaped ==
  ASSUME TypeOK, raised \subseteq raised', NEW r \in Requests, NEW q,
         req' = [req EXCEPT ![r] = q], Shaped(q, raised')
  PROVE  /\ req' \in [Requests -> Request]
         /\ \A x \in Requests : Shaped(req'[x], raised')
BY TypeParts DEF Shaped

LEMMA InitTyped == Init => TypeOK
<1> SUFFICES ASSUME Init PROVE TypeOK
  OBVIOUS
<1>1. RowsTyped
  BY DEF Init, RowsTyped, CaseNodeCodes, NODE_FLOW, CaseStatus, NodeStatus, ReviewNodes,
     ScreenedNodes
<1>2. req \in [Requests -> Request] /\ \A r \in Requests : Shaped(req[r], raised)
  BY IdleShaped DEF Init, Shaped
<1> QED
  BY <1>1, <1>2, TypeParts

LEMMA StepTyped == TypeOK /\ [Next]_vars => TypeOK'
<1> SUFFICES ASSUME TypeOK, [Next]_vars PROVE TypeOK'
  OBVIOUS
<1> USE DEF caseVars, deskVars, changeVars
<1>rows. /\ RowsTyped
         /\ \A r \in Requests : Shaped(req[r], raised)
  BY TypeParts
<1>moved. ASSUME NEW r \in Requests, NEW q, req' = [req EXCEPT ![r] = q], Shaped(q, raised'),
                 raised \subseteq raised', RowsTyped'
          PROVE  TypeOK'
  BY <1>moved, OneRequestShaped, TypeParts
<1>fin. ASSUME NEW r \in Requests, Finish(r), UNCHANGED raised, RowsTyped' PROVE TypeOK'
  BY <1>fin, <1>moved, IdleShaped DEF Finish
<1>goto. ASSUME NEW r \in Requests, NEW step \in Steps, NEW verdict \in Verdicts,
                req' = [req EXCEPT ![r] = [req[r] EXCEPT !.step = step, !.verdict = verdict]],
                req[r].node \in CaseNodes \/ step \notin AdvanceSteps, UNCHANGED raised, RowsTyped'
         PROVE  TypeOK'
  <2>1. Shaped([req[r] EXCEPT !.step = step, !.verdict = verdict], raised')
    BY <1>goto, <1>rows DEF Shaped, Request
  <2> QED BY <2>1, <1>goto, <1>moved
<1>step. ASSUME NEW r \in Requests, NEW step \in Steps, Goto(r, step),
                req[r].node \in CaseNodes \/ step \notin AdvanceSteps, UNCHANGED raised, RowsTyped'
         PROVE  TypeOK'
  <2>1. Shaped([req[r] EXCEPT !.step = step], raised')
    BY <1>step, <1>rows DEF Shaped, Request
  <2>2. req' = [req EXCEPT ![r] = [req[r] EXCEPT !.step = step]]
    BY <1>step, TypeParts DEF Goto
  <2> QED BY <2>1, <2>2, <1>step, <1>moved
<1>decided. ASSUME NEW r \in Requests, NEW step \in Steps, NEW verdict \in Verdicts,
                   Decided(r, step, verdict),
                   req[r].node \in CaseNodes \/ step \notin AdvanceSteps, UNCHANGED raised, RowsTyped'
            PROVE  TypeOK'
  <2>1. req' = [req EXCEPT ![r] = [req[r] EXCEPT !.step = step, !.verdict = verdict]]
    BY <1>decided, TypeParts DEF Decided
  <2> QED BY <2>1, <1>decided, <1>goto
<1>node. ASSUME NEW n, NEW status,
                node' = [node EXCEPT ![n] = status], n \in CaseNodes => status \in NodeStatus
         PROVE  node' \in [CaseNodes -> NodeStatus]
  BY <1>node, <1>rows DEF RowsTyped
<1>touched. \A s \in NodeStatus : Touched(s) \in NodeStatus
  BY DEF Touched, NodeStatus
<1>reviewed. \A s \in NodeStatus, v \in Verdicts : ReviewedStatuses(s, v) \subseteq NodeStatus
  BY DEF ReviewedStatuses, NodeStatusOf, NodeStatus, Verdicts
<1>queue. \A n, v : QueueAfter(n, v) \subseteq SUBSET ReviewNodes
  BY <1>rows DEF QueueAfter, RowsTyped
<1>statuses. /\ {"DRAFT", "IN_PROGRESS", "BLOCKED"} \subseteq CaseStatus
              /\ {"IN_PROGRESS", "REVIEW", "BLOCKED", "PASSED"} \subseteq NodeStatus
  BY DEF CaseStatus, NodeStatus
<1>steps. Steps = {"idle", "gate", "refuse", "refuseCase", "pass", "passCase", "refresh",
                   "applyStatus", "reeval", "deskNode", "deskCase", "screenCase", "touch",
                   "ack", "apply"}
  BY DEF Steps
<1>codes. CaseNodes \subseteq CaseNodeCodes /\ {"N1", "N5"} \subseteq CaseNodeCodes
  BY DEF CaseNodes, CaseNodeCodes, NODE_FLOW
<1>idle. Idle \in Request /\ Idle.change = {} /\ Idle.step = "idle"
  BY IdleShaped DEF Shaped, Idle

<1>1. ASSUME NEW r \in Requests, NEW n \in CaseNodes, Advance(r, n) PROVE TypeOK'
  <2> DEFINE q == [Idle EXCEPT !.step = "gate", !.node = n, !.seen = currentNode]
  <2>1. q \in Request /\ q.node = n /\ q.change = {}
    BY <1>rows, <1>steps, <1>codes, <1>idle DEF Request, RowsTyped
  <2>2. Shaped(q, raised')
    BY <2>1 DEF Shaped
  <2> QED BY <2>2, <1>1, <1>rows, <1>moved DEF Advance, RowsTyped
<1>2. ASSUME NEW r \in Requests, Gate(r) PROVE TypeOK'
  <2>1. PICK v \in GateVerdicts(req[r].node) :
          /\ queue' \in QueueAfter(req[r].node, v)
          /\ Decided(r, IF v = "PASS" THEN "pass" ELSE "refuse", v)
    BY <1>2 DEF Gate
  <2>2. v \in Verdicts /\ queue' \subseteq ReviewNodes
    BY <2>1, <1>queue, VerdictType
  <2>3. req[r].node \in CaseNodes
    BY <1>2, <1>rows DEF Gate, At, Shaped, AdvanceSteps
  <2>4. RowsTyped' /\ UNCHANGED raised
    BY <2>2, <1>2, <1>rows DEF Gate, RowsTyped
  <2>5. (IF v = "PASS" THEN "pass" ELSE "refuse") \in Steps
    BY <1>steps
  <2> QED BY <2>1, <2>2, <2>3, <2>4, <2>5, <1>decided
<1>3. ASSUME NEW r \in Requests, Refuse(r) PROVE TypeOK'
  <2>1. node' \in [CaseNodes -> NodeStatus]
    BY <1>3, <1>node, <1>statuses DEF Refuse
  <2>2. req[r].node \in CaseNodes
    BY <1>3, <1>rows DEF Refuse, At, Shaped, AdvanceSteps
  <2>3. RowsTyped' /\ UNCHANGED raised
    BY <2>1, <1>3, <1>rows DEF Refuse, RowsTyped
  <2> QED BY <2>2, <2>3, <1>3, <1>step, <1>steps DEF Refuse
<1>4. ASSUME NEW r \in Requests, RefuseCase(r) PROVE TypeOK'
  <2>1. currentNode' \in CaseNodeCodes
    BY <1>4, <1>rows, LaterNodeType DEF RefuseCase, Shaped, Request
  <2>2. RowsTyped' /\ UNCHANGED raised
    BY <2>1, <1>4, <1>rows, <1>statuses DEF RefuseCase, RowsTyped
  <2> QED BY <2>2, <1>4, <1>fin DEF RefuseCase
<1>5. ASSUME NEW r \in Requests, Pass(r) PROVE TypeOK'
  <2>1. node' \in [CaseNodes -> NodeStatus]
    BY <1>5, <1>node, <1>statuses DEF Pass
  <2>2. req[r].node \in CaseNodes
    BY <1>5, <1>rows DEF Pass, At, Shaped, AdvanceSteps
  <2>3. RowsTyped' /\ UNCHANGED raised
    BY <2>1, <2>2, <1>5, <1>rows DEF Pass, RowsTyped
  <2> QED BY <2>2, <2>3, <1>5, <1>step, <1>steps DEF Pass
<1>6. ASSUME NEW r \in Requests, PassCase(r) PROVE TypeOK'
  <2>1. currentNode' \in CaseNodeCodes
    BY <1>6, <1>rows, NextNodeType, LaterNodeType DEF PassCase, Shaped, Request
  <2>2. RowsTyped' /\ UNCHANGED raised
    BY <2>1, <1>6, <1>rows, <1>statuses DEF PassCase, RowsTyped
  <2> QED BY <2>2, <1>6, <1>fin DEF PassCase
<1>7. ASSUME NEW r \in Requests, NEW n \in FormNodes, SaveForm(r, n) PROVE TypeOK'
  <2> DEFINE q == IF n \in ReviewNodes THEN [Idle EXCEPT !.step = "refresh", !.node = n] ELSE Idle
  <2>1. n \in CaseNodes
    BY CaseAssumption
  <2>2. node' \in [CaseNodes -> NodeStatus]
    BY <2>1, <1>7, <1>node, <1>touched, <1>rows DEF SaveForm, RowsTyped
  <2>3. q \in Request /\ q.step \notin AdvanceSteps /\ q.change = {}
    BY <2>1, <1>steps, <1>codes, <1>idle DEF Request, AdvanceSteps
  <2>4. Shaped(q, raised')
    BY <2>3 DEF Shaped
  <2>5. RowsTyped' /\ UNCHANGED raised
    BY <2>2, <1>7, <1>rows DEF SaveForm, RowsTyped
  <2> QED BY <2>4, <2>5, <1>7, <1>moved DEF SaveForm
<1>8. ASSUME NEW r \in Requests, Refresh(r) \/ Reeval(r) PROVE TypeOK'
  <2>1. PICK v \in GateVerdicts(req[r].node), step \in {"applyStatus", "deskNode"} :
          /\ queue' \in QueueAfter(req[r].node, v)
          /\ Decided(r, step, v)
    BY <1>8 DEF Refresh, Reeval
  <2>2. v \in Verdicts /\ queue' \subseteq ReviewNodes
    BY <2>1, <1>queue, VerdictType
  <2>3. RowsTyped' /\ UNCHANGED raised
    BY <2>2, <1>8, <1>rows DEF Refresh, Reeval, RowsTyped
  <2>4. step \in Steps /\ step \notin AdvanceSteps
    BY <1>steps DEF AdvanceSteps
  <2> QED BY <2>1, <2>2, <2>3, <2>4, <1>decided
<1>9. ASSUME NEW r \in Requests, ApplyStatus(r) PROVE TypeOK'
  <2>1. PICK status \in ReviewedStatuses(node[req[r].node], req[r].verdict) :
          node' = [node EXCEPT ![req[r].node] = status]
    BY <1>9 DEF ApplyStatus
  <2>2. req[r].node \in CaseNodes => status \in NodeStatus
    BY <2>1, <1>rows, <1>reviewed DEF RowsTyped, Shaped, Request
  <2>3. RowsTyped' /\ UNCHANGED raised
    BY <2>1, <2>2, <1>node, <1>9, <1>rows DEF ApplyStatus, RowsTyped
  <2> QED BY <2>3, <1>9, <1>fin DEF ApplyStatus
<1>10. ASSUME NEW r \in Requests, NEW n \in ScreenedNodes, DisposeHit(r, n) PROVE TypeOK'
  <2> DEFINE q == [Idle EXCEPT !.step = "reeval", !.node = HitNode(n), !.desk = "hit"]
  <2>1. q \in Request /\ q.step = "reeval" /\ q.change = {}
    BY <1>steps, <1>codes, <1>idle DEF Request, HitNode
  <2>2. Shaped(q, raised')
    BY <2>1 DEF Shaped, AdvanceSteps
  <2> QED BY <2>2, <1>10, <1>rows, <1>moved DEF DisposeHit, RowsTyped
<1>11. ASSUME NEW r \in Requests, NEW n \in ReviewNodes, DecideReview(r, n) PROVE TypeOK'
  <2> DEFINE q == [Idle EXCEPT !.step = "reeval", !.node = n, !.desk = "review"]
  <2>1. q \in Request /\ q.step = "reeval" /\ q.change = {}
    BY <1>steps, <1>codes, <1>idle DEF Request, ReviewNodes, CaseNodes
  <2>2. Shaped(q, raised')
    BY <2>1 DEF Shaped, AdvanceSteps
  <2>3. RowsTyped' /\ UNCHANGED raised
    BY <1>11, <1>rows DEF DecideReview, RowsTyped
  <2> QED BY <2>2, <2>3, <1>11, <1>moved DEF DecideReview
<1>12. ASSUME NEW r \in Requests, DeskNode(r) PROVE TypeOK'
  <2> DEFINE n == req[r].node
  <2>1. req[r].verdict \in Verdicts
    BY <1>rows DEF Shaped, Request
  <2>2. node' \in [CaseNodes -> NodeStatus]
    <3>1. CASE node' = [c \in CaseNodes |-> IF c = n THEN NodeStatusOf(req[r].verdict) ELSE node[c]]
      BY <3>1, <1>rows, <1>statuses DEF RowsTyped, NodeStatusOf
    <3>2. CASE \E status \in ReviewedStatuses(node[n], req[r].verdict) : node' = [node EXCEPT ![n] = status]
      BY <3>2, <2>1, <1>rows, <1>reviewed, <1>node DEF RowsTyped
    <3> QED BY <3>1, <3>2, <1>12 DEF DeskNode
  <2>3. RowsTyped' /\ UNCHANGED raised
    BY <2>2, <1>12, <1>rows DEF DeskNode, RowsTyped
  <2>4. "deskCase" \in Steps /\ "deskCase" \notin AdvanceSteps
    BY <1>steps DEF AdvanceSteps
  <2> QED BY <2>3, <2>4, <1>12, <1>step DEF DeskNode
<1>13. ASSUME NEW r \in Requests, DeskCase(r) PROVE TypeOK'
  <2>1. RowsTyped' /\ UNCHANGED raised
    BY <1>13, <1>rows, <1>statuses DEF DeskCase, RowsTyped, Shaped, Request
  <2> QED BY <2>1, <1>13, <1>fin DEF DeskCase
<1>14. ASSUME NEW r \in Requests, NEW n \in ScreenedNodes, Screen(r, n) PROVE TypeOK'
  <2> DEFINE q == [Idle EXCEPT !.step = "screenCase", !.node = n]
  <2>1. q \in Request /\ q.step = "screenCase" /\ q.change = {}
    BY <1>steps, <1>codes, <1>idle DEF Request, ScreenedNodes, CaseNodes
  <2>2. Shaped(q, raised')
    BY <2>1 DEF Shaped, AdvanceSteps
  <2>3. RowsTyped' /\ UNCHANGED raised
    BY <1>14, <1>rows DEF Screen, RowsTyped
  <2> QED BY <2>2, <2>3, <1>14, <1>moved DEF Screen
<1>15. ASSUME NEW r \in Requests, ScreenCase(r) PROVE TypeOK'
  <2>1. RowsTyped' /\ UNCHANGED raised
    BY <1>15, <1>rows, <1>statuses, <1>codes DEF ScreenCase, RowsTyped
  <2>2. "touch" \in Steps /\ "touch" \notin AdvanceSteps
    BY <1>steps DEF AdvanceSteps
  <2> QED BY <2>1, <2>2, <1>15, <1>step DEF ScreenCase
<1>16. ASSUME NEW r \in Requests, Touch(r) PROVE TypeOK'
  <2>1. node' \in [CaseNodes -> NodeStatus]
    BY <1>16, <1>node, <1>touched, <1>rows DEF Touch, RowsTyped
  <2>2. RowsTyped' /\ UNCHANGED raised
    BY <2>1, <1>16, <1>rows DEF Touch, RowsTyped
  <2>3. "apply" \in Steps /\ "apply" \notin AdvanceSteps
    BY <1>steps DEF AdvanceSteps
  <2> QED BY <2>2, <2>3, <1>16, <1>step, <1>fin DEF Touch
<1>17. ASSUME NEW r \in Requests, NEW id \in ChangeIds, CreateChange(r, id) PROVE TypeOK'
  <2> DEFINE q == [Idle EXCEPT !.step = "touch", !.node = "N4"]
  <2>1. q \in Request /\ q.step = "touch" /\ q.change = {}
    BY <1>steps, <1>codes, <1>idle DEF Request, CaseNodes
  <2>2. Shaped(q, raised')
    BY <2>1 DEF Shaped, AdvanceSteps
  <2>3. RowsTyped' /\ raised \subseteq raised'
    BY <1>17, <1>rows DEF CreateChange, RowsTyped
  <2> QED BY <2>2, <2>3, <1>17, <1>moved DEF CreateChange
<1>18. ASSUME NEW r \in Requests, NEW id \in ChangeIds, AckChange(r, id) PROVE TypeOK'
  <2> DEFINE q == [Idle EXCEPT !.step = "ack", !.change = {id}]
  <2>1. q \in Request /\ q.step = "ack" /\ q.change = {id}
    BY <1>steps, <1>idle DEF Request
  <2>2. Shaped(q, raised')
    BY <2>1, <1>18, <1>rows DEF Shaped, AdvanceSteps, AckChange, RowsTyped
  <2>3. RowsTyped' /\ UNCHANGED raised
    BY <1>18, <1>rows DEF AckChange, RowsTyped
  <2> QED BY <2>2, <2>3, <1>18, <1>moved DEF AckChange
<1>19. ASSUME NEW r \in Requests, AckWrite(r) \/ ApplyWrite(r) PROVE TypeOK'
  <2>1. req[r].change \subseteq raised
    BY <1>rows DEF Shaped
  <2>2. RowsTyped' /\ UNCHANGED raised
    BY <2>1, <1>19, <1>rows DEF AckWrite, ApplyWrite, RowsTyped
  <2> QED BY <2>2, <1>19, <1>fin DEF AckWrite, ApplyWrite
<1>20. ASSUME NEW r \in Requests, NEW id \in ChangeIds, ApplyChange(r, id) PROVE TypeOK'
  <2> DEFINE q1 == [Idle EXCEPT !.step = "apply", !.change = {id}]
             q2 == [Idle EXCEPT !.step = "screenCase", !.node = "N3", !.change = {id}]
  <2>1. /\ q1 \in Request /\ q1.step = "apply" /\ q1.change = {id}
        /\ q2 \in Request /\ q2.step = "screenCase" /\ q2.change = {id}
    BY <1>steps, <1>codes, <1>idle DEF Request, CaseNodes
  <2>2. Shaped(q1, raised') /\ Shaped(q2, raised')
    BY <2>1, <1>20, <1>rows DEF Shaped, AdvanceSteps, ApplyChange, RowsTyped
  <2>3. node' \in [CaseNodes -> NodeStatus]
    BY <1>20, <1>node, <1>touched, <1>rows DEF ApplyChange, RowsTyped
  <2>4. hits' \subseteq ScreenedNodes
    BY <1>20, <1>rows DEF ApplyChange, RowsTyped, ScreenedNodes
  <2>5. RowsTyped' /\ UNCHANGED raised
    BY <2>3, <2>4, <1>20, <1>rows DEF ApplyChange, RowsTyped
  <2> QED BY <2>2, <2>5, <1>20, <1>moved DEF ApplyChange
<1>21. ASSUME UNCHANGED vars PROVE TypeOK'
  BY <1>21, <1>rows, TypeParts DEF vars, RowsTyped, Shaped
<1>22. ASSUME NEW r \in Requests, Submit(r) PROVE TypeOK'
  BY <1>22, <1>1, <1>7, <1>10, <1>11, <1>14, <1>17, <1>18, <1>20 DEF Submit
<1>23. ASSUME NEW r \in Requests, Handle(r) PROVE TypeOK'
  BY <1>23, <1>2, <1>3, <1>4, <1>5, <1>6, <1>8, <1>9, <1>12, <1>13, <1>15, <1>16, <1>19
  DEF Handle
<1> QED
  BY <1>21, <1>22, <1>23 DEF Next

(* What passing a node leaves behind it: where the flow goes next.         *)
LEMMA PassedOn ==
  ASSUME NEW n \in CaseNodes, NEW some \in BOOLEAN
  PROVE  LaterNode(n, NextNode(n, some)) =
           CASE n = "N2" -> "N3"
             [] n = "N3" -> IF some THEN "N4" ELSE "N5"
             [] n = "N4" -> "N5"
             [] OTHER -> "N6"
<1>1. /\ PipelineIndex("N2") = 0 /\ PipelineIndex("N3") = 2 /\ PipelineIndex("N4") = 4
      /\ PipelineIndex("N5") = 6 /\ PipelineIndex("N6") = 8
  BY DEF PipelineIndex, FlowPosition
<1>2. n \in {"N2", "N3", "N4", "N5"}
  BY DEF CaseNodes
<1> QED
  BY <1>1, <1>2 DEF NextNode, LaterNode

LEMMA HeldNode == \A n \in CaseNodes : LaterNode(n, n) = n
<1>1. \A n \in CaseNodes : PipelineIndex(n) \in Int
  BY DEF PipelineIndex, FlowPosition, CaseNodes
<1> QED
  BY <1>1 DEF LaterNode

(* What a request has earned stays earned while gates are only passed.     *)
LEMMA ClaimsKept ==
  ASSUME CaseInv, TypeOK, passed \subseteq passed', deskMoved => deskMoved',
         NEW r \in Requests, NEW q,
         req' = [req EXCEPT ![r] = q]
  PROVE  \A x \in Requests : x # r => RequestEarned(x)'
<1> SUFFICES ASSUME NEW x \in Requests, x # r PROVE RequestEarned(x)'
  OBVIOUS
<1>1. req'[x] = req[x]
  BY DEF TypeOK
<1>2. RequestEarned(x)
  BY DEF CaseInv
<1> QED
  BY <1>1, <1>2 DEF RequestEarned

LEMMA InitInv == Init => CaseInv
<1> SUFFICES ASSUME Init PROVE CaseInv
  OBVIOUS
<1>1. GatesInOrder
  BY DEF Init, GatesInOrder, PointerEarned
<1>2. \A r \in Requests : RequestEarned(r)
  BY DEF Init, RequestEarned, Idle, AdvanceSteps
<1> QED
  BY <1>1, <1>2 DEF CaseInv, Init, CaseNodes

(* The pointer, once a desk has moved it, stays so, and nothing is counted *)
(* as passed any more.                                                     *)
LEMMA DeskMovedStep ==
  ASSUME TypeOK, [Next]_vars
  PROVE  /\ deskMoved => deskMoved'
         /\ deskMoved' => passed' = passed
<1> USE DEF caseVars
<1>1. ASSUME NEW r \in Requests, Submit(r) PROVE UNCHANGED <<deskMoved, passed>>
  BY <1>1 DEF Submit, Advance, SaveForm, DisposeHit, Screen, DecideReview, CreateChange,
     AckChange, ApplyChange
<1>2. ASSUME NEW r \in Requests, Handle(r), ~DeskCase(r), ~ScreenCase(r), ~Pass(r)
      PROVE  UNCHANGED <<deskMoved, passed>>
  BY <1>2 DEF Handle, Gate, Refuse, RefuseCase, PassCase, Refresh, ApplyStatus, Reeval, DeskNode,
     Touch, AckWrite, ApplyWrite
<1>3. ASSUME NEW r \in Requests, DeskCase(r) \/ ScreenCase(r)
      PROVE  UNCHANGED passed /\ (deskMoved => deskMoved')
  BY <1>3 DEF DeskCase, ScreenCase
<1>4. ASSUME NEW r \in Requests, Pass(r)
      PROVE  UNCHANGED deskMoved /\ (deskMoved => UNCHANGED passed)
  BY <1>4 DEF Pass
<1>5. UNCHANGED vars => UNCHANGED <<deskMoved, passed>>
  BY DEF vars
<1> QED
  BY <1>1, <1>2, <1>3, <1>4, <1>5 DEF Next

LEMMA StepInv ==
  ASSUME TypeOK, CaseInv, [Next]_vars
  PROVE  CaseInv'
<1> USE DEF caseVars, deskVars, changeVars
<1>moved. CASE deskMoved'
  <2>1. passed' = passed
    BY <1>moved, DeskMovedStep
  <2> QED BY <2>1, <1>moved DEF CaseInv, GatesInOrder, RequestEarned
<1> SUFFICES ASSUME ~deskMoved, ~deskMoved' PROVE CaseInv'
  BY <1>moved, DeskMovedStep
<1>parts. /\ currentNode \in CaseNodes \cup {"N6"}
          /\ \A r \in Requests : RequestEarned(r)
          /\ GatesInOrder /\ PointerEarned
          /\ req \in [Requests -> Request]
  BY TypeParts DEF CaseInv, GatesInOrder
<1>needs. /\ CaseNeeds["N2"] = {} /\ CaseNeeds["N3"] = {"N2"}
          /\ CaseNeeds["N4"] = {"N2", "N3"} /\ CaseNeeds["N5"] = {"N2", "N3"}
  BY DEF CaseNeeds, CaseNodes
<1>kept. ASSUME NEW r \in Requests, NEW q, req' = [req EXCEPT ![r] = q],
                UNCHANGED <<currentNode, passed>>, RequestEarned(r)'
         PROVE  CaseInv'
  <2>1. \A x \in Requests : RequestEarned(x)'
    BY <1>kept, ClaimsKept
  <2> QED BY <2>1, <1>kept, <1>parts DEF CaseInv, GatesInOrder, PointerEarned
<1>harmless. ASSUME NEW r \in Requests, NEW q, req' = [req EXCEPT ![r] = q],
                    UNCHANGED <<currentNode, passed>>,
                    q.step \notin AdvanceSteps
             PROVE  CaseInv'
  <2>1. req'[r] = q
    BY <1>harmless, <1>parts
  <2>2. RequestEarned(r)'
    BY <2>1, <1>harmless DEF RequestEarned, AdvanceSteps
  <2> QED BY <2>2, <1>harmless, <1>kept
<1>goes. ASSUME NEW r \in Requests, NEW step, Goto(r, step), UNCHANGED <<currentNode, passed>>,
                step \notin AdvanceSteps
         PROVE  CaseInv'
  <2>1. req' = [req EXCEPT ![r] = [req[r] EXCEPT !.step = step]]
    BY <1>goes, <1>parts DEF Goto
  <2>2. [req[r] EXCEPT !.step = step].step = step
    BY <1>parts DEF Request
  <2> QED BY <2>1, <2>2, <1>goes, <1>harmless
<1>ends. ASSUME NEW r \in Requests, Finish(r), UNCHANGED <<currentNode, passed>> PROVE CaseInv'
  BY <1>ends, <1>harmless DEF Finish, Idle, AdvanceSteps
<1>earns. ASSUME NEW r \in Requests, req[r].step \in AdvanceSteps
          PROVE  /\ req[r].node \in CaseNodes
                 /\ req[r].seen = req[r].node
                 /\ CaseNeeds[req[r].node] \subseteq passed
  BY <1>earns, <1>parts DEF TypeOK, RequestEarned

<1>1. ASSUME NEW r \in Requests, NEW n \in CaseNodes, Advance(r, n) PROVE CaseInv'
  <2> DEFINE q == [Idle EXCEPT !.step = "gate", !.node = n, !.seen = currentNode]
  <2>1. currentNode = n
    BY <1>1 DEF Advance, ResolveAdvance
  <2>2. CaseNeeds[n] \subseteq passed
    BY <2>1, <1>parts, <1>needs DEF GatesInOrder, PointerEarned, CaseNodes
  <2>3. q.step = "gate" /\ q.node = n /\ q.seen = n
    BY <2>1 DEF Idle
  <2>4. req'[r] = q
    BY <1>1, <1>parts DEF Advance
  <2>5. RequestEarned(r)'
    BY <2>2, <2>3, <2>4, <1>1 DEF RequestEarned, Advance
  <2> QED BY <2>5, <1>1, <1>kept DEF Advance
<1>2. ASSUME NEW r \in Requests, Gate(r) PROVE CaseInv'
  <2>1. PICK v \in GateVerdicts(req[r].node) :
          Decided(r, IF v = "PASS" THEN "pass" ELSE "refuse", v)
    BY <1>2 DEF Gate
  <2> DEFINE step == IF v = "PASS" THEN "pass" ELSE "refuse"
             q == [req[r] EXCEPT !.step = step, !.verdict = v]
  <2>2. req' = [req EXCEPT ![r] = q]
    BY <2>1, <1>parts DEF Decided
  <2>3. /\ req'[r].step = step /\ req'[r].node = req[r].node /\ req'[r].seen = req[r].seen
    BY <2>2, <1>parts DEF Request
  <2>4. req[r].step \in AdvanceSteps
    BY <1>2 DEF Gate, At, AdvanceSteps
  <2>5. RequestEarned(r)'
    BY <2>3, <2>4, <1>2, <1>earns DEF RequestEarned, Gate
  <2> QED BY <2>2, <2>5, <1>2, <1>kept DEF Gate
<1>3. ASSUME NEW r \in Requests, Refuse(r) PROVE CaseInv'
  <2>1. /\ req' = [req EXCEPT ![r] = [req[r] EXCEPT !.step = "refuseCase"]]
        /\ req'[r].step = "refuseCase" /\ req'[r].node = req[r].node /\ req'[r].seen = req[r].seen
    BY <1>3, <1>parts DEF Refuse, Goto, Request
  <2>2. req[r].step \in AdvanceSteps
    BY <1>3 DEF Refuse, At, AdvanceSteps
  <2>3. RequestEarned(r)'
    BY <2>1, <2>2, <1>3, <1>earns DEF RequestEarned, Refuse
  <2> QED BY <2>1, <2>3, <1>3, <1>kept DEF Refuse
<1>4. ASSUME NEW r \in Requests, RefuseCase(r) PROVE CaseInv'
  <2> DEFINE n == req[r].node
  <2>1. n \in CaseNodes /\ req[r].seen = n /\ CaseNeeds[n] \subseteq passed
    BY <1>4, <1>earns DEF RefuseCase, At, AdvanceSteps
  <2>2. currentNode' = n /\ passed' = passed
    BY <2>1, <1>4, HeldNode DEF RefuseCase
  <2>3. GatesInOrder'
    BY <2>1, <2>2, <1>parts, <1>needs DEF GatesInOrder, PointerEarned, CaseNodes
  <2>4. \A x \in Requests : RequestEarned(x)'
    <3>1. req' = [req EXCEPT ![r] = Idle] /\ req'[r] = Idle
      BY <1>4, <1>parts DEF RefuseCase, Finish
    <3>2. RequestEarned(r)'
      BY <3>1 DEF RequestEarned, Idle, AdvanceSteps
    <3> QED BY <3>1, <3>2, <2>2, ClaimsKept
  <2> QED BY <2>1, <2>2, <2>3, <2>4 DEF CaseInv
<1>5. ASSUME NEW r \in Requests, Pass(r) PROVE CaseInv'
  <2> DEFINE n == req[r].node
  <2>1. n \in CaseNodes /\ req[r].seen = n /\ CaseNeeds[n] \subseteq passed
    BY <1>5, <1>earns DEF Pass, At, AdvanceSteps
  <2>2. currentNode' = currentNode /\ passed' = passed \cup {n}
    BY <1>5 DEF Pass
  <2>3. GatesInOrder'
    BY <2>1, <2>2, <1>parts, <1>needs DEF GatesInOrder, PointerEarned, CaseNodes
  <2>4. /\ req' = [req EXCEPT ![r] = [req[r] EXCEPT !.step = "passCase"]]
        /\ req'[r].step = "passCase" /\ req'[r].node = n /\ req'[r].seen = n
    BY <2>1, <1>5, <1>parts DEF Pass, Goto, Request
  <2>5. RequestEarned(r)'
    BY <2>1, <2>2, <2>4 DEF RequestEarned
  <2>6. \A x \in Requests : RequestEarned(x)'
    BY <2>2, <2>4, <2>5, ClaimsKept
  <2> QED BY <2>2, <2>3, <2>6, <1>parts DEF CaseInv
<1>6. ASSUME NEW r \in Requests, PassCase(r) PROVE CaseInv'
  <2> DEFINE n == req[r].node
  <2>1. n \in CaseNodes /\ req[r].seen = n /\ CaseNeeds[n] \subseteq passed
    BY <1>6, <1>earns DEF PassCase, At, AdvanceSteps
  <2>2. n \in passed
    BY <1>6, <1>parts DEF PassCase, At, RequestEarned
  <2>3. passed' = passed /\ currentNode' = LaterNode(n, NextNode(n, raised # {}))
    BY <2>1, <1>6 DEF PassCase
  <2>4. currentNode' = CASE n = "N2" -> "N3"
                         [] n = "N3" -> IF raised # {} THEN "N4" ELSE "N5"
                         [] n = "N4" -> "N5"
                         [] OTHER -> "N6"
    <3>1. (raised # {}) \in BOOLEAN
      OBVIOUS
    <3> QED BY <2>1, <2>3, <3>1, PassedOn
  <2>5. GatesInOrder' /\ currentNode' \in CaseNodes \cup {"N6"}
    BY <2>1, <2>2, <2>3, <2>4, <1>parts, <1>needs DEF GatesInOrder, PointerEarned, CaseNodes
  <2>6. \A x \in Requests : RequestEarned(x)'
    <3>1. req' = [req EXCEPT ![r] = Idle] /\ req'[r] = Idle
      BY <1>6, <1>parts DEF PassCase, Finish
    <3>2. RequestEarned(r)'
      BY <3>1 DEF RequestEarned, Idle, AdvanceSteps
    <3> QED BY <3>1, <3>2, <2>3, ClaimsKept
  <2> QED BY <2>5, <2>6 DEF CaseInv
<1>7. ASSUME NEW r \in Requests, NEW n \in FormNodes, SaveForm(r, n) PROVE CaseInv'
  <2> DEFINE q == IF n \in ReviewNodes THEN [Idle EXCEPT !.step = "refresh", !.node = n] ELSE Idle
  <2>1. q.step \in {"refresh", "idle"}
    BY DEF Idle
  <2>2. req' = [req EXCEPT ![r] = q] /\ UNCHANGED <<currentNode, passed>>
    BY <1>7 DEF SaveForm
  <2> HIDE DEF q
  <2> QED BY <2>1, <2>2, <1>harmless DEF AdvanceSteps
<1>8. ASSUME NEW r \in Requests, Refresh(r) PROVE CaseInv'
  <2>1. PICK v : Decided(r, "applyStatus", v)
    BY <1>8 DEF Refresh
  <2>2. /\ req' = [req EXCEPT ![r] = [req[r] EXCEPT !.step = "applyStatus", !.verdict = v]]
        /\ [req[r] EXCEPT !.step = "applyStatus", !.verdict = v].step = "applyStatus"
    BY <2>1, <1>parts DEF Decided, Request
  <2> QED BY <2>2, <1>8, <1>harmless DEF Refresh, AdvanceSteps
<1>9. ASSUME NEW r \in Requests, ApplyStatus(r) \/ AckWrite(r) \/ ApplyWrite(r) PROVE CaseInv'
  BY <1>9, <1>ends DEF ApplyStatus, AckWrite, ApplyWrite
<1>10. ASSUME NEW r \in Requests, NEW n, DisposeHit(r, n) \/ DecideReview(r, n) PROVE CaseInv'
  BY <1>10, <1>harmless DEF DisposeHit, DecideReview, Idle, AdvanceSteps
<1>11. ASSUME NEW r \in Requests, Reeval(r) PROVE CaseInv'
  <2>1. PICK v : Decided(r, "deskNode", v)
    BY <1>11 DEF Reeval
  <2>2. /\ req' = [req EXCEPT ![r] = [req[r] EXCEPT !.step = "deskNode", !.verdict = v]]
        /\ [req[r] EXCEPT !.step = "deskNode", !.verdict = v].step = "deskNode"
    BY <2>1, <1>parts DEF Decided, Request
  <2> QED BY <2>2, <1>11, <1>harmless DEF Reeval, AdvanceSteps
<1>12a. ASSUME NEW r \in Requests, DeskNode(r) PROVE CaseInv'
  BY <1>12a, <1>goes DEF DeskNode, AdvanceSteps
<1>12b. ASSUME NEW r \in Requests, DeskCase(r) PROVE FALSE
  BY <1>12b DEF DeskCase
<1>12c. ASSUME NEW r \in Requests, NEW n \in ScreenedNodes, Screen(r, n) PROVE CaseInv'
  BY <1>12c, <1>harmless DEF Screen, Idle, AdvanceSteps
<1>12. ASSUME NEW r \in Requests, ScreenCase(r) PROVE CaseInv'
  <2>1. UNCHANGED currentNode
    BY <1>12 DEF ScreenCase
  <2> QED BY <2>1, <1>12, <1>goes DEF ScreenCase, AdvanceSteps
<1>13. ASSUME NEW r \in Requests, Touch(r) PROVE CaseInv'
  BY <1>13, <1>goes, <1>ends DEF Touch, AdvanceSteps
<1>14. ASSUME NEW r \in Requests, NEW id \in ChangeIds,
              CreateChange(r, id) \/ AckChange(r, id)
       PROVE  CaseInv'
  BY <1>14, <1>harmless DEF CreateChange, AckChange, Idle, AdvanceSteps
<1>15. ASSUME NEW r \in Requests, NEW id \in ChangeIds, ApplyChange(r, id) PROVE CaseInv'
  BY <1>15, <1>harmless DEF ApplyChange, Idle, AdvanceSteps
<1>16. ASSUME UNCHANGED vars PROVE CaseInv'
  BY <1>16, <1>parts DEF vars, CaseInv, GatesInOrder, PointerEarned, RequestEarned
<1>17. ASSUME NEW r \in Requests, Submit(r) PROVE CaseInv'
  BY <1>17, <1>1, <1>7, <1>10, <1>12c, <1>14, <1>15 DEF Submit
<1>18. ASSUME NEW r \in Requests, Handle(r) PROVE CaseInv'
  BY <1>18, <1>2, <1>3, <1>4, <1>5, <1>6, <1>8, <1>9, <1>11, <1>12a, <1>12b,
     <1>12, <1>13 DEF Handle
<1> QED
  BY <1>16, <1>17, <1>18 DEF Next

(* However many requests overlap and whatever the desks write, every       *)
(* variable keeps its shape.                                               *)
THEOREM CaseTypeCorrect == Spec => []TypeOK
<1>1. Init => TypeOK
  BY InitTyped
<1>2. TypeOK /\ [Next]_vars => TypeOK'
  BY StepTyped
<1> QED
  BY <1>1, <1>2, PTL DEF Spec

LEMMA Inductive == Spec => [](TypeOK /\ CaseInv)
<1>1. Init => TypeOK /\ CaseInv
  BY InitTyped, InitInv
<1>2. (TypeOK /\ CaseInv) /\ [Next]_vars => (TypeOK /\ CaseInv)'
  BY StepTyped, StepInv
<1> QED
  BY <1>1, <1>2, PTL DEF Spec

(* Until a desk moves the pointer, no interleaving of requests lets a case *)
(* past a gate whose predecessors it has not passed.                       *)
THEOREM CaseGateOrder == Spec => []GatesInOrder
<1>1. CaseInv => GatesInOrder
  BY DEF CaseInv
<1> QED
  BY <1>1, Inductive, PTL

(* Only Pass changes what a case has passed, by one gate it has earned.    *)
LEMMA StepRefines ==
  ASSUME TypeOK, CaseInv, [Next]_vars
  PROVE  [Gates!Next]_([u \in {"case"} |-> passed])
<1> USE DEF caseVars, deskVars, changeVars
<1>0. ASSUME deskMoved' PROVE UNCHANGED passed
  BY <1>0, DeskMovedStep
<1>1. ASSUME NEW r \in Requests, Pass(r), ~deskMoved' PROVE Gates!Next
  <2> DEFINE n == req[r].node
  <2>1. n \in CaseNodes /\ CaseNeeds[n] \subseteq passed
    BY <1>1 DEF Pass, At, AdvanceSteps, TypeOK, CaseInv, RequestEarned
  <2>2. passed' = passed \cup {n}
    BY <1>1 DEF Pass
  <2>3. Gates!PassGate("case", n)
    BY <2>1, <2>2 DEF Gates!PassGate
  <2> QED BY <2>1, <2>3 DEF Gates!Next
<1>2. ASSUME NEW r \in Requests, Handle(r), ~Pass(r) PROVE UNCHANGED passed
  BY <1>2 DEF Handle, Gate, Refuse, RefuseCase, PassCase, Refresh, ApplyStatus, Reeval, DeskNode,
     DeskCase, ScreenCase, Touch, AckWrite, ApplyWrite
<1>3. ASSUME NEW r \in Requests, Submit(r) PROVE UNCHANGED passed
  BY <1>3 DEF Submit, Advance, SaveForm, DisposeHit, Screen, DecideReview, CreateChange,
     AckChange, ApplyChange
<1>4. UNCHANGED vars => UNCHANGED passed
  BY DEF vars
<1> QED
  BY <1>0, <1>1, <1>2, <1>3, <1>4 DEF Next

(* The gates that advance() passes before a desk moves the pointer         *)
(* implement the abstract pipeline.                                        *)
THEOREM CaseImplementsGates == Spec => ImplementsGates
<1>1. Init => Gates!Init
  BY DEF Init, Gates!Init
<1>2. TypeOK /\ CaseInv /\ [Next]_vars => [Gates!Next]_([u \in {"case"} |-> passed])
  BY StepRefines
<1> QED
  BY <1>1, <1>2, Inductive, PTL DEF Spec, ImplementsGates, Gates!Spec
-----------------------------------------------------------------------------
(***************************************************************************)
(* Requests that come one after the other.  A request in flight still      *)
(* finds the pointer where it read it, no node is PASSED under it before   *)
(* it writes so itself, and every PASSED node is behind the pointer or has *)
(* the request that is about to move the pointer past it.                  *)
(***************************************************************************)
NotYetPassed(r) == req[r].step \in {"gate", "refuse", "pass"} => node[req[r].node] # "PASSED"

PointerHeld(r) == req[r].step \in AdvanceSteps => currentNode = req[r].node

LeavesBehind(n) ==
  \/ PipelineIndex(n) < PipelineIndex(currentNode)
  \/ \E r \in Requests : At(r, "passCase") /\ req[r].node = n

SerialInv ==
  /\ OneAtATime
  /\ \A r \in Requests : NotYetPassed(r)
  /\ ~deskMoved => /\ \A r \in Requests : PointerHeld(r)
                   /\ \A n \in CaseNodes : node[n] = "PASSED" => LeavesBehind(n)

LEMMA InitSerial == Init => SerialInv
<1> SUFFICES ASSUME Init PROVE SerialInv
  OBVIOUS
<1>1. \A r \in Requests : req[r].step = "idle"
  BY DEF Init, Idle
<1>2. \A n \in CaseNodes : node[n] # "PASSED"
  BY DEF Init
<1> QED
  BY <1>1, <1>2 DEF SerialInv, OneAtATime, At, NotYetPassed, PointerHeld, AdvanceSteps

(* What the handlers besides advance() write on a node is PASSED only if   *)
(* it was, and stays PASSED unless the hit desk writes it.                 *)
LEMMA KeepsStatus ==
  ASSUME TypeOK, NEW r \in Requests, UNCHANGED node
                 \/ (\E n \in FormNodes : SaveForm(r, n)) \/ ApplyStatus(r) \/ DeskNode(r)
                 \/ Touch(r) \/ (\E id \in ChangeIds : ApplyChange(r, id))
  PROVE  /\ \A n \in CaseNodes : node'[n] = "PASSED" => node[n] = "PASSED"
         /\ PassedNodeStays
<1> DEFINE Kept == /\ \A n \in CaseNodes : node'[n] = "PASSED" => node[n] = "PASSED"
                   /\ PassedNodeStays
<1>node. node \in [CaseNodes -> NodeStatus]
  BY DEF TypeOK
<1>one. ASSUME NEW n, NEW status, node' = [node EXCEPT ![n] = status],
               n \in CaseNodes => (status = "PASSED" <=> node[n] = "PASSED")
        PROVE  Kept
  BY <1>one, <1>node DEF PassedNodeStays
<1>touched. \A s : Touched(s) = "PASSED" <=> s = "PASSED"
  BY DEF Touched
<1>reviewed. \A s, v : \A t \in ReviewedStatuses(s, v) : t = "PASSED" <=> s = "PASSED"
  BY DEF ReviewedStatuses, NodeStatusOf
<1>1. CASE UNCHANGED node
  BY <1>1 DEF PassedNodeStays
<1>2. ASSUME NEW n, SaveForm(r, n) PROVE Kept
  BY <1>2, <1>one, <1>touched DEF SaveForm
<1>3. CASE ApplyStatus(r)
  BY <1>3, <1>one, <1>reviewed DEF ApplyStatus
<1>4. CASE DeskNode(r)
  <2>1. CASE /\ req[r].desk = "hit"
             /\ node' = [c \in CaseNodes |-> IF c = req[r].node THEN NodeStatusOf(req[r].verdict)
                                             ELSE node[c]]
    <3>1. HitDeskWrites
      BY <1>4, <2>1 DEF HitDeskWrites, DeskNode
    <3>2. NodeStatusOf(req[r].verdict) # "PASSED"
      BY DEF NodeStatusOf
    <3> QED BY <2>1, <3>1, <3>2 DEF PassedNodeStays
  <2>2. CASE \E status \in ReviewedStatuses(node[req[r].node], req[r].verdict) :
               node' = [node EXCEPT ![req[r].node] = status]
    BY <2>2, <1>one, <1>reviewed
  <2> QED BY <1>4, <2>1, <2>2 DEF DeskNode
<1>5. CASE Touch(r)
  BY <1>5, <1>one, <1>touched DEF Touch
<1>6. ASSUME NEW id, ApplyChange(r, id) PROVE Kept
  <2>1. UNCHANGED node \/ node' = [node EXCEPT !["N3"] = Touched(@)]
    BY <1>6 DEF ApplyChange
  <2> QED BY <2>1, <1>1, <1>one, <1>touched
<1> QED
  BY <1>1, <1>2, <1>3, <1>4, <1>5, <1>6

(* A request moves on, from a place the other requests are idle at.        *)
LEMMA OthersAsTheyWere ==
  ASSUME TypeOK, SerialInv, OneAtATime', NEW r \in Requests, NEW q,
         req' = [req EXCEPT ![r] = q], q.step # "idle" \/ ~At(r, "idle")
  PROVE  /\ req'[r] = q
         /\ \A x \in Requests : x # r => req'[x] = req[x] /\ At(x, "idle")
<1>1. req'[r] = q /\ \A x \in Requests : x # r => req'[x] = req[x]
  BY DEF TypeOK
<1>2. ASSUME NEW x \in Requests, x # r PROVE At(x, "idle")
  BY <1>1, <1>2 DEF SerialInv, OneAtATime, At
<1> QED
  BY <1>1, <1>2

(* Whatever leaves the pointer alone and passes no node keeps SerialInv.   *)
LEMMA CalmStep ==
  ASSUME TypeOK, SerialInv, OneAtATime', NEW r \in Requests, NEW q,
         req' = [req EXCEPT ![r] = q], ~At(r, "passCase"),
         \A n \in CaseNodes : node'[n] = "PASSED" => node[n] = "PASSED",
         q.step \notin AdvanceSteps,
         ~deskMoved' => UNCHANGED <<currentNode, deskMoved>>
  PROVE  SerialInv'
<1>1. req'[r] = q /\ \A x \in Requests : x # r => req'[x] = req[x]
  BY DEF TypeOK
<1>2. \A x \in Requests : NotYetPassed(x)'
  <2>1. ASSUME NEW x \in Requests, x # r PROVE NotYetPassed(x)'
    <3>1. NotYetPassed(x) /\ (x \in Requests /\ req[x].step \in AdvanceSteps => req[x].node \in CaseNodes)
      BY DEF SerialInv, TypeOK
    <3> QED BY <1>1, <2>1, <3>1 DEF NotYetPassed, AdvanceSteps
  <2>2. NotYetPassed(r)'
    BY <1>1 DEF NotYetPassed, AdvanceSteps
  <2> QED BY <2>1, <2>2
<1>3. ASSUME ~deskMoved' PROVE \A x \in Requests : PointerHeld(x)'
  BY <1>1, <1>3 DEF SerialInv, PointerHeld
<1>4. ASSUME ~deskMoved', NEW n \in CaseNodes, node'[n] = "PASSED" PROVE LeavesBehind(n)'
  <2>1. LeavesBehind(n)
    BY <1>4 DEF SerialInv
  <2> QED BY <2>1, <1>1, <1>4 DEF LeavesBehind, At
<1> QED
  BY <1>2, <1>3, <1>4 DEF SerialInv

LEMMA FlowOrder ==
  /\ PipelineIndex("N2") = 0 /\ PipelineIndex("N3") = 2 /\ PipelineIndex("N4") = 4
  /\ PipelineIndex("N5") = 6 /\ PipelineIndex("N6") = 8
BY DEF PipelineIndex, FlowPosition

LEMMA PointerRange == \A n \in CaseNodeCodes : PipelineIndex(n) \in Int
BY DEF PipelineIndex, FlowPosition

LEMMA StepSerial ==
  ASSUME TypeOK, CaseInv, SerialInv, [Next /\ OneAtATime']_vars
  PROVE  SerialInv' /\ PointerForward /\ PassedNodeStays
<1> DEFINE Good == SerialInv' /\ PointerForward /\ PassedNodeStays
<1> USE DEF caseVars, deskVars, changeVars
<1>typed. /\ req \in [Requests -> Request] /\ node \in [CaseNodes -> NodeStatus]
          /\ currentNode \in CaseNodeCodes /\ PipelineIndex(currentNode) \in Int
          /\ \A r \in Requests : req[r].step \in AdvanceSteps => req[r].node \in CaseNodes
  BY TypeParts, PointerRange DEF TypeOK
<1>calm. ASSUME OneAtATime', NEW r \in Requests, NEW q,
                req' = [req EXCEPT ![r] = q], ~At(r, "passCase"), q.step \notin AdvanceSteps,
                UNCHANGED <<currentNode, deskMoved>>,
                \A n \in CaseNodes : node'[n] = "PASSED" => node[n] = "PASSED", PassedNodeStays
         PROVE  Good
  <2>1. PointerForward
    BY <1>calm, <1>typed DEF PointerForward
  <2> QED BY <2>1, <1>calm, CalmStep
<1>1. ASSUME OneAtATime', NEW r \in Requests, NEW n \in CaseNodes, Advance(r, n) PROVE Good
  <2> DEFINE q == [Idle EXCEPT !.step = "gate", !.node = n, !.seen = currentNode]
  <2>1. currentNode = n /\ node[n] # "PASSED"
    BY <1>1 DEF Advance, ResolveAdvance
  <2>2. q.step = "gate" /\ q.node = n /\ req' = [req EXCEPT ![r] = q]
    BY <1>1 DEF Idle, Advance
  <2> HIDE DEF q
  <2>3. /\ req'[r] = q /\ \A x \in Requests : x # r => req'[x] = req[x] /\ At(x, "idle")
    BY <2>2, <1>1, OthersAsTheyWere
  <2>4. UNCHANGED <<currentNode, deskMoved, node>>
    BY <1>1 DEF Advance
  <2>5. \A x \in Requests : NotYetPassed(x)' /\ PointerHeld(x)'
    BY <2>1, <2>2, <2>3, <2>4 DEF NotYetPassed, PointerHeld, At, AdvanceSteps
  <2>6. ASSUME ~deskMoved', NEW m \in CaseNodes, node'[m] = "PASSED" PROVE LeavesBehind(m)'
    <3>1. LeavesBehind(m)
      BY <2>4, <2>6 DEF SerialInv
    <3>2. At(r, "idle")
      BY <1>1 DEF Advance
    <3> QED BY <3>1, <3>2, <2>3, <2>4 DEF LeavesBehind, At
  <2>7. SerialInv'
    BY <2>5, <2>6, <1>1 DEF SerialInv
  <2> QED BY <2>4, <2>7, <1>typed DEF PointerForward, PassedNodeStays
<1>2. ASSUME OneAtATime', NEW r \in Requests, Gate(r) PROVE Good
  <2>1. PICK v \in GateVerdicts(req[r].node) :
          Decided(r, IF v = "PASS" THEN "pass" ELSE "refuse", v)
    BY <1>2 DEF Gate
  <2> DEFINE q == [req[r] EXCEPT !.step = IF v = "PASS" THEN "pass" ELSE "refuse", !.verdict = v]
  <2>2. req' = [req EXCEPT ![r] = q] /\ q.step \in {"pass", "refuse"} /\ q.node = req[r].node
    BY <2>1, <1>typed DEF Decided, Request
  <2>3. At(r, "gate") /\ UNCHANGED <<currentNode, deskMoved, node>>
    BY <1>2 DEF Gate
  <2> HIDE DEF q
  <2>4. /\ req'[r] = q /\ \A x \in Requests : x # r => req'[x] = req[x] /\ At(x, "idle")
    BY <2>2, <1>2, OthersAsTheyWere
  <2>5. NotYetPassed(r) /\ (~deskMoved => PointerHeld(r))
    BY DEF SerialInv
  <2>6. \A x \in Requests : NotYetPassed(x)' /\ (~deskMoved' => PointerHeld(x)')
    BY <2>2, <2>3, <2>4, <2>5 DEF NotYetPassed, PointerHeld, At, AdvanceSteps
  <2>7. ASSUME ~deskMoved', NEW m \in CaseNodes, node'[m] = "PASSED" PROVE LeavesBehind(m)'
    <3>1. LeavesBehind(m)
      BY <2>3, <2>7 DEF SerialInv
    <3> QED BY <3>1, <2>3, <2>4 DEF LeavesBehind, At
  <2>8. SerialInv'
    BY <2>6, <2>7, <1>2 DEF SerialInv
  <2> QED BY <2>3, <2>8, <1>typed DEF PointerForward, PassedNodeStays
<1>3. ASSUME OneAtATime', NEW r \in Requests, Refuse(r) PROVE Good
  <2> DEFINE q == [req[r] EXCEPT !.step = "refuseCase"]
             n == req[r].node
  <2>1. req' = [req EXCEPT ![r] = q] /\ q.step = "refuseCase" /\ q.node = n
    BY <1>3, <1>typed DEF Refuse, Goto, Request
  <2>2. At(r, "refuse") /\ UNCHANGED <<currentNode, deskMoved>> /\ n \in CaseNodes
    BY <1>3, <1>typed DEF Refuse, At, AdvanceSteps
  <2>3. NotYetPassed(r) /\ (~deskMoved => PointerHeld(r))
    BY DEF SerialInv
  <2>4. node[n] # "PASSED"
    BY <2>2, <2>3 DEF NotYetPassed, At
  <2>5. \A m \in CaseNodes : node'[m] = "PASSED" <=> node[m] = "PASSED"
    BY <1>3, <2>4, <1>typed DEF Refuse
  <2> HIDE DEF q, n
  <2>6. /\ req'[r] = q /\ \A x \in Requests : x # r => req'[x] = req[x] /\ At(x, "idle")
    BY <2>1, <1>3, OthersAsTheyWere
  <2>7. \A x \in Requests : NotYetPassed(x)' /\ (~deskMoved' => PointerHeld(x)')
    BY <2>1, <2>2, <2>3, <2>6 DEF NotYetPassed, PointerHeld, At, AdvanceSteps, n
  <2>8. ASSUME ~deskMoved', NEW m \in CaseNodes, node'[m] = "PASSED" PROVE LeavesBehind(m)'
    <3>1. LeavesBehind(m)
      BY <2>2, <2>5, <2>8 DEF SerialInv
    <3> QED BY <3>1, <2>2, <2>6 DEF LeavesBehind, At
  <2>9. SerialInv'
    BY <2>7, <2>8, <1>3 DEF SerialInv
  <2> QED BY <2>2, <2>5, <2>9, <1>typed DEF PointerForward, PassedNodeStays
<1>4. ASSUME OneAtATime', NEW r \in Requests, RefuseCase(r) PROVE Good
  <2>1. At(r, "refuseCase") /\ UNCHANGED <<node, deskMoved>> /\ req' = [req EXCEPT ![r] = Idle]
    BY <1>4 DEF RefuseCase, Finish
  <2>2. ~deskMoved => currentNode' = currentNode
    <3>1. ~deskMoved => /\ req[r].seen = req[r].node /\ currentNode = req[r].node
                        /\ req[r].node \in CaseNodes
      BY <2>1, <1>typed DEF SerialInv, PointerHeld, CaseInv, RequestEarned, At, AdvanceSteps
    <3> QED BY <3>1, <1>4, HeldNode DEF RefuseCase
  <2>3. Idle.step = "idle"
    BY DEF Idle
  <2>4. SerialInv'
    BY <2>1, <2>2, <2>3, <1>4, CalmStep DEF At, AdvanceSteps
  <2> QED BY <2>1, <2>2, <2>4, <1>typed DEF PointerForward, PassedNodeStays
<1>5. ASSUME OneAtATime', NEW r \in Requests, Pass(r) PROVE Good
  <2> DEFINE q == [req[r] EXCEPT !.step = "passCase"]
             n == req[r].node
  <2>1. req' = [req EXCEPT ![r] = q] /\ q.step = "passCase" /\ q.node = n
    BY <1>5, <1>typed DEF Pass, Goto, Request
  <2>2. At(r, "pass") /\ UNCHANGED <<currentNode, deskMoved>> /\ n \in CaseNodes
    BY <1>5, <1>typed DEF Pass, At, AdvanceSteps
  <2>3. ~deskMoved => PointerHeld(r)
    BY DEF SerialInv
  <2>4. node' = [node EXCEPT ![n] = "PASSED"]
    BY <1>5 DEF Pass
  <2> HIDE DEF q, n
  <2>5. /\ req'[r] = q /\ \A x \in Requests : x # r => req'[x] = req[x] /\ At(x, "idle")
    BY <2>1, <1>5, OthersAsTheyWere
  <2>6. \A x \in Requests : NotYetPassed(x)' /\ (~deskMoved' => PointerHeld(x)')
    BY <2>1, <2>2, <2>3, <2>5 DEF NotYetPassed, PointerHeld, At, AdvanceSteps, n
  <2>7. ASSUME ~deskMoved', NEW m \in CaseNodes, node'[m] = "PASSED" PROVE LeavesBehind(m)'
    <3>1. CASE m = n
      BY <3>1, <2>1, <2>5 DEF LeavesBehind, At
    <3>2. CASE m # n
      <4>1. LeavesBehind(m)
        BY <3>2, <2>2, <2>4, <2>7, <1>typed DEF SerialInv
      <4> QED BY <4>1, <2>2, <2>5 DEF LeavesBehind, At
    <3> QED BY <3>1, <3>2
  <2>8. SerialInv'
    BY <2>6, <2>7, <1>5 DEF SerialInv
  <2> QED BY <2>2, <2>4, <2>8, <1>typed DEF PointerForward, PassedNodeStays
<1>6. ASSUME OneAtATime', NEW r \in Requests, PassCase(r) PROVE Good
  <2> DEFINE n == req[r].node
  <2>1. /\ At(r, "passCase") /\ UNCHANGED <<node, deskMoved>> /\ req' = [req EXCEPT ![r] = Idle]
        /\ n \in CaseNodes
    BY <1>6, <1>typed DEF PassCase, Finish, At, AdvanceSteps
  <2>2. Idle.step = "idle"
    BY DEF Idle
  <2>3. /\ req'[r] = Idle /\ \A x \in Requests : x # r => req'[x] = req[x] /\ At(x, "idle")
    BY <2>1, <1>6, OthersAsTheyWere DEF At
  <2>4. ASSUME ~deskMoved PROVE PipelineIndex(currentNode) = PipelineIndex(n)
                                /\ PipelineIndex(n) < PipelineIndex(currentNode')
    <3>1. req[r].seen = n /\ currentNode = n
      BY <2>1, <2>4 DEF SerialInv, PointerHeld, CaseInv, RequestEarned, At, AdvanceSteps
    <3>2. (raised # {}) \in BOOLEAN
      OBVIOUS
    <3>3. currentNode' = CASE n = "N2" -> "N3"
                           [] n = "N3" -> IF raised # {} THEN "N4" ELSE "N5"
                           [] n = "N4" -> "N5"
                           [] OTHER -> "N6"
      BY <3>1, <3>2, <2>1, <1>6, PassedOn DEF PassCase
    <3> QED BY <3>1, <3>3, <2>1, FlowOrder DEF CaseNodes
  <2>5. \A x \in Requests : NotYetPassed(x)' /\ PointerHeld(x)'
    BY <2>2, <2>3 DEF NotYetPassed, PointerHeld, At, AdvanceSteps
  <2>6. ASSUME ~deskMoved', NEW m \in CaseNodes, node'[m] = "PASSED" PROVE LeavesBehind(m)'
    <3>1. LeavesBehind(m) /\ ~deskMoved
      BY <2>1, <2>6 DEF SerialInv
    <3>2. PipelineIndex(m) <= PipelineIndex(n)
      <4>1. CASE PipelineIndex(m) < PipelineIndex(currentNode)
        <5>1. PipelineIndex(m) \in Int /\ PipelineIndex(n) \in Int
          BY <2>1, FlowOrder DEF CaseNodes
        <5> HIDE DEF n
        <5> QED BY <4>1, <5>1, <3>1, <2>4
      <4>2. CASE \E x \in Requests : At(x, "passCase") /\ req[x].node = m
        <5>1. m = n
          BY <4>2, <2>3 DEF At
        <5> QED BY <5>1, FlowOrder DEF CaseNodes
      <4> QED BY <4>1, <4>2, <3>1 DEF LeavesBehind
    <3>3. PipelineIndex(m) \in Int /\ PipelineIndex(n) \in Int
      BY <2>1, FlowOrder DEF CaseNodes
    <3>4. PipelineIndex(currentNode') \in Int
      <4>1. currentNode' \in CaseNodeCodes
        BY <1>6, StepTyped DEF Next, Handle, TypeOK
      <4> QED BY <4>1, PointerRange
    <3> QED BY <3>1, <3>2, <3>3, <3>4, <2>4 DEF LeavesBehind
  <2>7. SerialInv'
    BY <2>5, <2>6, <1>6 DEF SerialInv
  <2>8. PointerForward
    <3>1. PipelineIndex(currentNode') \in Int /\ PipelineIndex(n) \in Int
      <4>1. currentNode' \in CaseNodeCodes
        BY <1>6, StepTyped DEF Next, Handle, TypeOK
      <4> QED BY <4>1, <2>1, PointerRange, FlowOrder DEF CaseNodes
    <3> HIDE DEF n
    <3> QED BY <3>1, <2>1, <2>4 DEF PointerForward
  <2> QED BY <2>1, <2>7, <2>8 DEF PassedNodeStays
<1>7. ASSUME OneAtATime', NEW r \in Requests, NEW n \in FormNodes, SaveForm(r, n) PROVE Good
  <2> DEFINE q == IF n \in ReviewNodes THEN [Idle EXCEPT !.step = "refresh", !.node = n] ELSE Idle
  <2>1. q.step \notin AdvanceSteps
    BY DEF Idle, AdvanceSteps
  <2> QED BY <2>1, <1>7, <1>calm, KeepsStatus DEF SaveForm, At
<1>8. ASSUME OneAtATime', NEW r \in Requests, NEW n,
             DisposeHit(r, n) \/ Screen(r, n) \/ DecideReview(r, n) \/ CreateChange(r, n)
             \/ AckChange(r, n)
      PROVE  Good
  <2>1. PICK q : req' = [req EXCEPT ![r] = q] /\ q.step \notin AdvanceSteps
    <3> DEFINE Moves(q) == req' = [req EXCEPT ![r] = q] /\ q.step \notin AdvanceSteps
    <3>1. CASE DisposeHit(r, n)
      <4>1. Moves([Idle EXCEPT !.step = "reeval", !.node = HitNode(n), !.desk = "hit"])
        BY <3>1 DEF DisposeHit, Idle, AdvanceSteps
      <4> QED BY <4>1
    <3>2. CASE DecideReview(r, n)
      <4>1. Moves([Idle EXCEPT !.step = "reeval", !.node = n, !.desk = "review"])
        BY <3>2 DEF DecideReview, Idle, AdvanceSteps
      <4> QED BY <4>1
    <3>3. CASE Screen(r, n)
      <4>1. Moves([Idle EXCEPT !.step = "screenCase", !.node = n])
        BY <3>3 DEF Screen, Idle, AdvanceSteps
      <4> QED BY <4>1
    <3>4. CASE CreateChange(r, n)
      <4>1. Moves([Idle EXCEPT !.step = "touch", !.node = "N4"])
        BY <3>4 DEF CreateChange, Idle, AdvanceSteps
      <4> QED BY <4>1
    <3>5. CASE AckChange(r, n)
      <4>1. Moves([Idle EXCEPT !.step = "ack", !.change = {n}])
        BY <3>5 DEF AckChange, Idle, AdvanceSteps
      <4> QED BY <4>1
    <3> QED BY <1>8, <3>1, <3>2, <3>3, <3>4, <3>5
  <2>2. UNCHANGED <<node, currentNode, deskMoved>> /\ At(r, "idle")
    BY <1>8 DEF DisposeHit, Screen, DecideReview, CreateChange, AckChange
  <2> QED BY <2>1, <2>2, <1>8, <1>calm, KeepsStatus DEF At
<1>9. ASSUME OneAtATime', NEW r \in Requests, NEW id \in ChangeIds, ApplyChange(r, id) PROVE Good
  <2>1. PICK q : req' = [req EXCEPT ![r] = q] /\ q.step \notin AdvanceSteps
    <3> DEFINE q1 == [Idle EXCEPT !.step = "apply", !.change = {id}]
               q2 == [Idle EXCEPT !.step = "screenCase", !.node = "N3", !.change = {id}]
    <3>1. q1.step = "apply" /\ q2.step = "screenCase"
      BY DEF Idle
    <3>2. req' = [req EXCEPT ![r] = q1] \/ req' = [req EXCEPT ![r] = q2]
      BY <1>9 DEF ApplyChange
    <3> HIDE DEF q1, q2
    <3> QED BY <3>1, <3>2 DEF AdvanceSteps
  <2>2. UNCHANGED <<currentNode, deskMoved>> /\ At(r, "idle")
    BY <1>9 DEF ApplyChange
  <2> QED BY <2>1, <2>2, <1>9, <1>calm, KeepsStatus DEF At
<1>10. ASSUME OneAtATime', NEW r \in Requests, Refresh(r) \/ Reeval(r) PROVE Good
  <2>1. PICK q : req' = [req EXCEPT ![r] = q] /\ q.step \notin AdvanceSteps
    <3>1. PICK step \in {"applyStatus", "deskNode"} : \E v : Decided(r, step, v)
      BY <1>10 DEF Refresh, Reeval
    <3>v. PICK v : Decided(r, step, v)
      BY <3>1
    <3>2. /\ req' = [req EXCEPT ![r] = [req[r] EXCEPT !.step = step, !.verdict = v]]
          /\ [req[r] EXCEPT !.step = step, !.verdict = v].step = step
      BY <3>v, <1>typed DEF Decided, Request
    <3> QED BY <3>1, <3>2 DEF AdvanceSteps
  <2>2. UNCHANGED <<node, currentNode, deskMoved>> /\ ~At(r, "passCase")
    BY <1>10 DEF Refresh, Reeval, At
  <2> QED BY <2>1, <2>2, <1>10, <1>calm, KeepsStatus
<1>11. ASSUME OneAtATime', NEW r \in Requests,
              ApplyStatus(r) \/ AckWrite(r) \/ ApplyWrite(r)
       PROVE  Good
  <2>1. req' = [req EXCEPT ![r] = Idle] /\ Idle.step \notin AdvanceSteps
    BY <1>11 DEF ApplyStatus, AckWrite, ApplyWrite, Finish, Idle, AdvanceSteps
  <2>2. UNCHANGED <<currentNode, deskMoved>> /\ ~At(r, "passCase")
    BY <1>11 DEF ApplyStatus, AckWrite, ApplyWrite, At
  <2>3. UNCHANGED node \/ ApplyStatus(r)
    BY <1>11 DEF AckWrite, ApplyWrite
  <2> QED BY <2>1, <2>2, <2>3, <1>11, <1>calm, KeepsStatus
<1>12. ASSUME OneAtATime', NEW r \in Requests, DeskNode(r) \/ Touch(r) PROVE Good
  <2>1. PICK q : req' = [req EXCEPT ![r] = q] /\ q.step \notin AdvanceSteps
    <3>1. Finish(r) \/ \E step \in {"apply", "deskCase"} : Goto(r, step)
      BY <1>12 DEF DeskNode, Touch
    <3>2. ASSUME NEW step \in {"apply", "deskCase"}, Goto(r, step)
          PROVE  /\ req' = [req EXCEPT ![r] = [req[r] EXCEPT !.step = step]]
                 /\ [req[r] EXCEPT !.step = step].step = step
      BY <3>2, <1>typed DEF Goto, Request
    <3>3. Finish(r) => req' = [req EXCEPT ![r] = Idle] /\ Idle.step \notin AdvanceSteps
      BY DEF Finish, Idle, AdvanceSteps
    <3>4. {"apply", "deskCase"} \cap AdvanceSteps = {}
      BY DEF AdvanceSteps
    <3> QED BY <3>1, <3>2, <3>3, <3>4
  <2>2. UNCHANGED <<currentNode, deskMoved>> /\ ~At(r, "passCase")
    BY <1>12 DEF DeskNode, Touch, At
  <2> QED BY <2>1, <2>2, <1>12, <1>calm, KeepsStatus
<1>13. ASSUME OneAtATime', NEW r \in Requests, DeskCase(r) \/ ScreenCase(r) PROVE Good
  <2>1. PICK q : req' = [req EXCEPT ![r] = q] /\ q.step \notin AdvanceSteps
    <3>1. Finish(r) \/ Goto(r, "touch")
      BY <1>13 DEF DeskCase, ScreenCase
    <3>2. /\ Goto(r, "touch") => req' = [req EXCEPT ![r] = [req[r] EXCEPT !.step = "touch"]]
          /\ [req[r] EXCEPT !.step = "touch"].step = "touch"
      BY <1>typed DEF Goto, Request
    <3> QED BY <3>1, <3>2 DEF Finish, Idle, AdvanceSteps
  <2>2. UNCHANGED node /\ ~At(r, "passCase")
    BY <1>13 DEF DeskCase, ScreenCase, At
  <2>3. ~deskMoved' => UNCHANGED <<currentNode, deskMoved>>
    BY <1>13 DEF DeskCase, ScreenCase, TypeOK
  <2>4. SerialInv'
    BY <2>1, <2>2, <2>3, <1>13, CalmStep
  <2> QED BY <2>2, <2>3, <2>4, <1>typed DEF PointerForward, PassedNodeStays
<1>14. ASSUME UNCHANGED vars PROVE Good
  <2>1. UNCHANGED <<currentNode, node, req, deskMoved>>
    BY <1>14 DEF vars
  <2>2. SerialInv'
    BY <2>1 DEF SerialInv, OneAtATime, At, NotYetPassed, PointerHeld, LeavesBehind
  <2> QED BY <2>1, <2>2, <1>typed DEF PointerForward, PassedNodeStays
<1> HIDE DEF Good
<1>15. ASSUME OneAtATime', NEW r \in Requests, Submit(r) PROVE Good
  BY <1>15, <1>1, <1>7, <1>8, <1>9 DEF Submit
<1>16. ASSUME OneAtATime', NEW r \in Requests, Handle(r) PROVE Good
  BY <1>16, <1>2, <1>3, <1>4, <1>5, <1>6, <1>10, <1>11, <1>12, <1>13 DEF Handle
<1>17. Good
  BY <1>14, <1>15, <1>16 DEF Next
<1> QED
  BY <1>17 DEF Good

LEMMA SerialInductive == SerialSpec => [](TypeOK /\ CaseInv /\ SerialInv)
<1> DEFINE Inv == TypeOK /\ CaseInv /\ SerialInv
<1>1. Init => Inv
  BY InitTyped, InitInv, InitSerial
<1>2. Inv /\ [Next /\ OneAtATime']_vars => Inv'
  BY StepTyped, StepInv, StepSerial
<1> QED
  BY <1>1, <1>2, PTL DEF SerialSpec

LEMMA NotParked == TypeOK /\ CaseInv /\ SerialInv => NoParkedCase
<1> SUFFICES ASSUME TypeOK, CaseInv, SerialInv, Quiet, ~deskMoved PROVE Advanceable
  BY DEF NoParkedCase
<1>1. currentNode \in CaseNodes \cup {"N6"}
  BY DEF CaseInv
<1>2. ASSUME currentNode \in CaseNodes, node[currentNode] = "PASSED" PROVE FALSE
  <2>1. LeavesBehind(currentNode)
    BY <1>2 DEF SerialInv
  <2>2. ~(PipelineIndex(currentNode) < PipelineIndex(currentNode))
    BY <1>2, FlowOrder DEF CaseNodes
  <2> QED BY <2>1, <2>2 DEF LeavesBehind, Quiet, At
<1> QED
  BY <1>1, <1>2 DEF Advanceable, CaseNodes, NODE_FLOW

(* Requests that do not overlap leave a case whose pointer no desk has     *)
(* moved on a node of the flow that advance() still accepts, whatever      *)
(* forms, reviews, screenings and change orders came in between.           *)
THEOREM CaseNotParked == SerialSpec => []NoParkedCase
BY SerialInductive, NotParked, PTL

(* Requests that do not overlap never move the pointer back and never take *)
(* a passed node back, the hit desk's writes apart.                        *)
THEOREM CaseGoesForward == SerialSpec => CaseForward
<1> DEFINE Inv == TypeOK /\ CaseInv /\ SerialInv
<1>1. Inv /\ [Next /\ OneAtATime']_vars => [PointerForward /\ PassedNodeStays]_vars
  BY StepSerial
<1> QED
  BY <1>1, SerialInductive, PTL DEF SerialSpec, CaseForward

(* The same of the lanes the run checks, overlapping requests excepted.    *)
LEMMA LanesInductive ==
  MCSpec => [](TypeOK /\ CaseInv /\ (lane # "overlap" => SerialInv))
<1> DEFINE Inv == TypeOK /\ CaseInv /\ (lane # "overlap" => SerialInv)
<1>1. MCInit => Inv
  BY InitTyped, InitInv, InitSerial DEF MCInit
<1>2. Inv /\ [MCNext]_<<vars, lane>> => Inv'
  <2>1. [MCNext]_<<vars, lane>> => /\ [Next]_vars /\ UNCHANGED lane
                                   /\ lane # "overlap" => [Next /\ OneAtATime']_vars
    BY DEF MCNext, InLane
  <2> QED BY <2>1, StepTyped, StepInv, StepSerial
<1> QED
  BY <1>1, <1>2, PTL DEF MCSpec

(* In the lanes without overlap no case is parked.                         *)
THEOREM LanesNotParked == MCSpec => []SerialCaseNotParked
<1>1. TypeOK /\ CaseInv /\ (lane # "overlap" => SerialInv) => SerialCaseNotParked
  BY NotParked DEF SerialCaseNotParked
<1> QED
  BY <1>1, LanesInductive, PTL

(* In the lanes without overlap the case only goes forward.                *)
THEOREM LanesGoForward == MCSpec => SerialCaseForward
<1> DEFINE Inv == TypeOK /\ CaseInv /\ (lane # "overlap" => SerialInv)
<1>1. Inv /\ [MCNext]_<<vars, lane>> =>
        [lane # "overlap" => PointerForward /\ PassedNodeStays]_vars
  BY StepSerial DEF MCNext, InLane
<1> QED
  BY <1>1, LanesInductive, PTL DEF MCSpec, SerialCaseForward
=============================================================================
