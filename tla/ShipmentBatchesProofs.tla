----------------------- MODULE ShipmentBatchesProofs ------------------------
(***************************************************************************)
(* Proofs about ShipmentBatches, for every number of overlapping requests, *)
(* every number of batches and every set of foreign pointer writes.        *)
(***************************************************************************)
EXTENDS MCShipmentBatches, TLAPS

(* The roll-up of a non-empty set of batch rows is a well-formed write:    *)
(* its pointer is a pipeline node even when the batches disagree.          *)
LEMMA RollupType ==
  ASSUME NEW batchRows \in SUBSET BatchRow
  PROVE  RollupCaseShipping(batchRows) \in Rollup
<1> DEFINE open == {row.pointer : row \in batchRows} \ {BATCH_NODE_DONE}
           allDone == \A row \in batchRows : BatchDone(row)
           earliest == CHOOSE p \in open : \A q \in open : PipelineIndex(p) <= PipelineIndex(q)
<1>1. open \subseteq {"N6", "N7", "N9"}
  BY DEF BatchRow, BatchPointers, BATCH_PIPELINE, BATCH_NODE_DONE
<1>2. ~allDone => open # {}
  BY DEF BatchDone, BATCH_NODE_DONE
<1>3. PipelineIndex("N6") = 8 /\ PipelineIndex("N7") = 10 /\ PipelineIndex("N9") = 12
  BY DEF PipelineIndex, FlowPosition
<1>4. ~allDone => \E p \in open : \A q \in open : PipelineIndex(p) <= PipelineIndex(q)
  <2>1. CASE "N6" \in open
    BY <2>1, <1>1, <1>3
  <2>2. CASE "N6" \notin open /\ "N7" \in open
    BY <2>2, <1>1, <1>3
  <2>3. CASE "N6" \notin open /\ "N7" \notin open
    BY <2>3, <1>1, <1>2, <1>3
  <2> QED
    BY <2>1, <2>2, <2>3
<1>5. ~allDone => earliest \in BATCH_PIPELINE
  BY <1>1, <1>4 DEF BATCH_PIPELINE
<1>6. \A statuses : RollupNode(statuses) \in NodeStatus
  BY DEF RollupNode, NodeStatus
<1>7. [code \in BATCH_PIPELINE |-> RollupNode({row.node[code] : row \in batchRows})]
        \in [BATCH_PIPELINE -> NodeStatus]
  BY <1>6
<1>8. (IF allDone THEN "N9" ELSE earliest) \in BATCH_PIPELINE
  BY <1>5 DEF BATCH_PIPELINE
<1> QED
  BY <1>7, <1>8 DEF RollupCaseShipping, Rollup, CaseStatus

LEMMA LaterNodeType ==
  ASSUME NEW a \in CaseNodeCodes, NEW b \in CaseNodeCodes
  PROVE  LaterNode(a, b) \in CaseNodeCodes
BY DEF LaterNode

LEMMA IdleType == Idle \in [step : Steps, code : BATCH_PIPELINE, id : 0 .. MaxBatches,
                            seen : CaseNodeCodes, rolled : Rollup]
BY ShipmentAssumption DEF Idle, Steps, NoRollup, Rollup, CaseNodeCodes, NODE_FLOW,
   BATCH_PIPELINE, CaseStatus, NodeStatus

LEMMA InitTyped == Init => TypeOK
<1> USE ShipmentAssumption DEF BatchIds, RolledNodes, BATCH_PIPELINE, NODE_FLOW, CaseNodeCodes,
                               NodeStatus, CaseStatus
<1> SUFFICES ASSUME Init PROVE TypeOK
  OBVIOUS
<1>1. NewBatch \in BatchRow
  BY DEF NewBatch, BatchRow, BatchPointers
<1>2. currentNode \in CaseNodeCodes
  BY DEF Init
<1> QED
  BY <1>1, <1>2, IdleType DEF Init, TypeOK

LEMMA StepTyped == TypeOK /\ ShipmentInv /\ [Next]_vars => TypeOK'
<1> USE ShipmentAssumption DEF BatchIds, RolledNodes, BATCH_PIPELINE, NODE_FLOW, CaseNodeCodes,
                               NodeStatus, CaseStatus
<1> SUFFICES ASSUME TypeOK, ShipmentInv, [Next]_vars PROVE TypeOK'
  OBVIOUS
<1> DEFINE Request == [step : Steps, code : BATCH_PIPELINE, id : 0 .. MaxBatches,
                       seen : CaseNodeCodes, rolled : Rollup]
<1>reqs. req \in [Requests -> Request]
  BY DEF TypeOK
<1>fin. ASSUME NEW r \in Requests, Finish(r) PROVE req' \in [Requests -> Request]
  BY <1>fin, <1>reqs, IdleType DEF Finish
<1>goto. ASSUME NEW r \in Requests, NEW step \in Steps, Goto(r, step) \/ GotoForgetting(r, step)
         PROVE  req' \in [Requests -> Request]
  <2>1. [req[r] EXCEPT !.step = step] \in Request
    BY <1>reqs
  <2>2. [req[r] EXCEPT !.step = step, !.seen = "N6"] \in Request
    BY <1>reqs
  <2> QED BY <2>1, <2>2, <1>goto, <1>reqs DEF Goto, GotoForgetting
<1>start. ASSUME NEW r \in Requests, NEW step \in Steps, NEW code \in BATCH_PIPELINE,
                 NEW id \in 0 .. MaxBatches, NEW seen \in CaseNodeCodes,
                 Start(r, step, code, id, seen)
          PROVE  req' \in [Requests -> Request]
  <2>1. [Idle EXCEPT !.step = step, !.code = code, !.id = id, !.seen = seen] \in Request
    BY IdleType
  <2> QED
    BY <2>1, <1>start, <1>reqs DEF Start
<1>row. ASSUME NEW b \in BatchIds, NEW row \in BatchRow, batch' = [batch EXCEPT ![b] = row]
        PROVE  batch' \in [BatchIds -> BatchRow]
  BY <1>row DEF TypeOK
<1>1. ASSUME NEW r \in Requests, AdvanceN5(r) PROVE TypeOK'
  <2>0. "gate5" \in Steps /\ "N6" \in BATCH_PIPELINE /\ 0 \in 0 .. MaxBatches
    BY DEF Steps
  <2>1. req' \in [Requests -> Request]
    BY <2>0, <1>1, <1>start DEF AdvanceN5, TypeOK
  <2> QED BY <2>1, <1>1 DEF AdvanceN5, TypeOK, caseVars, batchVars
<1>2. ASSUME NEW r \in Requests, GateN5(r) PROVE TypeOK'
  <2>1. req' \in [Requests -> Request]
    BY <1>2, <1>goto DEF GateN5, Steps
  <2> QED BY <2>1, <1>2 DEF GateN5, TypeOK, caseVars, batchVars
<1>3. ASSUME NEW r \in Requests, RefuseN5(r) PROVE TypeOK'
  <2>1. req' \in [Requests -> Request]
    BY <1>3, <1>goto DEF RefuseN5, Steps
  <2> QED BY <2>1, <1>3 DEF RefuseN5, TypeOK, batchVars
<1>4. ASSUME NEW r \in Requests, RefuseN5Case(r) PROVE TypeOK'
  <2>1. req' \in [Requests -> Request]
    BY <1>4, <1>fin DEF RefuseN5Case
  <2>2. currentNode' \in CaseNodeCodes
    BY <1>4, <1>reqs, LaterNodeType DEF RefuseN5Case
  <2> QED BY <2>1, <2>2, <1>4 DEF RefuseN5Case, TypeOK, batchVars
<1>5. ASSUME NEW r \in Requests, PassN5(r) PROVE TypeOK'
  <2>1. req' \in [Requests -> Request]
    BY <1>5, <1>goto DEF PassN5, Steps
  <2> QED BY <2>1, <1>5 DEF PassN5, TypeOK, batchVars
<1>6. ASSUME NEW r \in Requests, PassN5Case(r) PROVE TypeOK'
  <2>1. req' \in [Requests -> Request]
    BY <1>6, <1>fin DEF PassN5Case
  <2>2. NextNode("N5", FALSE) = "N6"
    BY DEF NextNode
  <2>3. currentNode' \in CaseNodeCodes
    BY <2>2, <1>6, <1>reqs, LaterNodeType DEF PassN5Case
  <2> QED BY <2>1, <2>3, <1>6 DEF PassN5Case, TypeOK, batchVars
<1>7. ASSUME NEW r \in Requests, NEW code \in BATCH_PIPELINE, NEW id \in BatchIds \cup {0},
             AdvanceBatch(r, code, id)
      PROVE  TypeOK'
  <2>0. "readBatch" \in Steps /\ id \in 0 .. MaxBatches
    BY DEF Steps
  <2>1. req' \in [Requests -> Request]
    BY <2>0, <1>7, <1>start DEF AdvanceBatch, TypeOK
  <2> QED BY <2>1, <1>7 DEF AdvanceBatch, TypeOK, caseVars, batchVars
<1>8. ASSUME NEW r \in Requests, ReadBatch(r) PROVE TypeOK'
  <2>1. req' \in [Requests -> Request]
    <3>1. CASE Finish(r)
      BY <3>1, <1>fin
    <3>2. CASE ~Finish(r)
      <4>1. Selected(req[r].id) \in 0 .. MaxBatches /\ "gate" \in Steps
        BY <1>reqs DEF Selected, Steps
      <4>2. [req[r] EXCEPT !.step = "gate", !.id = Selected(req[r].id)] \in Request
        BY <4>1, <1>reqs
      <4>3. req' = [req EXCEPT ![r].step = "gate", ![r].id = Selected(req[r].id)]
        BY <3>2, <1>8 DEF ReadBatch
      <4> QED BY <4>2, <4>3, <1>reqs
    <3> QED BY <3>1, <3>2
  <2> QED BY <2>1, <1>8 DEF ReadBatch, TypeOK, caseVars, batchVars
<1>9. ASSUME NEW r \in Requests, GateBatch(r) PROVE TypeOK'
  <2>1. req' \in [Requests -> Request]
    BY <1>9, <1>goto DEF GateBatch, Steps
  <2> QED BY <2>1, <1>9 DEF GateBatch, TypeOK, caseVars, batchVars
<1>10. ASSUME NEW r \in Requests, RefuseBatch(r) PROVE TypeOK'
  <2>1. req' \in [Requests -> Request]
    BY <1>10, <1>goto DEF RefuseBatch, Steps
  <2>2. batch' \in [BatchIds -> BatchRow]
    <3>1. req[r].id \in BatchIds /\ req[r].code \in BATCH_PIPELINE
      BY <1>10, <1>reqs DEF RefuseBatch, ShipmentInv, RequestEarned, At
    <3>2. batch[req[r].id] \in BatchRow
      BY <3>1 DEF TypeOK
    <3>3. [batch[req[r].id] EXCEPT !.node[req[r].code] = "BLOCKED"] \in BatchRow
      BY <3>1, <3>2 DEF BatchRow
    <3>4. batch' = [batch EXCEPT ![req[r].id] =
                      [batch[req[r].id] EXCEPT !.node[req[r].code] = "BLOCKED"]]
      BY <1>10 DEF RefuseBatch
    <3> QED BY <3>1, <3>3, <3>4, <1>row
  <2> QED BY <2>1, <2>2, <1>10 DEF RefuseBatch, TypeOK, caseVars
<1>11. ASSUME NEW r \in Requests, RefuseBatchCase(r) PROVE TypeOK'
  <2>1. req' \in [Requests -> Request]
    BY <1>11, <1>fin DEF RefuseBatchCase
  <2>2. currentNode' \in CaseNodeCodes /\ caseStatus' \in CaseStatus
    BY <1>11, <1>reqs, LaterNodeType DEF RefuseBatchCase, TypeOK
  <2> QED BY <2>1, <2>2, <1>11 DEF RefuseBatchCase, TypeOK, batchVars
<1>12. ASSUME NEW r \in Requests, PassBatch(r) PROVE TypeOK'
  <2>1. req' \in [Requests -> Request]
    BY <1>12, <1>goto DEF PassBatch, Steps
  <2>2. batch' \in [BatchIds -> BatchRow]
    <3>1. req[r].id \in BatchIds /\ req[r].code \in BATCH_PIPELINE
      BY <1>12, <1>reqs DEF PassBatch, ShipmentInv, RequestEarned, At
    <3>2. batch[req[r].id] \in BatchRow
      BY <3>1 DEF TypeOK
    <3>3. [batch[req[r].id] EXCEPT !.node[req[r].code] = "PASSED"] \in BatchRow
      BY <3>1, <3>2 DEF BatchRow
    <3>4. batch' = [batch EXCEPT ![req[r].id] =
                      [batch[req[r].id] EXCEPT !.node[req[r].code] = "PASSED"]]
      BY <1>12 DEF PassBatch
    <3> QED BY <3>1, <3>3, <3>4, <1>row
  <2>3. passed' \in [BatchIds -> SUBSET BATCH_PIPELINE]
    BY <1>12, <1>reqs DEF PassBatch, TypeOK
  <2> QED BY <2>1, <2>2, <2>3, <1>12 DEF PassBatch, TypeOK, caseVars
<1>13. ASSUME NEW r \in Requests, MovePointer(r) PROVE TypeOK'
  <2>1. req' \in [Requests -> Request]
    BY <1>13, <1>goto DEF MovePointer, Steps
  <2>2. NextBatchNode(req[r].code) \in BatchPointers
    BY DEF NextBatchNode, BatchPointers, BATCH_NODE_DONE
  <2>3. batch' \in [BatchIds -> BatchRow]
    <3>1. req[r].id \in BatchIds
      BY <1>13 DEF MovePointer, ShipmentInv, RequestEarned, At
    <3> QED BY <3>1, <2>2, <1>13 DEF MovePointer, TypeOK, BatchRow
  <2> QED BY <2>1, <2>3, <1>13 DEF MovePointer, TypeOK, caseVars
<1>14. ASSUME NEW r \in Requests, SyncRead(r) PROVE TypeOK'
  <2>1. RollupCaseShipping({batch[b] : b \in rows}) \in Rollup
    BY RollupType DEF TypeOK
  <2>2. req' \in [Requests -> Request]
    <3>1. CASE Finish(r)
      BY <3>1, <1>fin
    <3>2. CASE ~Finish(r)
      BY <3>2, <2>1, <1>14, <1>reqs DEF SyncRead, Steps
    <3> QED BY <3>1, <3>2
  <2> QED BY <2>2, <1>14 DEF SyncRead, TypeOK, caseVars, batchVars
<1>15. ASSUME NEW r \in Requests, SyncCase(r) PROVE TypeOK'
  <2>1. req' \in [Requests -> Request]
    BY <1>15, <1>goto DEF SyncCase, Steps
  <2>2. currentNode' \in CaseNodeCodes /\ caseStatus' \in CaseStatus
    BY <1>15, <1>reqs DEF SyncCase, Rollup
  <2> QED BY <2>1, <2>2, <1>15 DEF SyncCase, TypeOK, batchVars
<1>16. ASSUME NEW r \in Requests, SyncNodes(r) PROVE TypeOK'
  <2>1. req' \in [Requests -> Request]
    BY <1>16, <1>fin DEF SyncNodes
  <2>2. caseNode' \in [RolledNodes -> NodeStatus]
    BY <1>16, <1>reqs DEF SyncNodes, TypeOK, Rollup
  <2> QED BY <2>1, <2>2, <1>16 DEF SyncNodes, TypeOK, batchVars
<1>17. ASSUME NEW r \in Requests, CreateBatch(r) PROVE TypeOK'
  <2>0. "create" \in Steps /\ "N6" \in BATCH_PIPELINE /\ "N6" \in CaseNodeCodes
    BY DEF Steps
  <2>1. req' \in [Requests -> Request]
    BY <2>0, <1>17, <1>start DEF CreateBatch
  <2> QED BY <2>1, <1>17 DEF CreateBatch, TypeOK, caseVars, batchVars
<1>18. ASSUME NEW r \in Requests, InsertBatch(r) PROVE TypeOK'
  <2>1. req' \in [Requests -> Request]
    BY <1>18, <1>fin, <1>goto DEF InsertBatch, Steps
  <2>2. NewBatch \in BatchRow
    BY DEF NewBatch, BatchRow, BatchPointers
  <2>3. req[r].id \in BatchIds
    BY <1>18 DEF InsertBatch, ShipmentInv, RequestEarned, At
  <2>4. rows' \subseteq BatchIds /\ batch' \in [BatchIds -> BatchRow]
    <3>1. CASE req[r].id \in rows
      BY <3>1, <1>18 DEF InsertBatch, TypeOK
    <3>2. CASE req[r].id \notin rows
      <4>1. rows' = rows \cup {req[r].id} /\ batch' = [batch EXCEPT ![req[r].id] = NewBatch]
        BY <3>2, <1>18 DEF InsertBatch
      <4> QED BY <4>1, <2>2, <2>3, <1>row DEF TypeOK
    <3> QED BY <3>1, <3>2
  <2> QED BY <2>1, <2>4, <1>18 DEF InsertBatch, TypeOK, caseVars
<1>19. ASSUME NEW r \in Requests, NEW code \in FormNodes, NEW id \in BatchIds \cup {0},
              SaveBatchForm(r, code, id)
       PROVE  TypeOK'
  <2>0. "touchCase" \in Steps /\ code \in BATCH_PIPELINE /\ 0 \in 0 .. MaxBatches
    BY DEF Steps
  <2>1. req' \in [Requests -> Request]
    BY <2>0, <1>19, <1>start DEF SaveBatchForm
  <2>2. batch' \in [BatchIds -> BatchRow]
    <3>1. Selected(id) \in BatchIds
      BY <1>19 DEF SaveBatchForm, TypeOK
    <3>2. batch[Selected(id)] \in BatchRow
      BY <3>1 DEF TypeOK
    <3>3. Touched(batch[Selected(id)].node[code]) \in NodeStatus
      BY DEF Touched
    <3> QED BY <2>0, <3>1, <3>2, <3>3, <1>19 DEF SaveBatchForm, TypeOK, BatchRow
  <2> QED BY <2>1, <2>2, <1>19 DEF SaveBatchForm, TypeOK, caseVars
<1>20. ASSUME NEW r \in Requests, TouchCaseNode(r) PROVE TypeOK'
  <2>1. req' \in [Requests -> Request]
    BY <1>20, <1>fin DEF TouchCaseNode
  <2>2. caseNode' \in [RolledNodes -> NodeStatus]
    BY <1>20 DEF TouchCaseNode, TypeOK, Touched
  <2> QED BY <2>1, <2>2, <1>20 DEF TouchCaseNode, TypeOK, batchVars
<1>21. CASE ForeignPointerWrite
  BY <1>21 DEF ForeignPointerWrite, TypeOK, batchVars
<1>22. CASE UNCHANGED vars
  BY <1>22 DEF vars, TypeOK
<1>23. ASSUME NEW r \in Requests, Handle(r) PROVE TypeOK'
  BY <1>23, <1>2, <1>3, <1>4, <1>5, <1>6, <1>8, <1>9, <1>10, <1>11, <1>12, <1>13, <1>14,
     <1>15, <1>16, <1>18, <1>20 DEF Handle
<1>24. ASSUME NEW r \in Requests, Submit(r) PROVE TypeOK'
  BY <1>24, <1>1, <1>7, <1>17, <1>19 DEF Submit
<1> QED
  BY <1>21, <1>22, <1>23, <1>24 DEF Next

-----------------------------------------------------------------------------
(* A step that leaves the other requests alone and only adds to what the   *)
(* batches have passed keeps every request's claim, if it keeps its own.   *)
LEMMA ClaimsKept ==
  ASSUME ShipmentInv,
         NEW r \in Requests, RequestEarned(r)',
         \A q \in Requests : q # r => req'[q] = req[q],
         \A b \in BatchIds : passed[b] \subseteq passed'[b]
  PROVE  \A q \in Requests : RequestEarned(q)'
<1> SUFFICES ASSUME NEW q \in Requests, q # r PROVE RequestEarned(q)'
  OBVIOUS
<1>1. RequestEarned(q) /\ req'[q] = req[q]
  BY DEF ShipmentInv
<1>2. 1 \in BatchIds
  BY ShipmentAssumption DEF BatchIds
<1> QED
  BY <1>1, <1>2 DEF RequestEarned

(* What a request may claim when it has nothing in hand.                   *)
LEMMA FinishedClaim ==
  ASSUME NEW r \in Requests, req \in [Requests -> [step : Steps, code : BATCH_PIPELINE,
           id : 0 .. MaxBatches, seen : CaseNodeCodes, rolled : Rollup]], Finish(r)
  PROVE  RequestEarned(r)' /\ \A q \in Requests : q # r => req'[q] = req[q]
BY DEF Finish, Idle, RequestEarned

LEMMA InitInv == Init => ShipmentInv
<1> SUFFICES ASSUME Init PROVE ShipmentInv
  OBVIOUS
<1>1. \A b \in BatchIds : batch[b] = NewBatch /\ passed[b] = {}
  BY DEF Init
<1>2. \A r \in Requests : req[r] = Idle
  BY DEF Init
<1>3. \A r \in Requests : RequestEarned(r)
  BY <1>2 DEF RequestEarned, Idle
<1>4. 1 \in BatchIds
  BY ShipmentAssumption DEF BatchIds
<1> QED
  BY <1>1, <1>3, <1>4
  DEF Init, ShipmentInv, NewBatch, GatesInOrder, CompletedAfterSettlement, BATCH_NODE_DONE

(* The part of the invariant that speaks of batches only.                  *)
BatchesEarned ==
  /\ 1 \in rows
  /\ \A b \in BatchIds :
       /\ batch[b].pointer = "N7" => "N6" \in passed[b]
       /\ batch[b].pointer = "N9" => "N7" \in passed[b]
       /\ \A c \in BATCH_PIPELINE : batch[b].node[c] = "PASSED" => c \in passed[b]
  /\ GatesInOrder

LEMMA InvParts ==
  /\ ShipmentInv <=>
       BatchesEarned /\ CompletedAfterSettlement /\ \A r \in Requests : RequestEarned(r)
  /\ ShipmentInv' <=>
       BatchesEarned' /\ CompletedAfterSettlement' /\ \A r \in Requests : RequestEarned(r)'
BY DEF ShipmentInv, BatchesEarned

LEMMA BatchesKept == BatchesEarned /\ UNCHANGED batchVars => BatchesEarned'
BY DEF BatchesEarned, batchVars, GatesInOrder

(* A step that changes one batch row, to one whose pointer and nodes are   *)
(* covered by what it has passed, keeps the batches' part.                 *)
LEMMA OneBatchMoved ==
  ASSUME TypeOK, BatchesEarned, 1 \in rows',
         NEW b \in BatchIds,
         \A a \in BatchIds : a # b => batch'[a] = batch[a] /\ passed'[a] = passed[a],
         batch'[b].pointer = "N7" => "N6" \in passed'[b],
         batch'[b].pointer = "N9" => "N7" \in passed'[b],
         batch'[b].pointer = BATCH_NODE_DONE => "N9" \in passed'[b],
         "N7" \in passed'[b] => "N6" \in passed'[b],
         "N9" \in passed'[b] => "N7" \in passed'[b],
         \A c \in BATCH_PIPELINE : batch'[b].node[c] = "PASSED" => c \in passed'[b]
  PROVE  BatchesEarned'
BY DEF BatchesEarned, GatesInOrder

LEMMA StepInv == TypeOK /\ ShipmentInv /\ [Next]_vars => ShipmentInv'
<1> SUFFICES ASSUME TypeOK, ShipmentInv, [Next]_vars PROVE ShipmentInv'
  OBVIOUS
<1> DEFINE Request == [step : Steps, code : BATCH_PIPELINE, id : 0 .. MaxBatches,
                       seen : CaseNodeCodes, rolled : Rollup]
<1>reqs. req \in [Requests -> Request]
  BY DEF TypeOK
<1>parts. BatchesEarned /\ CompletedAfterSettlement /\ \A r \in Requests : RequestEarned(r)
  BY InvParts
<1>one. 1 \in BatchIds
  BY ShipmentAssumption DEF BatchIds
(* Steps that leave the batches alone and hold nothing afterwards.         *)
<1>quiet. ASSUME NEW r \in Requests, RequestEarned(r)', UNCHANGED batchVars,
                 \A q \in Requests : q # r => req'[q] = req[q], CompletedAfterSettlement'
          PROVE  ShipmentInv'
  BY <1>quiet, <1>parts, BatchesKept, ClaimsKept, InvParts DEF batchVars
<1>completed. (caseStatus' = caseStatus \/ caseStatus' \in {"IN_PROGRESS", "BLOCKED"})
              /\ UNCHANGED passed => CompletedAfterSettlement'
  BY <1>parts DEF CompletedAfterSettlement
<1>claim. ASSUME NEW r \in Requests, NEW step \in Steps, Goto(r, step),
                 step \notin {"create", "gate", "refuse", "pass", "pointer", "syncCase"}
          PROVE  RequestEarned(r)' /\ \A q \in Requests : q # r => req'[q] = req[q]
  BY <1>claim, <1>reqs DEF Goto, RequestEarned
<1>begin. ASSUME NEW r \in Requests, NEW step \in Steps, NEW code, NEW id, NEW seen,
                 Start(r, step, code, id, seen), step = "create" => id \in BatchIds,
                 step \notin {"gate", "refuse", "pass", "pointer", "syncCase"}
          PROVE  RequestEarned(r)' /\ \A q \in Requests : q # r => req'[q] = req[q]
  BY <1>begin, <1>reqs DEF Start, RequestEarned, Idle
<1>1. ASSUME NEW r \in Requests, AdvanceN5(r) PROVE ShipmentInv'
  <2>1. "gate5" \in Steps
    BY DEF Steps
  <2> QED BY <2>1, <1>1, <1>begin, <1>quiet, <1>completed DEF AdvanceN5, caseVars, batchVars
<1>2. ASSUME NEW r \in Requests, GateN5(r) PROVE ShipmentInv'
  <2>1. "pass5" \in Steps /\ "refuse5" \in Steps
    BY DEF Steps
  <2> QED BY <2>1, <1>2, <1>claim, <1>quiet, <1>completed DEF GateN5, caseVars, batchVars
<1>3. ASSUME NEW r \in Requests, RefuseN5(r) \/ PassN5(r) PROVE ShipmentInv'
  <2>1. "refuse5Case" \in Steps /\ "pass5Case" \in Steps
    BY DEF Steps
  <2> QED BY <2>1, <1>3, <1>claim, <1>quiet, <1>completed DEF RefuseN5, PassN5, batchVars
<1>4. ASSUME NEW r \in Requests, RefuseN5Case(r) \/ PassN5Case(r) PROVE ShipmentInv'
  BY <1>4, <1>reqs, FinishedClaim, <1>quiet, <1>completed DEF RefuseN5Case, PassN5Case, batchVars
<1>5. ASSUME NEW r \in Requests, NEW code \in BATCH_PIPELINE, NEW id \in BatchIds \cup {0},
             AdvanceBatch(r, code, id)
      PROVE  ShipmentInv'
  <2>1. "readBatch" \in Steps
    BY DEF Steps
  <2> QED BY <2>1, <1>5, <1>begin, <1>quiet, <1>completed DEF AdvanceBatch, caseVars, batchVars
<1>6. ASSUME NEW r \in Requests, ReadBatch(r) PROVE ShipmentInv'
  <2>1. CASE Finish(r)
    BY <2>1, <1>6, <1>reqs, FinishedClaim, <1>quiet, <1>completed DEF ReadBatch, caseVars, batchVars
  <2>2. CASE ~Finish(r)
    <3> DEFINE b == Selected(req[r].id)
    <3>1. /\ b \in rows
          /\ ResolveAdvance(BatchPosition(b), req[r].code, batch[b].node[req[r].code]) = "allow"
          /\ req' = [req EXCEPT ![r].step = "gate", ![r].id = b]
      BY <2>2, <1>6 DEF ReadBatch
    <3>2. b \in BatchIds
      BY <3>1 DEF TypeOK
    <3>3. BatchPosition(b) = req[r].code
      BY <3>1 DEF ResolveAdvance
    <3>4. /\ req[r].code = "N7" => "N6" \in passed[b]
          /\ req[r].code = "N9" => "N7" \in passed[b]
      BY <3>2, <3>3, <1>parts DEF BatchPosition, BatchesEarned, GatesInOrder, BATCH_NODE_DONE
    <3>5. /\ req'[r].step = "gate" /\ req'[r].id = b /\ req'[r].code = req[r].code
          /\ \A q \in Requests : q # r => req'[q] = req[q]
      BY <3>1, <1>reqs
    <3>6. RequestEarned(r)'
      BY <3>2, <3>4, <3>5, <1>6 DEF RequestEarned, ReadBatch, batchVars
    <3> QED BY <3>5, <3>6, <1>6, <1>quiet, <1>completed DEF ReadBatch, caseVars, batchVars
  <2> QED BY <2>1, <2>2
<1>7. ASSUME NEW r \in Requests, GateBatch(r) PROVE ShipmentInv'
  <2>1. /\ req'[r].step \in {"pass", "refuse"} /\ req'[r].id = req[r].id
        /\ req'[r].code = req[r].code /\ req'[r].rolled = req[r].rolled
        /\ \A q \in Requests : q # r => req'[q] = req[q]
    BY <1>7, <1>reqs DEF GateBatch, Goto, GotoForgetting
  <2>2. RequestEarned(r)'
    BY <2>1, <1>7, <1>parts DEF RequestEarned, GateBatch, At, batchVars
  <2> QED BY <2>1, <2>2, <1>7, <1>quiet, <1>completed DEF GateBatch, caseVars, batchVars
<1>8. ASSUME NEW r \in Requests, RefuseBatch(r) PROVE ShipmentInv'
  <2> DEFINE b == req[r].id
  <2>1. b \in BatchIds /\ req[r].code \in BATCH_PIPELINE
    BY <1>8, <1>parts, <1>reqs DEF RefuseBatch, RequestEarned, At
  <2>2. /\ \A a \in BatchIds : a # b => batch'[a] = batch[a] /\ passed'[a] = passed[a]
        /\ batch'[b].pointer = batch[b].pointer /\ passed'[b] = passed[b]
        /\ \A c \in BATCH_PIPELINE : batch'[b].node[c] = "PASSED" => batch[b].node[c] = "PASSED"
    BY <2>1, <1>8 DEF RefuseBatch, TypeOK, BatchRow
  <2>3. BatchesEarned'
    BY <2>1, <2>2, <1>8, <1>parts, OneBatchMoved DEF RefuseBatch, BatchesEarned, GatesInOrder
  <2>4. "refuseCase" \in Steps
    BY DEF Steps
  <2>5. \A q \in Requests : RequestEarned(q)'
    BY <2>4, <1>8, <1>claim, ClaimsKept DEF RefuseBatch
  <2> QED BY <2>3, <2>5, <1>8, <1>completed, InvParts DEF RefuseBatch, caseVars
<1>9. ASSUME NEW r \in Requests, RefuseBatchCase(r) PROVE ShipmentInv'
  BY <1>9, <1>reqs, FinishedClaim, <1>quiet, <1>completed DEF RefuseBatchCase, batchVars
<1>10. ASSUME NEW r \in Requests, PassBatch(r) PROVE ShipmentInv'
  <2> DEFINE b == req[r].id
             code == req[r].code
  <2>1. /\ b \in BatchIds /\ code \in BATCH_PIPELINE
        /\ code = "N7" => "N6" \in passed[b]
        /\ code = "N9" => "N7" \in passed[b]
    BY <1>10, <1>parts, <1>reqs DEF PassBatch, RequestEarned, At
  <2>2. /\ passed' = [passed EXCEPT ![b] = passed[b] \cup {code}]
        /\ batch' = [batch EXCEPT ![b].node[code] = "PASSED"]
        /\ Goto(r, "pointer")
        /\ UNCHANGED <<caseVars, rows>>
    BY <1>10 DEF PassBatch
  <2>3. /\ \A a \in BatchIds : a # b => batch'[a] = batch[a] /\ passed'[a] = passed[a]
        /\ passed'[b] = passed[b] \cup {code}
        /\ batch'[b].pointer = batch[b].pointer
        /\ \A c \in BATCH_PIPELINE : c # code => batch'[b].node[c] = batch[b].node[c]
    BY <2>1, <2>2 DEF TypeOK, BatchRow
  <2>4. BatchesEarned'
    BY <2>1, <2>2, <2>3, <1>parts, OneBatchMoved
    DEF BatchesEarned, GatesInOrder, BATCH_PIPELINE, BATCH_NODE_DONE
  <2>5. /\ req'[r].step = "pointer" /\ req'[r].id = b /\ req'[r].code = code
        /\ \A q \in Requests : q # r => req'[q] = req[q]
    BY <2>2, <1>reqs DEF Goto
  <2>6. RequestEarned(r)'
    BY <2>1, <2>3, <2>5 DEF RequestEarned
  <2>7. \A a \in BatchIds : passed[a] \subseteq passed'[a]
    BY <2>3
  <2>8. \A q \in Requests : RequestEarned(q)'
    BY <2>5, <2>6, <2>7, ClaimsKept
  <2>9. CompletedAfterSettlement'
    BY <2>2, <2>7, <1>one, <1>parts DEF CompletedAfterSettlement, caseVars
  <2> QED BY <2>4, <2>8, <2>9, InvParts
<1>11. ASSUME NEW r \in Requests, MovePointer(r) PROVE ShipmentInv'
  <2> DEFINE b == req[r].id
             code == req[r].code
  <2>1. b \in BatchIds /\ code \in BATCH_PIPELINE /\ code \in passed[b]
    BY <1>11, <1>parts, <1>reqs DEF MovePointer, RequestEarned, At
  <2>2. /\ \A a \in BatchIds : a # b => batch'[a] = batch[a]
        /\ batch'[b].pointer = NextBatchNode(code) /\ batch'[b].node = batch[b].node
        /\ passed' = passed /\ rows' = rows
    BY <2>1, <1>11 DEF MovePointer, TypeOK, BatchRow
  <2>3. /\ NextBatchNode(code) = "N7" => code = "N6"
        /\ NextBatchNode(code) = "N9" => code = "N7"
        /\ NextBatchNode(code) = BATCH_NODE_DONE => code = "N9"
    BY <2>1 DEF NextBatchNode, BATCH_NODE_DONE, BATCH_PIPELINE
  <2>4. BatchesEarned'
    BY <2>1, <2>2, <2>3, <1>parts, OneBatchMoved DEF BatchesEarned, GatesInOrder
  <2>5. "syncRead" \in Steps
    BY DEF Steps
  <2>6. \A q \in Requests : RequestEarned(q)'
    BY <2>2, <2>5, <1>11, <1>claim, ClaimsKept DEF MovePointer
  <2> QED BY <2>2, <2>4, <2>6, <1>11, <1>completed, InvParts DEF MovePointer, caseVars
<1>12. ASSUME NEW r \in Requests, SyncRead(r) PROVE ShipmentInv'
  <2>1. CASE Finish(r)
    BY <2>1, <1>12, <1>reqs, FinishedClaim, <1>quiet, <1>completed DEF SyncRead, caseVars, batchVars
  <2>2. CASE ~Finish(r)
    <3> DEFINE rolled == RollupCaseShipping({batch[b] : b \in rows})
    <3>1. req' = [req EXCEPT ![r].step = "syncCase", ![r].code = "N6", ![r].id = 0,
                             ![r].rolled = rolled]
      BY <2>2, <1>12 DEF SyncRead
    <3>2. /\ req'[r].step = "syncCase" /\ req'[r].rolled = rolled
          /\ \A q \in Requests : q # r => req'[q] = req[q]
      BY <3>1, <1>reqs
    <3>3. rolled.status = "COMPLETED" => BatchDone(batch[1])
      BY <1>parts DEF RollupCaseShipping, BatchesEarned
    <3>4. BatchDone(batch[1]) => "N9" \in passed[1]
      BY <1>one, <1>parts DEF BatchDone, BatchesEarned, GatesInOrder, BATCH_PIPELINE
    <3>5. RequestEarned(r)'
      BY <3>2, <3>3, <3>4, <1>12 DEF RequestEarned, SyncRead, batchVars
    <3> QED BY <3>2, <3>5, <1>12, <1>quiet, <1>completed DEF SyncRead, caseVars, batchVars
  <2> QED BY <2>1, <2>2
<1>13. ASSUME NEW r \in Requests, SyncCase(r) PROVE ShipmentInv'
  <2>1. "syncNodes" \in Steps
    BY DEF Steps
  <2>2. CompletedAfterSettlement'
    BY <1>13, <1>parts DEF SyncCase, RequestEarned, At, CompletedAfterSettlement, batchVars
  <2> QED BY <2>1, <2>2, <1>13, <1>claim, <1>quiet DEF SyncCase
<1>14. ASSUME NEW r \in Requests, SyncNodes(r) \/ TouchCaseNode(r) PROVE ShipmentInv'
  BY <1>14, <1>reqs, FinishedClaim, <1>quiet, <1>completed DEF SyncNodes, TouchCaseNode, batchVars
<1>15. ASSUME NEW r \in Requests, CreateBatch(r) PROVE ShipmentInv'
  <2>1. "create" \in Steps
    BY DEF Steps
  <2> QED BY <2>1, <1>15, <1>begin, <1>quiet, <1>completed DEF CreateBatch, caseVars, batchVars
<1>16. ASSUME NEW r \in Requests, InsertBatch(r) PROVE ShipmentInv'
  <2> DEFINE b == req[r].id
  <2>1. b \in BatchIds
    BY <1>16, <1>parts DEF InsertBatch, RequestEarned, At
  <2>2. CASE b \in rows
    BY <2>2, <1>16, <1>reqs, FinishedClaim, <1>quiet, <1>completed
    DEF InsertBatch, caseVars, batchVars
  <2>3. CASE b \notin rows
    <3>1. /\ rows' = rows \cup {b} /\ batch' = [batch EXCEPT ![b] = NewBatch]
          /\ Goto(r, "syncRead") /\ UNCHANGED <<caseVars, passed>>
      BY <2>3, <1>16 DEF InsertBatch
    <3>2. /\ \A a \in BatchIds : a # b => batch'[a] = batch[a]
          /\ batch'[b] = NewBatch
      BY <3>1, <2>1 DEF TypeOK
    <3>3. /\ batch'[b].pointer = "N6"
          /\ \A c \in BATCH_PIPELINE : batch'[b].node[c] = "NOT_STARTED"
      BY <3>2 DEF NewBatch
    <3>4. BatchesEarned'
      BY <2>1, <3>1, <3>2, <3>3, <1>parts, OneBatchMoved
      DEF BatchesEarned, GatesInOrder, BATCH_NODE_DONE
    <3>5. "syncRead" \in Steps
      BY DEF Steps
    <3>6. \A q \in Requests : RequestEarned(q)'
      BY <3>1, <3>5, <1>claim, ClaimsKept
    <3> QED BY <3>1, <3>4, <3>6, <1>completed, InvParts DEF caseVars
  <2> QED BY <2>2, <2>3
<1>17. ASSUME NEW r \in Requests, NEW code \in FormNodes, NEW id \in BatchIds \cup {0},
              SaveBatchForm(r, code, id)
       PROVE  ShipmentInv'
  <2> DEFINE b == Selected(id)
  <2>1. b \in BatchIds /\ code \in BATCH_PIPELINE
    BY <1>17, ShipmentAssumption DEF SaveBatchForm, TypeOK
  <2>2. /\ \A a \in BatchIds : a # b => batch'[a] = batch[a]
        /\ batch'[b].pointer = batch[b].pointer /\ passed' = passed /\ rows' = rows
        /\ \A c \in BATCH_PIPELINE : c # code => batch'[b].node[c] = batch[b].node[c]
        /\ batch'[b].node[code] = Touched(batch[b].node[code])
    BY <2>1, <1>17 DEF SaveBatchForm, TypeOK, BatchRow
  <2>3. \A c \in BATCH_PIPELINE : batch'[b].node[c] = "PASSED" => batch[b].node[c] = "PASSED"
    BY <2>1, <2>2 DEF Touched
  <2>4. BatchesEarned'
    BY <2>1, <2>2, <2>3, <1>parts, OneBatchMoved DEF BatchesEarned, GatesInOrder
  <2>5. "touchCase" \in Steps
    BY DEF Steps
  <2>6. \A q \in Requests : RequestEarned(q)'
    BY <2>2, <2>5, <1>17, <1>begin, ClaimsKept DEF SaveBatchForm
  <2> QED BY <2>2, <2>4, <2>6, <1>17, <1>completed, InvParts DEF SaveBatchForm, caseVars
<1>18. CASE ForeignPointerWrite
  <2>1. CompletedAfterSettlement'
    BY <1>18, ShipmentAssumption, <1>completed DEF ForeignPointerWrite, batchVars
  <2>2. \A q \in Requests : RequestEarned(q)'
    BY <1>18, <1>parts DEF ForeignPointerWrite, RequestEarned, batchVars
  <2> QED BY <2>1, <2>2, <1>18, <1>parts, BatchesKept, InvParts DEF ForeignPointerWrite
<1>19. CASE UNCHANGED vars
  <2>1. \A q \in Requests : RequestEarned(q)'
    BY <1>19, <1>parts DEF vars, RequestEarned
  <2> QED BY <2>1, <1>19, <1>parts, <1>completed, BatchesKept, InvParts DEF vars, batchVars
<1>20. ASSUME NEW r \in Requests, Handle(r) PROVE ShipmentInv'
  BY <1>20, <1>2, <1>3, <1>4, <1>6, <1>7, <1>8, <1>9, <1>10, <1>11, <1>12, <1>13, <1>14, <1>16
  DEF Handle
<1>21. ASSUME NEW r \in Requests, Submit(r) PROVE ShipmentInv'
  BY <1>21, <1>1, <1>5, <1>15, <1>17 DEF Submit
<1> QED
  BY <1>18, <1>19, <1>20, <1>21 DEF Next

LEMMA Inductive == Spec => [](TypeOK /\ ShipmentInv)
<1>1. Init => TypeOK /\ ShipmentInv
  BY InitTyped, InitInv
<1>2. (TypeOK /\ ShipmentInv) /\ [Next]_vars => (TypeOK /\ ShipmentInv)'
  BY StepTyped, StepInv
<1> QED
  BY <1>1, <1>2, PTL DEF Spec

(* However many requests overlap, every variable keeps its shape.          *)
THEOREM TypeCorrect == Spec => []TypeOK
BY Inductive, PTL

(* However many requests overlap on however many batches, and whatever     *)
(* other handlers write to the case's pointer, a batch passes its hard     *)
(* gates in the order N6, N7, N9 and is DONE only after the last.          *)
THEOREM GateOrder == Spec => []GatesInOrder
<1>1. ShipmentInv => GatesInOrder
  BY DEF ShipmentInv
<1> QED
  BY <1>1, Inductive, PTL

(* No stale roll-up can complete a case whose first batch was not settled. *)
THEOREM CompletionEarned == Spec => []CompletedAfterSettlement
<1>1. ShipmentInv => CompletedAfterSettlement
  BY DEF ShipmentInv
<1> QED
  BY <1>1, Inductive, PTL

(* A step of the shipping half is a step of GatedPipeline, or leaves what  *)
(* the batches have passed alone: only PassBatch changes it, and the       *)
(* request that passes a node has earned every node before it.             *)
LEMMA StepRefines ==
  TypeOK /\ ShipmentInv /\ [Next]_vars => [Gates!Next]_passed
<1> SUFFICES ASSUME TypeOK, ShipmentInv, [Next]_vars PROVE [Gates!Next]_passed
  OBVIOUS
<1>1. ASSUME NEW r \in Requests, PassBatch(r) PROVE Gates!Next
  <2> DEFINE b == req[r].id
             code == req[r].code
  <2>1. b \in BatchIds /\ code \in BATCH_PIPELINE
    BY <1>1 DEF PassBatch, At, ShipmentInv, RequestEarned, TypeOK
  <2>2. /\ code = "N7" => "N6" \in passed[b]
        /\ code = "N9" => "N7" \in passed[b]
    BY <1>1 DEF PassBatch, At, ShipmentInv, RequestEarned
  <2>3. "N7" \in passed[b] => "N6" \in passed[b]
    BY <2>1 DEF ShipmentInv, GatesInOrder
  <2>4. BatchNeeds[code] \subseteq passed[b]
    BY <2>1, <2>2, <2>3 DEF BatchNeeds, BATCH_PIPELINE
  <2>5. passed' = [passed EXCEPT ![b] = @ \cup {code}]
    BY <1>1 DEF PassBatch
  <2> QED
    BY <2>1, <2>4, <2>5 DEF Gates!Next, Gates!PassGate
<1>2. ASSUME NEW r \in Requests, Handle(r), ~PassBatch(r) PROVE UNCHANGED passed
  BY <1>2 DEF Handle, GateN5, RefuseN5, RefuseN5Case, PassN5, PassN5Case, ReadBatch, GateBatch,
     RefuseBatch, RefuseBatchCase, MovePointer, SyncRead, SyncCase, SyncNodes, InsertBatch,
     TouchCaseNode, caseVars, batchVars
<1>3. ASSUME NEW r \in Requests, Submit(r) PROVE UNCHANGED passed
  BY <1>3 DEF Submit, AdvanceN5, CreateBatch, AdvanceBatch, SaveBatchForm, batchVars
<1>4. ForeignPointerWrite => UNCHANGED passed
  BY DEF ForeignPointerWrite, batchVars
<1>5. UNCHANGED vars => UNCHANGED passed
  BY DEF vars
<1> QED
  BY <1>1, <1>2, <1>3, <1>4, <1>5 DEF Next

(* The shipping half implements the abstract pipeline: each batch's gates  *)
(* are passed one at a time, in order, and never forgotten.                *)
THEOREM ShipmentImplementsGates == Spec => ImplementsGates
<1>1. Init => Gates!Init
  BY DEF Init, Gates!Init
<1> QED
  BY <1>1, StepRefines, Inductive, PTL DEF Spec, ImplementsGates, Gates!Spec
-----------------------------------------------------------------------------
(***************************************************************************)
(* Requests that come one after the other.                                 *)
(***************************************************************************)

(* The roll-up of the batches rs out of the rows f, and what it says.      *)
RolledUp(rs, f) == RollupCaseShipping({f[b] : b \in rs})
AllDone(rs, f) == \A b \in rs : BatchDone(f[b])
OpenPointers(rs, f) == {f[b].pointer : b \in rs} \ {BATCH_NODE_DONE}
Earliest(open) == CHOOSE p \in open : \A q \in open : PipelineIndex(p) <= PipelineIndex(q)

LEMMA RolledUpSays ==
  ASSUME NEW rs, NEW f, rs # {}
  PROVE  /\ RolledUp(rs, f).currentNode =
               IF AllDone(rs, f) THEN "N9" ELSE Earliest(OpenPointers(rs, f))
         /\ RolledUp(rs, f).status = IF AllDone(rs, f) THEN "COMPLETED" ELSE "IN_PROGRESS"
         /\ \A c \in BATCH_PIPELINE :
              RolledUp(rs, f).node[c] = "PASSED" <=> \A b \in rs : f[b].node[c] = "PASSED"
<1> DEFINE batchRows == {f[b] : b \in rs}
<1>1. {row.pointer : row \in batchRows} = {f[b].pointer : b \in rs}
  OBVIOUS
<1>2. (\A row \in batchRows : BatchDone(row)) <=> AllDone(rs, f)
  BY DEF AllDone
<1>3. \A c : {row.node[c] : row \in batchRows} = {f[b].node[c] : b \in rs}
  OBVIOUS
<1>4. \A statuses : RollupNode(statuses) = "PASSED" <=> statuses = {"PASSED"}
  BY DEF RollupNode
<1>5. ASSUME NEW c \in BATCH_PIPELINE
      PROVE  RolledUp(rs, f).node[c] = "PASSED" <=> \A b \in rs : f[b].node[c] = "PASSED"
  <2>1. RolledUp(rs, f).node[c] = RollupNode({row.node[c] : row \in batchRows})
    BY DEF RolledUp, RollupCaseShipping
  <2>2. {f[b].node[c] : b \in rs} = {"PASSED"} <=> \A b \in rs : f[b].node[c] = "PASSED"
    OBVIOUS
  <2>3. {row.node[c] : row \in batchRows} = {f[b].node[c] : b \in rs}
    BY <1>3
  <2> HIDE DEF batchRows
  <2>4. RolledUp(rs, f).node[c] = "PASSED" <=> {row.node[c] : row \in batchRows} = {"PASSED"}
    BY <2>1, <1>4
  <2> QED BY <2>2, <2>3, <2>4
<1>6. RolledUp(rs, f).currentNode =
        IF \A row \in batchRows : BatchDone(row) THEN "N9"
        ELSE Earliest({row.pointer : row \in batchRows} \ {BATCH_NODE_DONE})
  BY DEF RolledUp, RollupCaseShipping, Earliest
<1>7. RolledUp(rs, f).status =
        IF \A row \in batchRows : BatchDone(row) THEN "COMPLETED" ELSE "IN_PROGRESS"
  BY DEF RolledUp, RollupCaseShipping
<1> HIDE DEF batchRows
<1> QED
  BY <1>1, <1>2, <1>5, <1>6, <1>7 DEF OpenPointers

LEMMA EarliestOfOne == \A p \in BATCH_PIPELINE : Earliest({p}) = p
<1>1. \A p \in BATCH_PIPELINE : PipelineIndex(p) <= PipelineIndex(p)
  BY DEF PipelineIndex, FlowPosition, BATCH_PIPELINE
<1> QED
  BY <1>1 DEF Earliest

(* A case that has not reached shipping: no batch has passed anything.     *)
Unreached ==
  /\ currentNode = "N5" /\ caseStatus # "COMPLETED"
  /\ \A c \in BATCH_PIPELINE : caseNode[c] # "PASSED"
  /\ \A b \in rows : /\ batch[b].pointer = "N6"
                      /\ \A c \in BATCH_PIPELINE : batch[b].node[c] # "PASSED"

InShipping == currentNode \in BATCH_PIPELINE

(* What a case in shipping says of its batches is what they say.           *)
PointerAgrees ==
  /\ currentNode = RolledUp(rows, batch).currentNode
  /\ caseStatus = "COMPLETED" <=> AllDone(rows, batch)

CaseAgrees == InShipping => PointerAgrees /\ CaseNodePassedByAllBatches

(* A batch has passed nothing at or after its pointer.                     *)
Ahead(b) ==
  /\ \A c \in BATCH_PIPELINE :
       batch[b].node[c] = "PASSED" => BatchIndex(c) < BatchIndex(batch[b].pointer)
  /\ batch[b].pointer = BATCH_NODE_DONE => batch[b].node["N9"] = "PASSED"

(* What the request in flight may count on.  From PassBatch to SyncNodes   *)
(* the case and its batches disagree, and its next writes are the cure.    *)
SyncSteps == {"pointer", "syncRead", "syncCase", "syncNodes"}
N5Steps == {"gate5", "refuse5", "refuse5Case", "pass5", "pass5Case"}
HeldSteps == {"gate", "refuse", "refuseCase", "pass", "pointer"}

Holds(r) ==
  LET q == req[r]
  IN /\ q.step \in N5Steps => q.seen = "N5" /\ Unreached
     /\ q.step \in {"readBatch", "gate", "refuse", "refuseCase"} => InShipping /\ q.seen = currentNode
     /\ q.step \in HeldSteps => /\ InShipping /\ q.id \in rows /\ batch[q.id].pointer = q.code
                                /\ batch[q.id].node[q.code] = "PASSED" <=> q.step = "pointer"
     /\ q.step = "pointer" =>
          \A c \in BATCH_PIPELINE :
            batch[q.id].node[c] = "PASSED" => c = q.code \/ BatchIndex(c) < BatchIndex(q.code)
     /\ q.step \in {"syncCase", "syncNodes"} => InShipping /\ q.rolled = RolledUp(rows, batch)
     /\ q.step = "syncNodes" => PointerAgrees

SerialInv ==
  /\ OneAtATime
  /\ Unreached \/ InShipping
  /\ \A b \in rows : Ahead(b) \/ \E r \in Requests : At(r, "pointer") /\ req[r].id = b
  /\ \A r \in Requests : Holds(r)
  /\ (\A r \in Requests : req[r].step \notin SyncSteps) => CaseAgrees

(* Agreement at the door: every batch stands on N6 and has passed nothing. *)
LEMMA FreshAgrees ==
  ASSUME NEW rs, NEW f, rs # {},
         \A b \in rs : /\ f[b].pointer = "N6"
                       /\ \A c \in BATCH_PIPELINE : f[b].node[c] # "PASSED"
  PROVE  RolledUp(rs, f).currentNode = "N6" /\ ~AllDone(rs, f)
<1>1. ~AllDone(rs, f)
  BY DEF AllDone, BatchDone, BATCH_NODE_DONE, BATCH_PIPELINE
<1>2. OpenPointers(rs, f) = {"N6"}
  BY DEF OpenPointers, BATCH_NODE_DONE
<1> QED
  <2>1. RolledUp(rs, f).currentNode = Earliest(OpenPointers(rs, f))
    BY <1>1, RolledUpSays
  <2>2. Earliest({"N6"}) = "N6"
    BY EarliestOfOne DEF BATCH_PIPELINE
  <2> QED BY <1>1, <1>2, <2>1, <2>2

(* The roll-up tells batches apart by their pointers and PASSED nodes.     *)
LEMMA SameRollup ==
  ASSUME NEW rs, NEW f, NEW g, rs # {},
         \A b \in rs : /\ g[b].pointer = f[b].pointer
                       /\ \A c \in BATCH_PIPELINE : g[b].node[c] = "PASSED" <=> f[b].node[c] = "PASSED"
  PROVE  /\ RolledUp(rs, g).currentNode = RolledUp(rs, f).currentNode
         /\ AllDone(rs, g) <=> AllDone(rs, f)
<1>1. AllDone(rs, g) <=> AllDone(rs, f)
  BY DEF AllDone, BatchDone, BATCH_PIPELINE
<1>2. OpenPointers(rs, g) = OpenPointers(rs, f)
  BY DEF OpenPointers
<1> QED
  BY <1>1, <1>2, RolledUpSays

LEMMA BatchOrder ==
  /\ BatchIndex("N6") = 8 /\ BatchIndex("N7") = 10 /\ BatchIndex("N9") = 12
  /\ BatchIndex(BATCH_NODE_DONE) = 14
BY DEF BatchIndex, PipelineIndex, FlowPosition, BATCH_NODE_DONE

LEMMA InitSerial == Init => SerialInv
<1> SUFFICES ASSUME Init PROVE SerialInv
  OBVIOUS
<1>1. \A r \in Requests : req[r].step = "idle"
  BY DEF Init, Idle
<1>2. rows = {1} /\ batch[1] = NewBatch
  BY ShipmentAssumption DEF Init, BatchIds
<1>3. batch[1].pointer = "N6" /\ \A c \in BATCH_PIPELINE : batch[1].node[c] # "PASSED"
  BY <1>2 DEF NewBatch
<1>4. currentNode \in {"N5", "N6"} /\ \A c \in BATCH_PIPELINE : caseNode[c] # "PASSED"
  BY ShipmentAssumption DEF Init, RolledNodes, BATCH_PIPELINE
<1>5. Unreached \/ InShipping
  BY <1>2, <1>3, <1>4 DEF Init, Unreached, InShipping, BATCH_PIPELINE
<1>6. Ahead(1)
  BY <1>3 DEF Ahead, BATCH_NODE_DONE
<1>7. \A r \in Requests : Holds(r)
  BY <1>1 DEF Holds, N5Steps, HeldSteps
<1>8. CaseAgrees
  <2>1. RolledUp(rows, batch).currentNode = "N6" /\ ~AllDone(rows, batch)
    BY <1>2, <1>3, FreshAgrees
  <2> QED BY <2>1, <1>2, <1>3, <1>4
      DEF Init, CaseAgrees, InShipping, PointerAgrees, CaseNodePassedByAllBatches, BATCH_PIPELINE
<1> QED
  BY <1>1, <1>2, <1>5, <1>6, <1>7, <1>8 DEF SerialInv, OneAtATime, At

(* One request moves; the others are idle before and after.                *)
Alone(r) ==
  /\ \A x \in Requests : x # r => req'[x] = req[x]
  /\ req[r].step # "idle" \/ req'[r].step # "idle"

LEMMA AloneIdle ==
  ASSUME SerialInv, OneAtATime', NEW r \in Requests, Alone(r)
  PROVE  \A x \in Requests : x # r => req[x].step = "idle" /\ req'[x].step = "idle"
BY DEF SerialInv, OneAtATime, At, Alone

(* SerialInv after a step of one request, from the part of that request.   *)
LEMMA ActorSettles ==
  ASSUME SerialInv, OneAtATime', NEW r \in Requests, Alone(r), Holds(r)',
         (Unreached \/ InShipping)',
         \A b \in rows' : Ahead(b)' \/ (req'[r].step = "pointer" /\ req'[r].id = b),
         req'[r].step \notin SyncSteps => CaseAgrees'
  PROVE  SerialInv'
<1>1. \A x \in Requests : x # r => Holds(x)'
  BY AloneIdle DEF Holds, N5Steps, HeldSteps
<1>2. \A b \in rows' : Ahead(b)' \/ \E x \in Requests : At(x, "pointer")' /\ req'[x].id = b
  BY DEF At
<1> QED
  BY <1>1, <1>2 DEF SerialInv

(* What SerialInv says to a request about to move.                         *)
LEMMA ActorKnows ==
  ASSUME SerialInv, OneAtATime', NEW r \in Requests, Alone(r)
  PROVE  /\ Holds(r)
         /\ Unreached \/ InShipping
         /\ req[r].step # "pointer" => \A b \in rows : Ahead(b)
         /\ req[r].step = "pointer" => \A b \in rows : b # req[r].id => Ahead(b)
         /\ req[r].step \notin SyncSteps => CaseAgrees
<1>1. \A x \in Requests : x # r => req[x].step = "idle"
  BY AloneIdle
<1>2. req[r].step \notin SyncSteps => \A x \in Requests : req[x].step \notin SyncSteps
  BY <1>1 DEF SyncSteps
<1> QED
  BY <1>1, <1>2 DEF SerialInv, At

(* A step that writes no row of the case or of a batch.                    *)
LEMMA ReadStep ==
  ASSUME SerialInv, OneAtATime', NEW r \in Requests, Alone(r), Holds(r)',
         UNCHANGED <<caseVars, batchVars>>, req[r].step # "pointer",
         req[r].step \in SyncSteps => req'[r].step \in SyncSteps \/ Unreached
  PROVE  SerialInv'
<1> USE DEF caseVars, batchVars
<1>1. (Unreached \/ InShipping)'
  BY ActorKnows DEF Unreached, InShipping
<1>2. \A b \in rows' : Ahead(b)'
  BY ActorKnows DEF Ahead
<1>3. CaseAgrees \/ Unreached => CaseAgrees'
  BY DEF CaseAgrees, Unreached, InShipping, PointerAgrees, CaseNodePassedByAllBatches, BATCH_PIPELINE
<1>4. req'[r].step \notin SyncSteps => CaseAgrees'
  BY <1>3, ActorKnows
<1> QED
  BY <1>1, <1>2, <1>4, ActorSettles

(* A step that changes neither a pointer nor which nodes are PASSED.       *)
SameMarks ==
  /\ UNCHANGED <<currentNode, caseStatus, rows>>
  /\ \A c \in BATCH_PIPELINE : caseNode'[c] = "PASSED" <=> caseNode[c] = "PASSED"
  /\ \A b \in rows : /\ batch'[b].pointer = batch[b].pointer
                      /\ \A c \in BATCH_PIPELINE :
                           batch'[b].node[c] = "PASSED" <=> batch[b].node[c] = "PASSED"

LEMMA MarksKept ==
  ASSUME SerialInv, OneAtATime', 1 \in rows, NEW r \in Requests, Alone(r), Holds(r)', SameMarks,
         req[r].step \notin SyncSteps
  PROVE  SerialInv'
<1>1. (Unreached \/ InShipping)'
  BY ActorKnows DEF Unreached, InShipping, SameMarks
<1>2. \A b \in rows' : Ahead(b)'
  <2>1. \A b \in rows : Ahead(b)
    BY ActorKnows DEF SyncSteps
  <2> QED BY <2>1 DEF Ahead, SameMarks, BATCH_PIPELINE
<1>3. CaseAgrees'
  <2>1. /\ RolledUp(rows, batch').currentNode = RolledUp(rows, batch).currentNode
        /\ AllDone(rows, batch') <=> AllDone(rows, batch)
    BY SameRollup DEF SameMarks
  <2>2. CaseAgrees
    BY ActorKnows
  <2> QED BY <2>1, <2>2
      DEF CaseAgrees, InShipping, PointerAgrees, CaseNodePassedByAllBatches, SameMarks
<1> QED
  BY <1>1, <1>2, <1>3, ActorSettles

LEMMA OutOfN5 == ~(Unreached /\ InShipping)
BY DEF Unreached, InShipping, BATCH_PIPELINE

LEMMA StepSerial ==
  ASSUME TypeOK, ShipmentInv, SerialInv, [SerialNext]_vars
  PROVE  SerialInv' /\ PassedBatchNodeStays /\ BatchPointerForward
<1> DEFINE Good == SerialInv' /\ PassedBatchNodeStays /\ BatchPointerForward
<1> USE DEF caseVars, batchVars
<1>typed. /\ req \in [Requests -> [step : Steps, code : BATCH_PIPELINE, id : 0 .. MaxBatches,
                                   seen : CaseNodeCodes, rolled : Rollup]]
          /\ batch \in [BatchIds -> BatchRow] /\ rows \subseteq BatchIds /\ 1 \in rows
          /\ caseNode \in [RolledNodes -> NodeStatus]
          /\ \A b \in rows : batch[b] \in BatchRow
  BY DEF TypeOK, ShipmentInv
<1>orders. \A p \in BatchPointers : BatchIndex(p) \in Int
  BY BatchOrder DEF BatchPointers, BATCH_PIPELINE
<1>kept. UNCHANGED batch => PassedBatchNodeStays /\ BatchPointerForward
  BY <1>typed, <1>orders DEF PassedBatchNodeStays, BatchPointerForward, BatchRow
<1>fin. ASSUME NEW r \in Requests, Finish(r)
        PROVE  /\ \A x \in Requests : x # r => req'[x] = req[x]
               /\ req'[r] = Idle /\ req'[r].step = "idle" /\ Holds(r)'
  <2>1. req'[r] = Idle /\ \A x \in Requests : x # r => req'[x] = req[x]
    BY <1>fin, <1>typed DEF Finish
  <2>2. Idle.step = "idle"
    BY DEF Idle
  <2> QED BY <2>1, <2>2 DEF Holds, N5Steps, HeldSteps
<1>goto. ASSUME NEW r \in Requests, NEW step \in Steps, Goto(r, step)
         PROVE  /\ \A x \in Requests : x # r => req'[x] = req[x]
                /\ req'[r].step = step /\ req'[r].code = req[r].code /\ req'[r].id = req[r].id
                /\ req'[r].seen = req[r].seen /\ req'[r].rolled = req[r].rolled
  BY <1>goto, <1>typed DEF Goto
<1>start. ASSUME NEW r \in Requests, NEW step \in Steps, NEW code, NEW id, NEW seen,
                 Start(r, step, code, id, seen)
          PROVE  /\ \A x \in Requests : x # r => req'[x] = req[x]
                 /\ req'[r].step = step /\ req'[r].code = code /\ req'[r].id = id
                 /\ req'[r].seen = seen
  BY <1>start, <1>typed DEF Start, Idle
<1>steps. Steps = {"idle", "gate5", "refuse5", "refuse5Case", "pass5", "pass5Case",
                   "readBatch", "gate", "refuse", "refuseCase", "pass", "pointer",
                   "create", "syncRead", "syncCase", "syncNodes", "touchCase"}
  BY DEF Steps
<1>sets. /\ SyncSteps = {"pointer", "syncRead", "syncCase", "syncNodes"}
         /\ N5Steps = {"gate5", "refuse5", "refuse5Case", "pass5", "pass5Case"}
         /\ HeldSteps = {"gate", "refuse", "refuseCase", "pass", "pointer"}
         /\ BATCH_PIPELINE = {"N6", "N7", "N9"}
  BY DEF SyncSteps, N5Steps, HeldSteps, BATCH_PIPELINE

<1>1. ASSUME OneAtATime', NEW r \in Requests, AdvanceN5(r) PROVE Good
  <2>1. /\ \A x \in Requests : x # r => req'[x] = req[x]
        /\ req'[r].step = "gate5" /\ req'[r].seen = "N5" /\ currentNode = "N5"
    BY <1>1, <1>start, <1>steps DEF AdvanceN5, ResolveAdvance
  <2>2. Alone(r)
    BY <2>1 DEF Alone
  <2>3. Unreached'
    BY <2>1, <2>2, <1>1, <1>sets, ActorKnows DEF AdvanceN5, Unreached, InShipping
  <2>4. Holds(r)'
    BY <2>1, <2>3 DEF Holds, HeldSteps
  <2> QED BY <2>2, <2>4, <1>1, <1>kept, <1>sets, ReadStep DEF AdvanceN5, At
<1>2. ASSUME OneAtATime', NEW r \in Requests, GateN5(r) PROVE Good
  <2>1. PICK step \in {"pass5", "refuse5"} : Goto(r, step)
    BY <1>2 DEF GateN5
  <2>2. /\ \A x \in Requests : x # r => req'[x] = req[x]
        /\ req'[r].step \in {"pass5", "refuse5"} /\ req'[r].seen = req[r].seen
    BY <2>1, <1>goto, <1>steps
  <2>3. Alone(r) /\ req[r].step = "gate5"
    BY <2>2, <1>2 DEF Alone, GateN5, At
  <2>4. req[r].seen = "N5" /\ Unreached
    BY <2>3, <1>2, <1>sets, ActorKnows DEF Holds
  <2>5. Unreached'
    BY <2>4, <1>2 DEF Unreached, GateN5
  <2>6. Holds(r)'
    BY <2>2, <2>4, <2>5 DEF Holds, HeldSteps
  <2> QED BY <2>3, <2>6, <1>2, <1>kept, <1>sets, ReadStep DEF GateN5
<1>3. ASSUME OneAtATime', NEW r \in Requests, RefuseN5(r) \/ PassN5(r) PROVE Good
  <2>1. PICK step \in {"refuse5Case", "pass5Case"} : Goto(r, step)
    BY <1>3 DEF RefuseN5, PassN5
  <2>2. /\ \A x \in Requests : x # r => req'[x] = req[x]
        /\ req'[r].step \in {"refuse5Case", "pass5Case"} /\ req'[r].seen = req[r].seen
    BY <2>1, <1>goto, <1>steps
  <2>3. Alone(r) /\ req[r].step \in {"refuse5", "pass5"}
    BY <2>2, <1>3 DEF Alone, RefuseN5, PassN5, At
  <2>4. req[r].seen = "N5" /\ Unreached
    BY <2>3, <1>3, <1>sets, ActorKnows DEF Holds
  <2>5. UNCHANGED <<currentNode, caseStatus, batchVars>>
        /\ \A c \in BATCH_PIPELINE : caseNode'[c] = caseNode[c]
    BY <1>3, <1>typed, <1>sets DEF RefuseN5, PassN5, RolledNodes
  <2>6. Unreached'
    BY <2>4, <2>5 DEF Unreached
  <2>7. Holds(r)'
    BY <2>2, <2>4, <2>6 DEF Holds, HeldSteps
  <2>8. \A b \in rows' : Ahead(b)'
    BY <2>3, <2>5, <1>3, ActorKnows DEF Ahead
  <2>9. CaseAgrees'
    BY <2>6, OutOfN5 DEF CaseAgrees, Unreached, InShipping, BATCH_PIPELINE
  <2>10. SerialInv'
    BY <2>3, <2>6, <2>7, <2>8, <2>9, <1>3, ActorSettles
  <2> QED BY <2>5, <2>10, <1>kept
<1>4. ASSUME OneAtATime', NEW r \in Requests, RefuseN5Case(r) PROVE Good
  <2>1. Alone(r) /\ Holds(r)' /\ req'[r].step = "idle" /\ req[r].step = "refuse5Case"
    BY <1>4, <1>fin DEF RefuseN5Case, Alone, At
  <2>2. req[r].seen = "N5" /\ Unreached
    BY <2>1, <1>4, <1>sets, ActorKnows DEF Holds
  <2>3. currentNode' = "N5"
    BY <2>2, <1>4 DEF RefuseN5Case, LaterNode
  <2>4. Unreached'
    BY <2>2, <2>3, <1>4 DEF Unreached, RefuseN5Case
  <2>5. \A b \in rows' : Ahead(b)'
    BY <2>1, <1>4, ActorKnows DEF Ahead, RefuseN5Case
  <2>6. CaseAgrees'
    BY <2>4 DEF CaseAgrees, Unreached, InShipping, BATCH_PIPELINE
  <2>7. SerialInv'
    BY <2>1, <2>4, <2>5, <2>6, <1>4, ActorSettles
  <2> QED BY <2>7, <1>4, <1>kept DEF RefuseN5Case
<1>5. ASSUME OneAtATime', NEW r \in Requests, PassN5Case(r) PROVE Good
  <2>1. Alone(r) /\ Holds(r)' /\ req'[r].step = "idle" /\ req[r].step = "pass5Case"
    BY <1>5, <1>fin DEF PassN5Case, Alone, At
  <2>2. req[r].seen = "N5" /\ Unreached
    BY <2>1, <1>5, <1>sets, ActorKnows DEF Holds
  <2>3. currentNode' = "N6"
    BY <2>2, <1>5 DEF PassN5Case, LaterNode, NextNode, PipelineIndex, FlowPosition
  <2>4. RolledUp(rows, batch).currentNode = "N6" /\ ~AllDone(rows, batch)
    BY <2>2, <1>typed, FreshAgrees DEF Unreached
  <2>5. InShipping' /\ CaseAgrees'
    BY <2>2, <2>3, <2>4, <1>5, <1>typed DEF PassN5Case, Unreached, InShipping, CaseAgrees,
       PointerAgrees, CaseNodePassedByAllBatches, BATCH_PIPELINE
  <2>6. \A b \in rows' : Ahead(b)'
    BY <2>1, <1>5, ActorKnows DEF Ahead, PassN5Case
  <2>7. SerialInv'
    BY <2>1, <2>5, <2>6, <1>5, ActorSettles
  <2> QED BY <2>7, <1>5, <1>kept DEF PassN5Case
<1>6. ASSUME OneAtATime', NEW r \in Requests, NEW code \in BATCH_PIPELINE, NEW id,
             AdvanceBatch(r, code, id)
      PROVE  Good
  <2>1. /\ \A x \in Requests : x # r => req'[x] = req[x]
        /\ req'[r].step = "readBatch" /\ req'[r].seen = currentNode
    BY <1>6, <1>start, <1>steps DEF AdvanceBatch
  <2>2. Alone(r)
    BY <2>1 DEF Alone
  <2>3. ~Unreached
    BY <1>6 DEF AdvanceBatch, CaseReadyForBatchAdvance, Unreached, PipelineIndex, FlowPosition
  <2>4. InShipping'
    BY <2>2, <2>3, <1>6, ActorKnows DEF InShipping, AdvanceBatch
  <2>5. Holds(r)'
    BY <2>1, <2>4, <1>6 DEF Holds, N5Steps, HeldSteps, AdvanceBatch
  <2> QED BY <2>2, <2>5, <1>6, <1>kept, <1>sets, ReadStep DEF AdvanceBatch, At
<1>7. ASSUME OneAtATime', NEW r \in Requests, ReadBatch(r) PROVE Good
  <2>1. CASE Finish(r)
    <3>1. Alone(r) /\ Holds(r)' /\ req[r].step = "readBatch"
      BY <2>1, <1>7, <1>fin DEF ReadBatch, Alone, At
    <3> QED BY <3>1, <1>7, <1>kept, <1>sets, ReadStep DEF ReadBatch
  <2>2. CASE ~Finish(r)
    <3> DEFINE b == Selected(req[r].id)
               code == req[r].code
    <3>1. /\ b \in rows
          /\ ResolveAdvance(BatchPosition(b), code, batch[b].node[code]) = "allow"
          /\ req' = [req EXCEPT ![r].step = "gate", ![r].id = b]
          /\ req[r].step = "readBatch"
      BY <2>2, <1>7 DEF ReadBatch, At
    <3>2. /\ \A x \in Requests : x # r => req'[x] = req[x]
          /\ req'[r].step = "gate" /\ req'[r].id = b /\ req'[r].code = code
          /\ req'[r].seen = req[r].seen
      BY <3>1, <1>typed
    <3>3. Alone(r)
      BY <3>1, <3>2 DEF Alone
    <3>4. Ahead(b) /\ InShipping /\ req[r].seen = currentNode
      BY <3>1, <3>3, <1>7, ActorKnows DEF Holds
    <3>5. BatchPosition(b) = code /\ batch[b].node[code] # "PASSED"
      BY <3>1 DEF ResolveAdvance
    <3>6. batch[b].pointer = code
      BY <3>4, <3>5 DEF Ahead, BatchPosition
    <3>7. Holds(r)'
      <4> HIDE DEF b, code
      <4> QED BY <3>1, <3>2, <3>4, <3>5, <3>6, <1>7 DEF Holds, N5Steps, HeldSteps, ReadBatch, InShipping
    <3> QED BY <3>1, <3>3, <3>7, <1>7, <1>kept, <1>sets, ReadStep DEF ReadBatch
  <2> QED BY <2>1, <2>2
<1>8. ASSUME OneAtATime', NEW r \in Requests, GateBatch(r) PROVE Good
  <2>1. /\ req'[r].step \in {"pass", "refuse"} /\ req'[r].id = req[r].id
        /\ req'[r].code = req[r].code /\ (req'[r].step = "refuse" => req'[r].seen = req[r].seen)
        /\ \A x \in Requests : x # r => req'[x] = req[x]
        /\ req[r].step = "gate"
    BY <1>8, <1>typed DEF GateBatch, Goto, GotoForgetting, At
  <2>2. Alone(r)
    BY <2>1 DEF Alone
  <2>3. Holds(r)
    BY <2>2, <1>8, ActorKnows
  <2>4. Holds(r)'
    BY <2>1, <2>3, <1>8 DEF Holds, N5Steps, HeldSteps, GateBatch, InShipping
  <2>5. UNCHANGED <<caseVars, batchVars>>
    BY <1>8 DEF GateBatch
  <2>6. SerialInv'
    BY <2>1, <2>2, <2>4, <2>5, <1>8, <1>sets, ReadStep
  <2> QED BY <2>5, <2>6, <1>kept
<1>9. ASSUME OneAtATime', NEW r \in Requests, RefuseBatch(r) PROVE Good
  <2> DEFINE b == req[r].id
             code == req[r].code
  <2>1. /\ \A x \in Requests : x # r => req'[x] = req[x]
        /\ req'[r].step = "refuseCase" /\ req'[r].id = b /\ req'[r].code = code
        /\ req'[r].seen = req[r].seen /\ req[r].step = "refuse"
    BY <1>9, <1>goto, <1>steps DEF RefuseBatch, At
  <2>2. Alone(r)
    BY <2>1 DEF Alone
  <2>3. /\ InShipping /\ b \in rows /\ batch[b].pointer = code /\ req[r].seen = currentNode
        /\ batch[b].node[code] # "PASSED" /\ code \in BATCH_PIPELINE
    BY <2>1, <2>2, <1>9, <1>sets, <1>typed, ActorKnows DEF Holds
  <2> HIDE DEF b, code
  <2>4. batch' = [batch EXCEPT ![b].node[code] = "BLOCKED"] /\ UNCHANGED <<caseVars, rows>>
    BY <1>9 DEF RefuseBatch, b, code
  <2>5. /\ \A a \in rows : a # b => batch'[a] = batch[a]
        /\ batch'[b].pointer = batch[b].pointer /\ batch'[b].node[code] = "BLOCKED"
        /\ \A c \in BATCH_PIPELINE : c # code => batch'[b].node[c] = batch[b].node[c]
    BY <2>3, <2>4, <1>typed DEF BatchRow
  <2>6. SameMarks
    BY <2>3, <2>4, <2>5 DEF SameMarks
  <2>7. Holds(r)'
    BY <2>1, <2>3, <2>4, <2>5 DEF Holds, N5Steps, HeldSteps, InShipping, b, code
  <2>8. SerialInv'
    BY <2>1, <2>2, <2>6, <2>7, <1>9, <1>sets, <1>typed, MarksKept
  <2> QED BY <2>6, <2>8, <1>typed, <1>orders DEF SameMarks, PassedBatchNodeStays, BatchPointerForward, BatchRow
<1>10. ASSUME OneAtATime', NEW r \in Requests, RefuseBatchCase(r) PROVE Good
  <2>1. Alone(r) /\ Holds(r)' /\ req'[r].step = "idle" /\ req[r].step = "refuseCase"
    BY <1>10, <1>fin DEF RefuseBatchCase, Alone, At
  <2>2. /\ InShipping /\ req[r].id \in rows /\ batch[req[r].id].pointer = req[r].code
        /\ req[r].seen = currentNode /\ batch[req[r].id].node[req[r].code] # "PASSED"
        /\ req[r].code \in BATCH_PIPELINE
    BY <2>1, <1>10, <1>sets, <1>typed, ActorKnows DEF Holds
  <2>3. CaseAgrees /\ \A b \in rows : Ahead(b)
    BY <2>1, <1>10, <1>sets, ActorKnows
  <2>4. ~AllDone(rows, batch)
    <3>1. batch[req[r].id].pointer # BATCH_NODE_DONE
      BY <2>2 DEF BATCH_PIPELINE, BATCH_NODE_DONE
    <3>2. batch[req[r].id].node["N9"] # "PASSED"
      BY <2>2, <2>3, BatchOrder DEF Ahead, BATCH_PIPELINE
    <3> QED BY <3>1, <3>2, <2>2 DEF AllDone, BatchDone
  <2>5. currentNode' = currentNode
    <3>1. CASE rows = {1}
      <4>1. OpenPointers(rows, batch) = {req[r].code}
        BY <3>1, <2>2 DEF OpenPointers, BATCH_NODE_DONE, BATCH_PIPELINE
      <4>2. currentNode = req[r].code
        BY <4>1, <2>2, <2>3, <2>4, <1>typed, RolledUpSays, EarliestOfOne DEF CaseAgrees, PointerAgrees
      <4>3. currentNode' = LaterNode(currentNode, currentNode)
        BY <3>1, <4>2, <2>2, <1>10 DEF RefuseBatchCase
      <4> QED BY <4>3 DEF LaterNode
    <3>2. CASE rows # {1}
      BY <3>2, <1>10 DEF RefuseBatchCase
    <3> QED BY <3>1, <3>2
  <2>6. UNCHANGED <<caseNode, batchVars>> /\ (caseStatus' = "COMPLETED" => caseStatus = "COMPLETED")
    BY <1>10 DEF RefuseBatchCase
  <2>7. InShipping' /\ CaseAgrees'
    BY <2>2, <2>3, <2>4, <2>5, <2>6 DEF InShipping, CaseAgrees, PointerAgrees, CaseNodePassedByAllBatches
  <2>8. \A b \in rows' : Ahead(b)'
    BY <2>3, <2>6 DEF Ahead
  <2>9. SerialInv'
    BY <2>1, <2>7, <2>8, <1>10, ActorSettles
  <2> QED BY <2>6, <2>9, <1>kept
<1>11. ASSUME OneAtATime', NEW r \in Requests, PassBatch(r) PROVE Good
  <2> DEFINE b == req[r].id
             code == req[r].code
  <2>1. /\ \A x \in Requests : x # r => req'[x] = req[x]
        /\ req'[r].step = "pointer" /\ req'[r].id = b /\ req'[r].code = code
        /\ req[r].step = "pass"
    BY <1>11, <1>goto, <1>steps DEF PassBatch, At
  <2>2. Alone(r)
    BY <2>1 DEF Alone
  <2>3. /\ InShipping /\ b \in rows /\ batch[b].pointer = code
        /\ code \in BATCH_PIPELINE /\ \A a \in rows : Ahead(a)
    BY <2>1, <2>2, <1>11, <1>sets, <1>typed, ActorKnows DEF Holds
  <2> HIDE DEF b, code
  <2>4. batch' = [batch EXCEPT ![b].node[code] = "PASSED"] /\ UNCHANGED <<caseVars, rows>>
    BY <1>11 DEF PassBatch, b, code
  <2>5. /\ \A a \in rows : a # b => batch'[a] = batch[a]
        /\ batch'[b].pointer = batch[b].pointer /\ batch'[b].node[code] = "PASSED"
        /\ \A c \in BATCH_PIPELINE : c # code => batch'[b].node[c] = batch[b].node[c]
    BY <2>3, <2>4, <1>typed DEF BatchRow
  <2>6. \A a \in rows' : Ahead(a)' \/ a = b
    BY <2>3, <2>4, <2>5 DEF Ahead
  <2>7. Holds(r)'
    <3>1. InShipping' /\ req'[r].step = "pointer" /\ rows' = rows
      BY <2>1, <2>3, <2>4 DEF InShipping
    <3>2. \A c \in BATCH_PIPELINE :
            batch'[b].node[c] = "PASSED" => c = code \/ BatchIndex(c) < BatchIndex(code)
      BY <2>3, <2>5 DEF Ahead
    <3> QED BY <3>1, <3>2, <2>1, <2>3, <2>5 DEF Holds, N5Steps, HeldSteps
  <2>8. SerialInv'
    <3>1. InShipping' /\ req'[r].step \in SyncSteps
      BY <2>1, <2>3, <2>4, <1>sets DEF InShipping
    <3> QED BY <3>1, <2>1, <2>2, <2>6, <2>7, <1>11, ActorSettles
  <2>9. /\ PassedBatchNodeStays
        /\ \A a \in rows : batch'[a].pointer = batch[a].pointer
    BY <2>5 DEF PassedBatchNodeStays
  <2> QED BY <2>8, <2>9, <1>typed, <1>orders DEF BatchPointerForward, BatchRow
<1>12. ASSUME OneAtATime', NEW r \in Requests, MovePointer(r) PROVE Good
  <2>0. PICK b, code : b = req[r].id /\ code = req[r].code
    OBVIOUS
  <2>1. /\ \A x \in Requests : x # r => req'[x] = req[x]
        /\ req'[r].step = "syncRead" /\ req[r].step = "pointer"
    BY <1>12, <1>goto, <1>steps DEF MovePointer, At
  <2>2. Alone(r)
    BY <2>1 DEF Alone
  <2>3. /\ InShipping /\ b \in rows /\ batch[b].pointer = code /\ code \in BATCH_PIPELINE
        /\ batch[b].node[code] = "PASSED"
        /\ \A c \in BATCH_PIPELINE :
             batch[b].node[c] = "PASSED" => c = code \/ BatchIndex(c) < BatchIndex(code)
        /\ \A a \in rows : a # b => Ahead(a)
    BY <2>0, <2>1, <2>2, <1>12, <1>sets, <1>typed, ActorKnows DEF Holds
  <2>4. batch' = [batch EXCEPT ![b].pointer = NextBatchNode(code)] /\ UNCHANGED <<caseVars, rows>>
    BY <2>0, <1>12 DEF MovePointer
  <2>5. /\ \A a \in rows : a # b => batch'[a] = batch[a]
        /\ batch'[b].pointer = NextBatchNode(code) /\ batch'[b].node = batch[b].node
    BY <2>3, <2>4, <1>typed DEF BatchRow
  <2>6. /\ BatchIndex(code) < BatchIndex(NextBatchNode(code))
        /\ BatchIndex(code) \in Int /\ BatchIndex(NextBatchNode(code)) \in Int
        /\ NextBatchNode(code) = BATCH_NODE_DONE => code = "N9"
        /\ \A c \in BATCH_PIPELINE : BatchIndex(c) \in Int
    BY <2>3, BatchOrder DEF NextBatchNode, BATCH_PIPELINE, BATCH_NODE_DONE
  <2>7. Ahead(b)'
    <3>1. \A c \in BATCH_PIPELINE :
            batch[b].node[c] = "PASSED" => BatchIndex(c) < BatchIndex(NextBatchNode(code))
      BY <2>3, <2>6
    <3>2. \A c \in BATCH_PIPELINE :
            batch'[b].node[c] = "PASSED" => BatchIndex(c) < BatchIndex(batch'[b].pointer)
      BY <3>1, <2>5
    <3>3. batch'[b].pointer = BATCH_NODE_DONE => batch'[b].node["N9"] = "PASSED"
      BY <2>3, <2>5, <2>6
    <3> QED BY <3>2, <3>3 DEF Ahead
  <2>8. \A a \in rows' : Ahead(a)'
    <3>1. ASSUME NEW a \in rows, a # b PROVE Ahead(a)'
      BY <3>1, <2>3, <2>5 DEF Ahead
    <3> QED BY <3>1, <2>4, <2>7
  <2>9. Holds(r)'
    BY <2>1 DEF Holds, N5Steps, HeldSteps
  <2>10. SerialInv'
    <3>1. InShipping' /\ req'[r].step \in SyncSteps
      BY <2>1, <2>3, <2>4, <1>sets DEF InShipping
    <3> QED BY <3>1, <2>2, <2>8, <2>9, <1>12, ActorSettles
  <2>11. PassedBatchNodeStays
    BY <2>5 DEF PassedBatchNodeStays
  <2>12. BatchPointerForward
    <3>1. \A a \in rows : BatchIndex(batch[a].pointer) \in Int
      BY <1>typed, <1>orders DEF BatchRow
    <3> QED BY <3>1, <2>3, <2>5, <2>6 DEF BatchPointerForward
  <2> QED BY <2>10, <2>11, <2>12
<1>13. ASSUME OneAtATime', NEW r \in Requests, SyncRead(r) PROVE Good
  <2>0. req[r].step = "syncRead" /\ UNCHANGED <<caseVars, batchVars>>
    BY <1>13 DEF SyncRead, At
  <2>1. CASE Finish(r) /\ ~CaseReadyForBatchAdvance(currentNode, caseStatus)
    <3>1. Alone(r) /\ Holds(r)'
      BY <2>0, <2>1, <1>fin DEF Alone
    <3>2. Unreached
      <4>1. ~InShipping
        BY <2>1 DEF InShipping, CaseReadyForBatchAdvance, BATCH_PIPELINE, PipelineIndex, FlowPosition
      <4> QED BY <4>1, <3>1, <1>13, ActorKnows
    <3>3. SerialInv'
      BY <2>0, <3>1, <3>2, <1>13, ReadStep
    <3> QED BY <2>0, <3>3, <1>kept
  <2>2. CASE /\ CaseReadyForBatchAdvance(currentNode, caseStatus)
             /\ req' = [req EXCEPT ![r].step = "syncCase", ![r].code = "N6", ![r].id = 0,
                                   ![r].rolled = RolledUp(rows, batch)]
    <3>1. /\ \A x \in Requests : x # r => req'[x] = req[x]
          /\ req'[r].step = "syncCase" /\ req'[r].rolled = RolledUp(rows, batch)
      BY <2>2, <1>typed
    <3>2. Alone(r)
      BY <2>0, <3>1 DEF Alone
    <3>3. InShipping
      <4>1. ~Unreached
        BY <2>2 DEF CaseReadyForBatchAdvance, Unreached, PipelineIndex, FlowPosition
      <4> QED BY <4>1, <3>2, <1>13, ActorKnows
    <3>4. Holds(r)'
      BY <2>0, <3>1, <3>3 DEF Holds, N5Steps, HeldSteps, InShipping
    <3>5. SerialInv'
      BY <2>0, <3>1, <3>2, <3>4, <1>13, <1>sets, ReadStep
    <3> QED BY <2>0, <3>5, <1>kept
  <2> QED BY <2>1, <2>2, <1>13 DEF SyncRead, RolledUp
<1>14. ASSUME OneAtATime', NEW r \in Requests, SyncCase(r) PROVE Good
  <2>1. /\ \A x \in Requests : x # r => req'[x] = req[x]
        /\ req'[r].step = "syncNodes" /\ req'[r].rolled = req[r].rolled /\ req[r].step = "syncCase"
    BY <1>14, <1>goto, <1>steps DEF SyncCase, At
  <2>2. Alone(r)
    BY <2>1 DEF Alone
  <2>3. req[r].rolled = RolledUp(rows, batch) /\ \A b \in rows : Ahead(b)
    BY <2>1, <2>2, <1>14, ActorKnows DEF Holds
  <2>4. /\ currentNode' = RolledUp(rows, batch).currentNode
        /\ caseStatus' = RolledUp(rows, batch).status
        /\ UNCHANGED <<caseNode, batchVars>>
    BY <2>3, <1>14 DEF SyncCase
  <2>5. InShipping' /\ PointerAgrees'
    <3>1. currentNode' \in BATCH_PIPELINE
      BY <2>3, <2>4, <1>typed DEF Rollup
    <3> QED BY <3>1, <2>4, <1>typed, RolledUpSays DEF InShipping, PointerAgrees
  <2>6. Holds(r)'
    BY <2>1, <2>3, <2>4, <2>5 DEF Holds, N5Steps, HeldSteps
  <2>7. \A b \in rows' : Ahead(b)'
    BY <2>3, <2>4 DEF Ahead
  <2>8. SerialInv'
    BY <2>1, <2>2, <2>5, <2>6, <2>7, <1>14, <1>sets, ActorSettles
  <2> QED BY <2>4, <2>8, <1>kept
<1>15. ASSUME OneAtATime', NEW r \in Requests, SyncNodes(r) PROVE Good
  <2>1. Alone(r) /\ Holds(r)' /\ req'[r].step = "idle" /\ req[r].step = "syncNodes"
    BY <1>15, <1>fin DEF SyncNodes, Alone, At
  <2>2. /\ req[r].rolled = RolledUp(rows, batch) /\ PointerAgrees /\ InShipping
        /\ \A b \in rows : Ahead(b)
    BY <2>1, <1>15, ActorKnows DEF Holds
  <2>3. /\ \A c \in BATCH_PIPELINE : caseNode'[c] = RolledUp(rows, batch).node[c]
        /\ UNCHANGED <<currentNode, caseStatus, batchVars>>
    BY <2>2, <1>15, <1>sets DEF SyncNodes, RolledNodes
  <2>4. InShipping' /\ CaseAgrees'
    BY <2>2, <2>3, <1>typed, RolledUpSays
    DEF InShipping, CaseAgrees, PointerAgrees, CaseNodePassedByAllBatches
  <2>5. \A b \in rows' : Ahead(b)'
    BY <2>2, <2>3 DEF Ahead
  <2>6. SerialInv'
    BY <2>1, <2>4, <2>5, <1>15, ActorSettles
  <2> QED BY <2>3, <2>6, <1>kept
<1>16. ASSUME OneAtATime', NEW r \in Requests, CreateBatch(r) PROVE Good
  <2>1. PICK seq : Start(r, "create", "N6", seq, "N6")
    BY <1>16 DEF CreateBatch
  <2>2. /\ \A x \in Requests : x # r => req'[x] = req[x]
        /\ req'[r].step = "create" /\ req[r].step = "idle"
    BY <2>1, <1>16, <1>start, <1>steps DEF CreateBatch, At
  <2>3. Alone(r) /\ Holds(r)'
    BY <2>2 DEF Alone, Holds, N5Steps, HeldSteps
  <2>4. UNCHANGED <<caseVars, batchVars>>
    BY <1>16 DEF CreateBatch
  <2>5. SerialInv'
    BY <2>2, <2>3, <2>4, <1>16, <1>sets, ReadStep
  <2> QED BY <2>4, <2>5, <1>kept
<1>17. ASSUME OneAtATime', NEW r \in Requests, InsertBatch(r) PROVE Good
  <2>seq. PICK seq : seq = req[r].id
    OBVIOUS
  <2>0. req[r].step = "create" /\ seq \in BatchIds
    BY <2>seq, <1>17 DEF InsertBatch, At, ShipmentInv, RequestEarned
  <2>1. CASE seq \in rows
    <3>1. Finish(r) /\ UNCHANGED <<caseVars, batchVars>>
      BY <2>1, <2>seq, <1>17 DEF InsertBatch
    <3>2. Alone(r) /\ Holds(r)'
      BY <2>0, <3>1, <1>fin DEF Alone
    <3>3. SerialInv'
      BY <2>0, <3>1, <3>2, <1>17, <1>sets, ReadStep
    <3> QED BY <3>1, <3>3, <1>kept
  <2>2. CASE seq \notin rows
    <3>1. /\ rows' = rows \cup {seq} /\ batch' = [batch EXCEPT ![seq] = NewBatch]
          /\ Goto(r, "syncRead") /\ UNCHANGED caseVars
      BY <2>2, <2>seq, <1>17 DEF InsertBatch
    <3>2. /\ \A x \in Requests : x # r => req'[x] = req[x]
          /\ req'[r].step = "syncRead"
      BY <3>1, <1>goto, <1>steps
    <3>3. Alone(r) /\ Holds(r)'
      BY <2>0, <3>2 DEF Alone, Holds, N5Steps, HeldSteps
    <3>4. /\ \A a \in rows : batch'[a] = batch[a]
          /\ batch'[seq].pointer = "N6"
          /\ \A c \in BATCH_PIPELINE : batch'[seq].node[c] # "PASSED"
      BY <3>1, <2>0, <2>2, <1>typed DEF NewBatch
    <3>5. \A b \in rows' : Ahead(b)'
      <4>1. \A b \in rows : Ahead(b)
        BY <2>0, <3>3, <1>17, ActorKnows
      <4>2. Ahead(seq)'
        <5>1. \A c \in BATCH_PIPELINE : ~(batch'[seq].node[c] = "PASSED")
          BY <3>4
        <5>2. batch'[seq].pointer # BATCH_NODE_DONE
          BY <3>4 DEF BATCH_NODE_DONE
        <5> QED BY <5>1, <5>2 DEF Ahead
      <4>3. ASSUME NEW b \in rows PROVE Ahead(b)'
        BY <4>1, <3>4 DEF Ahead
      <4> QED BY <4>2, <4>3, <3>1
    <3>6. (Unreached \/ InShipping)'
      <4>1. Unreached \/ InShipping
        BY <3>3, <1>17, ActorKnows
      <4> QED BY <4>1, <3>1, <3>4 DEF Unreached, InShipping
    <3>7. SerialInv'
      BY <3>2, <3>3, <3>5, <3>6, <1>17, <1>sets, ActorSettles
    <3>8. PassedBatchNodeStays /\ BatchPointerForward
      BY <3>4, <1>typed, <1>orders DEF PassedBatchNodeStays, BatchPointerForward, BatchRow
    <3> QED BY <3>7, <3>8
  <2> QED BY <2>1, <2>2
<1>touched. \A status : Touched(status) = "PASSED" <=> status = "PASSED"
  BY DEF Touched
<1>18. ASSUME OneAtATime', NEW r \in Requests, NEW code \in FormNodes, NEW id,
              SaveBatchForm(r, code, id)
       PROVE  Good
  <2> DEFINE b == Selected(id)
  <2>1. /\ \A x \in Requests : x # r => req'[x] = req[x]
        /\ req'[r].step = "touchCase" /\ req[r].step = "idle"
    BY <1>18, <1>start, <1>steps DEF SaveBatchForm, At
  <2>2. Alone(r) /\ Holds(r)'
    BY <2>1 DEF Alone, Holds, N5Steps, HeldSteps
  <2>3. /\ b \in rows /\ batch' = [batch EXCEPT ![b].node[code] = Touched(@)]
        /\ UNCHANGED <<caseVars, rows>> /\ code \in BATCH_PIPELINE
    BY <1>18, ShipmentAssumption DEF SaveBatchForm
  <2> HIDE DEF b
  <2>4. /\ \A a \in rows : a # b => batch'[a] = batch[a]
        /\ batch'[b].pointer = batch[b].pointer
        /\ batch'[b].node[code] = Touched(batch[b].node[code])
        /\ \A c \in BATCH_PIPELINE : c # code => batch'[b].node[c] = batch[b].node[c]
    BY <2>3, <1>typed DEF BatchRow
  <2>5. SameMarks
    BY <2>3, <2>4, <1>touched DEF SameMarks
  <2>6. SerialInv'
    BY <2>1, <2>2, <2>5, <1>18, <1>sets, <1>typed, MarksKept
  <2> QED BY <2>5, <2>6, <1>typed, <1>orders DEF SameMarks, PassedBatchNodeStays, BatchPointerForward, BatchRow
<1>19. ASSUME OneAtATime', NEW r \in Requests, TouchCaseNode(r) PROVE Good
  <2>1. Alone(r) /\ Holds(r)' /\ req'[r].step = "idle" /\ req[r].step = "touchCase"
    BY <1>19, <1>fin DEF TouchCaseNode, Alone, At
  <2>2. SameMarks
    BY <1>19, <1>typed, <1>sets, <1>touched DEF TouchCaseNode, SameMarks, RolledNodes
  <2>3. SerialInv'
    BY <2>1, <2>2, <1>19, <1>sets, <1>typed, MarksKept
  <2> QED BY <2>3, <1>19, <1>kept DEF TouchCaseNode
<1>20. ASSUME UNCHANGED vars PROVE Good
  <2>1. UNCHANGED <<currentNode, caseStatus, caseNode, rows, batch, req>>
    BY <1>20 DEF vars
  <2>2. SerialInv'
    BY <2>1 DEF SerialInv, OneAtATime, At, Unreached, InShipping, Ahead, Holds, CaseAgrees,
       PointerAgrees, CaseNodePassedByAllBatches
  <2> QED BY <2>1, <2>2, <1>kept
<1> HIDE DEF Good
<1>21. ASSUME OneAtATime', NEW r \in Requests, Submit(r) PROVE Good
  BY <1>21, <1>1, <1>6, <1>16, <1>18 DEF Submit
<1>22. ASSUME OneAtATime', NEW r \in Requests, Handle(r) PROVE Good
  BY <1>22, <1>2, <1>3, <1>4, <1>5, <1>7, <1>8, <1>9, <1>10, <1>11, <1>12, <1>13, <1>14,
     <1>15, <1>17, <1>19 DEF Handle
<1>23. Good
  BY <1>20, <1>21, <1>22 DEF SerialNext
<1> QED
  BY <1>23 DEF Good

(* Between requests the invariant is the agreement of case and batches.    *)
LEMMA SettledAgrees == TypeOK /\ ShipmentInv /\ SerialInv => SettledShippingAgrees
<1> SUFFICES ASSUME TypeOK, ShipmentInv, SerialInv, Quiet
             PROVE  /\ NoParkedBatch
                    /\ CompletedMeansAllBatchesDone
                    /\ PointsAtEarliestBatch
                    /\ CaseNodePassedByAllBatches
  BY DEF SettledShippingAgrees
<1>1. 1 \in rows /\ \A b \in rows : Ahead(b) /\ batch[b].pointer \in BatchPointers
  BY DEF SerialInv, ShipmentInv, TypeOK, BatchRow, Quiet, At
<1>2. CaseAgrees /\ (Unreached \/ InShipping)
  BY DEF SerialInv, Quiet, SyncSteps
<1>3. NoParkedBatch
  <2>1. ASSUME NEW b \in rows, batch[b].pointer # BATCH_NODE_DONE,
               batch[b].node[batch[b].pointer] = "PASSED"
        PROVE  FALSE
    <3>1. batch[b].pointer \in BATCH_PIPELINE
      BY <2>1, <1>1 DEF BatchPointers
    <3>2. BatchIndex(batch[b].pointer) < BatchIndex(batch[b].pointer)
      BY <3>1, <2>1, <1>1 DEF Ahead
    <3> QED BY <3>1, <3>2, BatchOrder DEF BATCH_PIPELINE
  <2> QED BY <2>1 DEF NoParkedBatch
<1>4. CASE Unreached
  <2>1. ~AllDone(rows, batch) /\ ~CaseReadyForBatchAdvance(currentNode, caseStatus)
    BY <1>1, <1>4, FreshAgrees DEF Unreached, CaseReadyForBatchAdvance, PipelineIndex, FlowPosition
  <2> QED BY <2>1, <1>1, <1>3, <1>4
      DEF Unreached, AllDone, CompletedMeansAllBatchesDone, PointsAtEarliestBatch,
          CaseNodePassedByAllBatches
<1>5. CASE InShipping
  BY <1>2, <1>3, <1>5
  DEF CaseAgrees, PointerAgrees, AllDone, RolledUp, CompletedMeansAllBatchesDone,
      PointsAtEarliestBatch
<1> QED
  BY <1>2, <1>4, <1>5

LEMMA SerialInductive == SerialSpec => [](TypeOK /\ ShipmentInv /\ SerialInv)
<1> DEFINE Inv == TypeOK /\ ShipmentInv /\ SerialInv
<1>1. Init => Inv
  BY InitTyped, InitInv, InitSerial
<1>2. Inv /\ [SerialNext]_vars => Inv'
  <2>1. [SerialNext]_vars => [Next]_vars
    BY DEF SerialNext, Next
  <2> QED BY <2>1, StepTyped, StepInv, StepSerial
<1> QED
  BY <1>1, <1>2, PTL DEF SerialSpec

(* Whenever requests that do not overlap have been answered, the case says *)
(* of its batches what they say themselves, however many there are: it is  *)
(* COMPLETED exactly when all are done, points at the earliest open one,   *)
(* and has PASSED exactly the nodes all have passed; and no open batch is  *)
(* parked on a node it has passed.                                         *)
THEOREM ShippingAgrees == SerialSpec => []SettledShippingAgrees
BY SerialInductive, SettledAgrees, PTL

(* Requests that do not overlap never move a batch's pointer back and      *)
(* never take a node back that a batch has passed.                         *)
THEOREM BatchesGoForward == SerialSpec => BatchForward
<1> DEFINE Inv == TypeOK /\ ShipmentInv /\ SerialInv
<1>1. Inv /\ [SerialNext]_vars => [PassedBatchNodeStays /\ BatchPointerForward]_vars
  BY StepSerial
<1> QED
  BY <1>1, SerialInductive, PTL DEF SerialSpec, BatchForward

(* The same of the serial lane of the run.                                 *)
LEMMA LaneInductive ==
  MCSpec => [](TypeOK /\ ShipmentInv /\ (lane = "serial" => SerialInv))
<1> DEFINE Inv == TypeOK /\ ShipmentInv /\ (lane = "serial" => SerialInv)
<1>1. MCInit => Inv
  BY InitTyped, InitInv, InitSerial DEF MCInit
<1>2. Inv /\ [MCNext]_<<vars, lane>> => Inv'
  <2>1. [MCNext]_<<vars, lane>> => /\ [Next]_vars /\ UNCHANGED lane
                                   /\ lane = "serial" => [SerialNext]_vars
    BY DEF MCNext, SerialNext, Next
  <2> QED BY <2>1, StepTyped, StepInv, StepSerial
<1> QED
  BY <1>1, <1>2, PTL DEF MCSpec

(* In the serial lane a case at rest agrees with its batches.              *)
THEOREM LaneAgrees == MCSpec => []SerialShippingAgrees
<1>1. TypeOK /\ ShipmentInv /\ (lane = "serial" => SerialInv) => SerialShippingAgrees
  BY SettledAgrees DEF SerialShippingAgrees
<1> QED
  BY <1>1, LaneInductive, PTL

(* In the serial lane batches only go forward.                             *)
THEOREM LaneGoesForward == MCSpec => SerialBatchForward
<1> DEFINE Inv == TypeOK /\ ShipmentInv /\ (lane = "serial" => SerialInv)
<1>1. Inv /\ [MCNext]_<<vars, lane>> =>
        [lane = "serial" => PassedBatchNodeStays /\ BatchPointerForward]_vars
  BY StepSerial DEF MCNext
<1> QED
  BY <1>1, LaneInductive, PTL DEF MCSpec, SerialBatchForward
=============================================================================
