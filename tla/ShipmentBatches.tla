-------------------------- MODULE ShipmentBatches ---------------------------
(***************************************************************************)
(* The shipping half of one export case: its shipment batches (N6, N7, N9  *)
(* each), the case-level pointer and nodes rolled up from them, and the    *)
(* HTTP handlers of CasesService that move them.  The handlers run as      *)
(* async functions over separate awaited database calls, without a         *)
(* transaction, so one step of the model is one database write (with the   *)
(* reads that immediately precede it and are not kept); a value read and   *)
(* used after a later await is kept in the request's record.               *)
(***************************************************************************)
EXTENDS Pipeline

CONSTANTS
  Requests,      \* slots for HTTP requests in flight; one slot means no overlap
  StartNodes,    \* where the case stands when a behaviour starts: "N5", "N6"
  MaxBatches,    \* the most batches one case gets
  FormNodes,     \* the batch nodes whose forms users save while requests overlap
  ForeignWrites  \* pointer writes other handlers do: a set of [currentNode, status]

ASSUME ShipmentAssumption ==
  /\ MaxBatches \in Nat \ {0}
  /\ StartNodes \subseteq {"N5", "N6"}
  /\ FormNodes \subseteq BATCH_PIPELINE
  /\ ForeignWrites \subseteq [currentNode : CaseNodeCodes, status : {"IN_PROGRESS", "BLOCKED"}]

VARIABLES
  currentNode,  \* tradeCase.currentNode
  caseStatus,   \* tradeCase.status
  caseNode,     \* CaseNode rows N5, N6, N7, N9: their status
  rows,         \* the seq numbers of the batches that exist
  batch,        \* ShipmentBatch rows with their ShipmentBatchNode statuses
  req,          \* the requests in flight and what each has read
  passed        \* history: the nodes the gate has let each batch pass

vars == <<currentNode, caseStatus, caseNode, rows, batch, req, passed>>
caseVars == <<currentNode, caseStatus, caseNode>>
batchVars == <<rows, batch, passed>>

BatchIds == 1 .. MaxBatches
RolledNodes == {"N5"} \cup BATCH_PIPELINE
BatchRow == [pointer : BatchPointers, node : [BATCH_PIPELINE -> NodeStatus]]
Rollup == [currentNode : BATCH_PIPELINE, status : CaseStatus,
           node : [BATCH_PIPELINE -> NodeStatus]]

Steps == {"idle", "gate5", "refuse5", "refuse5Case", "pass5", "pass5Case",
          "readBatch", "gate", "refuse", "refuseCase", "pass", "pointer",
          "create", "syncRead", "syncCase", "syncNodes", "touchCase"}

NewBatch == [pointer |-> "N6", node |-> [c \in BATCH_PIPELINE |-> "NOT_STARTED"]]
NoRollup == [currentNode |-> "N6", status |-> "IN_PROGRESS",
             node |-> [c \in BATCH_PIPELINE |-> "NOT_STARTED"]]

(* id is the batch asked for (0: none given) or the seq about to be taken; *)
(* seen is the case pointer as the handler read it.                        *)
Idle == [step |-> "idle", code |-> "N6", id |-> 0, seen |-> "N6", rolled |-> NoRollup]

(* The fields each handler leaves alone keep Idle's values, so that a      *)
(* request that has finished leaves nothing behind.                        *)
Start(r, step, code, id, seen) ==
  req' = [req EXCEPT ![r] = [Idle EXCEPT !.step = step, !.code = code,
                                         !.id = id, !.seen = seen]]
Goto(r, step) == req' = [req EXCEPT ![r].step = step]
GotoForgetting(r, step) == req' = [req EXCEPT ![r].step = step, ![r].seen = "N6"]
Finish(r) == req' = [req EXCEPT ![r] = Idle]
At(r, step) == req[r].step = step

(***************************************************************************)
(* A case created by create() has its default batch.  It enters this       *)
(* module when N5 becomes its current node, or when N5 has been passed.    *)
(***************************************************************************)
Init ==
  /\ currentNode \in StartNodes
  /\ caseStatus = "IN_PROGRESS"
  /\ caseNode = [c \in RolledNodes |->
                   IF c = "N5" /\ currentNode = "N6" THEN "PASSED" ELSE "NOT_STARTED"]
  /\ rows = {1}
  /\ batch = [b \in BatchIds |-> NewBatch]
  /\ req = [r \in Requests |-> Idle]
  /\ passed = [b \in BatchIds |-> {}]

(***************************************************************************)
(* advance(N5): the step that hands the case over to shipping.             *)
(***************************************************************************)
AdvanceN5(r) ==
  /\ At(r, "idle")
  /\ ResolveAdvance(currentNode, "N5", caseNode["N5"]) = "allow"
  /\ Start(r, "gate5", "N6", 0, currentNode)
  /\ UNCHANGED <<caseVars, batchVars>>

GateN5(r) ==
  /\ At(r, "gate5")
  /\ \E verdict \in {"pass5", "refuse5"} : Goto(r, verdict)
  /\ UNCHANGED <<caseVars, batchVars>>

RefuseN5(r) ==
  /\ At(r, "refuse5")
  /\ \E status \in {"REVIEW", "BLOCKED"} : caseNode' = [caseNode EXCEPT !["N5"] = status]
  /\ Goto(r, "refuse5Case")
  /\ UNCHANGED <<currentNode, caseStatus, batchVars>>

RefuseN5Case(r) ==
  /\ At(r, "refuse5Case")
  /\ currentNode' = LaterNode(req[r].seen, "N5")
  /\ \E status \in {"IN_PROGRESS", "BLOCKED"} : caseStatus' = status
  /\ Finish(r)
  /\ UNCHANGED <<caseNode, batchVars>>

PassN5(r) ==
  /\ At(r, "pass5")
  /\ caseNode' = [caseNode EXCEPT !["N5"] = "PASSED"]
  /\ Goto(r, "pass5Case")
  /\ UNCHANGED <<currentNode, caseStatus, batchVars>>

PassN5Case(r) ==
  /\ At(r, "pass5Case")
  /\ currentNode' = LaterNode(req[r].seen, NextNode("N5", FALSE))
  /\ caseStatus' = "IN_PROGRESS"
  /\ Finish(r)
  /\ UNCHANGED <<caseNode, batchVars>>

(***************************************************************************)
(* advanceBatch(code, batchId).                                            *)
(***************************************************************************)
AdvanceBatch(r, code, id) ==
  /\ At(r, "idle")
  /\ CaseReadyForBatchAdvance(currentNode, caseStatus)
  /\ Start(r, "readBatch", code, id, currentNode)
  /\ UNCHANGED <<caseVars, batchVars>>

(* requireBatch, then the advance guard on the batch's own pointer.  A     *)
(* batch that does not exist, an omitted batch among several, a PASSED     *)
(* node and a node that is not current all end the request unchanged.      *)
Selected(id) == IF id = 0 /\ rows = {1} THEN 1 ELSE id
BatchPosition(b) == IF batch[b].pointer = BATCH_NODE_DONE THEN "N9" ELSE batch[b].pointer

ReadBatch(r) ==
  LET b == Selected(req[r].id)
      code == req[r].code
      allowed == /\ b \in rows
                 /\ ResolveAdvance(BatchPosition(b), code, batch[b].node[code]) = "allow"
  IN /\ At(r, "readBatch")
     /\ \/ /\ allowed
           /\ req' = [req EXCEPT ![r].step = "gate", ![r].id = b]
        \/ /\ ~allowed
           /\ Finish(r)
     /\ UNCHANGED <<caseVars, batchVars>>

(* evaluateAndPersist on the batch's snapshot.  The uploads and approvals  *)
(* the gates ask for are the environment's choice; N9 also needs the       *)
(* batch's N7 PASSED.                                                      *)
GateAllows(b, code) == code = "N9" => batch[b].node["N7"] = "PASSED"

GateBatch(r) ==
  /\ At(r, "gate")
  /\ \/ GateAllows(req[r].id, req[r].code) /\ GotoForgetting(r, "pass")
     \/ Goto(r, "refuse")
  /\ UNCHANGED <<caseVars, batchVars>>

(* Variant: the gate's decision is stored as the node's status.            *)
RefuseBatchVerbatim(r) ==
  /\ At(r, "refuse")
  /\ batch' = [batch EXCEPT ![req[r].id].node[req[r].code] = "HARD_BLOCK"]
  /\ Goto(r, "refuseCase")
  /\ UNCHANGED <<caseVars, rows, passed>>

(* A refused hard gate blocks the batch node; only a case with a single    *)
(* batch is blocked with it.                                               *)
RefuseBatch(r) ==
  /\ At(r, "refuse")
  /\ batch' = [batch EXCEPT ![req[r].id].node[req[r].code] = "BLOCKED"]
  /\ Goto(r, "refuseCase")
  /\ UNCHANGED <<caseVars, rows, passed>>

RefuseBatchCase(r) ==
  /\ At(r, "refuseCase")
  /\ \/ /\ rows = {1}
        /\ currentNode' = LaterNode(req[r].seen, req[r].code)
        /\ caseStatus' = "BLOCKED"
     \/ /\ rows # {1}
        /\ UNCHANGED <<currentNode, caseStatus>>
  /\ Finish(r)
  /\ UNCHANGED <<caseNode, batchVars>>

PassBatch(r) ==
  LET b == req[r].id
      code == req[r].code
  IN /\ At(r, "pass")
     /\ batch' = [batch EXCEPT ![b].node[code] = "PASSED"]
     /\ passed' = [passed EXCEPT ![b] = @ \cup {code}]
     /\ Goto(r, "pointer")
     /\ UNCHANGED <<caseVars, rows>>

MovePointer(r) ==
  /\ At(r, "pointer")
  /\ batch' = [batch EXCEPT ![req[r].id].pointer = NextBatchNode(req[r].code)]
  /\ Goto(r, "syncRead")
  /\ UNCHANGED <<caseVars, rows, passed>>

(***************************************************************************)
(* syncCaseFromBatches: read case and batches, roll up, write the case,    *)
(* then its nodes, whose three rows are one step here.                     *)
(***************************************************************************)
SyncRead(r) ==
  /\ At(r, "syncRead")
  /\ \/ /\ CaseReadyForBatchAdvance(currentNode, caseStatus)
        /\ req' = [req EXCEPT ![r].step = "syncCase",
                              ![r].code = "N6", ![r].id = 0,
                              ![r].rolled = RollupCaseShipping({batch[b] : b \in rows})]
     \/ /\ ~CaseReadyForBatchAdvance(currentNode, caseStatus)
        /\ Finish(r)
  /\ UNCHANGED <<caseVars, batchVars>>

SyncCase(r) ==
  /\ At(r, "syncCase")
  /\ currentNode' = req[r].rolled.currentNode
  /\ caseStatus' = req[r].rolled.status
  /\ Goto(r, "syncNodes")
  /\ UNCHANGED <<caseNode, batchVars>>

SyncNodes(r) ==
  /\ At(r, "syncNodes")
  /\ caseNode' = [c \in RolledNodes |->
                    IF c \in BATCH_PIPELINE THEN req[r].rolled.node[c] ELSE caseNode[c]]
  /\ Finish(r)
  /\ UNCHANGED <<currentNode, caseStatus, batchVars>>

(***************************************************************************)
(* createBatch: seq is max + 1 of the rows read; a seq taken meanwhile     *)
(* breaks @@unique([caseId, seq]) and the request fails.                   *)
(***************************************************************************)
CreateBatch(r) ==
  LET seq == (CHOOSE m \in rows : \A b \in rows : b <= m) + 1
  IN /\ At(r, "idle")
     /\ HasReachedN3(currentNode, "PASSED")
     /\ seq \in BatchIds
     /\ Start(r, "create", "N6", seq, "N6")
     /\ UNCHANGED <<caseVars, batchVars>>

InsertBatch(r) ==
  LET seq == req[r].id
  IN /\ At(r, "create")
     /\ \/ /\ seq \notin rows
           /\ rows' = rows \cup {seq}
           /\ batch' = [batch EXCEPT ![seq] = NewBatch]
           /\ Goto(r, "syncRead")
        \/ /\ seq \in rows
           /\ Finish(r)
           /\ UNCHANGED <<rows, batch>>
     /\ UNCHANGED <<caseVars, passed>>

(* Variant: saving a form reopens a passed node.                           *)
TouchedAlways(status) == "IN_PROGRESS"

(***************************************************************************)
(* saveShipment, saveDocument, saveSettlement and uploadNodeDocument       *)
(* touch the batch's node, then the case's, unless it is PASSED.  They ask *)
(* neither for the batch's pointer nor for the case to be ready.           *)
(***************************************************************************)
Touched(status) == IF status = "PASSED" THEN "PASSED" ELSE "IN_PROGRESS"

SaveBatchForm(r, code, id) ==
  LET b == Selected(id)
  IN /\ At(r, "idle")
     /\ b \in rows
     /\ batch' = [batch EXCEPT ![b].node[code] = Touched(@)]
     /\ Start(r, "touchCase", code, 0, "N6")
     /\ UNCHANGED <<caseVars, rows, passed>>

TouchCaseNode(r) ==
  /\ At(r, "touchCase")
  /\ caseNode' = [caseNode EXCEPT ![req[r].code] = Touched(@)]
  /\ Finish(r)
  /\ UNCHANGED <<currentNode, caseStatus, batchVars>>

(* screenParties (N5) and the workbench handlers write the case's pointer  *)
(* and status from outside shipping.                                       *)
ForeignPointerWrite ==
  /\ \E w \in ForeignWrites : currentNode' = w.currentNode /\ caseStatus' = w.status
  /\ UNCHANGED <<caseNode, batchVars, req>>

Handle(r) ==
  \/ GateN5(r) \/ RefuseN5(r) \/ RefuseN5Case(r) \/ PassN5(r) \/ PassN5Case(r)
  \/ ReadBatch(r) \/ GateBatch(r) \/ RefuseBatch(r) \/ RefuseBatchCase(r)
  \/ PassBatch(r) \/ MovePointer(r)
  \/ SyncRead(r) \/ SyncCase(r) \/ SyncNodes(r)
  \/ InsertBatch(r) \/ TouchCaseNode(r)

Submit(r) ==
  \/ AdvanceN5(r)
  \/ CreateBatch(r)
  \/ \E code \in BATCH_PIPELINE, id \in BatchIds \cup {0} : AdvanceBatch(r, code, id)
  \/ \E code \in FormNodes, id \in BatchIds \cup {0} : SaveBatchForm(r, code, id)

Next == (\E r \in Requests : Submit(r) \/ Handle(r)) \/ ForeignPointerWrite

Spec == Init /\ [][Next]_vars

(* The same where requests come one after the other and no other handler   *)
(* writes the case's pointer.                                              *)
OneAtATime == \A r, s \in Requests : At(r, "idle") \/ At(s, "idle") \/ r = s
SerialNext == (\E r \in Requests : Submit(r) \/ Handle(r)) /\ OneAtATime'
SerialSpec == Init /\ [][SerialNext]_vars
-----------------------------------------------------------------------------
(***************************************************************************)
(* Properties.                                                             *)
(***************************************************************************)

(* Every variable has its declared shape.                                  *)
TypeOK ==
  /\ currentNode \in CaseNodeCodes
  /\ caseStatus \in CaseStatus
  /\ caseNode \in [RolledNodes -> NodeStatus]
  /\ rows \subseteq BatchIds
  /\ batch \in [BatchIds -> BatchRow]
  /\ passed \in [BatchIds -> SUBSET BATCH_PIPELINE]
  /\ req \in [Requests -> [step : Steps, code : BATCH_PIPELINE, id : 0 .. MaxBatches,
                           seen : CaseNodeCodes, rolled : Rollup]]

(* No batch reaches settlement without its documents gate, nor documents   *)
(* without its shipping gate, whatever requests overlap: the hard gates    *)
(* N6, N7, N9 are passed in that order, and a batch is DONE only after all *)
(* three.                                                                  *)
GatesInOrder ==
  \A b \in BatchIds :
    /\ "N7" \in passed[b] => "N6" \in passed[b]
    /\ "N9" \in passed[b] => "N7" \in passed[b]
    /\ batch[b].pointer = BATCH_NODE_DONE => "N9" \in passed[b]

(* The case is COMPLETED only after its first batch has gone through       *)
(* settlement, however stale the roll-up a request writes.                 *)
CompletedAfterSettlement ==
  caseStatus = "COMPLETED" => "N9" \in passed[1]

(* The inductive strengthening of the two properties above.  A pointer and *)
(* a PASSED status are never ahead of what the gates let through, and a    *)
(* request carries only what it earned when it read it: the right to pass  *)
(* the node it names, or a COMPLETED roll-up.                              *)
RequestEarned(r) ==
  LET id == req[r].id
      code == req[r].code
  IN /\ req[r].step = "create" => id \in BatchIds
     /\ req[r].step \in {"gate", "refuse", "pass", "pointer"} =>
          /\ id \in BatchIds
          /\ code = "N7" => "N6" \in passed[id]
          /\ code = "N9" => "N7" \in passed[id]
     /\ req[r].step = "pointer" => code \in passed[id]
     /\ (req[r].step = "syncCase" /\ req[r].rolled.status = "COMPLETED") => "N9" \in passed[1]

ShipmentInv ==
  /\ 1 \in rows
  /\ \A b \in BatchIds :
       /\ batch[b].pointer = "N7" => "N6" \in passed[b]
       /\ batch[b].pointer = "N9" => "N7" \in passed[b]
       /\ \A c \in BATCH_PIPELINE : batch[b].node[c] = "PASSED" => c \in passed[b]
  /\ \A r \in Requests : RequestEarned(r)
  /\ GatesInOrder
  /\ CompletedAfterSettlement

(* The shipping half implements GatedPipeline for its batches.             *)
BatchNeeds == [c \in BATCH_PIPELINE |->
  CASE c = "N6" -> {}
    [] c = "N7" -> {"N6"}
    [] OTHER -> {"N6", "N7"}]

Gates == INSTANCE GatedPipeline
  WITH Units <- BatchIds, Stages <- BATCH_PIPELINE, Needs <- BatchNeeds, done <- passed

ImplementsGates == Gates!Spec

Quiet == \A r \in Requests : req[r].step = "idle"

(* A batch is never parked on a node it has already passed: the guard      *)
(* answers such a node "idempotent" without moving the pointer, so no      *)
(* request could ever move the batch again.                                *)
NoParkedBatch ==
  \A b \in rows :
    batch[b].pointer # BATCH_NODE_DONE => batch[b].node[batch[b].pointer] # "PASSED"

(* A case is COMPLETED exactly when every batch is done.                   *)
CompletedMeansAllBatchesDone ==
  caseStatus = "COMPLETED" <=> \A b \in rows : BatchDone(batch[b])

(* Once shipping is reached the case points at its earliest open batch.    *)
PointsAtEarliestBatch ==
  CaseReadyForBatchAdvance(currentNode, caseStatus) =>
    currentNode = RollupCaseShipping({batch[b] : b \in rows}).currentNode

(* A node of the case is PASSED exactly when every batch has passed it.    *)
CaseNodePassedByAllBatches ==
  \A c \in BATCH_PIPELINE :
    caseNode[c] = "PASSED" <=> \A b \in rows : batch[b].node[c] = "PASSED"

(* Whenever no request is in flight the case says of its batches what they *)
(* say themselves, and every open batch can still be advanced.             *)
SettledShippingAgrees ==
  Quiet => /\ NoParkedBatch
           /\ CompletedMeansAllBatchesDone
           /\ PointsAtEarliestBatch
           /\ CaseNodePassedByAllBatches

(* A gate once passed by a batch is never taken back, and a batch's        *)
(* pointer never moves back in the pipeline.                               *)
PassedBatchNodeStays ==
  \A b \in rows, c \in BATCH_PIPELINE :
    batch[b].node[c] = "PASSED" => batch'[b].node[c] = "PASSED"

BatchPointerForward ==
  \A b \in rows : BatchIndex(batch[b].pointer) <= BatchIndex(batch'[b].pointer)

BatchForward == [][PassedBatchNodeStays /\ BatchPointerForward]_vars
=============================================================================
