------------------------------ MODULE Pipeline ------------------------------
(***************************************************************************)
(* The node pipeline every export case follows, and the pure functions     *)
(* that decide where a case or a shipment batch may go next: the advance   *)
(* guard, the next-node rules and the roll-up of batch nodes onto the case.*)
(* No state lives here; the state machines EXTEND this module.             *)
(***************************************************************************)
EXTENDS Integers

NodeStatus == {"NOT_STARTED", "IN_PROGRESS", "REVIEW", "BLOCKED", "PASSED"}

CaseStatus == {"DRAFT", "IN_PROGRESS", "BLOCKED", "COMPLETED"}

(* Positions in NODE_FLOW, doubled so that the retired N8 fits between N7  *)
(* and N9 (pipelineIndex answers idx(N7) + 0.5 for it).                    *)
FlowPosition ==
  [N2 |-> 0, N3 |-> 2, N4 |-> 4, N5 |-> 6, N6 |-> 8, N7 |-> 10, N8 |-> 11, N9 |-> 12]

NODE_FLOW == {"N2", "N3", "N4", "N5", "N6", "N7", "N9"}

BATCH_PIPELINE == {"N6", "N7", "N9"}

BATCH_NODE_DONE == "DONE"

(* Every value tradeCase.currentNode can hold: N1 and N8 are retired codes *)
(* old rows and the workbench still use.                                   *)
CaseNodeCodes == NODE_FLOW \cup {"N1", "N8"}

BatchPointers == BATCH_PIPELINE \cup {BATCH_NODE_DONE}

PipelineIndex(code) == IF code \in DOMAIN FlowPosition THEN FlowPosition[code] ELSE -1

(* laterNode never answers a node before the one the caller holds.         *)
LaterNode(current, candidate) ==
  IF PipelineIndex(candidate) < 0 THEN current
  ELSE IF PipelineIndex(current) < 0 THEN candidate
  ELSE IF PipelineIndex(candidate) < PipelineIndex(current) THEN current
  ELSE candidate

(* Variant: the guard without its test of the current node.                *)
ResolveAnyNode(current, requested, requestedStatus) ==
  IF requestedStatus = "PASSED" THEN "idempotent" ELSE "allow"

(* The verdict on a request to advance: a PASSED node answers without any  *)
(* side effect, a node that is not the current one is refused.             *)
ResolveAdvance(current, requested, requestedStatus) ==
  IF requestedStatus = "PASSED" THEN "idempotent"
  ELSE IF requested # current THEN "reject"
  ELSE "allow"

(* N3 goes straight to N5 when the case has no change order.               *)
NextNode(code, hasChangeOrders) ==
  CASE code = "N1" -> "N2"
    [] code = "N2" -> "N3"
    [] code = "N3" -> IF hasChangeOrders THEN "N4" ELSE "N5"
    [] code = "N4" -> "N5"
    [] code = "N5" -> "N6"
    [] code = "N6" -> "N7"
    [] code = "N7" -> "N9"
    [] code = "N8" -> "N9"
    [] OTHER -> "none"

NextBatchNode(code) ==
  CASE code = "N6" -> "N7"
    [] code = "N7" -> "N9"
    [] OTHER -> BATCH_NODE_DONE

HasReachedN3(current, n3Status) ==
  \/ PipelineIndex(current) >= PipelineIndex("N3")
  \/ n3Status # "NOT_STARTED"

CaseReadyForBatchAdvance(current, status) ==
  \/ status = "COMPLETED"
  \/ PipelineIndex(current) >= PipelineIndex("N6")

(* A batch pointer DONE is past every pipeline node.                       *)
BatchIndex(pointer) == IF pointer = BATCH_NODE_DONE THEN 14 ELSE PipelineIndex(pointer)

(* One case-level node, from the statuses the batches give it.             *)
RollupNode(statuses) ==
  IF statuses = {"PASSED"} THEN "PASSED"
  ELSE IF "BLOCKED" \in statuses THEN "BLOCKED"
  ELSE IF "REVIEW" \in statuses THEN "REVIEW"
  ELSE IF statuses = {"NOT_STARTED"} THEN "NOT_STARTED"
  ELSE "IN_PROGRESS"

(* Variant: a batch that reached settlement counts as settled.             *)
BatchDoneAtN9(row) == row.pointer \in {BATCH_NODE_DONE, "N9"}

BatchDone(row) == row.pointer = BATCH_NODE_DONE \/ row.node["N9"] = "PASSED"

(* Variant: the case completes with its first finished batch.              *)
RollupAnyDone(batchRows) ==
  LET anyDone == \E row \in batchRows : BatchDone(row)
      open == {row.pointer : row \in batchRows} \ {BATCH_NODE_DONE}
  IN [ currentNode |->
         IF anyDone THEN "N9"
         ELSE CHOOSE p \in open : \A q \in open : PipelineIndex(p) <= PipelineIndex(q),
       status |-> IF anyDone THEN "COMPLETED" ELSE "IN_PROGRESS",
       node |-> [code \in BATCH_PIPELINE |->
                   RollupNode({row.node[code] : row \in batchRows})] ]

(* rollupCaseShipping: where the case stands, given its non-empty set of   *)
(* batch rows.  Callers apply it only when the case is ready.              *)
RollupCaseShipping(batchRows) ==
  LET open == {row.pointer : row \in batchRows} \ {BATCH_NODE_DONE}
      allDone == \A row \in batchRows : BatchDone(row)
  IN [ currentNode |->
         IF allDone THEN "N9"
         ELSE CHOOSE p \in open : \A q \in open : PipelineIndex(p) <= PipelineIndex(q),
       status |-> IF allDone THEN "COMPLETED" ELSE "IN_PROGRESS",
       node |-> [code \in BATCH_PIPELINE |->
                   RollupNode({row.node[code] : row \in batchRows})] ]
=============================================================================
