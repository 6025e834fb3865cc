------------------------------ MODULE BuyerQuota ------------------------------
(***************************************************************************)
(* Cases of one buyer under one Sinosure limit.  A saved contract occupies *)
(* the limit at once; N3, and N4 after a change order, pass only if what   *)
(* the buyer then owes fits.  The gate reads the case, then the buyer's    *)
(* cases, judges, and the node is passed later: requests for two cases may *)
(* run at the same time.  One step is one database call; the calls of      *)
(* occupancyForCase are one step, and so is saving a contract.             *)
(***************************************************************************)
EXTENDS Exposure

CONSTANTS
  Requests,   \* slots for advance requests in flight
  Cases,      \* cases of the buyer: all linked to one customer
  Amounts,    \* contract amounts
  Limit,      \* the insured limit, as each case has it registered
  MaxWrites   \* bound: contracts saved and change orders made

ASSUME QuotaAssumption ==
  /\ Amounts \subseteq Nat \ {0}
  /\ Limit \in Nat \ {0} /\ MaxWrites \in Nat
  /\ IsFiniteSet(Cases) /\ "none" \notin Cases

VARIABLES
  node,     \* TradeCase.currentNode
  nodes,    \* CaseNode statuses
  amount,   \* the contract's amount, 0 without a contract
  change,   \* what the case's change orders make of the amount, 0 without any
  applied,  \* the change orders have all taken effect
  received, \* what has been received of the contract
  req,      \* the requests in flight and what each has read
  judged,   \* history: the case passed its gate on the contract it still has
  writes    \* contracts saved and change orders made so far

vars == <<node, nodes, amount, change, applied, received, req, judged, writes>>

Codes == {"N3", "N4", "N6"}
NoSplit == [open |-> 0, fulfilled |-> 0]
Idle == [step |-> "idle", case |-> "none", node |-> "N3", total |-> 0,
         nodes |-> [n \in Codes |-> "OPEN"], settled |-> TRUE,
         split |-> NoSplit, calm |-> TRUE, moved |-> FALSE]
At(r, step) == req[r].step = step
Reading(r, c) == ~At(r, "idle") /\ req[r].case = c

Init ==
  /\ node = [c \in Cases |-> "N2"]
  /\ nodes = [c \in Cases |-> [n \in Codes |-> "OPEN"]]
  /\ amount = [c \in Cases |-> 0]
  /\ change = [c \in Cases |-> 0]
  /\ applied = [c \in Cases |-> TRUE]
  /\ received = [c \in Cases |-> 0]
  /\ req = [r \in Requests |-> Idle]
  /\ judged = [c \in Cases |-> FALSE]
  /\ writes = 0

(***************************************************************************)
(* The buyer's rows: the case has its one default batch, which follows the *)
(* contract.                                                               *)
(***************************************************************************)
Row(c) ==
  LET p == ContractOccupancyPortions(amount[c],
             <<[amount |-> amount[c], received |-> received[c], shipped |-> Passed(nodes[c], "N6")]>>)
  IN [hasContract |-> amount[c] > 0, usd |-> TRUE, open |-> p.open, fulfilled |-> p.fulfilled]

(* Variant: the case's own row stays in the sums.                          *)
OwnRowToo(c) == SplitOccupancy([d \in Cases |-> Row(d)], "none")

OccupancyForCase(c) ==
  SplitOccupancy([d \in Cases |-> Row(d)],
                 IF ShouldTreatAsNewContract(node[c], nodes[c]) THEN c ELSE "none")

(***************************************************************************)
(* Writes to a case.  A history flag tells a running gate of the case that *)
(* its figures have been written since it read them.                       *)
(***************************************************************************)
Disturb(c) ==
  /\ req' = [r \in Requests |-> IF Reading(r, c) THEN [req[r] EXCEPT !.calm = FALSE] ELSE req[r]]
  /\ judged' = [judged EXCEPT ![c] = FALSE]

SaveContract(c, a) ==
  /\ writes < MaxWrites
  /\ writes' = writes + 1
  /\ amount' = [amount EXCEPT ![c] = a]
  /\ Disturb(c)
  /\ UNCHANGED <<node, nodes, change, applied, received>>

CreateChange(c, a) ==
  /\ writes < MaxWrites
  /\ amount[c] > 0
  /\ writes' = writes + 1
  /\ change' = [change EXCEPT ![c] = a]
  /\ applied' = [applied EXCEPT ![c] = FALSE]
  /\ Disturb(c)
  /\ UNCHANGED <<node, nodes, amount, received>>

ApplyChange(c) ==
  /\ ~applied[c]
  /\ amount' = [amount EXCEPT ![c] = change[c]]
  /\ applied' = [applied EXCEPT ![c] = TRUE]
  /\ Disturb(c)
  /\ UNCHANGED <<node, nodes, change, received, writes>>

(* N2, N5 and N6 have gates of their own, which do not look at the limit;  *)
(* N5 and N6 do not let a case with a pending change order through.        *)
PassElsewhere(c) ==
  /\ \/ node[c] = "N2" /\ node' = [node EXCEPT ![c] = "N3"] /\ UNCHANGED nodes
     \/ node[c] = "N5" /\ applied[c] /\ node' = [node EXCEPT ![c] = "N6"] /\ UNCHANGED nodes
     \/ /\ node[c] = "N6" /\ applied[c]
        /\ node' = [node EXCEPT ![c] = "N7"]
        /\ nodes' = [nodes EXCEPT ![c]["N6"] = "PASSED"]
  /\ UNCHANGED <<amount, change, applied, received, req, judged, writes>>

Receive(c) ==
  /\ node[c] = "N7" /\ received[c] < amount[c]
  /\ received' = [received EXCEPT ![c] = amount[c]]
  /\ UNCHANGED <<node, nodes, amount, change, applied, req, judged, writes>>

(***************************************************************************)
(* advance() of N3 or N4.                                                  *)
(***************************************************************************)
(* N4 judges the amount the change orders lead to, applied or not.         *)
ContractTotal(c, n) == IF n = "N4" /\ change[c] > 0 THEN change[c] ELSE amount[c]

ReadCase(r, c) ==
  /\ At(r, "idle")
  /\ node[c] \in {"N3", "N4"} /\ ~Passed(nodes[c], node[c])
  /\ req' = [req EXCEPT ![r] = [Idle EXCEPT !.step = "share", !.case = c, !.node = node[c],
                                            !.nodes = nodes[c], !.total = ContractTotal(c, node[c]),
                                            !.settled = applied[c]]]
  /\ UNCHANGED <<node, nodes, amount, change, applied, received, judged, writes>>

ReadShared(r) ==
  /\ At(r, "share")
  /\ req' = [req EXCEPT ![r].step = "judge", ![r].split = OccupancyForCase(req[r].case)]
  /\ UNCHANGED <<node, nodes, amount, change, applied, received, judged, writes>>

Judgement(r) ==
  EvaluateOccupancy(req[r].split, NewContractFenForNode(req[r].node, req[r].nodes, req[r].total),
                    TRUE, Limit, TRUE)

(* Variant: the excess is held against the next band's edge.               *)
MayPassLate(r, approved) ==
  /\ req[r].total > 0
  /\ Judgement(r).excess <= UltraMin
  /\ req[r].node = "N4" => req[r].settled

(* A missing contract blocks, so does a pending change order at N4; a high *)
(* excess needs the occupancy desk's approval of these figures.            *)
MayPass(r, approved) ==
  LET decision == GateDecisionOfBand(Judgement(r).band)
  IN /\ req[r].total > 0
     /\ decision \in {"PASS", "SOFT_ALERT"} \/ (decision = "REVIEW" /\ approved)
     /\ req[r].node = "N4" => req[r].settled

(* N3 leads to N4 only if there is a change order.  The node and then the  *)
(* pointer are written, from what was read at the start: a refusal takes   *)
(* back what another request has passed meanwhile.                         *)
NextNode(c, n) == IF n = "N3" /\ change[c] > 0 THEN "N4" ELSE "N5"

Judge(r) ==
  LET c == req[r].case
      n == req[r].node
  IN /\ At(r, "judge")
     /\ \E approved \in BOOLEAN :
          IF MayPass(r, approved)
          THEN /\ nodes' = [nodes EXCEPT ![c][n] = "PASSED"]
               /\ node' = [node EXCEPT ![c] = NextNode(c, n)]
               /\ judged' = [judged EXCEPT ![c] = req[r].calm /\ req[r].total = amount[c]]
          ELSE /\ nodes' = [nodes EXCEPT ![c][n] = "OPEN"]
               /\ node' = [node EXCEPT ![c] = n]
               /\ UNCHANGED judged
     /\ req' = [q \in Requests |->
                  IF q = r THEN Idle
                  ELSE IF Reading(q, c) THEN [req[q] EXCEPT !.moved = TRUE] ELSE req[q]]
     /\ UNCHANGED <<amount, change, applied, received, writes>>

Next ==
  \/ \E c \in Cases :
       \/ \E a \in Amounts : SaveContract(c, a) \/ CreateChange(c, a)
       \/ ApplyChange(c) \/ PassElsewhere(c) \/ Receive(c)
       \/ \E r \in Requests : ReadCase(r, c)
  \/ \E r \in Requests : ReadShared(r) \/ Judge(r)

Spec == Init /\ [][Next]_vars
-----------------------------------------------------------------------------
(***************************************************************************)
(* Properties.                                                             *)
(***************************************************************************)
Owed(S, Amount(_)) == MapThenSumSet(LAMBDA c : UnpaidFenOf(Amount(c), received[c]), S)

(* However requests for the buyer's cases overlap, the contracts that have *)
(* passed the gate fit the limit together, up to what a desk may approve:  *)
(* two gates never both leave the other's contract out.                    *)
SharedLimitHolds ==
  Owed({c \in Cases : judged[c]}, LAMBDA c : amount[c]) - Limit < UltraMin

(* A gate whose own case nothing else writes judges what the buyer owes    *)
(* for its other cases when it reads them, and the case's own contract     *)
(* once, in full and at the amount it will have.                           *)
OwnContractOnce == [][\A r \in Requests :
  (At(r, "share") /\ At(r, "judge")' /\ req[r].calm /\ ~req[r].moved) =>
    Judgement(r)'.occupancy = Owed(Cases \ {req[r].case}, LAMBDA c : amount[c])
                                + ContractTotal(req[r].case, req[r].node)]_vars
=============================================================================
