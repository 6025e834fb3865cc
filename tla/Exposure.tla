------------------------------- MODULE Exposure -------------------------------
(***************************************************************************)
(* What a buyer owes under its Sinosure limit, and what that allows.  The  *)
(* occupancy is what is unpaid of every contract of the buyer, and the new *)
(* contract; the excess over the limit falls into bands.  A contract is    *)
(* shipped and paid in batches.  Operators only.                           *)
(***************************************************************************)
EXTENDS Integers, Sequences, FiniteSetsExt, Functions

CONSTANTS MediumMin, HighMin, UltraMin  \* EXPOSURE_BAND_FEN

ASSUME ExposureAssumption ==
  /\ MediumMin \in Nat /\ HighMin \in Nat /\ UltraMin \in Nat
  /\ 0 < MediumMin /\ MediumMin < HighMin /\ HighMin < UltraMin

AtLeastZero(n) == IF n < 0 THEN 0 ELSE n
Least(m, n) == IF m < n THEN m ELSE n

UnpaidFenOf(amount, received) == AtLeastZero(amount - received)

(***************************************************************************)
(* The ledger of a batch: its own settlement row.  A remittance memo or a  *)
(* date of arrival makes it a receipt; without an amount of its own, only  *)
(* an arrival counts, for the whole amount of the batch.                   *)
(***************************************************************************)
NoAmount == -1

ReceivedFenOf(settlement, amount) ==
  IF ~settlement.arrived /\ ~settlement.memo THEN 0
  ELSE IF settlement.amount # NoAmount THEN settlement.amount
  ELSE IF settlement.arrived THEN amount ELSE 0

(* A batch without an amount stands for the contract if it is the only one.*)
ReceivedFenForBatch(batch, contractAmount, sole) ==
  ReceivedFenOf(batch.settlement,
                IF batch.amount # NoAmount THEN batch.amount ELSE IF sole THEN contractAmount ELSE 0)

IsSettlementPaid(settlement, amount) ==
  /\ settlement.arrived \/ settlement.memo
  /\ UnpaidFenOf(amount, ReceivedFenOf(settlement, amount)) = 0

(***************************************************************************)
(* A contract's unpaid amount in two parts: of batches that have shipped,  *)
(* and the rest.  batches is a sequence of [amount, received, shipped].    *)
(***************************************************************************)
Total(batches, Value(_)) == MapThenSumSet(LAMBDA i : Value(batches[i]), DOMAIN batches)

ContractOccupancyPortions(amount, batches) ==
  LET received  == Total(batches, LAMBDA b : b.received)
      occupancy == UnpaidFenOf(amount, received)
      unpaidShipped == Total(batches, LAMBDA b :
                         IF b.shipped THEN UnpaidFenOf(b.amount, b.received) ELSE 0)
      fulfilled == Least(occupancy, unpaidShipped)
  IN [received |-> received, open |-> occupancy - fulfilled, fulfilled |-> fulfilled]

(***************************************************************************)
(* Which amount of a case counts as new: its own, while N3 or N4 judges it *)
(* and has not passed; the case's row then stays out of the unpaid sums.   *)
(***************************************************************************)
Passed(nodes, code) == nodes[code] = "PASSED"

ShouldTreatAsNewContract(currentNode, nodes) ==
  currentNode \in {"N3", "N4"} /\ ~Passed(nodes, currentNode)

NewContractFenForNode(nodeCode, nodes, total) ==
  IF Passed(nodes, nodeCode) THEN 0 ELSE AtLeastZero(total)

(* The unpaid amounts of the buyer's other contracts in US dollars.        *)
SplitOccupancy(rows, newCase) ==
  LET counted == {c \in DOMAIN rows : c # newCase /\ rows[c].hasContract /\ rows[c].usd}
  IN [open |-> MapThenSumSet(LAMBDA c : rows[c].open, counted),
      fulfilled |-> MapThenSumSet(LAMBDA c : rows[c].fulfilled, counted)]

(***************************************************************************)
(* The bands of the excess, closed on the left, and what the gate makes of *)
(* them.                                                                   *)
(***************************************************************************)
BandOfExcessFen(excess) ==
  CASE excess <= 0        -> "WITHIN_LIMIT"
    [] excess \in 1..(MediumMin - 1)        -> "BELOW_MEDIUM"
    [] excess \in MediumMin..(HighMin - 1)  -> "MEDIUM"
    [] excess \in HighMin..(UltraMin - 1)   -> "HIGH"
    [] OTHER              -> "ULTRA_HIGH"

GateDecisionOfBand(band) ==
  CASE band = "NONE" -> "NONE"
    [] band = "WITHIN_LIMIT" -> "PASS"
    [] band = "HIGH" -> "REVIEW"
    [] band = "ULTRA_HIGH" -> "HARD_BLOCK"
    [] OTHER -> "SOFT_ALERT"

(* Without a limit, or with one in another currency, there is no band.     *)
EvaluateOccupancy(split, newFen, newUsd, limit, limitUsd) ==
  LET occupancy == split.open + split.fulfilled + (IF newUsd THEN newFen ELSE 0)
      banded    == limit > 0 /\ limitUsd
  IN [occupancy |-> occupancy,
      remaining |-> IF limit > 0 THEN AtLeastZero(limit - occupancy) ELSE 0,
      excess |-> IF limit > 0 THEN AtLeastZero(occupancy - limit) ELSE 0,
      band |-> IF banded THEN BandOfExcessFen(occupancy - limit) ELSE "NONE"]
=============================================================================
