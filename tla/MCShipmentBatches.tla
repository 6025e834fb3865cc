-------------------------- MODULE MCShipmentBatches -------------------------
(***************************************************************************)
(* ShipmentBatches for TLC, in lanes of which a behaviour keeps to one.    *)
(* Lane "overlap": two requests at a time, one batch, the form of N9, and  *)
(* the pointer writes of other handlers.  Lane "serial": one request at a  *)
(* time, two batches, every form.                                          *)
(***************************************************************************)
EXTENDS ShipmentBatches, TLC

CONSTANTS r1, r2

TwoRequests == {r1, r2}
FromN5 == {"N5"}

(* What the screening of the supplier writes.                              *)
SupplierWrite == {[currentNode |-> "N5", status |-> "IN_PROGRESS"]}

RequestSymmetry == Permutations(Requests)

VARIABLE lane

MCInit == Init /\ lane \in {"overlap", "serial"}

OneBatch ==
  \A r \in Requests :
    req'[r].step # "create" /\ req'[r].id <= 1 /\ (req'[r].step = "touchCase" => req'[r].code = "N9")

MCNext ==
  /\ \/ lane = "overlap" /\ Next /\ OneBatch
     \/ lane = "serial" /\ SerialNext
  /\ UNCHANGED lane

MCSpec == MCInit /\ [][MCNext]_<<vars, lane>>

(* While requests do not overlap the case agrees with its batches.         *)
SerialShippingAgrees == lane = "serial" => SettledShippingAgrees

(* While requests do not overlap no batch moves back, and no gate it has   *)
(* passed is taken back.                                                   *)
SerialBatchForward == [][lane = "serial" => PassedBatchNodeStays /\ BatchPointerForward]_vars
=============================================================================
