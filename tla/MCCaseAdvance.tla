--------------------------- MODULE MCCaseAdvance ----------------------------
(***************************************************************************)
(* CaseAdvance for TLC, in lanes of which a behaviour keeps to one.  Lane  *)
(* "overlap": advances, screenings and change orders of two requests at a  *)
(* time, without forms and desks and so without rows in their queue.  The  *)
(* other lanes have one request at a time: "desks" every desk and form but *)
(* no change order, "orders" change orders and the review desk.            *)
(***************************************************************************)
EXTENDS CaseAdvance, TLC

CONSTANTS r1, r2, c1

TwoRequests == {r1, r2}
OneChange == {c1}
ReviewedForm == {"N3"}
HitDesk == {"hit"}

RequestSymmetry == Permutations(Requests)

VARIABLE lane

FromForm(q) == q.step = "refresh"
FromDesk(q) == q.step = "reeval" \/ (q.step = "screenCase" /\ q.node = "N5")
MovesThePointer(q) == FromDesk(q) /\ ~(q.step = "reeval" /\ q.desk = "review")

MCInit == Init /\ lane \in {"overlap", "desks", "orders"}

InLane ==
  /\ lane = "overlap" =>
       queue' = {} /\ \A r \in Requests : ~FromForm(req'[r]) /\ ~FromDesk(req'[r])
  /\ lane # "overlap" => OneAtATime'
  /\ lane = "desks" => raised' = {}
  /\ lane = "orders" => \A r \in Requests : ~MovesThePointer(req'[r])

MCNext == Next /\ InLane /\ UNCHANGED lane

MCSpec == MCInit /\ [][MCNext]_<<vars, lane>>

(* While requests do not overlap and no desk has moved the pointer,        *)
(* somebody can advance the case.                                          *)
SerialCaseNotParked == lane # "overlap" => NoParkedCase

(* While requests do not overlap the case neither moves back nor loses a   *)
(* passed node.                                                            *)
SerialCaseForward == [][lane # "overlap" => PointerForward /\ PassedNodeStays]_vars

(* The hit desk leaves the case where somebody can advance it.             *)
SerialDeskLeavesAdvanceable == lane # "overlap" => DeskLeavesAdvanceable
=============================================================================
