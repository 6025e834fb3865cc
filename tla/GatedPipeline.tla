--------------------------- MODULE GatedPipeline ----------------------------
(***************************************************************************)
(* What the pipeline promises, whoever drives it and however the requests  *)
(* overlap: each unit (the case before shipping, a batch afterwards) gets  *)
(* its gates passed one at a time, none before those it depends on, and a  *)
(* passed gate is never forgotten.  CaseAdvance and ShipmentBatches        *)
(* implement it.                                                           *)
(***************************************************************************)
CONSTANTS
  Units,   \* what moves through the gates
  Stages,  \* the gates
  Needs    \* Needs[s]: the gates that come before s

VARIABLE done  \* done[u]: the gates unit u has passed

Init == done = [u \in Units |-> {}]

PassGate(u, s) ==
  /\ Needs[s] \subseteq done[u]
  /\ done' = [done EXCEPT ![u] = @ \cup {s}]

Next == \E u \in Units, s \in Stages : PassGate(u, s)

Spec == Init /\ [][Next]_done
=============================================================================
