------------------------------- MODULE CaseFile -------------------------------
(***************************************************************************)
(* The file of a case that stands at one gate, and what the handlers do to *)
(* it there: the forms, the uploads, the desks, the change orders.  After  *)
(* every edit the gate is asked again (previewGate, advance).  The file is *)
(* the snapshot the gates judge; edits of one file do not overlap here.    *)
(***************************************************************************)
EXTENDS GateRules, TLC

CONSTANTS
  Files,     \* the node a case stands at and the file it comes there with
  Prices, Amounts, \* prices of a quote and amounts of a contract
  Limits,    \* limits a policy may be registered with
  Days       \* days a supplier may deliver on; 0 is no day

ASSUME CaseFileAssumption ==
  /\ Prices \subseteq Nat /\ Amounts \subseteq Nat
  /\ Limits \subseteq Nat \ {0}
  /\ Days \subseteq Nat
  /\ \A f \in Files : {"hits", "changes"} \subseteq DOMAIN f.file /\ DOMAIN f.file.changes \subseteq Nat

VARIABLES
  at,        \* the node in front of the case
  file       \* the snapshot

vars == <<at, file>>

GateNodes == {"N2", "N3", "N4", "N5", "N6", "N7", "N9"}
Result == EvaluateNode(at, file)

Init == \E f \in Files : at = f.node /\ file = f.file

(***************************************************************************)
(* The quote, the policy, the contract.  A review answers for the figures  *)
(* it was given for; other figures start without one.  A contract is saved *)
(* only once a limit is registered; how it pays is never written where     *)
(* the transport term goes.                                                *)
(***************************************************************************)
SaveQuote(vague, valid, unitOk, price, quantity) ==
  /\ at = "N2"
  /\ file' = [file EXCEPT !.quote = [present |-> TRUE, vague |-> vague, valid |-> valid,
                                     unitOk |-> unitOk, price |-> price, quantity |-> quantity,
                                     amount |-> IF quantity > 0 THEN price * quantity ELSE price]]

SaveSinosure(limit) ==
  /\ at \in {"N3", "N4"}
  /\ file' = [file EXCEPT !.policy[at] = [evidence |-> TRUE, limit |-> limit, usd |-> TRUE],
                          !.review[at] = IF limit = file.policy[at].limit THEN @ ELSE "NONE"]

NormalizeTransportIncoterms(raw) == IF raw = "T/T" THEN "FOB" ELSE raw

SaveContract(incoterms, terms, amount, usd) ==
  /\ at = "N3" /\ RegisteredLimit(file, "N3")
  /\ file' = [file EXCEPT !.contract = [@ EXCEPT !.present = TRUE, !.terms = terms, !.amount = amount,
                                          !.usd = usd, !.ttTiming = FALSE,
                                          !.incoterms = NormalizeTransportIncoterms(incoterms)],
                          !.caseAmount = amount,
                          !.review["N3"] = "NONE"]

DecideOccupancy(decision) ==
  /\ at \in {"N3", "N4"}
  /\ "SINOSURE_EXPOSURE_HIGH" \in Result.missing
  /\ file' = [file EXCEPT !.review[at] = decision]

DecideTaxFinance(decision) ==
  /\ at \in SignNodes
  /\ "FT1_THIN_MARGIN" \in Result.missing
  /\ file' = [file EXCEPT !.tax.review = decision]

(* Screening: a desk gives a hit another disposition.                      *)
DisposeHit(hit, disposition) ==
  /\ at \in {"N3", "N4", "N5"}
  /\ hit \in file.hits
  /\ file' = [file EXCEPT !.hits = (@ \ {hit}) \cup {[hit EXCEPT !.disposition = disposition]}]

(***************************************************************************)
(* Change orders: the confirmations need what is confirmed, an approval    *)
(* counts where sensitive fields change, and only with all of them does an *)
(* order go into the contract.                                             *)
(***************************************************************************)
Orders == DOMAIN file.changes

AckChange(i, field) ==
  /\ i \in Orders /\ IsPending(file.changes[i])
  /\ file' = [file EXCEPT !.changes[i] = [@ EXCEPT ![field] = TRUE]]

MayApply(co) ==
  co.customerAck /\ co.internalAck /\ (co.fields \cap Sensitive # {} => co.approved)

ApplyChange(i) ==
  /\ i \in Orders /\ IsPending(file.changes[i]) /\ MayApply(file.changes[i])
  /\ LET applied == ApplyDiffs(file, file.changes[i])
     IN file' = [applied EXCEPT !.changes[i].status = "APPLIED",
                                !.caseAmount = IF Reprices(file, file.changes[i])
                                               THEN applied.contract.amount ELSE @]

(* Procurement, once the linked sale is signed.  A date left empty keeps   *)
(* the one before; so does the evidence of the customer's consent.         *)
SavePlan(supplier, poNo, planned, actual, registered, consent, consentRef) ==
  /\ at = "N5"
  /\ file' = [file EXCEPT
       !.parties = @ \cup supplier,
       !.plan = [present |-> TRUE, poNo |-> poNo, sale |-> "signed", planned |-> planned,
                 actual |-> IF actual = 0 THEN @.actual ELSE actual,
                 delayRegistered |-> registered, trigger |-> registered, consent |-> consent,
                 consentEvidence |-> @.consentEvidence \/ (consent /\ consentRef)]]

(***************************************************************************)
(* A batch: its uploads, and its two forms, which write all their fields.  *)
(***************************************************************************)
UploadSlots == CASE at = "N6" -> N6_UPLOADS [] at = "N7" -> N7_UPLOADS [] OTHER -> {}

UploadNodeDocument(slot) ==
  /\ slot \in UploadSlots
  /\ file' = [file EXCEPT !.evidences = @ \cup {slot}]

BlControls == {"", "ORIGINAL", "TELEX_RELEASE", "NO_BL", "FOB_NO_BL"}

SaveShipment(approval, bl, override) ==
  /\ at = "N6"
  /\ file' = [file EXCEPT !.shipment = [present |-> TRUE, approval |-> approval, bl |-> bl,
                                        override |-> NormalizeTransportIncoterms(override)]]

(* Unless the form says so, a payer of another name is a third party.      *)
SaveSettlement(memo, proof, release, relation, payerDiffers) ==
  /\ at = "N9"
  /\ file' = [file EXCEPT !.settlement =
                [present |-> TRUE, memo |-> memo, proof |-> proof, release |-> release,
                 relation |-> relation, payerDiffers |-> payerDiffers, thirdParty |-> payerDiffers]]

(* Steps that only add a document, a confirmation or an approval.          *)
Supply ==
  \/ \E slot \in UploadSlots : UploadNodeDocument(slot)
  \/ \E i \in Orders : \E field \in {"customerAck", "internalAck", "approved"} : AckChange(i, field)
  \/ DecideOccupancy("APPROVED")
  \/ DecideTaxFinance("APPROVED")
  \/ \E h \in file.hits : DisposeHit(h, "FALSE_POSITIVE")

Edit ==
  \/ \E vague, unitOk \in BOOLEAN : \E valid \in {"none", "past", "open"} : \E price \in Prices :
       \E quantity \in {NoAmount, 2} : SaveQuote(vague, valid, unitOk, price, quantity)
  \/ \E l \in Limits : SaveSinosure(l)
  \/ \E incoterms \in {"", "DDP", "T/T"} : \E terms \in {"none", "OA90"} :
       \E amount \in Amounts : \E usd \in BOOLEAN : SaveContract(incoterms, terms, amount, usd)
  \/ DecideOccupancy("REJECTED")
  \/ DecideTaxFinance("REJECTED")
  \/ \E h \in file.hits : \E d \in {"CONFIRMED_TRUE", "SUPPLEMENTED", "MONITORING"} : DisposeHit(h, d)
  \/ \E i \in Orders : ApplyChange(i)
  \/ \E filled, registered, consent, ref \in BOOLEAN : \E planned, actual \in Days :
       SavePlan(IF filled THEN {"SUPPLIER"} ELSE {}, filled, planned, actual, registered, consent, ref)
  \/ \E approval \in BOOLEAN : \E bl \in BlControls : \E override \in {"", "CIF", "T/T"} :
       SaveShipment(approval, bl, override)
  \/ \E memo, proof, release, relation, differs \in BOOLEAN :
       SaveSettlement(memo, proof, release, relation, differs)

Next == (Supply \/ Edit) /\ UNCHANGED at

Spec == Init /\ [][Next]_vars

-------------------------------------------------------------------------------
(* A result says one thing: it lets the case go on exactly if nothing is   *)
(* missing, and then it is a pass or an alert, whichever gates, merges and *)
(* the tax review have written into it (evaluateNode, mergeBuyerScreening- *)
(* Soft, applyTaxFinanceGate).                                             *)
GateVerdictsAgree ==
  /\ Result.proceed <=> Result.missing = {}
  /\ Result.proceed <=> Result.decision \in {"PASS", "SOFT_ALERT"}

(* From N4 on nothing goes past a change order that has not gone into the  *)
(* contract, however many confirmations it has.                            *)
PendingChangeStops ==
  Result.proceed /\ at \notin {"N2", "N3"} => ~HasPendingChanges(file)

(* A party found guilty, or open and not merely low, lets no contract and  *)
(* no procurement pass; nor does a change of a party while the buyer's     *)
(* side has such a hit.                                                    *)
Suspicious(h) ==
  \/ h.disposition = "CONFIRMED_TRUE"
  \/ /\ h.disposition = "OPEN"
     /\ "MEDIUM" \in {h.risk, h.confidence} \/ {h.risk, h.confidence} = {"HIGH"}

SuspiciousPartyStops ==
  Result.proceed =>
    /\ at = "N3" => ~\E h \in CustomerHits(file) : Suspicious(h)
    /\ at = "N5" => ~\E h \in SupplierHits(file) : Suspicious(h)
    /\ at = "N4" /\ (\E i \in Orders : file.changes[i].fields \cap NameFields # {}
                                         /\ file.changes[i].status # "SUPERSEDED")
         => ~\E h \in CustomerHits(file) : Suspicious(h)

(* No approval and no alert takes a case past a red line, nor goods that   *)
(* leave from the port past a missing warehouse or batch number.           *)
RedLineStops ==
  Result.proceed /\ at \in TAX_FINANCE_NODES =>
    /\ RedLines(file.tax, at) = {}
    /\ EffectiveSalesContract(file.tax).mode = "DIRECT_PORT" =>
         DirectPortGaps(EffectiveSalesContract(file.tax)) = {}

(* The three above: no paper, approval or alert takes a case past a gate   *)
(* while a change is pending, a party is suspicious or a red line is       *)
(* crossed.                                                                *)
HardStops == PendingChangeStops /\ SuspiciousPartyStops /\ RedLineStops
=============================================================================
