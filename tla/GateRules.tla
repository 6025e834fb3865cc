------------------------------- MODULE GateRules ------------------------------
(***************************************************************************)
(* What each gate makes of a snapshot s of the case: a decision, whether   *)
(* the case may proceed, and what is missing or worth an alert.  Days are  *)
(* numbers, 0 for none.  The snapshot of a batch's gate holds the batch's  *)
(* own shipment, settlement and uploads.  Operators only.                  *)
(***************************************************************************)
EXTENDS Exposure, SequencesExt, TaxRules

NoResult == [decision |-> "PASS", proceed |-> TRUE, missing |-> {}, alerts |-> {}]
Stopped(r, decision) == [r EXCEPT !.decision = decision, !.proceed = FALSE]
Alerted(r, alerts) ==
  IF alerts = {} THEN r
  ELSE [r EXCEPT !.decision = "SOFT_ALERT", !.proceed = TRUE, !.alerts = @ \cup alerts]
BlockMissing(missing) == Stopped([NoResult EXCEPT !.missing = missing], "HARD_BLOCK")

(***************************************************************************)
(* N2: the quote in force, and its price against the floor and the average *)
(* of past prices; 0 means there is none to compare with.                  *)
(***************************************************************************)
SoftPct == 15
MediumPct == 30

QuoteGaps(q) ==
  When(q.vague, "N2_VAGUE_PRICING")
    \cup When(q.valid = "none", "N2_VALIDITY") \cup When(q.valid = "past", "N2_VALIDITY_EXPIRED")
    \cup When(~q.unitOk, "N2_PRICE_UNIT") \cup When(q.price <= 0, "N2_UNIT_PRICE")

PriceAlerts(price, floor, average) ==
  LET gap == IF price < average THEN average - price ELSE price - average
  IN When(floor > 0 /\ price < floor, "BELOW_FLOOR")
     \cup (IF average = 0 THEN {}
           ELSE IF 100 * gap >= MediumPct * average THEN {"DEVIATION_MEDIUM"}
           ELSE When(100 * gap >= SoftPct * average, "DEVIATION_SOFT"))

EvaluateN2(s) ==
  IF ~s.quote.present THEN BlockMissing({"N2_QUOTE"})
  ELSE IF QuoteGaps(s.quote) # {} THEN BlockMissing(QuoteGaps(s.quote))
  ELSE Alerted(NoResult, PriceAlerts(s.quote.price, s.floor, s.average))

(***************************************************************************)
(* Screening: a hit counts until somebody finds it false, supplements it   *)
(* or puts it under watch.                                                 *)
(***************************************************************************)
OpenHits(hits) == {h \in hits : h.disposition \in {"OPEN", "CONFIRMED_TRUE"}}
HighHits(hits) == {h \in OpenHits(hits) : \/ h.disposition = "CONFIRMED_TRUE"
                                          \/ h.risk = "HIGH" /\ h.confidence = "HIGH"}
MediumHits(hits) == {h \in OpenHits(hits) : "MEDIUM" \in {h.risk, h.confidence}}
LowHits(hits) == {h \in OpenHits(hits) : "LOW" \in {h.risk, h.confidence}}

CustomerHits(s) == {h \in s.hits : h.role # "SUPPLIER"}
SupplierHits(s) == {h \in s.hits : h.role = "SUPPLIER"}

(* In this order: a true hit, whatever is missing, a hit to be reviewed, a *)
(* low hit, which only alerts.                                             *)
Screened(missing, hits, highItem, reviewItem, rest) ==
  CASE HighHits(hits) # {} -> BlockMissing(missing \cup {highItem})
    [] HighHits(hits) = {} /\ missing # {} -> BlockMissing(missing)
    [] HighHits(hits) = {} /\ missing = {} /\ MediumHits(hits) # {} ->
         Stopped([NoResult EXCEPT !.missing = {reviewItem}], "REVIEW")
    [] OTHER -> rest

EvaluateBuyerScreening(s) ==
  Screened(When("BUYER" \notin s.parties, "N3_PARTY_BUYER")
             \cup When("CONSIGNEE" \notin s.parties, "N3_PARTY_CONSIGNEE")
             \cup When(~s.kycRan, "N3_SCREENING_NOT_RUN"),
           CustomerHits(s), "N3_HIGH_CONFIDENCE_HIT", "N3_REVIEW_PENDING",
           Alerted(NoResult, When(LowHits(CustomerHits(s)) # {}, "LOW_HIT")))

(***************************************************************************)
(* N3: the contract and the buyer's Sinosure limit.                        *)
(***************************************************************************)
IncotermsCodes == {"EXW", "FCA", "FAS", "FOB", "CFR", "CIF", "CPT", "CIP", "DAP", "DPU", "DDP"}
BuyerArrangedFreight == {"FOB", "EXW", "FAS", "FCA"}

(* T/T is a way to pay, not a transport term.                              *)
ParseIncotermsCode(raw) == IF raw \in IncotermsCodes THEN raw ELSE ""

(* The contract's quantity, or the quote's, at the quoted price; or else   *)
(* the first amount there is: the contract's, the quote's, the case's.     *)
ContractTotalFen(s) ==
  LET quantity == IF s.contract.quantity # NoAmount THEN s.contract.quantity ELSE s.quote.quantity
      amounts  == SelectSeq(<<s.contract.amount, s.quote.amount, s.caseAmount>>, LAMBDA a : a > 0)
  IN IF quantity > 0 /\ s.quote.price > 0 THEN quantity * s.quote.price
     ELSE IF amounts # <<>> THEN Head(amounts) ELSE 0

RegisteredLimit(s, node) == s.policy[node].limit > 0

(* What applySinosureGate finds missing and worth an alert, and the band   *)
(* of the excess.                                                          *)
SinosureResult(s, node, total) ==
  LET pol  == s.policy[node]
      new  == NewContractFenForNode(node, s.nodes, total)
      band == EvaluateOccupancy(s.split, new, s.contract.usd, pol.limit, pol.usd).band
  IN [missing |-> When(~pol.evidence, "SINOSURE_EVIDENCE") \cup When(pol.limit <= 0, "SINOSURE_LIMIT")
                    \cup When(~pol.usd, "SINOSURE_CURRENCY")
                    \cup When(band = "ULTRA_HIGH", "SINOSURE_EXPOSURE_ULTRA"),
      alerts |-> When(~s.contract.usd /\ new > 0, "NOT_COUNTED") \cup When(~pol.usd, "LIMIT_CURRENCY"),
      band |-> band]

(* A high excess proceeds on its approved review and on nothing else.      *)
FinalizeExposureDecision(s, node, missing, alerts, band) ==
  CASE missing # {} -> BlockMissing(missing)
    [] missing = {} /\ band = "HIGH" /\ s.review[node] = "APPROVED" ->
         Alerted(NoResult, alerts \cup {"HIGH_APPROVED"})
    [] missing = {} /\ band = "HIGH" /\ s.review[node] # "APPROVED" ->
         Stopped([NoResult EXCEPT !.missing = {"SINOSURE_EXPOSURE_HIGH"}, !.alerts = alerts], "REVIEW")
    [] OTHER -> Alerted(NoResult, alerts \cup When(band \in {"MEDIUM", "BELOW_MEDIUM"}, band))

ContractGaps(s) ==
  When(ParseIncotermsCode(s.contract.incoterms) = "", "N3_INCOTERMS")
    \cup When(s.contract.terms = "none", "N3_PAYMENT_TERMS")
    \cup When(ContractTotalFen(s) <= 0, "N3_CONTRACT_AMOUNT")

ContractAlerts(s) ==
  When(s.contract.incoterms \in {"EXW", "DDP"}, "INCOTERMS") \cup When(s.contract.terms = "OA90", "TERMS")

EvaluateN3Commercial(s) ==
  IF ~RegisteredLimit(s, "N3")
  THEN BlockMissing({"N3_SINOSURE_LIMIT"} \cup When(~s.policy["N3"].evidence, "N3_SINOSURE_EVIDENCE"))
  ELSE IF ~s.contract.present THEN BlockMissing({"N3_CONTRACT"})
  ELSE LET sinosure == SinosureResult(s, "N3", ContractTotalFen(s))
       IN FinalizeExposureDecision(s, "N3", ContractGaps(s) \cup sinosure.missing,
                                   ContractAlerts(s) \cup sinosure.alerts, sinosure.band)

(* A low hit turns a pass into an alert and never into more.               *)
EvaluateN3(s) ==
  LET screening  == EvaluateBuyerScreening(s)
      commercial == EvaluateN3Commercial(s)
  IN IF ~screening.proceed THEN screening
     ELSE IF commercial.proceed THEN Alerted(commercial, screening.alerts)
     ELSE [commercial EXCEPT !.alerts = @ \cup screening.alerts]

(***************************************************************************)
(* N4: the change orders, each a record of its status, the fields it       *)
(* changes with the new payment terms and quantity, and its confirmations. *)
(***************************************************************************)
NameFields == {"buyerName", "consigneeName", "payerName"}
RoleOf == [buyerName |-> "BUYER", consigneeName |-> "CONSIGNEE", payerName |-> "PAYER"]
Sensitive == NameFields \cup {"paymentTerms"}

IsPending(co) == co.status \notin {"APPLIED", "SUPERSEDED"}
HasPendingChanges(s) == \E i \in DOMAIN s.changes : IsPending(s.changes[i])

(* Variant: the confirmations of an order with sensitive fields suffice.   *)
ChangeGapsUnapproved(co) ==
  When(co.fields = {}, "N4_DIFF") \cup When(~co.customerAck, "N4_CUSTOMER_ACK")
    \cup When(~co.internalAck, "N4_INTERNAL_ACK")

ChangeGaps(co) ==
  LET needsApproval == co.fields \cap Sensitive # {}
  IN When(co.fields = {}, "N4_DIFF") \cup When(~co.customerAck, "N4_CUSTOMER_ACK")
       \cup When(~co.internalAck, "N4_INTERNAL_ACK")
       \cup When(needsApproval /\ ~co.approved, "N4_APPROVAL")
       \cup When(co.customerAck /\ co.internalAck /\ (needsApproval => co.approved), "N4_NOT_APPLIED")

(* The snapshot with an order's fields in it.  Only the quantity moves the *)
(* amount: by the quoted price, or else in proportion.                     *)
Reprices(s, co) ==
  /\ "quantity" \in co.fields
  /\ s.quote.price > 0 \/ (s.contract.amount > 0 /\ co.oldQuantity > 0)

ApplyDiffs(s, co) ==
  LET c == s.contract
      amount == IF ~Reprices(s, co) THEN c.amount
                ELSE IF s.quote.price > 0 THEN s.quote.price * co.quantity
                ELSE (2 * c.amount * co.quantity + co.oldQuantity) \div (2 * co.oldQuantity)
  IN [s EXCEPT !.contract = [c EXCEPT !.present = TRUE, !.amount = amount,
                               !.quantity = IF "quantity" \in co.fields THEN co.quantity ELSE @,
                               !.terms = IF "paymentTerms" \in co.fields THEN co.terms ELSE @],
               !.parties = @ \cup {RoleOf[f] : f \in co.fields \cap NameFields}]

Relevant(co) == co.status # "SUPERSEDED"
SnapAfterChanges(s) == FoldLeft(ApplyDiffs, s, SelectSeq(s.changes, Relevant))

(* A changed party needs a clean screening, changed payment terms need all *)
(* of N3.                                                                  *)
RetriggerRelated(s, co) ==
  LET after     == ApplyDiffs(s, co)
      screening == EvaluateBuyerScreening(after)
  IN IF co.fields \cap NameFields # {} /\ ~screening.proceed THEN screening
     ELSE IF "paymentTerms" \in co.fields THEN EvaluateN3(after) ELSE NoResult

EvaluateN4(s) ==
  LET gaps == UNION {ChangeGaps(s.changes[i]) : i \in {j \in DOMAIN s.changes : IsPending(s.changes[j])}}
      sinosure == SinosureResult(s, "N4", ContractTotalFen(SnapAfterChanges(s)))
      failing == {i \in DOMAIN s.changes :
                    Relevant(s.changes[i]) /\ ~RetriggerRelated(s, s.changes[i]).proceed}
  IN IF s.changes = <<>> THEN NoResult
     ELSE IF gaps \cup sinosure.missing # {} THEN BlockMissing(gaps \cup sinosure.missing)
     ELSE IF failing # {} THEN RetriggerRelated(s, s.changes[Min(failing)])
     ELSE FinalizeExposureDecision(s, "N4", {}, sinosure.alerts, sinosure.band)

(***************************************************************************)
(* N5: procurement, against the delivery day of the linked sale.           *)
(***************************************************************************)
Delayed(plan, delivery) == delivery > 0 /\ (plan.planned > delivery \/ plan.actual > delivery)

PlanGaps(s) ==
  When("SUPPLIER" \notin s.parties, "N5_SUPPLIER") \cup When(~s.plan.poNo, "N5_PO_NO")
    \cup When(s.plan.sale = "none", "N5_SALES_LINK") \cup When(s.plan.sale = "unsigned", "N5_SALES_NOT_SIGNED")
    \cup When(s.plan.planned = 0, "N5_PLANNED_ARRIVAL") \cup When(~s.supplierScreened, "N5_SCREENING_NOT_RUN")

DelayGaps(plan) ==
  When(~plan.delayRegistered, "N5_DELAY_NOT_REGISTERED") \cup When(~plan.trigger, "N5_DELAY_TRIGGER")

EvaluateN5(s) ==
  LET low == When(LowHits(SupplierHits(s)) # {}, "LOW_HIT")
      delay ==
        CASE ~Delayed(s.plan, s.delivery) -> Alerted(NoResult, low)
          [] Delayed(s.plan, s.delivery) /\ DelayGaps(s.plan) # {} -> BlockMissing(DelayGaps(s.plan))
          [] Delayed(s.plan, s.delivery) /\ DelayGaps(s.plan) = {} /\ ~(s.plan.consent /\ s.plan.consentEvidence) ->
               Stopped([NoResult EXCEPT !.missing = {"N5_DELAY_WITHOUT_CONSENT"}], "REVIEW")
          [] OTHER -> Alerted(NoResult, low)
  IN IF HasPendingChanges(s) THEN BlockMissing({"N5_PENDING_CHANGE"})
     ELSE IF ~s.plan.present THEN BlockMissing({"N5_PLAN"})
     ELSE Screened(PlanGaps(s), SupplierHits(s), "N5_HIGH_CONFIDENCE_HIT", "N5_REVIEW_PENDING", delay)

(***************************************************************************)
(* The hard gates.                                                         *)
(***************************************************************************)
N6_UPLOADS == {"N6_INVOICE", "N6_PACKING"}
N7_UPLOADS == {"N7_SALES_CONTRACT", "N7_COMMERCIAL_INVOICE", "N7_PACKING", "N7_PURCHASE_CONTRACT",
               "N7_INVOICE", "N7_CUSTOMS", "N7_ORIGIN_CERT"}

FinalizeHard(missing, alerts) ==
  IF missing # {} THEN BlockMissing(missing) ELSE Alerted(NoResult, alerts)

RawIncoterms(s) == IF s.shipment.present /\ s.shipment.override # "" THEN s.shipment.override
                   ELSE s.contract.incoterms

(* Where only T/T is written, shipment goes by FOB.                        *)
EffectiveN6Incoterms(s) ==
  LET code == ParseIncotermsCode(RawIncoterms(s))
  IN IF code # "" THEN code
     ELSE IF RawIncoterms(s) = "T/T" \/ s.contract.ttTiming THEN "FOB" ELSE ""

BlGaps(s) ==
  LET buyerFreight == EffectiveN6Incoterms(s) \in BuyerArrangedFreight
      bl == s.shipment.bl
  IN CASE bl \in {"NO_BL", "FOB_NO_BL"} -> When(~buyerFreight, "N6_NO_BL_INCOTERMS")
       [] bl \in {"ORIGINAL", "TELEX_RELEASE"} -> {}
       [] OTHER -> {IF buyerFreight THEN "N6_NO_BL_PATH" ELSE "N6_BL_CONTROL"}

(* N6, N7 and N9 first refuse a case with a pending change order.          *)
EvaluateN6(s) ==
  IF HasPendingChanges(s) THEN BlockMissing({"N6_PENDING_CHANGE"})
  ELSE IF ~s.shipment.present THEN BlockMissing({"N6_SHIPMENT"})
  ELSE FinalizeHard((N6_UPLOADS \ s.evidences)
                      \cup When(~s.shipment.approval, "N6_INTERNAL_APPROVAL") \cup BlGaps(s),
                    When(/\ ParseIncotermsCode(RawIncoterms(s)) = ""
                         /\ EffectiveN6Incoterms(s) = "FOB", "FOB_FALLBACK"))

EvaluateN7(s) ==
  IF HasPendingChanges(s) THEN BlockMissing({"N7_PENDING_CHANGE"})
  ELSE LET required == IF EffectiveN6Incoterms(s) = "FOB" THEN N7_UPLOADS \ {"N7_ORIGIN_CERT"}
                       ELSE N7_UPLOADS
       IN FinalizeHard(required \ s.evidences, {})

EvaluateN9(s) ==
  LET early == When(s.nodes["N7"] # "PASSED", "N9_PREREQ_DOC_CONSISTENCY")
      stl   == s.settlement
  IN IF HasPendingChanges(s) THEN BlockMissing({"N9_PENDING_CHANGE"})
     ELSE IF ~stl.present THEN BlockMissing(early \cup {"N9_SETTLEMENT"})
     ELSE FinalizeHard(early \cup When(~stl.memo, "N9_REMITTANCE_MEMO")
                         \cup When(~stl.proof, "N9_DOC_CONSISTENCY_PROOF")
                         \cup When(~stl.release, "N9_RELEASE_APPROVAL")
                         \cup When((stl.thirdParty \/ stl.payerDiffers) /\ ~stl.relation,
                                   "N9_THIRD_PARTY_RELATION_PROOF"), {})

EvaluateNode(node, s) ==
  LET r == CASE node = "N2" -> EvaluateN2(s) [] node = "N3" -> EvaluateN3(s)
             [] node = "N4" -> EvaluateN4(s) [] node = "N5" -> EvaluateN5(s)
             [] node = "N6" -> EvaluateN6(s) [] node = "N7" -> EvaluateN7(s)
             [] OTHER -> EvaluateN9(s)
  IN ApplyTaxFinanceGate(r, s.tax, node)
=============================================================================
