---------------------------- MODULE CaseFileProofs ----------------------------
(***************************************************************************)
(* Proofs about CaseFile, for every set of files a case may come with and  *)
(* every figure the forms may be filled with: a gate's result says one     *)
(* thing (GateVerdictsAgree), and no paper, approval or alert takes a case *)
(* past a pending change, a suspicious party or a red line (HardStops).    *)
(* Both are about the operators of GateRules and TaxRules; of the files    *)
(* they need no more than that the change orders are numbered.             *)
(***************************************************************************)
EXTENDS CaseFile, WellFoundedInduction, TLAPS

(***************************************************************************)
(* Results.                                                                *)
(***************************************************************************)
Fields == {"decision", "proceed", "missing", "alerts"}

Agreed(r) ==
  /\ DOMAIN r = Fields
  /\ r.proceed \in BOOLEAN
  /\ r.proceed <=> r.missing = {}
  /\ r.proceed <=> r.decision \in {"PASS", "SOFT_ALERT"}

LEMMA PassAgrees == Agreed(NoResult) /\ NoResult.proceed
BY DEF Agreed, NoResult, Fields

LEMMA BlockAgrees ==
  ASSUME NEW missing, missing # {}
  PROVE  Agreed(BlockMissing(missing)) /\ ~BlockMissing(missing).proceed
BY DEF Agreed, BlockMissing, Stopped, NoResult, Fields

LEMMA ReviewAgrees ==
  ASSUME NEW item, NEW alerts
  PROVE  /\ Agreed(Stopped([NoResult EXCEPT !.missing = {item}], "REVIEW"))
         /\ ~Stopped([NoResult EXCEPT !.missing = {item}], "REVIEW").proceed
         /\ Agreed(Stopped([NoResult EXCEPT !.missing = {item}, !.alerts = alerts], "REVIEW"))
BY DEF Agreed, Stopped, NoResult, Fields

LEMMA AlertAgrees ==
  ASSUME NEW r, Agreed(r), r.proceed, NEW alerts
  PROVE  Agreed(Alerted(r, alerts)) /\ Alerted(r, alerts).proceed
BY DEF Agreed, Alerted, Fields

LEMMA HardAgrees ==
  ASSUME NEW missing, NEW alerts
  PROVE  Agreed(FinalizeHard(missing, alerts))
BY PassAgrees, BlockAgrees, AlertAgrees DEF FinalizeHard

(* The four ways a screening ends.                                         *)
LEMMA ScreenedCases ==
  ASSUME NEW missing, NEW hits, NEW highItem, NEW reviewItem, NEW rest
  PROVE  LET r == Screened(missing, hits, highItem, reviewItem, rest)
         IN \/ r = rest /\ HighHits(hits) = {} /\ MediumHits(hits) = {} /\ missing = {}
            \/ r = BlockMissing(missing \cup {highItem})
            \/ r = BlockMissing(missing) /\ missing # {}
            \/ r = Stopped([NoResult EXCEPT !.missing = {reviewItem}], "REVIEW")
BY DEF Screened

LEMMA ScreenedAgrees ==
  ASSUME NEW missing, NEW hits, NEW highItem, NEW reviewItem, NEW rest, Agreed(rest)
  PROVE  Agreed(Screened(missing, hits, highItem, reviewItem, rest))
<1> DEFINE r == Screened(missing, hits, highItem, reviewItem, rest)
<1>1. \/ r = rest
      \/ r = BlockMissing(missing \cup {highItem})
      \/ r = BlockMissing(missing) /\ missing # {}
      \/ r = Stopped([NoResult EXCEPT !.missing = {reviewItem}], "REVIEW")
  BY ScreenedCases
<1>2. Agreed(BlockMissing(missing \cup {highItem}))
  <2>1. missing \cup {highItem} # {}
    OBVIOUS
  <2> QED BY <2>1, BlockAgrees
<1>3. missing # {} => Agreed(BlockMissing(missing))
  BY BlockAgrees
<1>4. Agreed(Stopped([NoResult EXCEPT !.missing = {reviewItem}], "REVIEW"))
  BY ReviewAgrees
<1> HIDE DEF r
<1>5. Agreed(r)
  BY <1>1, <1>2, <1>3, <1>4
<1> QED
  BY <1>5 DEF r

(* A suspicious hit stops whatever is screened.                            *)
LEMMA SuspiciousStops ==
  ASSUME NEW missing, NEW hits, NEW highItem, NEW reviewItem, NEW rest,
         NEW h \in hits, Suspicious(h)
  PROVE  ~Screened(missing, hits, highItem, reviewItem, rest).proceed
<1>1. h \in HighHits(hits) \/ h \in MediumHits(hits)
  BY DEF HighHits, MediumHits, OpenHits, Suspicious
<1> DEFINE r == Screened(missing, hits, highItem, reviewItem, rest)
<1>2. \/ r = BlockMissing(missing \cup {highItem})
      \/ r = BlockMissing(missing) /\ missing # {}
      \/ r = Stopped([NoResult EXCEPT !.missing = {reviewItem}], "REVIEW")
  BY <1>1, ScreenedCases
<1>3. ~BlockMissing(missing \cup {highItem}).proceed
  <2>1. missing \cup {highItem} # {}
    OBVIOUS
  <2> QED BY <2>1, BlockAgrees
<1>4. missing # {} => ~BlockMissing(missing).proceed
  BY BlockAgrees
<1>5. ~Stopped([NoResult EXCEPT !.missing = {reviewItem}], "REVIEW").proceed
  BY ReviewAgrees
<1> HIDE DEF r
<1>6. ~r.proceed
  BY <1>2, <1>3, <1>4, <1>5
<1> QED
  BY <1>6 DEF r

LEMMA BuyerScreeningAgrees ==
  ASSUME NEW s
  PROVE  Agreed(EvaluateBuyerScreening(s))
BY PassAgrees, AlertAgrees, ScreenedAgrees DEF EvaluateBuyerScreening

LEMMA BuyerScreeningStops ==
  ASSUME NEW s, NEW h \in CustomerHits(s), Suspicious(h)
  PROVE  ~EvaluateBuyerScreening(s).proceed
BY SuspiciousStops DEF EvaluateBuyerScreening

LEMMA ExposureAgrees ==
  ASSUME NEW s, NEW node, NEW missing, NEW alerts, NEW band
  PROVE  Agreed(FinalizeExposureDecision(s, node, missing, alerts, band))
BY PassAgrees, BlockAgrees, AlertAgrees, ReviewAgrees DEF FinalizeExposureDecision

(***************************************************************************)
(* The gates.                                                              *)
(***************************************************************************)
LEMMA N2Agrees ==
  ASSUME NEW s
  PROVE  Agreed(EvaluateN2(s))
BY PassAgrees, BlockAgrees, AlertAgrees DEF EvaluateN2

LEMMA N3Agrees ==
  ASSUME NEW s
  PROVE  Agreed(EvaluateN3(s)) /\ (EvaluateN3(s).proceed => EvaluateBuyerScreening(s).proceed)
<1> DEFINE screening == EvaluateBuyerScreening(s)
           commercial == EvaluateN3Commercial(s)
<1>1. Agreed(screening)
  BY BuyerScreeningAgrees
<1>2. Agreed(commercial)
  <2>1. CASE ~RegisteredLimit(s, "N3")
    BY <2>1, BlockAgrees DEF EvaluateN3Commercial
  <2>2. CASE RegisteredLimit(s, "N3") /\ ~s.contract.present
    BY <2>2, BlockAgrees DEF EvaluateN3Commercial
  <2>3. CASE RegisteredLimit(s, "N3") /\ s.contract.present
    BY <2>3, ExposureAgrees DEF EvaluateN3Commercial
  <2> QED BY <2>1, <2>2, <2>3
<1>3. EvaluateN3(s) = IF ~screening.proceed THEN screening
                      ELSE IF commercial.proceed THEN Alerted(commercial, screening.alerts)
                      ELSE [commercial EXCEPT !.alerts = @ \cup screening.alerts]
  BY DEF EvaluateN3
<1> HIDE DEF screening, commercial
<1>4. ~commercial.proceed => Agreed([commercial EXCEPT !.alerts = @ \cup screening.alerts])
  BY <1>2 DEF Agreed, Fields
<1>5. Agreed(EvaluateN3(s)) /\ (EvaluateN3(s).proceed => screening.proceed)
  BY <1>1, <1>2, <1>3, <1>4, AlertAgrees
<1> QED
  BY <1>5 DEF screening

LEMMA RetriggerAgrees ==
  ASSUME NEW s, NEW co
  PROVE  Agreed(RetriggerRelated(s, co))
BY PassAgrees, BuyerScreeningAgrees, N3Agrees DEF RetriggerRelated

(* A set of numbers that is not empty has a least one.                     *)
LEMMA MinIn ==
  ASSUME NEW S, S \subseteq Nat, S # {}
  PROVE  Min(S) \in S
<1>1. PICK x \in S : \A y \in S : ~(<<y, x>> \in OpToRel(<, Nat))
  BY NatLessThanWellFounded, WFMin
<1>2. \A y \in S : ~(y < x)
  BY <1>1 DEF OpToRel
<1>3. \A y \in S : x <= y
  BY <1>2
<1> QED
  BY <1>3 DEF Min

Failing(s) ==
  {i \in DOMAIN s.changes : Relevant(s.changes[i]) /\ ~RetriggerRelated(s, s.changes[i]).proceed}

LEMMA N4Agrees ==
  ASSUME NEW s, DOMAIN s.changes \subseteq Nat
  PROVE  /\ Agreed(EvaluateN4(s))
         /\ EvaluateN4(s).proceed => ~HasPendingChanges(s) /\ (s.changes = <<>> \/ Failing(s) = {})
<1>1. PICK gaps, sinosure :
        /\ gaps = UNION {ChangeGaps(s.changes[i]) : i \in {j \in DOMAIN s.changes : IsPending(s.changes[j])}}
        /\ EvaluateN4(s) =
             IF s.changes = <<>> THEN NoResult
             ELSE IF gaps \cup sinosure.missing # {} THEN BlockMissing(gaps \cup sinosure.missing)
             ELSE IF Failing(s) # {} THEN RetriggerRelated(s, s.changes[Min(Failing(s))])
             ELSE FinalizeExposureDecision(s, "N4", {}, sinosure.alerts, sinosure.band)
  BY DEF EvaluateN4, Failing
<1>2. ASSUME HasPendingChanges(s) PROVE gaps # {}
  <2>1. PICK i \in DOMAIN s.changes : IsPending(s.changes[i])
    BY <1>2 DEF HasPendingChanges
  <2>2. ChangeGaps(s.changes[i]) # {}
    BY DEF ChangeGaps, When
  <2> QED BY <1>1, <2>1, <2>2
<1>3. s.changes = <<>> => ~HasPendingChanges(s)
  BY DEF HasPendingChanges
<1>4. ASSUME Failing(s) # {}
      PROVE  /\ ~RetriggerRelated(s, s.changes[Min(Failing(s))]).proceed
             /\ Agreed(RetriggerRelated(s, s.changes[Min(Failing(s))]))
  <2>1. Failing(s) \subseteq Nat
    BY DEF Failing
  <2>2. Min(Failing(s)) \in Failing(s)
    BY <1>4, <2>1, MinIn
  <2> QED BY <2>2, RetriggerAgrees DEF Failing
<1>5. CASE s.changes = <<>>
  BY <1>1, <1>3, <1>5, PassAgrees
<1>6. CASE s.changes # <<>> /\ gaps \cup sinosure.missing # {}
  <2>1. EvaluateN4(s) = BlockMissing(gaps \cup sinosure.missing)
    BY <1>1, <1>6
  <2> QED BY <2>1, <1>6, BlockAgrees
<1>7. CASE s.changes # <<>> /\ gaps \cup sinosure.missing = {} /\ Failing(s) # {}
  BY <1>1, <1>4, <1>7
<1>8. CASE s.changes # <<>> /\ gaps \cup sinosure.missing = {} /\ Failing(s) = {}
  <2>1. EvaluateN4(s) = FinalizeExposureDecision(s, "N4", {}, sinosure.alerts, sinosure.band)
    BY <1>1, <1>8
  <2>2. gaps = {}
    BY <1>8
  <2> QED BY <2>1, <2>2, <1>2, <1>8, ExposureAgrees
<1> QED
  BY <1>5, <1>6, <1>7, <1>8

LEMMA N5Agrees ==
  ASSUME NEW s
  PROVE  /\ Agreed(EvaluateN5(s))
         /\ EvaluateN5(s).proceed =>
              ~HasPendingChanges(s) /\ ~\E h \in SupplierHits(s) : Suspicious(h)
<1>1. PICK rest : /\ Agreed(rest)
                  /\ EvaluateN5(s) =
                       IF HasPendingChanges(s) THEN BlockMissing({"N5_PENDING_CHANGE"})
                       ELSE IF ~s.plan.present THEN BlockMissing({"N5_PLAN"})
                       ELSE Screened(PlanGaps(s), SupplierHits(s), "N5_HIGH_CONFIDENCE_HIT",
                                     "N5_REVIEW_PENDING", rest)
  <2> DEFINE low == When(LowHits(SupplierHits(s)) # {}, "LOW_HIT")
             delay ==
               CASE ~Delayed(s.plan, s.delivery) -> Alerted(NoResult, low)
                 [] Delayed(s.plan, s.delivery) /\ DelayGaps(s.plan) # {} -> BlockMissing(DelayGaps(s.plan))
                 [] Delayed(s.plan, s.delivery) /\ DelayGaps(s.plan) = {}
                      /\ ~(s.plan.consent /\ s.plan.consentEvidence) ->
                      Stopped([NoResult EXCEPT !.missing = {"N5_DELAY_WITHOUT_CONSENT"}], "REVIEW")
                 [] OTHER -> Alerted(NoResult, low)
  <2>1. Agreed(delay)
    BY PassAgrees, BlockAgrees, AlertAgrees, ReviewAgrees
  <2> HIDE DEF low
  <2> QED BY <2>1 DEF EvaluateN5, low
<1>2. ASSUME NEW item PROVE Agreed(BlockMissing({item})) /\ ~BlockMissing({item}).proceed
  BY BlockAgrees
<1> QED
  BY <1>1, <1>2, ScreenedAgrees, SuspiciousStops

LEMMA HardGatesAgree ==
  ASSUME NEW s
  PROVE  /\ Agreed(EvaluateN6(s)) /\ (EvaluateN6(s).proceed => ~HasPendingChanges(s))
         /\ Agreed(EvaluateN7(s)) /\ (EvaluateN7(s).proceed => ~HasPendingChanges(s))
         /\ Agreed(EvaluateN9(s)) /\ (EvaluateN9(s).proceed => ~HasPendingChanges(s))
<1>1. ASSUME NEW item PROVE Agreed(BlockMissing({item})) /\ ~BlockMissing({item}).proceed
  BY BlockAgrees
<1>2. Agreed(EvaluateN6(s)) /\ (EvaluateN6(s).proceed => ~HasPendingChanges(s))
  BY <1>1, HardAgrees DEF EvaluateN6
<1>3. Agreed(EvaluateN7(s)) /\ (EvaluateN7(s).proceed => ~HasPendingChanges(s))
  BY <1>1, HardAgrees DEF EvaluateN7
<1>4. Agreed(EvaluateN9(s)) /\ (EvaluateN9(s).proceed => ~HasPendingChanges(s))
  <2>1. ASSUME NEW early PROVE early \cup {"N9_SETTLEMENT"} # {}
    OBVIOUS
  <2> QED BY <1>1, <2>1, HardAgrees, BlockAgrees DEF EvaluateN9
<1> QED
  BY <1>2, <1>3, <1>4

(***************************************************************************)
(* The tax review laid over a gate.                                        *)
(***************************************************************************)
LEMMA TaxGateAgrees ==
  ASSUME NEW r, Agreed(r), NEW t, NEW node
  PROVE  LET over == ApplyTaxFinanceGate(r, t, node)
         IN /\ Agreed(over)
            /\ over.proceed => r.proceed
            /\ over.proceed /\ node \in TAX_FINANCE_NODES =>
                 RedLines(t, node) = {} /\ TaxGaps(t, node) = {}
<1> DEFINE over == ApplyTaxFinanceGate(r, t, node)
<1>1. PICK tf : /\ tf = EvaluateTaxFinance(t, node)
                /\ over = IF node \notin TAX_FINANCE_NODES THEN r
                          ELSE IF tf.decision = "HARD_BLOCK"
                          THEN [r EXCEPT !.missing = @ \cup tf.missing, !.alerts = @ \cup tf.alerts,
                                         !.decision = "HARD_BLOCK", !.proceed = FALSE]
                          ELSE IF tf.decision = "REVIEW" /\ r.decision # "HARD_BLOCK"
                          THEN [r EXCEPT !.missing = @ \cup tf.missing, !.alerts = @ \cup tf.alerts,
                                         !.decision = "REVIEW", !.proceed = FALSE]
                          ELSE [r EXCEPT !.missing = @ \cup tf.missing, !.alerts = @ \cup tf.alerts]
  BY DEF ApplyTaxFinanceGate
<1>2. /\ tf.decision \in {"HARD_BLOCK", "REVIEW"} <=> tf.missing # {}
      /\ tf.missing = {} => RedLines(t, node) = {} /\ TaxGaps(t, node) = {}
  BY <1>1 DEF EvaluateTaxFinance
<1> HIDE DEF over
<1>3. CASE node \notin TAX_FINANCE_NODES
  BY <1>1, <1>3 DEF over
<1>4. CASE node \in TAX_FINANCE_NODES /\ tf.missing # {}
  <2>1. Agreed(over) /\ ~over.proceed
    BY <1>1, <1>2, <1>4 DEF Agreed, Fields
  <2> QED BY <2>1 DEF over
<1>5. CASE node \in TAX_FINANCE_NODES /\ tf.missing = {}
  <2>1. Agreed(over) /\ over.proceed = r.proceed
    BY <1>1, <1>2, <1>5 DEF Agreed, Fields
  <2> QED BY <2>1, <1>2, <1>5 DEF over
<1> QED
  BY <1>3, <1>4, <1>5

(* What each gate makes of a file, before the tax review.                  *)
GateResult(node, s) ==
  CASE node = "N2" -> EvaluateN2(s) [] node = "N3" -> EvaluateN3(s)
    [] node = "N4" -> EvaluateN4(s) [] node = "N5" -> EvaluateN5(s)
    [] node = "N6" -> EvaluateN6(s) [] node = "N7" -> EvaluateN7(s)
    [] OTHER -> EvaluateN9(s)

LEMMA GateAgrees ==
  ASSUME NEW node, NEW s, DOMAIN s.changes \subseteq Nat
  PROVE  /\ Agreed(GateResult(node, s))
         /\ GateResult(node, s).proceed /\ node \notin {"N2", "N3"} => ~HasPendingChanges(s)
<1> USE N2Agrees, N3Agrees, N4Agrees, N5Agrees, HardGatesAgree DEF GateResult
<1>1. CASE node \in {"N2", "N3"}
  BY <1>1
<1>2. CASE node = "N4"
  BY <1>2
<1>3. CASE node = "N5"
  BY <1>3
<1>4. CASE node \notin {"N2", "N3", "N4", "N5"}
  BY <1>4
<1> QED
  BY <1>1, <1>2, <1>3, <1>4

(***************************************************************************)
(* The files: whatever is filled in, the change orders stay numbered.      *)
(***************************************************************************)
Numbered(s) == {"hits", "changes"} \subseteq DOMAIN s /\ DOMAIN s.changes \subseteq Nat

LEMMA NumberedStays ==
  ASSUME Numbered(file), [Next]_vars
  PROVE  Numbered(file)'
<1> USE DEF Numbered
<1>1. ASSUME NEW vague, NEW valid, NEW unitOk, NEW price, NEW quantity,
             SaveQuote(vague, valid, unitOk, price, quantity)
      PROVE  Numbered(file')
  BY <1>1 DEF SaveQuote
<1>2. ASSUME NEW limit, SaveSinosure(limit) PROVE Numbered(file')
  BY <1>2 DEF SaveSinosure
<1>3. ASSUME NEW incoterms, NEW terms, NEW amount, NEW usd, SaveContract(incoterms, terms, amount, usd)
      PROVE  Numbered(file')
  BY <1>3 DEF SaveContract
<1>4. ASSUME NEW decision, DecideOccupancy(decision) \/ DecideTaxFinance(decision) PROVE Numbered(file')
  BY <1>4 DEF DecideOccupancy, DecideTaxFinance
<1>5. ASSUME NEW hit, NEW disposition, DisposeHit(hit, disposition) PROVE Numbered(file')
  BY <1>5 DEF DisposeHit
<1>6. ASSUME NEW i, NEW field, AckChange(i, field) PROVE Numbered(file')
  BY <1>6 DEF AckChange
<1>7. ASSUME NEW i, ApplyChange(i) PROVE Numbered(file')
  <2>1. PICK applied : /\ applied = ApplyDiffs(file, file.changes[i])
                       /\ \E amount : file' = [applied EXCEPT !.changes[i].status = "APPLIED",
                                                              !.caseAmount = amount]
    BY <1>7 DEF ApplyChange
  <2>2. DOMAIN applied = DOMAIN file /\ applied.changes = file.changes
    BY <2>1 DEF ApplyDiffs
  <2> QED BY <2>1, <2>2
<1>8. ASSUME NEW supplier, NEW poNo, NEW planned, NEW actual, NEW registered, NEW consent, NEW ref,
             SavePlan(supplier, poNo, planned, actual, registered, consent, ref)
      PROVE  Numbered(file')
  BY <1>8 DEF SavePlan
<1>9. ASSUME NEW slot, UploadNodeDocument(slot) PROVE Numbered(file')
  BY <1>9 DEF UploadNodeDocument
<1>10. ASSUME NEW approval, NEW bl, NEW override, SaveShipment(approval, bl, override)
       PROVE  Numbered(file')
  BY <1>10 DEF SaveShipment
<1>11. ASSUME NEW memo, NEW proof, NEW release, NEW relation, NEW differs,
              SaveSettlement(memo, proof, release, relation, differs)
       PROVE  Numbered(file')
  BY <1>11 DEF SaveSettlement
<1>12. CASE Supply
  BY <1>12, <1>4, <1>5, <1>6, <1>9 DEF Supply
<1>13. CASE Edit
  BY <1>13, <1>1, <1>2, <1>3, <1>4, <1>5, <1>7, <1>8, <1>10, <1>11 DEF Edit
<1>14. CASE UNCHANGED vars
  BY <1>14 DEF vars
<1> QED
  BY <1>12, <1>13, <1>14 DEF Next

LEMMA NumberedAlways == Spec => []Numbered(file)
<1>1. Init => Numbered(file)
  BY CaseFileAssumption DEF Init, Numbered
<1>2. Numbered(file) /\ [Next]_vars => Numbered(file)'
  BY NumberedStays
<1> QED
  BY <1>1, <1>2, PTL DEF Spec

(* A gate's result says one thing, whichever gates, merges and the tax     *)
(* review have written into it.                                            *)
THEOREM VerdictsAgree == Spec => []GateVerdictsAgree
<1>1. Numbered(file) => GateVerdictsAgree
  <2> SUFFICES ASSUME Numbered(file) PROVE GateVerdictsAgree
    OBVIOUS
  <2>1. Agreed(GateResult(at, file))
    BY GateAgrees DEF Numbered
  <2>2. Result = ApplyTaxFinanceGate(GateResult(at, file), file.tax, at)
    BY DEF Result, EvaluateNode, GateResult
  <2>3. Agreed(Result)
    BY <2>1, <2>2, TaxGateAgrees
  <2> QED BY <2>3 DEF GateVerdictsAgree, Agreed
<1> QED
  BY <1>1, NumberedAlways, PTL

(* No paper, approval or alert takes a case past a gate while a change is  *)
(* pending, a party is suspicious or a red line is crossed.                *)
THEOREM StopsHold == Spec => []HardStops
<1>1. Numbered(file) => HardStops
  <2> SUFFICES ASSUME Numbered(file), Result.proceed PROVE HardStops
    BY DEF HardStops, PendingChangeStops, SuspiciousPartyStops, RedLineStops
  <2> DEFINE gate == GateResult(at, file)
  <2>1. Agreed(gate) /\ (gate.proceed /\ at \notin {"N2", "N3"} => ~HasPendingChanges(file))
    BY GateAgrees DEF Numbered
  <2>2. Result = ApplyTaxFinanceGate(gate, file.tax, at)
    BY DEF Result, EvaluateNode, GateResult
  <2> HIDE DEF gate
  <2>3. /\ gate.proceed
        /\ at \in TAX_FINANCE_NODES => RedLines(file.tax, at) = {} /\ TaxGaps(file.tax, at) = {}
    BY <2>1, <2>2, TaxGateAgrees
  <2>4. PendingChangeStops
    BY <2>1, <2>3 DEF PendingChangeStops
  <2>5. RedLineStops
    BY <2>3 DEF RedLineStops, TaxGaps
  <2>6. ASSUME at = "N3", NEW h \in CustomerHits(file), Suspicious(h) PROVE FALSE
    <3>1. gate = EvaluateN3(file)
      BY <2>6 DEF gate, GateResult
    <3> QED BY <2>3, <2>6, <3>1, N3Agrees, BuyerScreeningStops
  <2>7. ASSUME at = "N5", NEW h \in SupplierHits(file), Suspicious(h) PROVE FALSE
    <3>1. gate = EvaluateN5(file)
      BY <2>7 DEF gate, GateResult
    <3> QED BY <2>3, <2>7, <3>1, N5Agrees
  <2>8. ASSUME at = "N4", NEW i \in Orders, file.changes[i].fields \cap NameFields # {},
               file.changes[i].status # "SUPERSEDED", NEW h \in CustomerHits(file), Suspicious(h)
        PROVE  FALSE
    <3> DEFINE co == file.changes[i]
               after == ApplyDiffs(file, co)
    <3>1. gate = EvaluateN4(file)
      BY <2>8 DEF gate, GateResult
    <3>2. i \notin Failing(file)
      BY <2>3, <2>8, <3>1, N4Agrees DEF Numbered, Orders
    <3>3. after.hits = file.hits
      BY DEF ApplyDiffs, Numbered
    <3>4. ~EvaluateBuyerScreening(after).proceed
      <4>1. h \in CustomerHits(after)
        BY <3>3 DEF CustomerHits
      <4> QED BY <2>8, <4>1, BuyerScreeningStops
    <3>5. RetriggerRelated(file, co) = EvaluateBuyerScreening(after)
      BY <2>8, <3>4 DEF RetriggerRelated
    <3> QED BY <2>8, <3>2, <3>4, <3>5 DEF Failing, Relevant, Orders
  <2>9. SuspiciousPartyStops
    BY <2>6, <2>7, <2>8 DEF SuspiciousPartyStops
  <2> QED BY <2>4, <2>5, <2>9 DEF HardStops
<1> QED
  BY <1>1, NumberedAlways, PTL
=============================================================================
