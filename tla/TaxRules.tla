------------------------------- MODULE TaxRules -------------------------------
(***************************************************************************)
(* The tax-rebate and trade-finance review laid over the gates of N3, N5,  *)
(* N6 and N7: where the goods really go, whether purchase, sale, customs   *)
(* and bill of lading speak of the same goods and party, and whether the   *)
(* margin is too thin for goods that leave straight from the port.  A      *)
(* description or a name is a set of words, {} if it is empty.  Operators  *)
(* only.                                                                   *)
(***************************************************************************)
EXTENDS Integers, FiniteSets

TAX_FINANCE_NODES == {"N3", "N5", "N6", "N7"}
SignNodes == {"N3", "N5"}
DeliveryModes == {"OWN_WAREHOUSE", "BONDED", "DIRECT_PORT"}
THIN_MARGIN_BPS == 300

When(condition, item) == IF condition THEN {item} ELSE {}

(* One description contains the other, or one of them says nothing.        *)
GoodsLooseMatch(a, b) == a \subseteq b \/ b \subseteq a

(* In basis points of the sale, rounded half up; NoMargin where one side   *)
(* has no amount.                                                          *)
NoMargin == 100000
PurchaseSalesMarginBps(sales, purchase) ==
  IF sales <= 0 \/ purchase <= 0 THEN NoMargin
  ELSE (2 * (sales - purchase) * 10000 + sales) \div (2 * sales)

IsThinMargin(bps) == bps < THIN_MARGIN_BPS

(* Goods that leave from the port need a warehouse and a batch number.     *)
DirectPortGaps(sale) ==
  When("warehouse" \notin sale.port.papers, "FT2_WAREHOUSE_LOCATION")
    \cup When("batch" \notin sale.port.papers, "FT2_BATCH_NO")

(* What the case is reviewed by: the sale its purchase is linked to, or    *)
(* its own contract, which also fills in what a linked sale leaves empty;  *)
(* last comes the case itself.  Unset is a column without a value.         *)
SalesSide(t) == IF t.linked.present THEN t.linked ELSE t.own

Unset == -1
Else(a, empty, b) == IF a # empty THEN a ELSE b

EffectiveSalesContract(t) ==
  [SalesSide(t) EXCEPT
     !.mode = Else(@, "", t.own.mode),
     !.port = IF @.present THEN @ ELSE t.own.port,
     !.goods = Else(Else(@, {}, t.own.goods), {}, t.goods),
     !.consignee = Else(Else(@, {}, t.own.consignee), {}, t.own.buyer),
     !.amount = Else(Else(@, Unset, t.own.amount), Unset, t.amount),
     !.currency = Else(Else(@, "", t.own.currency), "", t.currency)]

(* The goods bought: those of the case before those of its contract.       *)
PurchaseGoods(t) == Else(Else(t.goods, {}, t.own.goods), {}, SalesSide(t).goods)

Margin(t) ==
  LET sale == EffectiveSalesContract(t)
  IN IF t.purchase.present /\ t.purchase.currency = sale.currency
     THEN PurchaseSalesMarginBps(sale.amount, t.purchase.amount) ELSE NoMargin

(* At shipment the customs goods come before the consignee.                *)
ApplyFt3(t, sale) ==
  IF ~GoodsLooseMatch(t.customsName, sale.goods) THEN {"FT3_GOODS_MISMATCH"}
  ELSE When(~GoodsLooseMatch(t.blParty, sale.consignee), "FT3_CONSIGNEE_MISMATCH")

(* The red lines.                                                          *)
RedLines(t, node) ==
  LET sale   == EffectiveSalesContract(t)
      direct == sale.mode = "DIRECT_PORT"
  IN When(node \in SignNodes /\ t.purchase.present /\ ~GoodsLooseMatch(sale.goods, PurchaseGoods(t)),
          "FT1_GOODS_MISMATCH")
     \cup When(direct /\ sale.port.emptyTurn, "FT2_EMPTY_TURN")
     \cup (IF ~direct \/ node \in SignNodes THEN {} ELSE ApplyFt3(t, sale))

TaxGaps(t, node) ==
  LET sale == EffectiveSalesContract(t)
      gaps == IF sale.mode = "DIRECT_PORT" THEN DirectPortGaps(sale) ELSE {}
  IN When(node \in SignNodes /\ sale.mode \notin DeliveryModes, "FT1_DELIVERY_MODE")
     \cup gaps \cup When(gaps # {}, "FT2_DIRECT_PORT_DOCS")

TaxBand(t, node) ==
  LET sale == EffectiveSalesContract(t)
  IN IF RedLines(t, node) # {} THEN "RED"
     ELSE IF /\ node \in SignNodes /\ sale.mode = "DIRECT_PORT" /\ DirectPortGaps(sale) = {}
             /\ IsThinMargin(Margin(t))
     THEN "YELLOW" ELSE "NONE"

(* A yellow light waits for the review of just this evaluation.            *)
EvaluateTaxFinance(t, node) ==
  LET band    == TaxBand(t, node)
      missing == RedLines(t, node) \cup TaxGaps(t, node)
  IN CASE missing # {} -> [decision |-> "HARD_BLOCK", missing |-> missing, alerts |-> {}]
       [] missing = {} /\ band = "YELLOW" /\ t.review = "APPROVED" ->
            [decision |-> "SOFT_ALERT", missing |-> {}, alerts |-> {"YELLOW_APPROVED"}]
       [] missing = {} /\ band = "YELLOW" /\ t.review # "APPROVED" ->
            [decision |-> "REVIEW", missing |-> {"FT1_THIN_MARGIN"}, alerts |-> {}]
       [] OTHER -> [decision |-> "PASS", missing |-> {}, alerts |-> {}]

(* Variant: a hard block does not take the permission back.                *)
ApplyTaxFinanceGateNamed(r, t, node) ==
  LET tf == EvaluateTaxFinance(t, node)
      added == [r EXCEPT !.missing = @ \cup tf.missing, !.alerts = @ \cup tf.alerts]
  IN IF node \notin TAX_FINANCE_NODES THEN r
     ELSE IF tf.decision = "HARD_BLOCK" THEN [added EXCEPT !.decision = "HARD_BLOCK"]
     ELSE IF tf.decision = "REVIEW" THEN [added EXCEPT !.decision = "REVIEW"] ELSE added

(* Laid over a gate's result, the review only ever makes it stricter.      *)
ApplyTaxFinanceGate(r, t, node) ==
  LET tf == EvaluateTaxFinance(t, node)
      added == [r EXCEPT !.missing = @ \cup tf.missing, !.alerts = @ \cup tf.alerts]
  IN IF node \notin TAX_FINANCE_NODES THEN r
     ELSE IF tf.decision = "HARD_BLOCK"
     THEN [added EXCEPT !.decision = "HARD_BLOCK", !.proceed = FALSE]
     ELSE IF tf.decision = "REVIEW" /\ r.decision # "HARD_BLOCK"
     THEN [added EXCEPT !.decision = "REVIEW", !.proceed = FALSE]
     ELSE added
=============================================================================
