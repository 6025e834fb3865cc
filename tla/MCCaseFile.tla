------------------------------ MODULE MCCaseFile ------------------------------
(***************************************************************************)
(* Constants of CaseFile for TLC: complete files, in which at each node    *)
(* only what its gate reads is varied.                                     *)
(***************************************************************************)
EXTENDS CaseFile

Sale(present, mode, papers, turn, goods, amount) ==
  [present |-> present, mode |-> mode, goods |-> goods, consignee |-> {"acme"}, buyer |-> {"bolt"},
   port |-> [present |-> papers # {}, papers |-> papers, emptyTurn |-> turn],
   amount |-> amount, currency |-> "USD"]

NoSale == [Sale(FALSE, "", {}, FALSE, {}, Unset) EXCEPT !.consignee = {}, !.buyer = {}, !.currency = ""]

PlainTax == [linked |-> NoSale, own |-> Sale(TRUE, "OWN_WAREHOUSE", {}, FALSE, {"pump"}, 100),
             goods |-> {"pump"}, amount |-> 100, currency |-> "USD", purchase |-> [present |-> FALSE, amount |-> 0, currency |-> "USD"],
             customsName |-> {}, blParty |-> {}, review |-> "NONE"]

Base ==
  [quote |-> [present |-> TRUE, vague |-> FALSE, valid |-> "open", unitOk |-> TRUE, price |-> 0,
             quantity |-> NoAmount, amount |-> 0],
   caseAmount |-> 4, floor |-> 0, average |-> 0, parties |-> {"BUYER", "CONSIGNEE", "SUPPLIER"},
   kycRan |-> TRUE, supplierScreened |-> TRUE, hits |-> {},
   contract |-> [present |-> TRUE, incoterms |-> "CIF", terms |-> "TT", ttTiming |-> FALSE,
                 quantity |-> NoAmount, amount |-> 4, usd |-> TRUE],
   policy |-> [n \in {"N3", "N4"} |-> [evidence |-> TRUE, limit |-> 9, usd |-> TRUE]],
   split |-> [open |-> 0, fulfilled |-> 0],
   nodes |-> [n \in {"N3", "N4", "N7"} |-> "IN_PROGRESS"],
   review |-> [n \in {"N3", "N4"} |-> "NONE"],
   changes |-> <<>>,
   plan |-> [present |-> TRUE, poNo |-> TRUE, sale |-> "signed", planned |-> 1, actual |-> 0,
             delayRegistered |-> FALSE, trigger |-> FALSE, consent |-> FALSE,
             consentEvidence |-> FALSE],
   delivery |-> 2,
   shipment |-> [present |-> FALSE, approval |-> FALSE, bl |-> "", override |-> ""],
   evidences |-> {},
   settlement |-> [present |-> FALSE, memo |-> FALSE, proof |-> FALSE, release |-> FALSE,
                   relation |-> FALSE, payerDiffers |-> FALSE, thirdParty |-> FALSE],
   tax |-> PlainTax]

At(node, files) == {[node |-> node, file |-> f] : f \in files}

Order(fields, acks, status) ==
  [status |-> status, fields |-> fields, customerAck |-> "c" \in acks, internalAck |-> "i" \in acks,
   approved |-> "a" \in acks, quantity |-> 2, oldQuantity |-> 1, terms |-> "OA90"]
Waiting == Order({"quantity"}, {}, "PENDING")

Hit(role, risk, confidence) ==
  [role |-> role, risk |-> risk, confidence |-> confidence, disposition |-> "OPEN"]
HitSets == {{}, {Hit("BUYER", "HIGH", "HIGH")}, {Hit("BUYER", "LOW", "LOW")},
            {Hit("CONSIGNEE", "MEDIUM", "HIGH"), Hit("BUYER", "HIGH", "LOW")},
            {Hit("SUPPLIER", "HIGH", "HIGH")}, {Hit("SUPPLIER", "LOW", "MEDIUM"), Hit("BUYER", "LOW", "LOW")}}

N2Files ==
  {[Base EXCEPT !.quote.present = FALSE, !.contract.present = FALSE, !.contract.amount = NoAmount,
                 !.caseAmount = 0, !.floor = f, !.average = a] : f \in {0, 15}, a \in {0, 20}}

(* By the piece with and without a quantity, and for an amount alone.      *)
PricedQuotes ==
  {[Base.quote EXCEPT !.price = 2, !.quantity = 2, !.amount = 4],
   [Base.quote EXCEPT !.price = 2, !.amount = 2], [Base.quote EXCEPT !.amount = 3]}

NoPolicy == [evidence |-> FALSE, limit |-> 0, usd |-> TRUE]

N3Files ==
  {[Base EXCEPT !.kycRan = k, !.hits = h] : k \in BOOLEAN, h \in HitSets}
  \cup {[Base EXCEPT !.parties = {"SUPPLIER"} \cup p, !.kycRan = k] :
          p \in SUBSET {"BUYER", "CONSIGNEE"}, k \in BOOLEAN}
  \cup {[Base EXCEPT !.contract.present = FALSE, !.contract.incoterms = "", !.contract.terms = "none",
                     !.contract.amount = NoAmount, !.caseAmount = 0,
                     !.policy["N3"] = NoPolicy, !.split.open = o] : o \in {0, 7}}
  \cup {[Base EXCEPT !.contract.incoterms = "T/T", !.split.open = o] : o \in {0, 7}}
  \cup {[Base EXCEPT !.contract.amount = NoAmount, !.caseAmount = a, !.split.open = o, !.quote = q] :
          a \in {0, 4}, o \in {0, 7}, q \in PricedQuotes}

Orders1 == {<<Order(f, {}, "PENDING")>> : f \in {{}, {"quantity"}, {"buyerName"}, {"paymentTerms", "quantity"}}}

N4Files ==
  {[Base EXCEPT !.changes = <<Order(f, {}, "PENDING")>>, !.hits = h, !.policy["N4"] = NoPolicy] :
     f \in {{"quantity"}, {"buyerName"}}, h \in HitSets}
  \cup {[Base EXCEPT !.changes = c, !.policy["N4"] = NoPolicy, !.quote.price = q, !.split.open = 6] :
          c \in Orders1 \cup {<<>>, <<Order({"quantity"}, {"c", "i"}, "PENDING"), Waiting>>,
                              <<Order({"payerName"}, {}, "SUPERSEDED"), Waiting>>},
          q \in {0, 3}}

N5Files ==
  {[Base EXCEPT !.parties = {"BUYER", "CONSIGNEE"}, !.supplierScreened = FALSE,
                !.plan.present = FALSE, !.changes = c] : c \in {<<>>, <<Waiting>>}}
  \cup {[Base EXCEPT !.plan.sale = "unsigned", !.hits = h] :
          h \in {{}, {Hit("BUYER", "HIGH", "HIGH")}, {Hit("SUPPLIER", "HIGH", "HIGH")},
                 {Hit("SUPPLIER", "LOW", "MEDIUM"), Hit("BUYER", "LOW", "LOW")}}}

N6Files ==
  {[Base EXCEPT !.contract.incoterms = i, !.contract.ttTiming = t] :
     i \in {"", "FOB", "CIF", "T/T"}, t \in BOOLEAN}
  \cup {[Base EXCEPT !.contract.incoterms = i, !.changes = <<Waiting>>] : i \in {"FOB", "CIF"}}

N7Files ==
  {[Base EXCEPT !.contract.incoterms = i, !.changes = c,
                !.shipment = [present |-> TRUE, approval |-> TRUE, bl |-> "ORIGINAL", override |-> o]] :
     i \in {"CIF", "FOB"}, c \in {<<>>, <<Waiting>>}, o \in {"", "FOB"}}

N9Files ==
  {[Base EXCEPT !.nodes["N7"] = n, !.changes = c] :
     n \in {"IN_PROGRESS", "PASSED"}, c \in {<<>>, <<Waiting>>}}

(* Sales that leave from the port, and not.                                *)
Sales ==
  {Sale(TRUE, m, p, t, g, 100) :
     m \in {"", "OWN_WAREHOUSE", "DIRECT_PORT"}, p \in {{}, {"warehouse"}, {"warehouse", "batch"}},
     t \in BOOLEAN, g \in {{}, {"pump"}, {"valve"}}}

(* Papers of the port are varied where the goods leave from there, and an  *)
(* empty turn where they are all there.                                    *)
PlainSales ==
  {s \in Sales : /\ s.mode # "DIRECT_PORT" => s.port.papers = {}
                 /\ s.port.emptyTurn => "batch" \in s.port.papers}

Taxes ==
  {[PlainTax EXCEPT !.own = s, !.purchase = [present |-> a > 0, amount |-> a, currency |-> c]] :
     s \in PlainSales, a \in {0, 97, 98, 110}, c \in {"USD"}}
  \cup {[PlainTax EXCEPT !.own = s, !.purchase = [present |-> TRUE, amount |-> 98, currency |-> "CNY"]] :
          s \in PlainSales}

(* A linked sale may have no amount; a case may not name its goods.        *)
Linked(sale, own, goods) ==
  [PlainTax EXCEPT !.linked = sale, !.own = own, !.goods = goods,
                   !.purchase = [present |-> TRUE, amount |-> 98, currency |-> "USD"]]

LinkedTaxes ==
  LET sales == {s \in PlainSales : s.mode # "OWN_WAREHOUSE"}
      owns == {NoSale, Sale(TRUE, "DIRECT_PORT", {"warehouse", "batch"}, FALSE, {"pump"}, 90)}
  IN {Linked(s, o, g) : s \in sales, o \in owns, g \in {{}, {"pump"}}}
       \cup {Linked([s EXCEPT !.amount = Unset], o, {"pump"}) : s \in sales, o \in owns}

PortSale(t) == t.own.mode = "DIRECT_PORT" /\ t.own.port.papers = {"warehouse", "batch"} /\ t.own.goods = {"pump"}

ShippingTaxes ==
  {[PlainTax EXCEPT !.own = [s EXCEPT !.consignee = c], !.customsName = n, !.blParty = b] :
     s \in PlainSales, c \in {{}, {"acme"}}, n \in {{}, {"pump"}, {"valve"}}, b \in {{}, {"acme", "ltd"}, {"bolt"}}}

(* Papers that fail nothing else.                                          *)
Shipped == [Base EXCEPT !.shipment = [present |-> TRUE, approval |-> TRUE, bl |-> "ORIGINAL", override |-> ""],
                        !.plan.planned = 3, !.plan.delayRegistered = TRUE, !.plan.trigger = TRUE,
                        !.evidences = {"N6_PACKING"} \cup (N7_UPLOADS \ {"N7_INVOICE"})]

AllFiles ==
  At("N2", N2Files) \cup At("N3", N3Files) \cup At("N4", N4Files)
    \cup At("N5", N5Files) \cup At("N6", N6Files) \cup At("N7", N7Files) \cup At("N9", N9Files)
    \cup At("N3", {[Shipped EXCEPT !.tax = t] : t \in Taxes})
    \cup At("N5", {[Shipped EXCEPT !.tax = t] : t \in LinkedTaxes})
    \cup At("N6", {[Shipped EXCEPT !.tax = t] : t \in {u \in ShippingTaxes : PortSale(u)}})
    \cup At("N7", {[Shipped EXCEPT !.tax = t] : t \in ShippingTaxes})
=============================================================================
