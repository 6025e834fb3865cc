----------------------------- MODULE SalesPapers ------------------------------
(***************************************************************************)
(* The papers of one signed sale: its contract terms, the voyage of each   *)
(* batch, the money that came in, the advance-payment vouchers and the tax *)
(* rebate.  A change order rewrites the contract's terms or its amount     *)
(* alone.  A field may be absent from a form (Omitted) or blank.  One      *)
(* request at a time; the limit N3 asks for is registered.                 *)
(***************************************************************************)
EXTENDS Exposure, SequencesExt, TLC

CONSTANTS
  ContractForms,     \* contract forms the page may send
  BatchSets,         \* the batches a case may have been split into
  Amounts,           \* amounts a contract or a settlement may carry
  Portion,           \* an amount a batch of several may be given
  CustomsReleased    \* whether customs has released the goods

VARIABLES
  contract,          \* the contract row
  batches,           \* the shipment batches, with shipment and settlement
  rebate,            \* the checklist of the tax rebate
  reworded           \* history: a change order has rewritten the terms since
                     \* the contract or its vouchers were last saved

vars == <<contract, batches, rebate, reworded>>

Blank == ""
Omitted == "OMITTED"
Flows == {"GOODS", "CUSTOMS", "INVOICE", "REMITTANCE"}

Sole == Cardinality(DOMAIN batches) = 1

(***************************************************************************)
(* The terms.  T/T says when the buyer pays, never how the goods travel.   *)
(* ADVANCE and AFTER as terms are the wordings the program composes;       *)
(* PREPAID and ON_SHIPMENT are a user's own words that mean the same;      *)
(* OPEN says nothing of it.                                                *)
(***************************************************************************)
NormalizeTransportIncoterms(raw) == IF raw = "T/T" THEN "FOB" ELSE raw

ResolveTradeTerm(incoterms) ==
  CASE incoterms \in {"CIF", "CIP"} -> "CIF"
    [] incoterms \in {"FOB", "EXW", "FAS", "FCA"} -> "FOB"
    [] OTHER -> Blank

ResolveTtTiming(timing, terms, incoterms) ==
  CASE timing \in {"ADVANCE", "AFTER"} -> timing
    [] timing \in {Blank, Omitted} /\ terms \in {"ADVANCE", "PREPAID"} -> "ADVANCE"
    [] timing \in {Blank, Omitted} /\ terms \in {"AFTER", "ON_SHIPMENT"} -> "AFTER"
    [] OTHER -> IF incoterms = "T/T" THEN "ADVANCE" ELSE Blank

(* A timing cleared on the form is not read out of the terms again.        *)
ResolveTtTimingForSave(form, incoterms) ==
  IF form.timing = Blank THEN Blank ELSE ResolveTtTiming(form.timing, form.terms, incoterms)

(* Fields of another transport term or another timing are dropped.         *)
SanitizeSalesContractModeFields(form) ==
  LET incoterms == NormalizeTransportIncoterms(form.incoterms)
      timing == ResolveTtTimingForSave(form, incoterms)
      term == IF ResolveTradeTerm(incoterms) = Blank /\ timing # Blank THEN "FOB"
              ELSE ResolveTradeTerm(incoterms)
      Kept(applies, value) == IF applies THEN value ELSE Blank
  IN [form EXCEPT !.incoterms = incoterms, !.timing = timing,
        !.terms = IF timing # Blank THEN timing ELSE Kept(@ \notin {"ADVANCE", "AFTER"}, @),
        !.port = Kept(term = "CIF", @),
        !.date = Kept(term = "CIF" \/ timing # Blank, @),
        !.fobDate = Kept(term = "FOB", @),
        !.share = @ /\ timing = "ADVANCE",
        !.days = @ /\ timing = "AFTER"]

(* mergeOmittedCifShipmentFields.  The handlers hand it the ports as they  *)
(* came, but the dates parsed, and parseDate makes nothing of no date: an  *)
(* omitted date reaches it as a blank one.                                 *)
ParseDate(raw) == IF raw = Omitted THEN Blank ELSE raw
MergeOmitted(incoming, existing) == IF incoming = Omitted THEN existing ELSE incoming

(***************************************************************************)
(* What the lists show of the sale.                                        *)
(***************************************************************************)
BatchCountsAsShipped(b) == b.date # Blank \/ b.bl

IsSalesShipped ==
  \/ \E i \in DOMAIN batches : BatchCountsAsShipped(batches[i])
  \/ contract.date # Blank
  \/ contract.fobDate # Blank

Received(i) == ReceivedFenForBatch(batches[i], contract.amount, Sole)

(* aggregateRemittance: the receipts of all batches together.              *)
AggregateRemittance ==
  LET sum == MapThenSumSet(Received, DOMAIN batches)
      arrived == \E i \in DOMAIN batches : batches[i].settlement.arrived
  IN [arrived |-> arrived, amount |-> sum,
      memo |-> arrived \/ \E i \in DOMAIN batches : batches[i].settlement.memo]

(* Variant: each settlement is held against the contract on its own.       *)
SomeBatchPaidAll == \E i \in DOMAIN batches : IsSettlementPaid(batches[i].settlement, contract.amount)

IsSalesRemittanceComplete ==
  LET sum == AggregateRemittance.amount
  IN IsSettlementPaid([arrived |-> sum > 0, memo |-> sum > 0, amount |-> sum], contract.amount)

SalesShipmentBucket ==
  CASE ~IsSalesShipped -> "unshipped"
    [] IsSalesShipped /\ contract.pickedUp /\ IsSalesRemittanceComplete -> "completed"
    [] OTHER -> "shipped"

(* customers.service's portionsOf: what the sale still takes of the limit. *)
PortionsOf ==
  LET order == SetToSeq(DOMAIN batches)
  IN ContractOccupancyPortions(contract.amount,
       [n \in DOMAIN order |->
         [amount |-> batches[order[n]].amount,
          received |-> Received(order[n]),
          shipped |-> BatchCountsAsShipped(batches[order[n]])]])

(***************************************************************************)
(* Operations.                                                             *)
(***************************************************************************)
NoSettlement == [arrived |-> FALSE, memo |-> FALSE, amount |-> NoAmount]

(* A sole batch carries the contract's amount.  Of several, those created  *)
(* later have an amount of their own or none.                              *)
Init ==
  /\ \E ids \in BatchSets, a \in Amounts :
       /\ \E own \in [ids -> IF Cardinality(ids) = 1 THEN {a} ELSE {a, Portion, NoAmount}] :
            batches = [i \in ids |-> [amount |-> own[i], port |-> Blank, date |-> Blank, bl |-> FALSE,
                                      settlement |-> NoSettlement]]
       /\ contract = [incoterms |-> "CIF", timing |-> Blank, terms |-> "OPEN", port |-> Blank, date |-> Blank,
                      fobDate |-> Blank, share |-> FALSE, days |-> FALSE, vouchers |-> Blank,
                      amount |-> a, pickedUp |-> FALSE]
  /\ rebate = [invoice |-> FALSE, flows |-> {}, declared |-> FALSE]
  /\ reworded = FALSE

(* The amount of a sole batch follows the contract.                        *)
SyncSoleBatchFromContract(amount) ==
  batches' = IF Sole THEN [i \in DOMAIN batches |-> [batches[i] EXCEPT !.amount = amount]] ELSE batches

SaveContract(form) ==
  LET mode == SanitizeSalesContractModeFields(
                [form EXCEPT !.port = MergeOmitted(@, contract.port),
                             !.date = MergeOmitted(ParseDate(@), contract.date),
                             !.fobDate = MergeOmitted(@, contract.fobDate)])
  IN /\ contract' = [mode EXCEPT !.vouchers = IF mode.timing = "ADVANCE" THEN MergeOmitted(@, contract.vouchers) ELSE Blank]
     /\ SyncSoleBatchFromContract(mode.amount)
     /\ reworded' = FALSE
     /\ UNCHANGED rebate

(* Variant: any T/T contract.                                              *)
PaysByTt == ResolveTtTiming(contract.timing, contract.terms, contract.incoterms) # Blank

PaysInAdvance == ResolveTtTiming(contract.timing, contract.terms, contract.incoterms) = "ADVANCE"

SaveAdvanceVouchers(vouchers) ==
  /\ PaysInAdvance
  /\ contract' = [contract EXCEPT !.vouchers = vouchers]
  /\ reworded' = FALSE
  /\ UNCHANGED <<batches, rebate>>

(* An applied change order puts its payment terms, or the amount its       *)
(* quantity makes, into the contract, past timing and vouchers.            *)
ApplyChange(terms, amount) ==
  /\ contract' = [contract EXCEPT !.terms = MergeOmitted(terms, @),
                                  !.amount = IF amount = NoAmount THEN @ ELSE amount]
  /\ SyncSoleBatchFromContract(contract'.amount)
  /\ reworded' = (reworded \/ terms # Omitted)
  /\ UNCHANGED rebate

(* The voyage of a batch; of the sole batch, the contract's as well.       *)
SaveShipment(i, incoterms, port, date, bl) ==
  LET term == IF incoterms = Blank THEN contract.incoterms ELSE NormalizeTransportIncoterms(incoterms)
      stored(own, whole) == IF own = Blank /\ Sole THEN whole ELSE own
      sails == ResolveTradeTerm(term) = "CIF" \/ port # Omitted \/ date # Omitted
      newPort == IF sails THEN MergeOmitted(port, stored(batches[i].port, contract.port)) ELSE batches[i].port
      newDate == IF sails THEN MergeOmitted(ParseDate(date), stored(batches[i].date, contract.date))
                 ELSE batches[i].date
  IN /\ batches' = [batches EXCEPT ![i].bl = bl, ![i].port = newPort, ![i].date = newDate]
     /\ contract' = IF sails /\ Sole THEN [contract EXCEPT !.port = newPort, !.date = newDate] ELSE contract
     /\ UNCHANGED <<rebate, reworded>>

(* Money once dated stays dated, and a memo without a date is dated now.   *)
(* refreshContractRemittance then repeats the sum in the contract row,     *)
(* where nothing reads it: the pages and the gates add up the batches.     *)
SaveSettlement(i, memo, arrived, amount) ==
  /\ batches' = [batches EXCEPT ![i].settlement =
                   [memo |-> memo, arrived |-> arrived \/ @.arrived \/ memo,
                    amount |-> IF amount = NoAmount THEN @.amount ELSE amount]]
  /\ UNCHANGED <<contract, rebate, reworded>>

SaveTaxRebate(invoice, flows) ==
  /\ rebate' = [rebate EXCEPT !.invoice = invoice, !.flows = flows]
  /\ UNCHANGED <<contract, batches, reworded>>

(* evaluateFt4, on the sole batch's settlement or on all of them together. *)
CanDeclare ==
  LET ledger == IF Sole THEN batches[CHOOSE i \in DOMAIN batches : TRUE].settlement ELSE AggregateRemittance
  IN CustomsReleased /\ ledger.memo /\ ledger.amount > 0 /\ rebate.invoice /\ rebate.flows = Flows

DeclareTaxRebate ==
  /\ CanDeclare
  /\ rebate' = [rebate EXCEPT !.declared = TRUE]
  /\ UNCHANGED <<contract, batches, reworded>>

Agree ==
  \/ \E form \in ContractForms : SaveContract(form)
  \/ \E vouchers \in {Blank, "V"} : SaveAdvanceVouchers(vouchers)

Change(wordings, amounts) ==
  \E terms \in wordings \cup {Omitted}, amount \in amounts \cup {NoAmount} : ApplyChange(terms, amount)

Ship(ports, dates) ==
  \E i \in DOMAIN batches, incoterms \in {Blank, "FOB", "CIF"}, bl \in BOOLEAN, port \in ports, date \in dates :
    SaveShipment(i, incoterms, port, date, bl)

Collect ==
  \/ \E i \in DOMAIN batches, memo, arrived \in BOOLEAN, amount \in Amounts \cup {NoAmount} :
       SaveSettlement(i, memo, arrived, amount)
  \/ \E invoice \in BOOLEAN, flows \in {{}, Flows \ {"REMITTANCE"}, Flows} : SaveTaxRebate(invoice, flows)
  \/ DeclareTaxRebate

Next ==
  \/ Agree
  \/ Change({"OPEN", "PREPAID", "ON_SHIPMENT"}, Amounts)
  \/ Ship({Omitted, Blank, "P"}, {Omitted, Blank, "D"})
  \/ Collect

Spec == Init /\ [][Next]_vars

-----------------------------------------------------------------------------
(* Vouchers of an advance payment are on file only while the contract is   *)
(* paid in advance, in the program's words or in the user's, unless a      *)
(* change order has rewritten the terms since: saveContract drops them by  *)
(* the stored timing, saveAdvanceVouchers asks the reading, and the next   *)
(* save of either puts right what a change order left.  A contract timed   *)
(* after shipment never has any.                                           *)
VouchersOnlyInAdvance ==
  contract.vouchers # Blank =>
    /\ contract.timing # "AFTER"
    /\ \/ ResolveTtTiming(contract.timing, contract.terms, contract.incoterms) = "ADVANCE"
       \/ reworded

(* "与中信保占用释放同一口径" (sales-contract.ts 420): a sale is shown as paid exactly when it   *)
(* takes nothing of the buyer's limit, whatever its batches received.      *)
RemittanceAgreesWithOccupancy ==
  IsSalesRemittanceComplete <=> PortionsOf.open + PortionsOf.fulfilled = 0

(* "保存省略 CIF 装运字段时保留库中已有值，避免装运页已填数据被清空" (sales-contract.ts 202): a   *)
(* contract saved without its voyage keeps the voyage while it stays CIF.  *)
VoyageKeptStep ==
  \A form \in ContractForms :
    SaveContract(form) /\ form.port = Omitted /\ form.date = Omitted /\ ResolveTradeTerm(contract'.incoterms) = "CIF"
      => contract'.port = contract.port /\ contract'.date = contract.date
VoyageKept == [][VoyageKeptStep]_vars
=============================================================================
