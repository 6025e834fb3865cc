------------------------------- MODULE MCPapers -------------------------------
(* The sales papers, the purchase plan and the files of a case.  They share *)
(* no row, so each behaviour moves one of four lanes: the terms and the     *)
(* voyage, the money and the rebate, the purchase, the files.               *)
EXTENDS PaymentRules, Exposure

VARIABLES contract, batches, rebate, reworded, sales, plan, today, lane,
          files, drawn, evidence, policies, uploads

CONSTANTS ContractForms, BatchSets, SaleAmounts, Portion, CustomsReleased, Sales, PurchaseForms, LastDay,
          Uploaders, FileCases, FileLimits, MaxFiles, MaxRows

(***************************************************************************)
(* What the forms may hold.  A form without an amount, a share or a date   *)
(* has Blank or NoDay there.                                               *)
(***************************************************************************)
ContractFields ==
  {"incoterms", "timing", "terms", "port", "date", "fobDate", "share", "days", "vouchers", "amount", "pickedUp"}

NatOrBlank == Nat \cup {Blank}
FormRow == [seq : Nat, bps : NatOrBlank, amount : NatOrBlank, due : Nat, inWords : BOOLEAN, paid : Nat, paidAt : Nat]
PlanForm == [sale : Sales \cup {""}, mode : {"", "FULL", "STAGED"}, amount : NatOrBlank, paid : NatOrBlank,
             due : Nat, paidAt : Nat, rows : Seq(FormRow)]

ASSUME PapersAssumption ==
  /\ \A ids \in BatchSets : IsFiniteSet(ids) /\ ids # {}
  /\ SaleAmounts \subseteq Nat \ {0} /\ Portion \in Nat \ {0} /\ CustomsReleased \in BOOLEAN
  /\ \A form \in ContractForms : DOMAIN form = ContractFields /\ form.amount \in Nat \ {0}
  /\ PurchaseForms \subseteq PlanForm /\ LastDay \in Nat \ {0}
  /\ FileLimits \subseteq Nat

ContractMenu ==
  [incoterms : {"FOB", "CIF", "T/T"}, timing : {"OMITTED", "", "AFTER"}, terms : {"OPEN", "PREPAID", "ADVANCE"},
   port : {"OMITTED"}, date : {"OMITTED", "D"}, fobDate : {"OMITTED"}, share : {TRUE}, days : {TRUE},
   vouchers : {"OMITTED", "V"}, amount : {4}, pickedUp : {TRUE}]

(* Where the voyage is not the question, the forms leave it out.            *)
TermsMenu == {form \in ContractMenu : form.date = "OMITTED"}

Instalment(seq, bps, amount, due, paid) ==
  [seq |-> seq, bps |-> bps, amount |-> amount, due |-> due, inWords |-> TRUE, paid |-> paid,
   paidAt |-> IF paid > 0 THEN 1 ELSE NoDay]

(* None; halves, out of order; thirds that round; over 100 %; one without   *)
(* its share.  A form with rows carries its payments there.                 *)
RowMenu == {<<>>,
            <<Instalment(2, 5000, 5, 2, 0), Instalment(1, 5000, 5, 1, 5)>>,
            <<Instalment(1, 3333, 1, 1, 3), Instalment(2, 6667, 2, 1, 6)>>,
            <<Instalment(1, 6000, 6, 1, 6), Instalment(2, 6000, 6, 1, 6), Instalment(3, 1000, 1, 2, 1)>>,
            <<Instalment(1, 6000, 6, 1, 6), Instalment(2, Blank, 4, 2, 4)>>}

FormMenu ==
  {f \in [sale : Sales \cup {""}, mode : {"", "FULL", "STAGED"}, amount : {Blank, 3, 10}, paid : {Blank, 3},
           due : {1}, paidAt : {NoDay}, rows : RowMenu] :
     f.rows # <<>> => f.paid = Blank /\ f.sale # "s2"}

Papers == INSTANCE SalesPapers WITH Amounts <- SaleAmounts
Purchase == INSTANCE PurchasePlan WITH Forms <- PurchaseForms
Files == INSTANCE EvidenceFiles WITH Requests <- Uploaders, Cases <- FileCases, Limits <- FileLimits, req <- uploads

PaperLanes == {"terms", "money", "purchase", "files"}

(* A lane that does not move the sale starts from one; the terms are not   *)
(* about the amounts of batches.                                           *)
PapersStart ==
  /\ Papers!Init /\ Purchase!Init /\ Files!Init
  /\ lane \notin {"terms", "money"} => Papers!Sole /\ contract.amount = CHOOSE a \in SaleAmounts : TRUE
  /\ lane # "money" => \A i \in DOMAIN batches : batches[i].amount = contract.amount

PapersInit == lane \in PaperLanes /\ PapersStart

SaleVars == <<contract, batches, rebate, reworded>>
PlanVars == <<sales, plan, today>>
FileVars == <<files, drawn, evidence, policies, uploads>>

(* The second request only uploads, in its own case.                        *)
FilesNext == Files!Next /\ (uploads'[2].step = "idle" \/ (uploads'[2].case = "c2" /\ uploads'[2].step \in {"writing", "row"}))

PapersNext ==
  /\ \/ /\ lane = "terms"
        /\ \/ Papers!Agree \/ Papers!Ship({"OMITTED"}, {"OMITTED", "D"})
           \/ Papers!Change({"OPEN", "PREPAID", "ON_SHIPMENT"}, {})
        /\ UNCHANGED <<PlanVars, FileVars>>
     \/ /\ lane = "money"
        /\ Papers!Collect \/ Papers!Ship({"OMITTED"}, {"OMITTED"}) \/ Papers!Change({}, SaleAmounts)
        /\ UNCHANGED <<PlanVars, FileVars>>
     \/ /\ lane = "purchase"
        /\ Purchase!Next
        /\ UNCHANGED <<SaleVars, FileVars>>
     \/ /\ lane = "files"
        /\ FilesNext
        /\ UNCHANGED <<SaleVars, PlanVars>>
  /\ UNCHANGED lane

PapersSpec == PapersInit /\ [][PapersNext]_<<SaleVars, PlanVars, FileVars, lane>>

(* The properties of the modules.  The forms PaidKept tries are many, and   *)
(* only the purchase changes what it says.                                  *)
VouchersOnlyInAdvance == Papers!VouchersOnlyInAdvance
RemittanceAgreesWithOccupancy == Papers!RemittanceAgreesWithOccupancy
PlanPageAgrees == Purchase!PlanPageAgrees
PaidKept == lane = "purchase" => Purchase!PaidKept
StoredFileOpens == Files!StoredFileOpens
FilesStayInCase == Files!FilesStayInCase
VoyageKept == [][lane = "terms" => Papers!VoyageKeptStep]_contract
=============================================================================
