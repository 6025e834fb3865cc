----------------------------- MODULE MCCustomers ------------------------------
(***************************************************************************)
(* All that is about money, for TLC: the limit that the cases of one buyer *)
(* share, what the customer pages say, and the papers of MCPapers.  Each   *)
(* behaviour moves one of them.                                            *)
(*                                                                         *)
(* The limit: two cases of one buyer.  The amounts reach each band         *)
(* together, and exactly the edge of the last one: 2 + 5 exceeds the limit *)
(* by UltraMin.                                                            *)
(***************************************************************************)
EXTENDS MCPapers, BuyerQuota

Symmetry == Permutations(Requests) \cup Permutations(Cases)

(***************************************************************************)
(* The pages: buyer "a" with three cases, one of them in two batches, and  *)
(* a rival.  Ages of 2 and 4 days stand for 60 and 90.  Each of four lanes *)
(* has part of the facts given.                                            *)
(***************************************************************************)
CONSTANTS Buyers, Sold, BuyerOf, BatchAmounts,
          PageAmounts, Costs, Days, Parts, Limits, LowLimit, LongDue, VeryLongDue, Calendar, MaxPolicies

PageLanes == {"split", "two", "deal", "foreign"}

VARIABLES reached, deals, settlements, cost, covers

pageVars == <<reached, deals, settlements, cost, covers>>

ASSUME PagesAssumption ==
  /\ IsFiniteSet(Sold) /\ IsFiniteSet(Buyers) /\ BuyerOf \in [Sold -> Buyers]
  /\ BatchAmounts \in [Sold -> Seq(Nat \cup {NoAmount})] /\ \A c \in Sold : BatchAmounts[c] # <<>>
  /\ PageAmounts \subseteq Nat /\ Costs \subseteq Nat /\ Days \subseteq Nat \ {0} /\ Parts \subseteq Nat
  /\ Limits \subseteq Nat /\ LowLimit \in Nat /\ LongDue \in Nat /\ VeryLongDue \in Nat /\ LongDue < VeryLongDue
  /\ Calendar \subseteq Nat /\ MaxPolicies \in Nat

Pages == INSTANCE BuyerEval
  WITH Cases <- Sold, Amounts <- PageAmounts, contract <- deals, policies <- covers

FourSold == {"a1", "a2", "a3", "b1"}
OwnerOfFour == [c \in FourSold |-> IF c = "b1" THEN "b" ELSE "a"]
FirstInTwo == [c \in FourSold |-> IF c = "a1" THEN <<2, 2>> ELSE <<NoAmount>>]

ASSUME LanesAssumption == FourSold \subseteq Sold

SaleOf(total, due) == [signed |-> TRUE, amount |-> total, usd |-> TRUE, due |-> due]

PagesInit ==
  /\ reached = {"b1"} \cup (CASE lane = "split" -> {"a1"} [] lane = "two" -> {"a2", "a3"} [] OTHER -> {"a2"})
  /\ covers = <<[case |-> "b1", limit |-> 6, usd |-> TRUE], [case |-> "a2", limit |-> 2, usd |-> TRUE],
                 [case |-> "a1", limit |-> 5, usd |-> TRUE]>>
  /\ deals \in [Sold -> {Pages!NoContract, SaleOf(3, 1), SaleOf(4, 1), SaleOf(4, Pages!NoDay)}]
  /\ deals["b1"] = SaleOf(3, 1)
  /\ deals["a1"] = IF lane = "split" THEN SaleOf(4, 1) ELSE Pages!NoContract
  /\ IF lane = "two" THEN deals["a2"] = SaleOf(4, 1) /\ deals["a3"].signed
     ELSE deals["a2"] = Pages!NoContract /\ deals["a3"] = Pages!NoContract
  /\ settlements = [c \in Sold |-> [i \in DOMAIN BatchAmounts[c] |-> Pages!NoReceipt]]
  /\ cost = [c \in Sold |-> IF deals[c].signed THEN 1 ELSE 0]

CollectPage ==
  \E c \in reached \ {"b1"} : \E i \in DOMAIN settlements[c], r \in Pages!Receipts :
    Pages!SaveSettlement(c, i, r)

PageTerms(usd) ==
  \/ \E a \in PageAmounts, due \in Days \cup {Pages!NoDay} : Pages!SaveContract("a2", a, usd, due)
  \/ \E a \in Costs : Pages!SavePlan("a2", a)
  \/ \E l \in Limits : Pages!SaveSinosure("a2", l, usd)

PagesNext ==
  \/ Pages!LaterDay
  \/ CollectPage
  \/ lane \in {"deal", "foreign"} /\ \E usd \in {TRUE, lane = "deal"} : PageTerms(usd)
  \/ lane = "deal" /\ Pages!ReachN3("a3")

MCInit == lane \in PageLanes \cup PaperLanes \cup {"quota"} /\ Init /\ PagesInit /\ PapersStart

MCNext ==
  \/ lane = "quota" /\ Next /\ UNCHANGED <<pageVars, SaleVars, PlanVars, FileVars, lane>>
  \/ lane \in PageLanes /\ PagesNext /\ UNCHANGED <<vars, SaleVars, sales, plan, FileVars, lane>>
  \/ PapersNext /\ UNCHANGED <<vars, pageVars>>

MCSpec == MCInit /\ [][MCNext]_<<vars, pageVars, lane, SaleVars, PlanVars, FileVars>>

(* The properties of BuyerEval; the first is costly, and only the pages'   *)
(* lanes change what it says.                                              *)
GoodRemitOwesNothingLate == lane \in PageLanes => Pages!GoodRemitOwesNothingLate
CollectingNeverDowngrades == Pages!CollectingNeverDowngrades
WaitingNeverUpgrades == Pages!WaitingNeverUpgrades
=============================================================================
