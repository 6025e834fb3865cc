------------------------------- MODULE BuyerEval -------------------------------
(***************************************************************************)
(* What the customer pages say of a buyer: a grade from three scores, and  *)
(* tags.  Nothing of it is stored; every page computes it from the cases   *)
(* that have reached N3, their receipts, the newest policy and the other   *)
(* buyers.  Reasons for a low limit and deductions are never passed in.    *)
(***************************************************************************)
EXTENDS Exposure, PaymentRules, SequencesExt

CONSTANTS
  Buyers, Cases,
  BuyerOf,        \* the customer of a case
  BatchAmounts,   \* the amounts of a case's batches
  Amounts, Costs, Limits, Days, Parts,  \* what forms may hold
  LowLimit,       \* LOW_LIMIT_USD_FEN
  LongDue, VeryLongDue,  \* the ages of a receivable that count: 60, 90 days
  Calendar, MaxPolicies

VARIABLES
  reached,     \* cases that have reached N3
  contract,    \* their contracts
  settlements, \* of each batch: [day, memo, amount]
  cost,        \* the purchase plan's amount, 0 without one
  policies,    \* sequence of [case, limit, usd], the oldest first
  today

vars == <<reached, contract, settlements, cost, policies, today>>

NoContract == [signed |-> FALSE, amount |-> 0, usd |-> TRUE, due |-> NoDay]
NoReceipt == [day |-> NoDay, memo |-> FALSE, amount |-> NoAmount]

(***************************************************************************)
(* A buyer's cases and their money, in the rows a page has loaded          *)
(* (casesOf, moneyOf, caseRemittance).                                     *)
(***************************************************************************)
LoadCustomers == [reached |-> reached, contract |-> contract, settlements |-> settlements,
                  cost |-> cost, policies |-> policies, now |-> today]

CasesOf(db, b) == {c \in db.reached : BuyerOf[c] = b}

Receipt(db, c, i) ==
  LET row == db.settlements[c][i]
  IN [amount |-> BatchAmounts[c][i],
      settlement |-> [arrived |-> row.day # NoDay, memo |-> row.memo, amount |-> row.amount]]

PortionsOf(db, c) ==
  LET total == db.contract[c].amount
      sole  == Len(BatchAmounts[c]) = 1
  IN ContractOccupancyPortions(total,
       [i \in DOMAIN BatchAmounts[c] |->
          [amount |-> AtLeastZero(BatchAmounts[c][i]), shipped |-> FALSE,
           received |-> ReceivedFenForBatch(Receipt(db, c, i), total, sole)]])

MoneyOf(db, c) ==
  LET portions == PortionsOf(db, c)
  IN [amount |-> db.contract[c].amount, paid |-> portions.received, unpaid |-> portions.open + portions.fulfilled]

LatestReceivedAt(db, c) == Max({db.settlements[c][i].day : i \in DOMAIN BatchAmounts[c]})

(* Variant: the date of a part of the money is taken for the whole.        *)
CaseRemittanceOfPart(db, c, unpaid) ==
  EvaluateSchedule(db.contract[c].due, LatestReceivedAt(db, c), Blank, db.now)

CaseRemittance(db, c, unpaid) ==
  EvaluateSchedule(db.contract[c].due, LatestReceivedAt(db, c),
                   IF db.contract[c].signed THEN unpaid ELSE Blank, db.now)

Slices(db, b) ==
  {LET money == MoneyOf(db, c)
   IN [case |-> c, amount |-> money.amount, unpaid |-> money.unpaid,
       signed |-> db.contract[c].signed, usd |-> db.contract[c].usd, cost |-> db.cost[c],
       due |-> db.contract[c].due, code |-> CaseRemittance(db, c, money.unpaid)] : c \in CasesOf(db, b)}

LatestSinosure(db, b) ==
  LET own == {i \in DOMAIN db.policies : db.policies[i].case \in CasesOf(db, b)}
  IN IF own = {} THEN [case |-> "none", limit |-> 0, usd |-> TRUE] ELSE db.policies[Max(own)]

(* occupancyFromCases: nothing has shipped, or has: the sum is the same.   *)
OccupancyFromCases(slices, limit) ==
  LET row(s) == [hasContract |-> s.signed, usd |-> s.usd, open |-> s.unpaid, fulfilled |-> 0]
      rows == [c \in {s.case : s \in slices} |-> row(CHOOSE s \in slices : s.case = c)]
  IN EvaluateOccupancy(SplitOccupancy(rows, "none"), 0, TRUE, limit.limit, limit.usd)

(***************************************************************************)
(* The facts of a buyer.  A sale in another currency is not summed up; a   *)
(* sale without a purchase leaves the profit unknown.                      *)
(***************************************************************************)
(* Variant: a receivable leaves the one class when it enters the other,    *)
(* which nobody reads.                                                     *)
AgingUnpaidOnce(slices, now) ==
  [long |-> \E s \in slices : s.unpaid > 0 /\ s.due # NoDay /\ now - s.due \in (LongDue + 1)..VeryLongDue,
   veryLong |-> FALSE]

AgingUnpaid(slices, now) ==
  LET older(days) == \E s \in slices : s.unpaid > 0 /\ s.due # NoDay /\ now - s.due > days
  IN [long |-> older(LongDue), veryLong |-> older(VeryLongDue)]

FactsFromCases(slices, sino, limit, now) ==
  LET sold  == {s \in slices : s.amount > 0 /\ s.usd}
      sales == MapThenSumSet(LAMBDA s : s.amount, sold)
      coded(code) == Cardinality({s \in slices : s.code = code})
  IN [sales |-> sales,
      profitKnown |-> sold # {} /\ \A s \in sold : s.cost > 0,
      gross |-> sales - MapThenSumSet(LAMBDA s : s.cost, sold),
      onTime |-> coded("ON_TIME"), overdue |-> coded("OVERDUE"),
      aging |-> AgingUnpaid(slices, now),
      limit |-> limit.limit, limitUsd |-> limit.usd,
      remaining |-> sino.remaining, band |-> sino.band]

FactsOf(db, b) ==
  LET facts(slices, limit) == FactsFromCases(slices, OccupancyFromCases(slices, limit), limit, db.now)
  IN facts(Slices(db, b), LatestSinosure(db, b))

(* Buyers who have no case at N3 are nobody's peers.                       *)
PeerFacts(db) == {<<b, FactsOf(db, b)>> : b \in {d \in Buyers : CasesOf(db, d) # {}}}

(***************************************************************************)
(* Scores.  A percentile is a fraction of the peers' values: half of those *)
(* that are level count.                                                   *)
(***************************************************************************)
Percentile(v, values) ==
  LET less  == Cardinality({p \in values : p[2] < v})
      equal == Cardinality({p \in values : p[2] = v})
  IN IF values = {} THEN [num |-> 1, den |-> 2]
     ELSE [num |-> 2 * less + equal, den |-> 2 * Cardinality(values)]
OrSelf(values, v) == IF values = {} THEN {<<"self", v>>} ELSE values

(* Seventy per cent of fifty points are gross profit, thirty are sales.    *)
ValueScore(facts, peers) ==
  LET sales == Percentile(facts.sales, {<<p[1], p[2].sales>> : p \in peers})
      known == {<<p[1], p[2].gross>> : p \in {q \in peers : q[2].profitKnown}}
      gross == Percentile(facts.gross, OrSelf(known, facts.gross))
      low   == gross.num * 100 < 40 * gross.den
  IN IF facts.profitKnown
     THEN [score |-> Rounded(35 * gross.num * sales.den + 15 * sales.num * gross.den, gross.den * sales.den),
           low |-> low, thin |-> sales.num * 100 >= 70 * sales.den /\ low]
     ELSE [score |-> Rounded(15 * sales.num, sales.den), low |-> TRUE, thin |-> FALSE]

Unregistered(facts) == facts.limit = 0
LowUsdLimit(facts) == ~Unregistered(facts) /\ facts.limitUsd /\ facts.limit <= LowLimit

RiskScore(facts) ==
  LET rated == facts.onTime + facts.overdue
      onTimePts == IF rated = 0 THEN 6 ELSE Rounded(12 * facts.onTime, rated)
      agingPts == IF facts.aging.veryLong THEN 0 ELSE IF facts.aging.long THEN 4 ELSE 10
      occPts == CASE Unregistered(facts) \/ facts.band = "NONE" -> 4
                  [] facts.band = "WITHIN_LIMIT" -> 8
                  [] facts.band \in {"BELOW_MEDIUM", "MEDIUM"} -> 5
                  [] facts.band = "HIGH" -> 2
                  [] OTHER -> 0
  IN onTimePts + agingPts + occPts

CreditScore(facts, peers) ==
  LET limits == {<<p[1], p[2].limit>> : p \in {q \in peers : q[2].limit > 0}}
      share  == Percentile(facts.limit, OrSelf(limits, facts.limit))
      tenths == IF LowUsdLimit(facts) THEN 9 ELSE 10
  IN IF Unregistered(facts) THEN 0
     ELSE Rounded(tenths * (12 * share.num * facts.limit + 8 * facts.remaining * share.den),
                  10 * share.den * facts.limit)

(* Grades 4 to 0 are S, A, B, C and D.                                     *)
ApplyGradeCaps(total, facts, low) ==
  LET earned == Cardinality({bar \in {40, 55, 70, 85} : total >= bar})
  IN CASE Unregistered(facts) -> 0
       [] ~Unregistered(facts) /\ (low \/ LowUsdLimit(facts)) -> Least(earned, 2)
       [] OTHER -> earned

Evaluate(facts, peers) ==
  LET value == ValueScore(facts, peers)
      total == value.score + RiskScore(facts) + CreditScore(facts, peers)
      grade == ApplyGradeCaps(total, facts, value.low)
      tag(name, earned) == IF earned THEN {name} ELSE {}
  IN [grade |-> grade, total |-> total,
      tags |-> UNION {tag("NO_LIMIT", Unregistered(facts)), tag("LOW_LIMIT", LowUsdLimit(facts)),
                      tag("LONG_AR", facts.aging.long \/ facts.aging.veryLong),
                      tag("THIN_MARGIN", value.thin),
                      tag("GOOD_REMIT", facts.onTime > 0 /\ facts.overdue = 0 /\ grade > 0)}]

EvaluateBuyer(db, b) ==
  LET among(facts, peers) == Evaluate(facts, IF peers = {} THEN {<<b, facts>>} ELSE peers)
  IN among(FactsOf(db, b), PeerFacts(db))

(* toListItem.                                                             *)
Page(db, b) == [evaluation |-> EvaluateBuyer(db, b),
                remittance |-> SummarizeRemittance({s.code : s \in Slices(db, b)})]

(***************************************************************************)
(* The facts change.                                                       *)
(***************************************************************************)
Init ==
  /\ reached = {} /\ today = 1 /\ policies = <<>>
  /\ contract = [c \in Cases |-> NoContract]
  /\ settlements = [c \in Cases |-> [i \in DOMAIN BatchAmounts[c] |-> NoReceipt]]
  /\ cost = [c \in Cases |-> 0]

ReachN3(c) ==
  /\ c \notin reached
  /\ reached' = reached \cup {c}
  /\ UNCHANGED <<contract, settlements, cost, policies, today>>

SaveContract(c, amount, usd, due) ==
  /\ contract' = [contract EXCEPT ![c] = [signed |-> TRUE, amount |-> amount, usd |-> usd, due |-> due]]
  /\ UNCHANGED <<reached, settlements, cost, policies, today>>

SavePlan(c, amount) ==
  /\ contract[c].signed
  /\ cost' = [cost EXCEPT ![c] = amount]
  /\ UNCHANGED <<reached, contract, settlements, policies, today>>

SaveSettlement(c, i, receipt) ==
  /\ contract[c].amount > 0
  /\ settlements' = [settlements EXCEPT ![c][i] = receipt]
  /\ UNCHANGED <<reached, contract, cost, policies, today>>

SaveSinosure(c, limit, usd) ==
  /\ Len(policies) < MaxPolicies
  /\ policies' = Append(policies, [case |-> c, limit |-> limit, usd |-> usd])
  /\ UNCHANGED <<reached, contract, settlements, cost, today>>

LaterDay ==
  /\ today' \in {d \in Calendar : d > today}
  /\ UNCHANGED <<reached, contract, settlements, cost, policies>>

(* Money is written down with the day it came, or as a memo alone.         *)
Receipts == [day : {today}, memo : {FALSE}, amount : {NoAmount}]
            \cup [day : {NoDay, today}, memo : {TRUE}, amount : {NoAmount} \cup Parts]

Next ==
  \/ \E c \in Cases :
       \/ ReachN3(c)
       \/ \E a \in Amounts, usd \in BOOLEAN, due \in Days \cup {NoDay} : SaveContract(c, a, usd, due)
       \/ \E a \in Costs : SavePlan(c, a)
       \/ \E i \in DOMAIN BatchAmounts[c] : \E r \in Receipts : SaveSettlement(c, i, r)
       \/ \E l \in Limits, usd \in BOOLEAN : SaveSinosure(c, l, usd)
  \/ LaterDay

Spec == Init /\ [][Next]_vars
-----------------------------------------------------------------------------
(***************************************************************************)
(* Money that comes in never costs a buyer its grade: the receipts weigh   *)
(* on the on-time rate, the age of the receivables, the band of the excess *)
(* and the rest of the limit, all the same way (riskScore, creditScore).   *)
(***************************************************************************)
GradeOf(db, b) == EvaluateBuyer(db, b).grade

(* What was paid keeps the day it was paid on.                             *)
MoneyCameIn(before, after) == \A c \in before.reached :
  /\ MoneyOf(after, c).unpaid <= MoneyOf(before, c).unpaid
  /\ LatestReceivedAt(after, c) >= LatestReceivedAt(before, c)
  /\ MoneyOf(before, c).unpaid = 0 => after.settlements[c] = before.settlements[c]

CollectingNeverDowngrades ==
  [][settlements' # settlements /\ MoneyCameIn(LoadCustomers, LoadCustomers')
       => \A b \in Buyers : GradeOf(LoadCustomers', b) >= GradeOf(LoadCustomers, b)]_vars

(***************************************************************************)
(* And days that pass without any never raise it (agingUnpaidFen).         *)
(***************************************************************************)
WaitingNeverUpgrades ==
  [][today' # today => \A b \in Buyers : GradeOf(LoadCustomers', b) <= GradeOf(LoadCustomers, b)]_vars

(***************************************************************************)
(* A buyer praised for paying well has nothing overdue on the same page,   *)
(* and no receivable that has been due for long (buildTags, toListItem).   *)
(***************************************************************************)
PraisedOwesNothingLate(page) ==
  "GOOD_REMIT" \in page.evaluation.tags =>
    page.remittance = "ON_TIME" /\ "LONG_AR" \notin page.evaluation.tags

GoodRemitOwesNothingLate == \A b \in Buyers : PraisedOwesNothingLate(Page(LoadCustomers, b))
=============================================================================
