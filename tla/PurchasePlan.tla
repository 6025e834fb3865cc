----------------------------- MODULE PurchasePlan -----------------------------
(***************************************************************************)
(* The procurement plan of one case: the signed sale it buys for and the   *)
(* instalments it is paid in.  Each save writes the plan row and replaces  *)
(* its instalments in one transaction, so a save is one step.              *)
(***************************************************************************)
EXTENDS PaymentRules

CONSTANTS
  Sales,     \* cases whose contract a plan may be linked to
  Forms,     \* procurement forms the page may send
  LastDay    \* the last day of the calendar

VARIABLES
  sales,     \* of each case: whether it has a contract, whether N3 is passed
  plan,      \* the plan row with its instalments
  today

vars == <<sales, plan, today>>

NoPlan == [sale |-> "", mode |-> "", amount |-> Blank, due |-> NoDay, paid |-> Blank, paidAt |-> NoDay, rows |-> <<>>]

IsSalesContractSigned(s) == sales[s].contract /\ sales[s].passed

(* A form without a link keeps the stored one.                             *)
ExplicitSalesCaseId(asked) == IF asked = "" THEN plan.sale ELSE asked

(* The sale the plan buys for; "" where there is none, or no signed one.   *)
ResolveSalesLink(form) ==
  LET sale == ExplicitSalesCaseId(form.sale)
  IN IF sale # "" /\ IsSalesContractSigned(sale) THEN sale ELSE ""

Staged(form) == form.mode = "STAGED" \/ (form.mode # "FULL" /\ Len(form.rows) > 1)

Init ==
  /\ sales = [s \in Sales |-> [contract |-> FALSE, passed |-> FALSE]]
  /\ plan = NoPlan
  /\ today = 1

SaveSalesContract(s) ==
  /\ sales' = [sales EXCEPT ![s].contract = TRUE]
  /\ UNCHANGED <<plan, today>>

AdvanceN3(s) ==
  /\ sales[s].contract
  /\ sales' = [sales EXCEPT ![s].passed = TRUE]
  /\ UNCHANGED <<plan, today>>

(* savePlan: a plan without a signed sale, or staged with a gap, is        *)
(* refused.  An amount left out is the stored one.                         *)
AmountOf(form) == OrElse(OrElse(form.amount, plan.amount), 0)
Built(form) == BuildInstallmentRecords(form, AmountOf(form), [plan EXCEPT !.paid = OrElse(@, 0)])

SavePlan(form) ==
  LET sale  == ResolveSalesLink(form)
      built == Built(form)
  IN /\ sale # ""
     /\ Staged(form) => ValidStaged(form.rows)
     /\ plan' = [sale |-> sale, mode |-> built.mode, amount |-> AmountOf(form), due |-> built.rollup.due,
                 paid |-> built.rollup.paid, paidAt |-> built.rollup.paidAt, rows |-> built.rows]
     /\ UNCHANGED <<sales, today>>

NextDay ==
  /\ today < LastDay
  /\ today' = today + 1
  /\ UNCHANGED <<sales, plan>>

Next ==
  \/ \E s \in Sales : SaveSalesContract(s) \/ AdvanceN3(s)
  \/ \E form \in Forms : SavePlan(form)
  \/ NextDay

Spec == Init /\ [][Next]_vars

-----------------------------------------------------------------------------
Shown == PresentPlanPayment(plan, today)

(* The supplier's account, over the one purchase there is.                 *)
Payable == MoneyBuckets(<<[amount |-> plan.amount, paid |-> Shown.paid]>>)

(* When the page marks every instalment paid, the plan and the supplier's  *)
(* account owe nothing: shares that round, or that pass 100 %, lose no     *)
(* cent of the amount (resolveSchedule's last row, toListItem's payable).  *)
AllPaidMeansNothingOwed ==
  Shown.statuses = {"PAID"} =>
    Shown.unpaid = 0 /\ Payable.open = 0

(* The plan row repeats the earliest date still owed; once it is over, the *)
(* supplier's payment record says overdue (rollupPaymentFields against     *)
(* summarizeRemittance).                                                   *)
OverdueShows ==
  (\E i \in DOMAIN plan.rows : UnpaidOf(plan.rows[i]) > 0) /\ plan.due # NoDay /\ today > plan.due
    => Shown.payment = "OVERDUE"

(* What the page says of the payment is what the rows and the totals say.  *)
PlanPageAgrees == AllPaidMeansNothingOwed /\ OverdueShows

(* "未传时 buildInstallmentRecords 保留原账" (cases.service.ts 1282): a save that carries   *)
(* no payment keeps what was paid, in one amount or in instalments.        *)
PaidKept ==
  plan # NoPlan =>
    \A form \in {f \in Forms : f.paid = Blank /\ f.rows = <<>> /\ ~Staged(f)} : Built(form).rollup.paid = plan.paid
=============================================================================
