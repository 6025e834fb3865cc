----------------------------- MODULE PaymentRules -----------------------------
(***************************************************************************)
(* Money against dates: whether a payment or a delivery is on time, and    *)
(* how the amount of a purchase is cut into instalments.  Operators only.  *)
(* Amounts are cents, percentages are in basis points, days are numbers.   *)
(***************************************************************************)
EXTENDS Integers, Sequences, FiniteSetsExt, TLC

Blank == -1                \* a number the form or the row does not hold
NoDay == 0                 \* a date it does not hold
Whole == 10000             \* 100 % in basis points

NotNegative(n) == IF n < 0 THEN 0 ELSE n
OrElse(n, m) == IF n = Blank THEN m ELSE n
OrDay(d, e) == IF d = NoDay THEN e ELSE d
Rounded(n, d) == (2 * n + d) \div (2 * d)
TotalOf(rows, Value(_)) == MapThenSumSet(LAMBDA i : Value(rows[i]), DOMAIN rows)

(***************************************************************************)
(* evaluateSchedule.  What is still open never occurred, whatever date is  *)
(* written; what is closed without a date occurred when it was due.        *)
(***************************************************************************)
EvaluateSchedule(dueAt, occurredAt, remaining, now) ==
  LET occurred == CASE remaining > 0 -> NoDay
                    [] remaining = 0 -> OrDay(occurredAt, OrDay(dueAt, now))
                    [] OTHER -> occurredAt
      late(day) == dueAt # NoDay /\ day > dueAt
  IN CASE occurred # NoDay -> IF late(occurred) THEN "OVERDUE" ELSE "ON_TIME"
       [] occurred = NoDay /\ dueAt # NoDay -> IF late(now) THEN "OVERDUE" ELSE "NOT_DUE"
       [] OTHER -> "NO_RECORD"

(* One overdue item makes the whole overdue, then on time, then not due.   *)
SummarizeRemittance(codes) ==
  CASE "OVERDUE" \in codes -> "OVERDUE"
    [] codes \cap {"OVERDUE", "ON_TIME"} = {"ON_TIME"} -> "ON_TIME"
    [] codes \cap {"OVERDUE", "ON_TIME", "NOT_DUE"} = {"NOT_DUE"} -> "NOT_DUE"
    [] OTHER -> "NO_RECORD"

(* What is owed and what is settled over rows of one currency; a payment   *)
(* over the amount settles no more than the amount.                        *)
MoneyBuckets(rows) ==
  LET settled(r) == IF r.amount # 0 /\ r.amount < r.paid THEN r.amount ELSE r.paid
  IN [amount |-> TotalOf(rows, LAMBDA r : r.amount),
      settled |-> TotalOf(rows, settled),
      open |-> TotalOf(rows, LAMBDA r : NotNegative(r.amount - r.paid))]

(***************************************************************************)
(* Instalments.  A row is [seq, bps, amount, due, paid, paidAt].  A staged *)
(* plan has at least two, each with a share, an amount and a time; a time  *)
(* in words (inWords) does for a date.                                     *)
(***************************************************************************)
ValidStaged(rows) ==
  /\ Len(rows) >= 2
  /\ \A i \in DOMAIN rows : rows[i].bps # Blank /\ rows[i].amount # Blank /\ (rows[i].due # NoDay \/ rows[i].inWords)

(* Variant: every row takes its own share, the last one too.               *)
ResolveShares(plan, items) ==
  [i \in DOMAIN items |->
     [items[i] EXCEPT !.seq = i, !.amount = IF items[i].bps = Blank THEN @ ELSE (plan * items[i].bps) \div Whole]]

(* Rows of the same number keep their order.                               *)
InOrder(items) ==
  LET before(j, i) == items[j].seq < items[i].seq \/ (items[j].seq = items[i].seq /\ j <= i)
      place(i) == Cardinality({j \in DOMAIN items : before(j, i)})
  IN [n \in 1..Len(items) |-> items[CHOOSE i \in DOMAIN items : place(i) = n]]

(* A share goes before an amount.  The last row takes what is left, if     *)
(* anything is, so that the cents add up.                                  *)
ResolveSchedule(plan, items) ==
  LET rows == InOrder(items)
      last == Len(rows)
      alone(row) == CASE row.bps # Blank /\ plan > 0 -> Rounded(plan * row.bps, Whole)
                      [] (row.bps = Blank \/ plan <= 0) /\ row.amount # Blank -> NotNegative(row.amount)
                      [] OTHER -> 0
      allocated == TotalOf(SubSeq(rows, 1, last - 1), alone)
      due(i) == IF i = last /\ plan > 0 THEN NotNegative(plan - allocated) ELSE alone(rows[i])
  IN [i \in 1..last |->
        [rows[i] EXCEPT !.seq = i, !.amount = due(i), !.paid = NotNegative(@),
                        !.bps = IF @ # Blank THEN @
                                ELSE IF plan > 0 THEN Rounded(due(i) * Whole, plan) ELSE Blank]]

UnpaidOf(row) == NotNegative(row.amount - row.paid)

TimingOf(row, now) ==
  EvaluateSchedule(row.due, row.paidAt, IF row.amount # 0 \/ row.due # NoDay THEN UnpaidOf(row) ELSE Blank, now)

EvaluateInstallment(row, now) ==
  CASE UnpaidOf(row) = 0 /\ (row.amount > 0 \/ row.paid > 0) -> "PAID"
    [] OTHER ->
         IF TimingOf(row, now) = "OVERDUE" \/ (row.due # NoDay /\ now > row.due) THEN "OVERDUE"
         ELSE IF TimingOf(row, now) = "ON_TIME" THEN "ON_TIME" ELSE "NOT_DUE"

InferPaymentMode(requested, count, existing) ==
  CASE requested # "" -> requested
    [] requested = "" /\ count > 1 -> "STAGED"
    [] OTHER -> IF existing # "" THEN existing ELSE "FULL"

SynthesizeFullInstallment(amount, due, paid, paidAt) ==
  IF amount = 0 /\ paid = 0 /\ due = NoDay THEN <<>>
  ELSE <<[seq |-> 1, bps |-> Whole, amount |-> IF amount = 0 THEN Blank ELSE amount, due |-> due,
          inWords |-> TRUE, paid |-> paid, paidAt |-> paidAt]>>

(* What the plan row repeats of its instalments: the earliest date still   *)
(* owed, the money, the last payment.                                      *)
RollupPaymentFields(rows) ==
  LET owed == {i \in DOMAIN rows : rows[i].paid < rows[i].amount}
      dues == {rows[i].due : i \in IF owed = {} THEN DOMAIN rows ELSE owed} \ {NoDay}
      days == {rows[i].paidAt : i \in DOMAIN rows} \ {NoDay}
  IN [paid |-> TotalOf(rows, LAMBDA r : r.paid),
      due |-> IF dues = {} THEN NoDay ELSE Min(dues),
      paidAt |-> IF days = {} THEN NoDay ELSE Max(days)]

(* Variant: what the form leaves out counts as nothing paid.               *)
BuildFromForm(form, amount, existing) ==
  LET rows == ResolveSchedule(amount,
                IF form.rows # <<>> THEN form.rows
                ELSE SynthesizeFullInstallment(amount, form.due, NotNegative(form.paid), form.paidAt))
  IN [mode |-> InferPaymentMode(form.mode, Len(rows), existing.mode), rows |-> rows,
      rollup |-> RollupPaymentFields(rows)]

(* buildInstallmentRecords: a full payment is one row made of the plan's   *)
(* own fields, staged rows are the form's or, without any, the stored ones.*)
BuildInstallmentRecords(form, amount, existing) ==
  LET count  == Len(IF form.rows # <<>> THEN form.rows ELSE existing.rows)
      asked  == InferPaymentMode(form.mode, count, existing.mode)
      single == SynthesizeFullInstallment(amount, OrDay(form.due, existing.due),
                  OrElse(form.paid, existing.paid), OrDay(form.paidAt, existing.paidAt))
      raw    == CASE asked = "FULL" -> single
                  [] asked = "STAGED" /\ form.rows # <<>> -> form.rows
                  [] OTHER -> IF existing.rows # <<>> THEN existing.rows ELSE single
      rows   == ResolveSchedule(amount, raw)
  IN [mode |-> asked, rows |-> rows, rollup |-> RollupPaymentFields(rows)]

(* presentPlanPayment: what the pages show of a stored plan.  A plan       *)
(* without rows is shown as one payment.                                   *)
PresentPlanPayment(plan, now) ==
  LET raw  == IF plan.rows # <<>> THEN plan.rows
              ELSE SynthesizeFullInstallment(plan.amount, plan.due, plan.paid, plan.paidAt)
      rows == ResolveSchedule(plan.amount, raw)
      paid == TotalOf(rows, LAMBDA r : r.paid)
  IN [rows |-> rows, paid |-> paid, unpaid |-> NotNegative(plan.amount - paid),
      statuses |-> {EvaluateInstallment(rows[i], now) : i \in DOMAIN rows},
      payment |-> SummarizeRemittance({TimingOf(rows[i], now) : i \in DOMAIN rows})]
=============================================================================
