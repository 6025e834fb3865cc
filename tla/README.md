# TLA+ models of the export risk guard

`src/` is "Export Risk Guard": a NestJS backend over Prisma (SQLite or MySQL)
and a uni-app miniapp. An export case goes through a fixed pipeline of nodes,
each with a gate: quote N2, sales contract N3, change orders N4 (only if there
are any), procurement N5, then, per shipment batch, shipping N6, documents N7
and settlement N9. Gates pass, ask for a review, or block. Next to it, a risk
radar turns the cases' data into risk items that people dispose of, and
customer pages grade the buyers.

What makes this code hard is that every HTTP handler is an async function over
separate awaited Prisma calls. There is no lock, no version column, and one
`$transaction` in all of `cases.service.ts` (in `savePlan`). Two requests on
one case interleave at every `await`, and each writes from what it read
earlier. Several handlers besides `advance()` write the case pointer. The
second hard thing is that one fact (is this paid, is a paper missing, is a
change pending) is worked out in several places that must agree. Paths below
are under `src/backend/src/`.

## Inventory

| part | state it keeps | operations | what makes it correct |
|---|---|---|---|
| advance guard, node catalog (`cases/advance-guard.ts`, `common/constants.ts`) | none | `laterNode`, `resolveAdvance`, `pipelineIndex` | only the current node advances, PASSED is idempotent, no regression |
| case nodes N2..N5 (`cases/cases.service.ts`) | `TradeCase.currentNode/status`, `CaseNode` rows | `create`, `advance`, the form saves, the desks, `screenParties`, the change orders | gates are passed in order, passed nodes stay, a case can always be advanced |
| shipment batches (`cases/shipment-batch.ts`, `cases.service.ts`) | `ShipmentBatch`, `ShipmentBatchNode` | `createBatch`, `advanceBatch`, forms, `syncCaseFromBatches` | batches are independent, the case is their roll-up |
| gates (`gates/`, `tax-finance/`) | none | `evaluateNode`, `snapshot`, `applyTaxFinanceGate` | one verdict, and hard stops cannot be got around |
| screening (`screening/`, `screenParties`) | `ScreeningHit`, `KycReport` | screen, dispose, rescreen | nobody passes with an open hit or unscreened |
| occupancy and tax-finance reviews (`workbench/`, `tax-finance/`, `gate.service.ts`) | review rows with fingerprints | claim, approve, reject, supersede, synchronise | an approval holds exactly for the figures it was given for |
| quotes, change orders, contract versions | `Quote`, `ChangeOrder`, `ContractVersion` | save, create, acknowledge, approve, apply, snapshot | one version in force, nothing applied without its acknowledgements |
| risk radar (`risk-radar/`) | `RiskItem`, `RiskView`, `SupplementTask` | `recalculate`, `open`, `act`, supplements, `rescreen`, samples | dispositions hold, red is only rejected, findings agree with gates and ledger |
| enrolment (`customers/customer-enroll.ts`, `customer-match.ts`) | `Customer`, `Party.customerId` | match, enrol | a company is enrolled once |
| exposure (`customers/sinosure-exposure.ts`) | none | occupancy, bands | cases of one buyer fit their limit together |
| buyer pages (`customers/buyer-eval.ts`, `customers.service.ts`) | none | score, grade, tags | paying never hurts, waiting never helps |
| sales papers (`cases/sales-contract.ts`) | `Contract`, `Shipment`, `Settlement`, `TaxRebateItem` | the contract, voucher, shipment, settlement and rebate forms | what one page wrote another does not lose; paid means released |
| purchase plan (`suppliers/`) | `ProcurementPlan`, instalments | `savePlan`, pages | no cent and no payment is lost |
| files (`uploadSinosureFile`, `uploadNodeDocument`, `saveSinosure`) | `Evidence`, `SinosurePolicy`, the disk | upload, link, confirm, open | a row's file exists and is of its case |
| roles, audit, catalog, contract fees, document text, miniapp | - | - | not modelled, see the end |

Parts interact through the database only: the gates read what the forms wrote,
`advance`, the desks and the screenings write the same `CaseNode` and
`TradeCase` rows, change orders call `upsertParty` and `screenParties`, and the
radar reads hits, occupancy, receivables and documents of all cases.

## Modules

State machines over interleaved requests, one database call a step:

- `Pipeline`: the pure functions of the guard and the roll-up, shared.
- `GatedPipeline`: the abstract specification. Units pass stages, no stage
  before those it needs, and a passed stage is never forgotten.
- `ShipmentBatches`: the shipping half, N5 hand-over included, from N5 on.
- `CaseAdvance`: the front half. `queue`, `approved`, `hits`, `pending` hold
  what later decisions depend on of the review, hit and change-order rows.
  Both halves implement `GatedPipeline`.
- `Screening`: one party with its hits, reports and node. The party may be
  renamed at any time, and a request may fail, or the process restart, between
  any two writes.
- `RiskRadar`: the row of one fingerprint with its views and supplement tasks.
- `Reviews`: the rows of one review desk. The occupancy and the tax review
  follow one protocol; `kind` says which one it is.
- `ContractChanges`: quotes, change orders and contract versions of one case,
  each numbered from what was read and refused by a unique key.
- `CustomerEnroll`: several cases enrolling buyers in one register.
- `BuyerQuota`: several cases of one buyer judged against one limit. Uses
  `Exposure`, the arithmetic of occupancy and bands.
- `EvidenceFiles`: uploads and linked policies, with a restart between any two
  steps.

Facts and what is made of them, one save a step:

- `GateRules`, `TaxRules`: each gate as an operator on the snapshot.
- `CaseFile`: the snapshot as the forms change it; `Result` is what the gate
  of node `at` makes of it. It starts from complete files with parts missing.
- `RadarFindings`: what the radar finds (listed partners, used-up limit, late
  receipts, missing papers) and the rescreening in steps.
- `SalesPapers`, `PurchasePlan`, over `PaymentRules`: contract, shipments,
  receipts, rebate, and what an applied change order writes into the contract;
  the plan with its instalments.
- `BuyerEval`: grade and tags of a buyer from cases, receipts and policies.

`MC...` modules give constants and put components that share no row side by
side, each in a *lane*: a behaviour moves one lane only, so the states of the
lanes add up and do not multiply. `MCRisk` moves one card in two lanes, one
request at a time and overlapping. `MCCustomers` extends `MCPapers` and adds the
shared limit and the customer pages to the lanes of the papers: all that is
about amounts is in one specification. `...Proofs`: theorems.

### How code maps to actions

`Requests` is a set of slots for HTTP requests in flight. `req[r]` holds the
request's program counter (`step`) and what it has read and will use later.
A handler starts in an action of `Submit` (its checks are the guard) and goes
on in actions of `Handle`, **one database write each**, with the reads right
before it. With one slot requests run one after the other; with two they
interleave at every write. A crash between two writes is a request that never
takes its next step, which the specifications allow, since they assume no
fairness. Where the slot must be free again for what comes after, it is an
action: `Restart` of `EvidenceFiles`, as the disk and the database may disagree
afterwards, and `Stop` of `Screening`, as a screening may end between throwing
the old hits away and writing the new ones.

Some writes are joined, each where nothing can tell the difference: the
case-node rows of one roll-up, a renamed party with the deletion of its old
hits in `applyChange`, the sibling count with the write it guards, the saving
of a contract in `BuyerQuota`, the rows a rescreening creates. A gate's
verdict in `CaseAdvance`, `ShipmentBatches`, `Screening` and `Reviews` is a
choice among those it can reach in the modelled state; `GateRules` says which
it is. Names, documents and amounts are members of small sets; audit rows are
left out, as nothing reads them back. So that a few unmodelled handlers are not
missed, `ShipmentBatches` has `ForeignWrites`: what handlers of the front half
write into the pointer.

History variables, read by no action but themselves and named so where they
are declared: `passed`, `deskMoved`, `overlaps` (times a request came in while
another was running), `cleared`, `onFile` and `overtaken` of `Screening`,
`approved` of `Reviews`, `reworded` of `SalesPapers`, `filed`, `judged`, `done`,
and the `calm` and `moved` of a request.

Operators marked "Variant" next to a definition are plausible bugs in it; no
specification uses them. They show that the properties can fail.

## Runs

| run | lanes and bounds | asks |
|---|---|---|
| `Batch` | overlap: 2 requests, 1 batch, the N9 form, supplier pointer write; serial: 1 request, 2 batches, all forms | are N6, N7, N9 passed in order and completion earned when requests overlap, is `GatedPipeline` implemented; one after the other, does the case agree with its batches, is no batch parked, does nothing move back |
| `Case` | overlap: 2 requests, 1 change order, no desk; desks: 1 request, every desk; orders: 1 request, change orders and the review desk | is `GatedPipeline` implemented when requests overlap; one after the other, can a case be advanced and does it move forward |
| `Risk` | radar: requests one after the other, 2 users, 3 colours, 2 tasks; overlap: the same card, 2 requests, a yellow-only rule, 1 person, 1 task at a time; screen: 2 requests, a clean, a medium and a high name, at most two of them in one behaviour, renamed, failed or restarted at any step, both sides; list: 2 parties of a customer, 3 hits, 3 lists; quota, due, papers | do dispositions hold, do cards settle, is a hit lost, can a listed party pass uncleared, does a rescreening leave nothing for the next, does a listed partner show, do radar, gates and ledger agree on what is overdue or missing |
| `Review` | 2 requests, both kinds, figures that are free, reviewed (2) or beyond the desk, 3 changes of figures, 1 overlap | does a node pass only on approved figures, is the queue the right work |
| `Changes` | 2 requests, 2 terms, 2 quotes, 2 orders, 3 versions, 1 overlap | is one version in force, is an order applied only with its acknowledgements and for good |
| `Enroll` | 2 requests, 2 cases, 2 names, countries, registrations and blanks, 4 requests, 1 overlap | is a company one customer, are filled fields kept |
| `Gates` | complete files at N2 to N9 with what the node's gate reads varied; amounts at the edges of the bands, price tolerance and profit | is a verdict consistent, can anything get past a pending change, a guilty party or a red line |
| `Money` | quota: 2 requests, 2 cases, amounts that reach each band and its edge together, 3 writes; pages: 4 cases in four lanes; terms and money: 1 or 2 batches with an amount of their own or none, change orders; purchase: halves, thirds and more than all of an amount; files: 2 requests, 2 cases, one upload in all | is the shared limit held, is a case's contract counted once; do receipts and time move a grade the right way; do files, vouchers, receipts and instalments stay consistent |

Two requests are enough for a stale read and the write that makes it stale;
two batches for a roll-up that differs from each; two tasks for one that is
open and one that is not (in the overlap lane one is enough: the theorems cover
more); two cases for a shared limit or register; three instalments for one that
is neither first nor last. One upload is enough for a row whose file is
not there and for a policy of the other case that links it. What a third of anything
adds is covered by the theorems where there are any, which bound nothing.
`MaxOverlaps` bounds how often a request comes in while another is running: 0
in a property's guard means the property is about requests one after the
other. Days of age, percentages and bands are scaled down; every edge is kept
within the amounts enumerated. Deadlock is checked except in `Enroll`,
`CompaniesMerged` and `Money`, whose bounds on requests and writes let a
behaviour end.

No liveness is stated. The backend has no background work, timer, queue or
retry: everything happens because somebody sends a request, and nobody has to,
so no fairness is justified, and without it nothing can be said to happen.
What liveness would say, that nothing gets stuck, is stated as safety: no
batch and no case is parked (the node the pointer is on accepts an advance),
cards and rescreenings settle (doing it again changes nothing), and deadlock
checking.

### Runs that find a disagreement

| run | what the code does | what is said of it |
|---|---|---|
| `HitDeskParks` | disposing of a buyer's hit moves the pointer to the retired N1 (`cases.service.ts:1779`, `:1817`), where no node is current | `src/README.md:8` |
| `CompaniesMerged` | a buyer whose registration contradicts the customer of that name and country is not matched, then linked to it by the recovery from the unique key (`customer-enroll.ts:83`) | `customer-match.ts:50` |
| `RenamedPasses` | a buyer renamed after the screening passes N3: any report of the node shows that the screening ran, of whatever name (`gates/gate.service.ts:102`) | `src/README.md:22` |
| `VoyageWiped` | a contract saved without the shipment date loses it: the date is parsed to null before omitted fields are merged (`cases.service.ts:511`) | `sales-contract.ts:202` |

### Observed, without a run of their own

Where a cfg or a guard is named, changing it as said reproduces the observation.

- Of two overlapping advances of a batch node the refused one writes BLOCKED
  over the other's PASSED (`cases.service.ts:2386`, against
  `advance-guard.ts:41`), and a slow one takes the batch pointer back
  (`:2417`): `Batch.cfg` with `BatchForward` for `SerialBatchForward`.
- A stale roll-up overwrites a newer one (`:2570`): `Batch.cfg` with
  `SettledShippingAgrees` for `SerialShippingAgrees`.
- Screening the supplier moves the pointer to N5 from anywhere (`:2104`,
  against `advance-guard.ts:42`): the properties about the pointer are stated
  up to such a write (`deskMoved`). The review desks write their node into it
  too (`:1904`, `:1992`).
- A change order created between the N5 gate and its write stays pending
  behind a passed N5 (`:1676`, `:1707`). Overlapping advances and screenings
  can leave a pointer on a passed node: `Case.cfg` with `NoParkedCase` for
  `SerialCaseNotParked`.
- The hit desk takes a PASSED N5 back (`:1804`); `PassedNodeStays` leaves that
  step out.
- A screening that fails after `deleteMany` and before `create` (`:2045`,
  `:2052`) leaves an earlier report that counts as screened, and no hit: the
  party passes until it is screened again. So does a supplier renamed, screened
  under the other name and renamed back, as the report of the first name is
  still there (`gate.service.ts:364`), and a gate that asks between the delete
  and the write. `OnlyClearedPartyPasses` leaves these three out by name:
  without `party \notin onFile` parties that are not on file pass, without the
  disjunct on `overtaken` the third is found.
- A disposal read before a recalculation releases a red risk
  (`risk-radar.service.ts:196`, against `risk-rules.spec.ts:440`), and a
  recalculation closes one disposed of meanwhile (`:376`): `MCRisk` with `Next`
  for `SerialNext` in the lane "radar". `SerialDispositionKept` fails, without
  it in the cfg `SerialRedNotReleased`, without both `SerialCardSettles`. An
  upload may take an accepted supplement back (`:255`).
- With `overlaps <= 1` for `overlaps = 0`: `AppliedStays` fails (an
  acknowledgement read before the order was applied makes it pending,
  `:1083`), and so do `FilledStays` (an enrolment writes back what it read)
  and `EndedReviewStays` (a gate supersedes a row a desk has approved since,
  `gate.service.ts:260`). With `overlaps <= 1` in `VersionInForce`,
  `NewestInForce` fails: a contract save and a change order applied meanwhile
  leave two versions ACTIVE. Two gates on old figures create two rows for one
  fingerprint. Overlapping rescreens both create the same fresh hit. Two people
  who claim a card at once both believe they hold it, and a settled card may be
  held.

Seen in the source while modelling, each part of a module:

- N4 judges all orders in creation order, applied ones included, so an old
  order applied again changes the figures judged.
- A contract without an amount counts as paid on time with nothing received.
  One over 0, which the form allows (`cases/dto.ts`), would be overdue while it
  owes nothing; the models sell for positive amounts.
- Filling a blank country in can collide with the unique key: the request
  fails after the node has passed.
- A change order that renames the buyer keeps the old registration and country.
- A case's contract counts twice in its occupancy when N3 is evaluated with
  the pointer still on N2, or N4 with it on N5 (`sinosure-exposure.ts:138`,
  `:151`).
- `savePlan` without a consent keeps the id of the old one's evidence; shares
  may exceed 100 %; a plan may owe nothing while one of its rows is overdue.
- A change order writes the payment terms alone (`:1161`, `:1178`): vouchers
  accepted for an untimed contract of terms 预付 stay when its terms become
  others, one request after the other. `VouchersOnlyInAdvance` is stated up to
  such an order (`reworded`); it fails without it. Saving vouchers while the
  contract is saved does the same; `SalesPapers` saves one after the other.
- `saveContract` drops the vouchers of a contract whose timing was cleared on
  the form, also when its terms still say 预付 and the voucher page would still
  take them.
- `saveShipment` with a CIF override writes the voyage into an FOB contract.
- Deliveries and receipts stay after a memo is withdrawn; a declared rebate
  keeps the date of its first declaration; `hasRemittance` and `remittedFen`
  are written and read by nobody.
- `screenParties` at N3 deletes what a rescreening found, dispositions too.
  A match whose tier falls changes one of its rows only.
- The radar takes a higher policy of another case for an additional limit.
- No caller passes the low-limit reason or the deductions of the buyer pages.

## Proofs

The theorems hold for every value of the constants within the assumptions the
modules declare: any number of requests, batches, change orders, users, tasks,
cases and names. Those whose run property is about requests one after the other
(`overlaps = 0`, or a `Serial...` lane) are proved with that premise, since
"Observed" shows that they fail without it; all others hold however many
requests overlap. Where a run moves lanes, the theorem named for the lanes is
about its specification, `MCSpec`, again for every constant; what
an `MC...` module defines (the names on the mock lists, the facts that a lane of
the pages starts with) is fixed there.

An invariant about one step is seldom inductive, as a request acts on what it
read earlier. Each proof therefore says, by the step a request has come to, what
is known of that reading.

What is assumed of the constants is declared in the modules: sets of cases and
buyers are finite, "none" and the blank name are no names, forms hold numbers
where they hold amounts, sales and contracts are over positive amounts
(`PapersAssumption`, `FindingsAssumption`), the changes judged come from a file
with numbered change orders (`CaseFileAssumption`), the cases named in the lanes
of the pages are sold (`LanesAssumption`). TLC evaluates each of them.

`ShipmentBatchesProofs`
- `ShipmentInv` strengthens `GatesInOrder` and `CompletedAfterSettlement` for
  any overlap: a request carries only what was earned when it read it, and
  `passed` only grows. From it `TypeCorrect`, `GateOrder`, `CompletionEarned`
  and the refinement `ShipmentImplementsGates`.
- `SerialInv`, one request at a time: a batch has passed nothing at or after
  its pointer (`Ahead`), unless a request is about to move that pointer; the
  roll-up in a request's hand is that of the rows as they are (`Holds`); and
  case and batches agree (`CaseAgrees`) whenever no synchronisation is owed. A
  case still at N5 has batches that have passed nothing (`Unreached`), which is
  what makes the roll-up right at the hand-over. From it `ShippingAgrees`,
  `BatchesGoForward`, and in the run's lane `LaneAgrees`, `LaneGoesForward`.

`CaseAdvanceProofs`
- `CaseInv`, any overlap: `CaseTypeCorrect`, `CaseGateOrder`,
  `CaseImplementsGates`. A request in `advance()` has read the pointer on its
  own node, and a pointer shows what has been passed, until another handler
  moves it; from then on `passed` is frozen.
- `SerialInv`, one request at a time: the node in work is not yet PASSED, the
  pointer is held on it, and every PASSED node is behind the pointer or has the
  request that is about to move the pointer past it (`LeavesBehind`). From it
  `CaseNotParked`, `CaseGoesForward`, `LanesNotParked`, `LanesGoForward`.

`RiskProofs`
- Radar, any overlap: `RadarTypeCorrect`; `RadarNeverRed`, as no row a request
  holds is red either; `ReleasesHaveTasks`, as whoever drops tasks is about to
  add some (`TasksInv`).
- Radar, one request at a time (`SerialSpec`): `RadarRedNotReleased` and
  `RadarDispositionKept`, as the request holds the row as it is;
  `RadarCardSettles`, with `CardInv` (a card that is not there has no tasks and
  nobody at it) and `HolderInv` (nobody holds a settled card).
- The run's two lanes, with `CardLaneInv`, which is what holds in either and,
  per lane, what holds in it alone: `OverlapHolds` for any number of people and
  tasks, `LaneRedNotReleased`, `LaneDispositionKept`, `LaneCardSettles`.
- Screening, with `ScreenInv`: the match of a name that may not pass is never
  without an undecided or confirmed hit while the name is on file, except
  between a screening's delete and its write (`MatchStands`), and a pass about to
  be written, which no hit has moved under, is for a party without such a hit
  (`PassIsOwed`). From it `HitsStand` and `PassesWhenCleared`, however requests
  overlap, rename the party or fail. A name is on file (`onFile`) from its
  screening until the hits are thrown away for another name or by a screening
  that ends half way. What the gate does with a party that is not on file is in
  "Observed" and in the run `RenamedPasses`.
- Findings, with `FindInv`: a rescreening nobody disturbed holds exactly the
  fresh and the changed matches of the hits as they are. From it
  `RescreeningSettles` and `ListedShows`. `PassedPapers` compares what N7 and
  the radar ask for. `OverdueTakesLimit`: radar and ledger call a batch
  collected on the same receipts, and what a sale of one batch takes of the
  limit is a sum of one term.

`ReviewsProofs`
- `DeskInv`, any overlap: an approved row was approved by a desk, a request
  about to pass has judged figures that may, and no desk is about to decide a
  red line. From it `PassNeedsOwnApproval` and half of `QueueStaysRight`.
- `AloneInv`, no overlap yet: at most one row answers for the same figures
  (`OneMatch`), and what a request planned from the queue still holds, up to
  figures that moved (`PlanHolds`). From it the other half, and `EndedRowStays`.

`ContractChangesProofs`
- `QuotesInv`, any overlap: older quotes are closed, and a closed newest one
  has a request about to create its successor. `AcksInv`, any overlap: an
  order being applied is acknowledged and approved, and neither is ever taken
  back. From them `NewestInForceHolds` and `AppliedHasAcks`.
- `AloneInv`, no overlap yet: each step of a snapshot has read what still
  stands. From it the versions in `NewestInForceHolds`, and `AppliedOrderStays`.

`CustomerEnrollProofs`
- `NoRowTwice`: no name and country twice, any overlap, also where a country
  is filled in. `AloneInv`, no overlap yet: what was read of the register
  stands, hence `NothingTakenBack`.
- `SharedInv`, at most one overlap: cases and requests that found a row by name
  and country still find it. A request may be about to write an old country
  over a newer one; `StaleAlone` says that then nobody relies on that row.
  From both invariants `CompanyIsOneCustomer`.

`MoneyProofs`, about amounts that add up and the papers next to them. The
induction theorems of the library take an operator, which the provers cannot be
given; `NatSet` and `FiniteSetIn` state induction of a set instead, from the
least element of a well-founded order. The sum over a set is a CHOOSE of a
recursive function; `SumOf...` shows that there is one and that terms may be
taken in any order, compared, split, renamed, and left out where they are 0.
- `QuotaInv`, any overlap: take any cases already judged together with any whose
  gate is about to judge. Either they fit what a desk may approve, or one of
  those gates has seen at least their sum (`CountedBy`). The gate that reads
  last counts the others, and the one that has seen too much blocks. From it
  `QuotaHolds`. `OwnContractHolds`: a gate's shares of a contract add up to what
  is unpaid of it.
- `FilesInv`, any overlap and a restart between any two steps: what a request
  has in hand at each step, so a row is written only when its file is there and
  of its case. `FilesHold`.
- `SaleInv`, about the terms: the contract has its fields, and vouchers on it are
  of an advance payment or a change order has rewritten the terms since
  (`reworded`): `VouchersHold`, for change orders of any wording. `SalePaid`,
  finitely many batches whose rows hold numbers, on a contract over a positive
  amount: `ReceiptsAgree`, for any number of batches.
- `PlanInv`: a stored plan is one that resolving again leaves alone (`Stored`:
  numbered, each amount what its share makes of the total, the last one the
  rest) and its own row repeats what its instalments say (`Repeats`). From it
  `InstalmentsAgree` and `PaymentsStay`, for any number of instalments in any
  order.
- Files, sale and plan over the lanes of `MCSpec`: `LanesHold`.
- `PagesInv`: what a page loads is typed, no receipt is of a day to come, and a
  contract not signed holds nothing. The facts of a buyer are written as sums
  over its cases, money and days each move one of these facts only, and facts
  no worse make scores and a grade no lower (`PagesFair`; over the lanes
  `PraiseHolds`, `CollectingHolds`, `WaitingHolds`). Percentiles among peers
  need the most care: they compare a buyer with others by its sales, profit and
  limit, none of which a receipt or a day changes.

`CaseFileProofs`
- Lemmas about the operators of `GateRules` and `TaxRules`, one for each gate:
  the result is `Agreed`, permission, decision and missing items saying one
  thing, and what it takes to proceed. They use that the changes judged come
  from a file with numbered change orders (`CaseFileAssumption`, kept by the
  forms), as N4 takes them in that order. `VerdictsAgree`, `StopsHold`.

Model-checked only, of the properties of the runs: those of the four runs that
find a disagreement, which are false. All others are theorems. Not stated at all:
liveness (see "Runs") and ENABLED, which the provers at hand do not reason
about; that no step is left when it should not be is deadlock checking's.

What the theorems do not say: the scaled constants of the runs (bands, ages, the
tolerance) stand for the code's numbers, which the assumptions order but do not
fix.

## Plan

Done as planned: the state machines first, then facts and rules, the abstract
`GatedPipeline` under both halves, and a theorem for each property that holds.
What could be added next is a part of "Not modelled": contract fees, and the rows
from before the batch migration.

## Not modelled

- Roles and routes (a fixed table), the audit trail (append-only, nothing reads
  it to decide), catalog rows, contract fees and plain lists (single rows that
  a form overwrites and a page shows), `saveFix` (rows no gate reads).
- What is read out of an uploaded document's text, and how alike two names
  are: string algorithms. The models take their outcome as a constant
  (`Level`, `Menus`).
- Samples, list order and filters of the radar.
- The miniapp, whose pages call the backend and keep no state of their own, and
  `prisma/seed.ts`, demo data.
- Rows from before the batch migration, except for the retired node codes,
  which the pointer may hold.
