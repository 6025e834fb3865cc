--------------------------- MODULE ContractChanges ---------------------------
(***************************************************************************)
(* The versioned documents of one case: quotes, change orders and the      *)
(* versions of the sales contract.  Each handler numbers its row from what *)
(* it has just read, and a unique key refuses the number when another      *)
(* request has taken it: the handler then fails where it stands.  One step *)
(* is one database write.                                                  *)
(***************************************************************************)
EXTENDS Naturals, Sequences

CONSTANTS
  Requests,    \* slots for HTTP requests in flight
  Terms,       \* the values of the contract field that changes (a quantity)
  NoTerms,     \* a request carries none
  MaxQuotes,   \* bounds: rows of each table when a request that adds one
  MaxOrders,   \*   comes in
  MaxVersions,
  MaxOverlaps  \* bound: how often a request comes in while another is running

ASSUME ContractChangesAssumption ==
  /\ Terms # {} /\ NoTerms \notin Terms
  /\ MaxQuotes \in Nat /\ MaxOrders \in Nat /\ MaxVersions \in Nat /\ MaxOverlaps \in Nat

VARIABLES
  quotes,    \* Quote rows: the row at i is version i, its value the status
  orders,    \* ChangeOrder rows: the row at i is CO-00i
  contract,  \* the Contract row's terms
  versions,  \* ContractVersion rows: the row at i is version i
  req,       \* the requests in flight and what each has read
  overlaps   \* history: how often a request came in while another was running

vars == <<quotes, orders, contract, versions, req, overlaps>>
rowVars == <<quotes, orders, contract, versions>>

Active == "ACTIVE"
Superseded == "SUPERSEDED"
Pending == {"PENDING_ACK", "PENDING_APPROVAL"}
AckTypes == {"CUSTOMER", "INTERNAL", "APPROVAL"}

NewOrder(to, sensitive) ==
  [to |-> to, sensitive |-> sensitive, customer |-> FALSE, internal |-> FALSE,
   approved |-> FALSE, status |-> "PENDING_ACK"]

Idle == [step |-> "idle", number |-> 0, order |-> 0, ack |-> "CUSTOMER", to |-> NoTerms,
         status |-> "PENDING_ACK", sensitive |-> FALSE]
Goto(r, step) == req' = [req EXCEPT ![r].step = step]
Finish(r) == req' = [req EXCEPT ![r] = Idle]
At(r, step) == req[r].step = step

Init ==
  /\ quotes = <<>>
  /\ orders = <<>>
  /\ contract \in Terms
  /\ versions = <<[status |-> Active, terms |-> contract]>>
  /\ req = [r \in Requests |-> Idle]
  /\ overlaps = 0

(***************************************************************************)
(* saveQuote: read the last version, supersede it, create the next one.    *)
(***************************************************************************)
ReadLastQuote(r) ==
  /\ At(r, "idle")
  /\ Len(quotes) < MaxQuotes
  /\ req' = [req EXCEPT ![r] = [Idle EXCEPT !.step = "closeQuote", !.number = Len(quotes) + 1]]
  /\ UNCHANGED rowVars

(* Variant: the last version is left as it is.                             *)
KeepQuote(r) ==
  /\ At(r, "closeQuote")
  /\ Goto(r, "createQuote")
  /\ UNCHANGED rowVars

(* update by id, if the row was ACTIVE when read: the last row always is.  *)
CloseQuote(r) ==
  /\ At(r, "closeQuote")
  /\ quotes' = [i \in DOMAIN quotes |->
                  IF i = req[r].number - 1 THEN Superseded ELSE quotes[i]]
  /\ Goto(r, "createQuote")
  /\ UNCHANGED <<orders, contract, versions>>

CreateQuote(r) ==
  /\ At(r, "createQuote")
  /\ quotes' = IF req[r].number = Len(quotes) + 1 THEN Append(quotes, Active) ELSE quotes
  /\ Finish(r)
  /\ UNCHANGED <<orders, contract, versions>>

(***************************************************************************)
(* createChange: number the order by the count of the orders.              *)
(***************************************************************************)
CountOrders(r, to, sensitive) ==
  /\ At(r, "idle")
  /\ Len(orders) < MaxOrders
  /\ req' = [req EXCEPT ![r] = [Idle EXCEPT !.step = "createOrder", !.number = Len(orders) + 1,
                                            !.to = to, !.sensitive = sensitive]]
  /\ UNCHANGED rowVars

CreateOrder(r) ==
  /\ At(r, "createOrder")
  /\ orders' = IF req[r].number = Len(orders) + 1
               THEN Append(orders, NewOrder(req[r].to, req[r].sensitive)) ELSE orders
  /\ Finish(r)
  /\ UNCHANGED <<quotes, contract, versions>>

(***************************************************************************)
(* ackChange: read the order, refuse a settled one, write the one          *)
(* acknowledgement with the status that follows from what was read.        *)
(***************************************************************************)
(* Variant: an applied order may be acknowledged too.                      *)
AckAlways(co, ack) == ack = "APPROVAL" => co.sensitive

AckAllowed(co, ack) ==
  /\ co.status \in Pending
  /\ ack = "APPROVAL" => co.sensitive

StatusAfterInternal(co) ==
  IF co.sensitive /\ ~co.approved THEN "PENDING_APPROVAL" ELSE "PENDING_ACK"

ReadForAck(r, i, ack) ==
  /\ At(r, "idle")
  /\ IF AckAllowed(orders[i], ack)
     THEN req' = [req EXCEPT ![r] = [Idle EXCEPT !.step = "ack", !.order = i, !.ack = ack,
                                                 !.status = StatusAfterInternal(orders[i])]]
     ELSE UNCHANGED req
  /\ UNCHANGED rowVars

Acknowledge(r) ==
  LET i == req[r].order
      ack == req[r].ack
  IN /\ At(r, "ack")
     /\ orders' =
          CASE ack = "CUSTOMER" -> [orders EXCEPT ![i].customer = TRUE]
            [] ack = "INTERNAL" -> [orders EXCEPT ![i].internal = TRUE, ![i].status = req[r].status]
            [] OTHER -> [orders EXCEPT ![i].approved = TRUE, ![i].status = "PENDING_ACK"]
     /\ Finish(r)
     /\ UNCHANGED <<quotes, contract, versions>>

(***************************************************************************)
(* saveContract writes the terms and snapshots the contract; applyChange   *)
(* writes an order's terms, snapshots the contract and marks the order.    *)
(* No status keeps an order from being applied again.                      *)
(***************************************************************************)
SaveContract(r, t) ==
  /\ At(r, "idle")
  /\ Len(versions) < MaxVersions
  /\ contract' = t
  /\ req' = [req EXCEPT ![r] = [Idle EXCEPT !.step = "snapshot"]]
  /\ UNCHANGED <<quotes, orders, versions>>

(* Variant: a sensitive order needs no approval.                           *)
AcknowledgedOnly(co) == co.customer /\ co.internal

MayApply(co) == co.customer /\ co.internal /\ (co.sensitive => co.approved)

ReadForApply(r, i) ==
  /\ At(r, "idle")
  /\ Len(versions) < MaxVersions
  /\ IF MayApply(orders[i])
     THEN req' = [req EXCEPT ![r] = [Idle EXCEPT !.step = "patch", !.order = i]]
     ELSE UNCHANGED req
  /\ UNCHANGED rowVars

PatchContract(r) ==
  /\ At(r, "patch")
  /\ contract' = orders[req[r].order].to
  /\ Goto(r, "snapshot")
  /\ UNCHANGED <<quotes, orders, versions>>

(***************************************************************************)
(* snapshotContract: read the contract, supersede every ACTIVE version,    *)
(* read the last number, create the next version from what was read first. *)
(***************************************************************************)
ReadContract(r) ==
  /\ At(r, "snapshot")
  /\ req' = [req EXCEPT ![r].step = "closeVersions", ![r].to = contract]
  /\ UNCHANGED rowVars

CloseVersions(r) ==
  /\ At(r, "closeVersions")
  /\ versions' = [i \in DOMAIN versions |-> [versions[i] EXCEPT !.status = Superseded]]
  /\ Goto(r, "readLast")
  /\ UNCHANGED <<quotes, orders, contract>>

ReadLastVersion(r) ==
  /\ At(r, "readLast")
  /\ req' = [req EXCEPT ![r].step = "createVersion", ![r].number = Len(versions) + 1]
  /\ UNCHANGED rowVars

(* A number taken meanwhile fails the request: an order stays unapplied.   *)
CreateVersion(r) ==
  LET free == req[r].number = Len(versions) + 1
  IN /\ At(r, "createVersion")
     /\ versions' = IF free THEN Append(versions, [status |-> Active, terms |-> req[r].to]) ELSE versions
     /\ IF free /\ req[r].order # 0 THEN Goto(r, "markApplied") ELSE Finish(r)
     /\ UNCHANGED <<quotes, orders, contract>>

MarkApplied(r) ==
  /\ At(r, "markApplied")
  /\ orders' = [orders EXCEPT ![req[r].order].status = "APPLIED"]
  /\ Finish(r)
  /\ UNCHANGED <<quotes, contract, versions>>

Submit(r) ==
  \/ ReadLastQuote(r)
  \/ \E t \in Terms : SaveContract(r, t) \/ \E s \in BOOLEAN : CountOrders(r, t, s)
  \/ \E i \in DOMAIN orders : ReadForApply(r, i) \/ \E ack \in AckTypes : ReadForAck(r, i, ack)

Handle(r) ==
  \/ CloseQuote(r) \/ CreateQuote(r) \/ CreateOrder(r) \/ Acknowledge(r) \/ PatchContract(r)
  \/ ReadContract(r) \/ CloseVersions(r) \/ ReadLastVersion(r) \/ CreateVersion(r) \/ MarkApplied(r)

Quiet == \A r \in Requests : At(r, "idle")

CountOverlap ==
  /\ Quiet \/ overlaps < MaxOverlaps
  /\ overlaps' = IF Quiet THEN overlaps ELSE overlaps + 1

Next == \E r \in Requests :
  \/ Submit(r) /\ CountOverlap
  \/ Handle(r) /\ UNCHANGED overlaps

Spec == Init /\ [][Next]_vars

-----------------------------------------------------------------------------
(***************************************************************************)
(* Properties.                                                             *)
(***************************************************************************)
(* However requests overlap, at most the newest quote is in force, and     *)
(* once requests have settled it is: a failed saveQuote leaves no gap.     *)
NewestQuoteInForce ==
  /\ \A i \in DOMAIN quotes : quotes[i] = Active => i = Len(quotes)
  /\ Quiet /\ quotes # <<>> => quotes[Len(quotes)] = Active

(* Handled one after the other, requests leave exactly one contract        *)
(* version in force, the newest, and it shows the contract as it is.       *)
VersionInForce ==
  (Quiet /\ overlaps = 0) =>
    /\ \A i \in DOMAIN versions : versions[i].status = Active <=> i = Len(versions)
    /\ versions[Len(versions)].terms = contract

(* So there is one quote and one contract version to go by.                *)
NewestInForce == NewestQuoteInForce /\ VersionInForce

(* However requests overlap, an order takes effect only with both          *)
(* acknowledgements, and with the approval if it is sensitive.             *)
AppliedWithAcks == \A i \in DOMAIN orders :
  orders[i].status = "APPLIED" =>
    /\ orders[i].customer
    /\ orders[i].internal
    /\ orders[i].sensitive => orders[i].approved

(* Handled one after the other, requests never make an order pending again *)
(* once it has taken effect.                                               *)
AppliedStays ==
  [][overlaps = 0 => \A i \in DOMAIN orders :
       orders[i].status = "APPLIED" => orders'[i].status = "APPLIED"]_vars
=============================================================================
