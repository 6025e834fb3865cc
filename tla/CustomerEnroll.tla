---------------------------- MODULE CustomerEnroll ----------------------------
(***************************************************************************)
(* The customer register.  Every handler that brings a case to N3 ends by  *)
(* enrolling the case's buyer: it looks for the customer the buyer is,     *)
(* fills that customer's blank fields or creates a new one, and links the  *)
(* case to it.  The cases of one customer share one Sinosure limit.  One   *)
(* step is one database call; a unique key on name and country may refuse  *)
(* a write, which then fails the request or, for a new customer, makes it  *)
(* take the row that is there.                                             *)
(***************************************************************************)
EXTENDS Naturals, Sequences, FiniteSets

CONSTANTS
  Requests,    \* slots for HTTP requests in flight
  Cases,
  Names,       \* normalised names (nameKey)
  Countries,   \* normalised countries (countryKey)
  Regs,        \* normalised registration numbers (registrationKey)
  Blank,       \* a field not filled in
  MaxRequests, \* bound: requests in a behaviour
  MaxOverlaps  \* bound: how often a request comes in while another is running

ASSUME EnrollAssumption ==
  /\ Blank \notin Names \cup Countries \cup Regs
  /\ MaxRequests \in Nat /\ MaxOverlaps \in Nat

VARIABLES
  buyer,     \* the buyer of each case, as its Party row has it
  link,      \* the customer each buyer is linked to, 0 before it is enrolled
  customers, \* Customer rows: a row's place is its id
  req,       \* the requests in flight and what each has read
  done,      \* history: the last enrolment of the case ended, on the buyer it has
  handled,   \* requests so far
  overlaps   \* history: how often a request came in while another was running

vars == <<buyer, link, customers, req, done, handled, overlaps>>

Company == [name : Names, country : Countries \cup {Blank}, reg : Regs \cup {Blank}]
Unnamed == [name |-> Blank, country |-> Blank, reg |-> Blank]

Idle == [step |-> "idle", case |-> CHOOSE c \in Cases : TRUE, buyer |-> Unnamed,
         matched |-> 0, row |-> Unnamed]
Goto(r, step) == req' = [req EXCEPT ![r].step = step]
Finish(r) == req' = [req EXCEPT ![r] = Idle]
At(r, step) == req[r].step = step
Quiet == \A r \in Requests : At(r, "idle")

Init ==
  /\ buyer = [c \in Cases |-> Unnamed]
  /\ link = [c \in Cases |-> 0]
  /\ customers = <<>>
  /\ req = [r \in Requests |-> Idle]
  /\ done = [c \in Cases |-> FALSE]
  /\ handled = 0
  /\ overlaps = 0

(***************************************************************************)
(* pickMatchingCustomer: the customers a buyer may be matched with.  The   *)
(* rows come in no stated order, so the first match is any match.          *)
(***************************************************************************)
HasReg(reg) == {i \in DOMAIN customers : reg # Blank /\ customers[i].reg = reg}
HasName(name) == {i \in DOMAIN customers : customers[i].name = name}
Conflict(i, reg) == reg # Blank /\ customers[i].reg # Blank /\ customers[i].reg # reg

PickMatchingCustomer(b) ==
  LET named   == HasName(b.name)
      country == {i \in named : customers[i].country = b.country}
      found   == IF b.country # Blank THEN country
                 ELSE IF Cardinality(named) = 1 THEN named ELSE {}
  IN IF HasReg(b.reg) # {} THEN HasReg(b.reg)
     ELSE {i \in found : ~Conflict(i, b.reg)}

FillBlank(existing, incoming) == IF existing # Blank THEN existing ELSE incoming

(* Variant: the buyer's fields replace the customer's.                     *)
Overwrite(i, b) ==
  [name |-> customers[i].name,
   country |-> FillBlank(b.country, customers[i].country),
   reg |-> FillBlank(b.reg, customers[i].reg)]

Filled(i, b) ==
  [name |-> customers[i].name,
   country |-> FillBlank(customers[i].country, b.country),
   reg |-> FillBlank(customers[i].reg, b.reg)]

(* The unique key: no other row has this name and country.                 *)
KeyFree(row, i) ==
  \A j \in DOMAIN customers \ {i} :
    <<customers[j].name, customers[j].country>> # <<row.name, row.country>>

(***************************************************************************)
(* The requests.  upsertParty writes the fields it is given over the ones  *)
(* the Party row has; saving the contract or a policy, or passing a node,  *)
(* leaves the buyer alone.  Each brings N3 to IN_PROGRESS, then enrols.    *)
(***************************************************************************)
Begin(r, c) ==
  /\ At(r, "idle")
  /\ handled < MaxRequests
  /\ Quiet \/ overlaps < MaxOverlaps
  /\ handled' = handled + 1
  /\ overlaps' = IF Quiet THEN overlaps ELSE overlaps + 1
  /\ req' = [req EXCEPT ![r].step = "readBuyer", ![r].case = c]
  /\ done' = [done EXCEPT ![c] = FALSE]
  /\ UNCHANGED <<link, customers>>

UpsertBuyer(r, c, b) ==
  /\ Begin(r, c)
  /\ buyer' = [buyer EXCEPT ![c] = [name |-> b.name, country |-> FillBlank(b.country, @.country),
                                    reg |-> FillBlank(b.reg, @.reg)]]

SaveOther(r, c) ==
  /\ Begin(r, c)
  /\ UNCHANGED buyer

Fixed == <<buyer, handled, overlaps>>

(* A case without a named buyer is not enrolled.                           *)
ReadBuyer(r) ==
  LET b == buyer[req[r].case]
  IN /\ At(r, "readBuyer")
     /\ IF b = Unnamed THEN Finish(r)
        ELSE req' = [req EXCEPT ![r].step = "readCustomers", ![r].buyer = b]
     /\ UNCHANGED <<Fixed, link, customers, done>>

ReadCustomers(r) ==
  LET b == req[r].buyer
  IN /\ At(r, "readCustomers")
     /\ \/ /\ PickMatchingCustomer(b) = {}
           /\ req' = [req EXCEPT ![r].step = "create", ![r].row = b]
        \/ \E i \in PickMatchingCustomer(b) :
             req' = [req EXCEPT ![r].step = "update", ![r].matched = i, ![r].row = Filled(i, b)]
     /\ UNCHANGED <<Fixed, link, customers, done>>

(* A filled-in country that another customer of the name has is refused by *)
(* the unique key, and with it the whole request.                          *)
UpdateCustomer(r) ==
  LET i == req[r].matched
      row == req[r].row
  IN /\ At(r, "update")
     /\ customers' = IF KeyFree(row, i) THEN [customers EXCEPT ![i] = row] ELSE customers
     /\ IF KeyFree(row, i) THEN Goto(r, "link") ELSE Finish(r)
     /\ UNCHANGED <<Fixed, link, done>>

(* Variant: no unique key.                                                 *)
CreateUnchecked(r) ==
  /\ At(r, "create")
  /\ customers' = Append(customers, req[r].row)
  /\ req' = [req EXCEPT ![r].step = "link", ![r].matched = Len(customers) + 1]
  /\ UNCHANGED <<Fixed, link, done>>

CreateCustomer(r) ==
  LET row == req[r].row
      free == KeyFree(row, 0)
  IN /\ At(r, "create")
     /\ customers' = IF free THEN Append(customers, row) ELSE customers
     /\ req' = [req EXCEPT ![r].step = IF free THEN "link" ELSE "recover",
                           ![r].matched = Len(customers) + 1]
     /\ UNCHANGED <<Fixed, link, done>>

(* P2002 on create: take the row with the same name and country.           *)
Recover(r) ==
  LET row == req[r].row
      raced == {i \in DOMAIN customers :
                  <<customers[i].name, customers[i].country>> = <<row.name, row.country>>}
  IN /\ At(r, "recover")
     /\ IF raced = {} THEN Finish(r)
        ELSE \E i \in raced : req' = [req EXCEPT ![r].step = "link", ![r].matched = i]
     /\ UNCHANGED <<Fixed, link, customers, done>>

Link(r) ==
  LET c == req[r].case
  IN /\ At(r, "link")
     /\ link' = [link EXCEPT ![c] = req[r].matched]
     /\ done' = [done EXCEPT ![c] = req[r].buyer = buyer[c]]
     /\ Finish(r)
     /\ UNCHANGED <<Fixed, customers>>

Submit(r) == \E c \in Cases : SaveOther(r, c) \/ \E b \in Company : UpsertBuyer(r, c, b)

Handle(r) ==
  \/ ReadBuyer(r) \/ ReadCustomers(r) \/ UpdateCustomer(r)
  \/ CreateCustomer(r) \/ Recover(r) \/ Link(r)

Next == \E r \in Requests : Submit(r) \/ Handle(r)

Spec == Init /\ [][Next]_vars
-----------------------------------------------------------------------------
(***************************************************************************)
(* Properties.                                                             *)
(***************************************************************************)
(* Handled one after the other, enrolments never register one company      *)
(* twice: no two customers have the same registration number.              *)
OneCustomerPerRegistration ==
  overlaps = 0 => \A i, j \in DOMAIN customers :
    (i # j /\ customers[i].reg # Blank) => customers[i].reg # customers[j].reg

(* Cases of one company share one customer, and so one limit: two buyers   *)
(* of the same name and country, with no registration number, are linked   *)
(* to the same row once both are enrolled, also when two enrolments ran at *)
(* the same time and both found the register empty.  (A third one running  *)
(* may see a country that a stale write then takes back.)                  *)
SameBuyerSharesCustomer ==
  overlaps <= 1 => \A c, d \in Cases :
    (done[c] /\ done[d] /\ buyer[c] = buyer[d] /\ buyer[c].country # Blank /\ buyer[c].reg = Blank)
      => link[c] = link[d]

(* So a company is one customer.                                           *)
OneCustomerPerCompany == OneCustomerPerRegistration /\ SameBuyerSharesCustomer

(* Handled one after the other, enrolments never take back what a customer *)
(* row says: a filled-in field keeps its value.                            *)
FilledStays ==
  [][overlaps = 0 => \A i \in DOMAIN customers :
       /\ customers'[i].name = customers[i].name
       /\ customers[i].country # Blank => customers'[i].country = customers[i].country
       /\ customers[i].reg # Blank => customers'[i].reg = customers[i].reg]_vars

(* Buyers with different registration numbers are different companies and  *)
(* are not merged (customer-match.ts: registration conflict).              *)
DifferentCompaniesApart ==
  overlaps = 0 => \A c, d \in Cases :
    (done[c] /\ done[d] /\ buyer[c].reg # Blank /\ buyer[d].reg # Blank /\ link[c] = link[d])
      => buyer[c].reg = buyer[d].reg
=============================================================================
