------------------------- MODULE CustomerEnrollProofs -------------------------
(***************************************************************************)
(* Proofs about CustomerEnroll, for every number of requests, cases, names *)
(* and registration numbers.  The unique key holds however enrolments      *)
(* overlap.  That no company is registered twice and that nothing filled   *)
(* in is taken back needs enrolments handled one after another.  That      *)
(* equal buyers share a customer bears one overlap: the invariant there    *)
(* says that a write which would take back a row's country leaves nobody   *)
(* who relies on that country.                                             *)
(***************************************************************************)
EXTENDS CustomerEnroll, SequenceTheorems, TLAPS

Steps == {"idle", "readBuyer", "readCustomers", "update", "create", "recover", "link"}

Request == [step : Steps, case : Cases \cup {Idle.case}, buyer : Company \cup {Unnamed},
            matched : Nat, row : Company \cup {Unnamed}]

(* What a request has read names a case, a company and a customer.         *)
WellRead(q, rows) ==
  /\ q.step # "idle" => q.case \in Cases
  /\ q.step \notin {"idle", "readBuyer"} => q.buyer \in Company
  /\ q.step \in {"update", "link"} => q.matched \in DOMAIN rows
  /\ q.step \in {"create", "recover"} => q.row = q.buyer
  /\ q.step = "update" => q.row \in Company /\ q.row.name = rows[q.matched].name

TypeOK ==
  /\ buyer \in [Cases -> Company \cup {Unnamed}]
  /\ link \in [Cases -> Nat]
  /\ customers \in Seq(Company)
  /\ req \in [Requests -> Request]
  /\ done \in [Cases -> BOOLEAN]
  /\ handled \in Nat
  /\ overlaps \in Nat
  /\ \A r \in Requests : WellRead(req[r], customers)
  /\ \A c \in Cases : done[c] => link[c] \in DOMAIN customers

(* The unique key of the table.                                            *)
Key(row) == <<row.name, row.country>>
KeyUnique == \A i, j \in DOMAIN customers : Key(customers[i]) = Key(customers[j]) => i = j

(* As many requests are in flight as have overlapped, and one more.        *)
InFlight ==
  /\ overlaps = 0 => \A r, s \in Requests : At(r, "idle") \/ At(s, "idle") \/ r = s
  /\ overlaps <= 1 => \A r, s, t \in Requests :
       At(r, "idle") \/ At(s, "idle") \/ At(t, "idle") \/ r = s \/ r = t \/ s = t

(* Handled one after the other: what the request in flight has read of the *)
(* register still is so, and no registration number stands twice.          *)
ReadIsFresh(r) ==
  /\ At(r, "update") => /\ req[r].row = Filled(req[r].matched, req[r].buyer)
                        /\ HasReg(req[r].buyer.reg) # {} => req[r].matched \in HasReg(req[r].buyer.reg)
  /\ At(r, "create") => HasReg(req[r].row.reg) = {}

AloneInv ==
  overlaps = 0 =>
    /\ \A r \in Requests : ReadIsFresh(r)
    /\ OneCustomerPerRegistration

(* A buyer with a country and no registration number is told by its name   *)
(* and country.  Its case, or the request enrolling it, relies on the key  *)
(* of the row it has found.                                                *)
ByKey(b) == b.country # Blank /\ b.reg = Blank
CaseRelies(c) == done[c] /\ ByKey(buyer[c])
RequestRelies(r) == req[r].step \in {"update", "link"} /\ ByKey(req[r].buyer)

(* A request about to write another country over the one a row has got     *)
(* since it was read.                                                      *)
Stale(r) ==
  /\ At(r, "update")
  /\ customers[req[r].matched].country \notin {Blank, req[r].row.country}

CasesFind == \A c \in Cases : CaseRelies(c) => Key(customers[link[c]]) = Key(buyer[c])

RequestsFind ==
  \A r \in Requests : RequestRelies(r) =>
    /\ Key(customers[req[r].matched]) = Key(req[r].buyer)
    /\ At(r, "update") => Key(req[r].row) = Key(req[r].buyer)

StaleAlone ==
  \A r \in Requests : Stale(r) =>
    /\ \A c \in Cases : CaseRelies(c) => link[c] # req[r].matched
    /\ \A s \in Requests : s # r =>
         /\ req[s].step \in {"idle", "link"}
         /\ RequestRelies(s) => req[s].matched # req[r].matched

SharedInv == overlaps <= 1 => CasesFind /\ RequestsFind /\ StaleAlone

IInv == TypeOK /\ KeyUnique /\ InFlight /\ AloneInv /\ SharedInv

LEMMA NoCompany == Unnamed \notin Company
BY EnrollAssumption DEF Unnamed, Company

LEMMA IdleRequest ==
  /\ Idle \in Request /\ Idle.step = "idle"
  /\ \A rows : WellRead(Idle, rows)
BY DEF Idle, Request, Steps, WellRead

LEMMA OthersStay ==
  ASSUME TypeOK, NEW r \in Requests, Submit(r) \/ Handle(r)
  PROVE  \A s \in Requests : s # r => req'[s] = req[s]
BY DEF TypeOK, Submit, Handle, SaveOther, UpsertBuyer, Begin, ReadBuyer, ReadCustomers,
   UpdateCustomer, CreateCustomer, Recover, Link, Goto, Finish

LEMMA RowsSeq ==
  ASSUME TypeOK
  PROVE  /\ Len(customers) \in Nat /\ DOMAIN customers = 1..Len(customers)
         /\ \A i \in DOMAIN customers : customers[i] \in Company
BY DEF TypeOK

(* Filling in the blanks of a row keeps it a company and keeps its name.   *)
LEMMA FilledRow ==
  ASSUME TypeOK, NEW i \in DOMAIN customers, NEW b \in Company
  PROVE  /\ Filled(i, b) \in Company
         /\ Filled(i, b).name = customers[i].name
         /\ Filled(i, b).country = FillBlank(customers[i].country, b.country)
         /\ Filled(i, b).reg = FillBlank(customers[i].reg, b.reg)
<1>1. customers[i] \in Company
  BY RowsSeq
<1> QED
  BY <1>1 DEF Filled, FillBlank, Company

LEMMA PickedRow ==
  ASSUME TypeOK, NEW b
  PROVE  PickMatchingCustomer(b) \subseteq DOMAIN customers
BY DEF PickMatchingCustomer, HasReg, HasName

(* What each write does to the rows.                                       *)
LEMMA RowWrites ==
  ASSUME TypeOK, NEW r \in Requests
  PROVE  /\ UpdateCustomer(r) /\ KeyFree(req[r].row, req[r].matched) =>
              /\ customers' \in Seq(Company) /\ DOMAIN customers' = DOMAIN customers
              /\ req[r].matched \in DOMAIN customers
              /\ \A i \in DOMAIN customers :
                   customers'[i] = IF i = req[r].matched THEN req[r].row ELSE customers[i]
         /\ CreateCustomer(r) /\ KeyFree(req[r].row, 0) =>
              /\ customers' \in Seq(Company) /\ DOMAIN customers' = 1..(Len(customers) + 1)
              /\ \A i \in DOMAIN customers : customers'[i] = customers[i]
              /\ customers'[Len(customers) + 1] = req[r].row
              /\ req[r].row \in Company
         /\ UpdateCustomer(r) /\ ~KeyFree(req[r].row, req[r].matched) => UNCHANGED customers
         /\ CreateCustomer(r) /\ ~KeyFree(req[r].row, 0) => UNCHANGED customers
<1>typ. /\ customers \in Seq(Company) /\ Len(customers) \in Nat /\ DOMAIN customers = 1..Len(customers)
        /\ WellRead(req[r], customers)
  BY DEF TypeOK
<1>1. ASSUME UpdateCustomer(r), KeyFree(req[r].row, req[r].matched)
      PROVE  /\ customers' \in Seq(Company) /\ DOMAIN customers' = DOMAIN customers
             /\ req[r].matched \in DOMAIN customers
             /\ \A i \in DOMAIN customers :
                  customers'[i] = IF i = req[r].matched THEN req[r].row ELSE customers[i]
  <2>1. req[r].matched \in DOMAIN customers /\ req[r].row \in Company
    BY <1>1, <1>typ DEF UpdateCustomer, At, WellRead
  <2>2. customers' = [customers EXCEPT ![req[r].matched] = req[r].row]
    BY <1>1 DEF UpdateCustomer
  <2>3. customers' \in Seq(Company)
    BY <2>1, <2>2, <1>typ, ExceptSeq
  <2> QED BY <2>1, <2>2, <2>3, <1>typ
<1>2. ASSUME CreateCustomer(r), KeyFree(req[r].row, 0)
      PROVE  /\ customers' \in Seq(Company) /\ DOMAIN customers' = 1..(Len(customers) + 1)
             /\ \A i \in DOMAIN customers : customers'[i] = customers[i]
             /\ customers'[Len(customers) + 1] = req[r].row
             /\ req[r].row \in Company
  <2>1. req[r].row \in Company
    BY <1>2, <1>typ DEF CreateCustomer, At, WellRead
  <2>2. customers' = Append(customers, req[r].row)
    BY <1>2 DEF CreateCustomer
  <2> QED BY <2>1, <2>2, <1>typ, AppendProperties, LenProperties
<1> QED
  BY <1>1, <1>2 DEF UpdateCustomer, CreateCustomer

(* Customers are only added, and keep their names.                         *)
LEMMA RowsKept ==
  ASSUME TypeOK, NEW r \in Requests, Submit(r) \/ Handle(r)
  PROVE  /\ customers' \in Seq(Company)
         /\ \A i \in DOMAIN customers : i \in DOMAIN customers' /\ customers'[i].name = customers[i].name
<1>1. CASE UpdateCustomer(r)
  <2>1. req[r].row.name = customers[req[r].matched].name
    BY <1>1 DEF UpdateCustomer, At, TypeOK, WellRead
  <2> QED BY <2>1, <1>1, RowWrites DEF TypeOK
<1>2. CASE CreateCustomer(r)
  BY <1>2, RowWrites, RowsSeq DEF TypeOK
<1>3. CASE UNCHANGED customers
  BY <1>3 DEF TypeOK
<1> QED
  BY <1>1, <1>2, <1>3 DEF Submit, Handle, SaveOther, UpsertBuyer, Begin, ReadBuyer, ReadCustomers,
     Recover, Link

LEMMA InitTyped == Init => TypeOK
<1> SUFFICES ASSUME Init PROVE TypeOK
  OBVIOUS
<1>1. req \in [Requests -> Request] /\ \A r \in Requests : WellRead(req[r], customers)
  BY IdleRequest DEF Init
<1>2. <<>> \in Seq(Company)
  OBVIOUS
<1> QED
  BY <1>1, <1>2 DEF Init, TypeOK

LEMMA StepTyped ==
  ASSUME TypeOK, NEW r \in Requests, Submit(r) \/ Handle(r)
  PROVE  TypeOK'
<1> USE DEF Goto, Finish, Fixed
<1>typ. /\ buyer \in [Cases -> Company \cup {Unnamed}] /\ link \in [Cases -> Nat]
        /\ customers \in Seq(Company) /\ req \in [Requests -> Request] /\ req[r] \in Request
        /\ done \in [Cases -> BOOLEAN] /\ handled \in Nat /\ overlaps \in Nat
        /\ \A s \in Requests : WellRead(req[s], customers)
        /\ \A c \in Cases : done[c] => link[c] \in DOMAIN customers
        /\ Len(customers) + 1 \in Nat /\ DOMAIN customers \subseteq Nat
  BY DEF TypeOK
<1>req. req \in [Requests -> Request] /\ req[r] \in Request
  BY <1>typ
<1>kept. /\ customers' \in Seq(Company)
         /\ \A i \in DOMAIN customers : i \in DOMAIN customers' /\ customers'[i].name = customers[i].name
  BY RowsKept
<1>others. \A s \in Requests : s # r => WellRead(req'[s], customers')
  BY OthersStay, <1>typ, <1>kept DEF WellRead
<1>enough. ASSUME req' = [req EXCEPT ![r] = req'[r]], req'[r] \in Request,
                  WellRead(req'[r], customers'),
                  buyer' \in [Cases -> Company \cup {Unnamed}], link' \in [Cases -> Nat],
                  done' \in [Cases -> BOOLEAN], handled' \in Nat, overlaps' \in Nat,
                  \A c \in Cases : done'[c] => link'[c] \in DOMAIN customers
           PROVE  TypeOK'
  <2>1. req' \in [Requests -> Request]
    BY <1>enough, <1>req
  <2> QED BY <2>1, <1>enough, <1>others, <1>kept DEF TypeOK
<1>begin. ASSUME NEW c \in Cases, Begin(r, c), buyer' \in [Cases -> Company \cup {Unnamed}]
          PROVE  TypeOK'
  <2> DEFINE q == [req[r] EXCEPT !.step = "readBuyer", !.case = c]
  <2>1. q \in Request /\ WellRead(q, customers')
    BY <1>req DEF Request, Steps, WellRead
  <2>2. req'[r] = q /\ req' = [req EXCEPT ![r] = q]
    BY <1>begin, <1>req DEF Begin
  <2>3. done' \in [Cases -> BOOLEAN] /\ \A d \in Cases : done'[d] => done[d]
    BY <1>begin, <1>typ DEF Begin
  <2>4. handled' \in Nat /\ overlaps' \in Nat /\ link' = link
    BY <1>begin, <1>typ DEF Begin
  <2> HIDE DEF q
  <2> QED BY <2>1, <2>2, <2>3, <2>4, <1>begin, <1>typ, <1>enough
<1>1. ASSUME NEW c \in Cases, SaveOther(r, c) PROVE TypeOK'
  BY <1>1, <1>begin, <1>typ DEF SaveOther
<1>2. ASSUME NEW c \in Cases, NEW b \in Company, UpsertBuyer(r, c, b) PROVE TypeOK'
  <2> DEFINE n == [name |-> b.name, country |-> FillBlank(b.country, buyer[c].country),
                   reg |-> FillBlank(b.reg, buyer[c].reg)]
  <2>1. buyer[c].country \in Countries \cup {Blank} /\ buyer[c].reg \in Regs \cup {Blank}
    BY <1>typ DEF Company, Unnamed
  <2>2. n \in Company
    BY <2>1 DEF FillBlank, Company
  <2>3. buyer' = [buyer EXCEPT ![c] = n]
    BY <1>2 DEF UpsertBuyer
  <2> HIDE DEF n
  <2>4. buyer' \in [Cases -> Company \cup {Unnamed}]
    BY <2>2, <2>3, <1>typ
  <2> QED BY <2>4, <1>2, <1>begin DEF UpsertBuyer
<1>3. CASE ReadBuyer(r)
  <2> DEFINE b == buyer[req[r].case]
  <2>1. req[r].case \in Cases
    BY <1>3, <1>typ DEF ReadBuyer, At, WellRead
  <2>2. CASE b = Unnamed
    BY <2>2, <1>3, <1>typ, <1>enough, IdleRequest DEF ReadBuyer
  <2>3. CASE b # Unnamed
    <3> DEFINE q == [req[r] EXCEPT !.step = "readCustomers", !.buyer = b]
    <3>1. b \in Company
      BY <2>1, <2>3, <1>typ
    <3>2. req'[r] = q /\ req' = [req EXCEPT ![r] = q]
      BY <2>3, <1>3, <1>req DEF ReadBuyer
    <3> HIDE DEF b
    <3>3. q \in Request /\ WellRead(q, customers')
      BY <2>1, <3>1, <1>req DEF Request, Steps, WellRead
    <3> HIDE DEF q
    <3> QED BY <3>2, <3>3, <1>3, <1>typ, <1>enough DEF ReadBuyer
  <2> QED BY <2>2, <2>3
<1>4. CASE ReadCustomers(r)
  <2> DEFINE b == req[r].buyer
  <2>1. b \in Company /\ req[r].case \in Cases
    BY <1>4, <1>typ DEF ReadCustomers, At, WellRead
  <2>2. CASE req' = [req EXCEPT ![r].step = "create", ![r].row = b]
    <3> DEFINE q == [req[r] EXCEPT !.step = "create", !.row = b]
    <3>1. q \in Request /\ WellRead(q, customers')
      BY <2>1, <1>req DEF Request, Steps, WellRead
    <3>2. req'[r] = q /\ req' = [req EXCEPT ![r] = q]
      BY <2>2, <1>req
    <3> HIDE DEF q
    <3> QED BY <3>1, <3>2, <1>4, <1>typ, <1>enough DEF ReadCustomers
  <2>3. ASSUME NEW i \in PickMatchingCustomer(b),
               req' = [req EXCEPT ![r].step = "update", ![r].matched = i, ![r].row = Filled(i, b)]
        PROVE  TypeOK'
    <3> DEFINE row == Filled(i, b)
               q == [req[r] EXCEPT !.step = "update", !.matched = i, !.row = row]
    <3>1. i \in DOMAIN customers
      BY PickedRow
    <3>2. row \in Company /\ row.name = customers[i].name
      BY <3>1, <2>1, FilledRow
    <3>3. req'[r] = q /\ req' = [req EXCEPT ![r] = q]
      BY <2>3, <1>req
    <3> HIDE DEF row
    <3>4. q \in Request /\ WellRead(q, customers')
      BY <3>1, <3>2, <2>1, <1>req, <1>typ, <1>kept DEF Request, Steps, WellRead
    <3> HIDE DEF q
    <3> QED BY <3>3, <3>4, <1>4, <1>typ, <1>enough DEF ReadCustomers
  <2> QED BY <2>2, <2>3, <1>4 DEF ReadCustomers
<1>5. CASE UpdateCustomer(r)
  <2>1. CASE KeyFree(req[r].row, req[r].matched)
    <3> DEFINE q == [req[r] EXCEPT !.step = "link"]
    <3>1. req'[r] = q /\ req' = [req EXCEPT ![r] = q]
      BY <2>1, <1>5, <1>req DEF UpdateCustomer
    <3>2. q \in Request /\ WellRead(q, customers')
      BY <1>5, <1>typ, <1>kept DEF UpdateCustomer, At, Request, Steps, WellRead
    <3> HIDE DEF q
    <3> QED BY <3>1, <3>2, <1>5, <1>typ, <1>enough DEF UpdateCustomer
  <2>2. CASE ~KeyFree(req[r].row, req[r].matched)
    BY <2>2, <1>5, <1>typ, <1>enough, IdleRequest DEF UpdateCustomer
  <2> QED BY <2>1, <2>2
<1>6. CASE CreateCustomer(r)
  <2>0. req[r].case \in Cases /\ req[r].buyer \in Company /\ req[r].row = req[r].buyer
    BY <1>6, <1>typ DEF CreateCustomer, At, WellRead
  <2>1. CASE KeyFree(req[r].row, 0)
    <3> DEFINE q == [req[r] EXCEPT !.step = "link", !.matched = Len(customers) + 1]
    <3>1. req'[r] = q /\ req' = [req EXCEPT ![r] = q]
      BY <2>1, <1>6, <1>req DEF CreateCustomer
    <3>2. Len(customers) + 1 \in DOMAIN customers'
      BY <2>1, <1>6, RowWrites, RowsSeq
    <3>3. q \in Request /\ WellRead(q, customers')
      BY <2>0, <3>2, <1>req, <1>typ DEF Request, Steps, WellRead
    <3> HIDE DEF q
    <3> QED BY <3>1, <3>3, <1>6, <1>typ, <1>enough DEF CreateCustomer
  <2>2. CASE ~KeyFree(req[r].row, 0)
    <3> DEFINE q == [req[r] EXCEPT !.step = "recover", !.matched = Len(customers) + 1]
    <3>1. req'[r] = q /\ req' = [req EXCEPT ![r] = q]
      BY <2>2, <1>6, <1>req DEF CreateCustomer
    <3>2. q \in Request /\ WellRead(q, customers')
      BY <2>0, <1>req, <1>typ DEF Request, Steps, WellRead
    <3> HIDE DEF q
    <3> QED BY <3>1, <3>2, <1>6, <1>typ, <1>enough DEF CreateCustomer
  <2> QED BY <2>1, <2>2
<1>7. CASE Recover(r)
  <2>1. CASE Finish(r)
    BY <2>1, <1>7, <1>typ, <1>enough, IdleRequest DEF Recover
  <2>2. ASSUME NEW i \in DOMAIN customers,
               req' = [req EXCEPT ![r].step = "link", ![r].matched = i]
        PROVE  TypeOK'
    <3> DEFINE q == [req[r] EXCEPT !.step = "link", !.matched = i]
    <3>1. req'[r] = q /\ req' = [req EXCEPT ![r] = q]
      BY <2>2, <1>req
    <3>2. q \in Request /\ WellRead(q, customers')
      BY <1>7, <1>typ, <1>kept DEF Recover, At, Request, Steps, WellRead
    <3> HIDE DEF q
    <3> QED BY <3>1, <3>2, <1>7, <1>typ, <1>enough DEF Recover
  <2> QED BY <2>1, <2>2, <1>7 DEF Recover
<1>8. CASE Link(r)
  <2>1. req[r].case \in Cases /\ req[r].matched \in DOMAIN customers
    BY <1>8, <1>typ DEF Link, At, WellRead
  <2>2. link' \in [Cases -> Nat] /\ done' \in [Cases -> BOOLEAN]
    BY <2>1, <1>8, <1>typ DEF Link
  <2>3. \A c \in Cases : done'[c] => link'[c] \in DOMAIN customers
    BY <2>1, <1>8, <1>typ DEF Link
  <2> QED BY <2>2, <2>3, <1>8, <1>typ, <1>enough, IdleRequest DEF Link
<1> QED
  BY <1>1, <1>2, <1>3, <1>4, <1>5, <1>6, <1>7, <1>8 DEF Submit, Handle

(* The unique key refuses what would stand twice, however requests overlap.*)
LEMMA StepKey ==
  ASSUME TypeOK, KeyUnique, NEW r \in Requests, Submit(r) \/ Handle(r)
  PROVE  KeyUnique'
<1>1. CASE UpdateCustomer(r) /\ KeyFree(req[r].row, req[r].matched)
  <2> SUFFICES ASSUME NEW i \in DOMAIN customers', NEW j \in DOMAIN customers',
                      Key(customers'[i]) = Key(customers'[j])
               PROVE  i = j
    BY DEF KeyUnique, Key
  <2>1. \A k \in DOMAIN customers : k # req[r].matched => Key(customers[k]) # Key(req[r].row)
    BY <1>1 DEF KeyFree, Key
  <2> QED BY <2>1, <1>1, RowWrites DEF KeyUnique
<1>2. CASE CreateCustomer(r) /\ KeyFree(req[r].row, 0)
  <2> SUFFICES ASSUME NEW i \in DOMAIN customers', NEW j \in DOMAIN customers',
                      Key(customers'[i]) = Key(customers'[j])
               PROVE  i = j
    BY DEF KeyUnique, Key
  <2>1. \A k \in DOMAIN customers : Key(customers[k]) # Key(req[r].row)
    BY <1>2, RowsSeq DEF KeyFree, Key
  <2>2. \A k \in DOMAIN customers' : k \in DOMAIN customers \/ k = Len(customers) + 1
    BY <1>2, RowWrites, RowsSeq
  <2> QED BY <2>1, <2>2, <1>2, RowWrites DEF KeyUnique
<1>3. CASE UNCHANGED customers
  BY <1>3 DEF KeyUnique, Key
<1> QED
  BY <1>1, <1>2, <1>3, RowWrites DEF Submit, Handle, SaveOther, UpsertBuyer, Begin, ReadBuyer,
     ReadCustomers, Recover, Link

(* A handled step belongs to a request in flight.                          *)
LEMMA HandledInFlight ==
  ASSUME TypeOK, NEW r \in Requests, Handle(r)
  PROVE  ~At(r, "idle") /\ UNCHANGED <<buyer, overlaps>>
BY DEF Handle, ReadBuyer, ReadCustomers, UpdateCustomer, CreateCustomer, Recover, Link, At, Fixed

LEMMA BegunRequest ==
  ASSUME TypeOK, NEW r \in Requests, Submit(r)
  PROVE  /\ At(r, "idle") /\ req'[r].step = "readBuyer" /\ UNCHANGED <<link, customers>>
         /\ overlaps' = IF Quiet THEN overlaps ELSE overlaps + 1
         /\ \E c \in Cases : /\ done' = [done EXCEPT ![c] = FALSE]
                             /\ \A d \in Cases : d # c => buyer'[d] = buyer[d]
<1>1. req \in [Requests -> Request] /\ req[r] \in Request
  BY DEF TypeOK
<1>2. buyer \in [Cases -> Company \cup {Unnamed}]
  BY DEF TypeOK
<1>3. PICK c \in Cases : SaveOther(r, c) \/ \E b \in Company : UpsertBuyer(r, c, b)
  BY DEF Submit
<1>4. Begin(r, c)
  BY <1>3 DEF SaveOther, UpsertBuyer
<1>5. req'[r].step = "readBuyer"
  BY <1>1, <1>4 DEF Begin, Request
<1>6. \A d \in Cases : d # c => buyer'[d] = buyer[d]
  BY <1>2, <1>3 DEF SaveOther, UpsertBuyer
<1> QED
  BY <1>4, <1>5, <1>6 DEF Begin

LEMMA StepInFlight ==
  ASSUME TypeOK, InFlight, NEW r \in Requests, Submit(r) \/ Handle(r)
  PROVE  InFlight'
<1>others. \A s \in Requests : s # r => (At(s, "idle")' <=> At(s, "idle"))
  BY OthersStay DEF At
<1>1. CASE Handle(r)
  BY <1>1, <1>others, HandledInFlight DEF InFlight
<1>2. CASE Submit(r)
  <2>1. overlaps' = (IF Quiet THEN overlaps ELSE overlaps + 1) /\ overlaps \in Nat
    BY <1>2, BegunRequest DEF TypeOK
  <2>2. CASE Quiet
    <3>1. \A s \in Requests : s # r => At(s, "idle")'
      BY <2>2, <1>others DEF Quiet
    <3> QED BY <3>1 DEF InFlight
  <2>3. CASE ~Quiet
    <3>1. overlaps' # 0 /\ (overlaps' <= 1 => overlaps = 0)
      BY <2>1, <2>3
    <3>2. overlaps' <= 1 => \A s, t \in Requests :
            At(s, "idle")' \/ At(t, "idle")' \/ s = t \/ s = r \/ t = r
      BY <3>1, <1>others DEF InFlight
    <3> QED BY <3>1, <3>2 DEF InFlight
  <2> QED BY <2>2, <2>3
<1> QED
  BY <1>1, <1>2

(* The one request in flight through its step.                             *)
LEMMA StepAlone ==
  ASSUME TypeOK, InFlight, AloneInv, NEW r \in Requests, Submit(r) \/ Handle(r)
  PROVE  AloneInv'
<1> USE DEF Goto, Finish, Fixed
<1> SUFFICES ASSUME overlaps' = 0
             PROVE  (\A s \in Requests : ReadIsFresh(s))' /\ OneCustomerPerRegistration'
  BY DEF AloneInv
<1>req. req \in [Requests -> Request] /\ req[r] \in Request
  BY DEF TypeOK
<1>zero. overlaps = 0
  BY HandledInFlight, BegunRequest DEF TypeOK
<1>inv. OneCustomerPerRegistration /\ ReadIsFresh(r)
  BY <1>zero DEF AloneInv
<1>mine. \A s \in Requests : s # r => req'[s].step = "idle"
  <2>1. CASE Handle(r)
    BY <2>1, <1>zero, OthersStay, HandledInFlight DEF InFlight, At
  <2>2. CASE Submit(r)
    <3>1. overlaps \in Nat
      BY DEF TypeOK
    <3>2. Quiet
      BY <2>2, <3>1, <1>zero, BegunRequest
    <3> QED BY <3>2, OthersStay DEF Quiet, At
  <2> QED BY <2>1, <2>2
<1>enough. ASSUME ReadIsFresh(r)' PROVE (\A s \in Requests : ReadIsFresh(s))'
  BY <1>enough, <1>mine DEF ReadIsFresh, At
<1>aside. ASSUME UNCHANGED customers, req'[r].step \notin {"update", "create"}
          PROVE  (\A s \in Requests : ReadIsFresh(s))' /\ OneCustomerPerRegistration'
  <2>1. ReadIsFresh(r)'
    BY <1>aside DEF ReadIsFresh, At
  <2>2. OneCustomerPerRegistration'
    BY <1>aside, <1>inv, <1>zero DEF OneCustomerPerRegistration
  <2> QED BY <2>1, <2>2, <1>enough
<1>1. CASE Submit(r)
  BY <1>1, <1>aside, BegunRequest
<1>2. CASE ReadBuyer(r) \/ Recover(r) \/ Link(r)
  <2>1. req'[r].step \in {"idle", "readCustomers", "link"}
    <3>1. ReadBuyer(r) => req'[r].step \in {"idle", "readCustomers"}
      BY <1>req, IdleRequest DEF ReadBuyer, Request
    <3>2. Recover(r) => req'[r].step \in {"idle", "link"}
      BY <1>req, IdleRequest DEF Recover, Request
    <3>3. Link(r) => req'[r].step = "idle"
      BY <1>req, IdleRequest DEF Link
    <3> QED BY <3>1, <3>2, <3>3, <1>2
  <2> QED BY <2>1, <1>2, <1>aside DEF ReadBuyer, Recover, Link
<1>3. CASE ReadCustomers(r)
  <2> DEFINE b == req[r].buyer
  <2>1. UNCHANGED customers
    BY <1>3 DEF ReadCustomers
  <2>2. OneCustomerPerRegistration'
    BY <2>1, <1>inv, <1>zero DEF OneCustomerPerRegistration
  <2>3. CASE /\ PickMatchingCustomer(b) = {}
             /\ req' = [req EXCEPT ![r].step = "create", ![r].row = b]
    <3>1. req'[r].step = "create" /\ req'[r].row = b
      BY <2>3, <1>req DEF Request
    <3>2. HasReg(b.reg) = {}
      BY <2>3 DEF PickMatchingCustomer
    <3>3. ReadIsFresh(r)'
      BY <3>1, <3>2, <2>1 DEF ReadIsFresh, At, HasReg
    <3> QED BY <3>3, <2>2, <1>enough
  <2>4. ASSUME NEW i \in PickMatchingCustomer(b),
               req' = [req EXCEPT ![r].step = "update", ![r].matched = i, ![r].row = Filled(i, b)]
        PROVE  (\A s \in Requests : ReadIsFresh(s))' /\ OneCustomerPerRegistration'
    <3>1. /\ req'[r].step = "update" /\ req'[r].matched = i /\ req'[r].row = Filled(i, b)
          /\ req'[r].buyer = b
      BY <2>4, <1>req DEF Request
    <3>2. HasReg(b.reg) # {} => i \in HasReg(b.reg)
      BY <2>4 DEF PickMatchingCustomer
    <3>3. ReadIsFresh(r)'
      BY <3>1, <3>2, <2>1 DEF ReadIsFresh, At, HasReg, Filled
    <3> QED BY <3>3, <2>2, <1>enough
  <2> QED BY <2>3, <2>4, <1>3 DEF ReadCustomers
<1>4. CASE UpdateCustomer(r)
  <2>1. CASE KeyFree(req[r].row, req[r].matched)
    <3> DEFINE i == req[r].matched
               b == req[r].buyer
    <3>1. i \in DOMAIN customers /\ b \in Company
      BY <1>4 DEF TypeOK, UpdateCustomer, At, WellRead
    <3>2. req[r].row = Filled(i, b) /\ (HasReg(b.reg) # {} => i \in HasReg(b.reg))
      BY <1>4, <1>inv DEF UpdateCustomer, ReadIsFresh
    <3>3. req[r].row.reg = FillBlank(customers[i].reg, b.reg)
      BY <3>1, <3>2, FilledRow
    <3>4. req[r].row.reg = customers[i].reg \/ \A j \in DOMAIN customers : req[r].row.reg = Blank \/ customers[j].reg # req[r].row.reg
      BY <3>2, <3>3 DEF FillBlank, HasReg
    <3>5. OneCustomerPerRegistration'
      <4> HIDE DEF i
      <4>1. /\ DOMAIN customers' = DOMAIN customers
            /\ \A j \in DOMAIN customers : customers'[j] = IF j = i THEN req[r].row ELSE customers[j]
        BY <2>1, <1>4, RowWrites DEF i
      <4> QED BY <4>1, <3>1, <3>4, <1>inv, <1>zero DEF OneCustomerPerRegistration
    <3>6. ReadIsFresh(r)'
      <4>1. req'[r].step = "link"
        BY <2>1, <1>4, <1>req DEF UpdateCustomer, Request
      <4> QED BY <4>1 DEF ReadIsFresh, At
    <3> QED BY <3>5, <3>6, <1>enough
  <2>2. CASE ~KeyFree(req[r].row, req[r].matched)
    <3>1. UNCHANGED customers /\ req'[r].step = "idle"
      BY <2>2, <1>4, <1>req, IdleRequest DEF UpdateCustomer
    <3> QED BY <3>1, <1>aside
  <2> QED BY <2>1, <2>2
<1>5. CASE CreateCustomer(r)
  <2>1. CASE KeyFree(req[r].row, 0)
    <3>1. HasReg(req[r].row.reg) = {}
      BY <1>5, <1>inv DEF CreateCustomer, ReadIsFresh
    <3>2. OneCustomerPerRegistration'
      <4>1. /\ DOMAIN customers' = 1..(Len(customers) + 1) /\ DOMAIN customers = 1..Len(customers)
            /\ Len(customers) \in Nat
            /\ \A i \in DOMAIN customers : customers'[i] = customers[i]
            /\ customers'[Len(customers) + 1] = req[r].row
        BY <2>1, <1>5, RowWrites, RowsSeq
      <4>2. \A j \in DOMAIN customers : req[r].row.reg = Blank \/ customers[j].reg # req[r].row.reg
        BY <3>1 DEF HasReg
      <4>3. \A j \in DOMAIN customers' : j \in DOMAIN customers \/ j = Len(customers) + 1
        BY <4>1
      <4> QED BY <4>1, <4>2, <4>3, <1>inv, <1>zero DEF OneCustomerPerRegistration
    <3>3. req'[r].step = "link"
      BY <2>1, <1>5, <1>req DEF CreateCustomer, Request
    <3>4. ReadIsFresh(r)'
      BY <3>3 DEF ReadIsFresh, At
    <3> QED BY <3>2, <3>4, <1>enough
  <2>2. CASE ~KeyFree(req[r].row, 0)
    <3>1. UNCHANGED customers /\ req'[r].step = "recover"
      BY <2>2, <1>5, <1>req DEF CreateCustomer, Request
    <3> QED BY <3>1, <1>aside
  <2> QED BY <2>1, <2>2
<1> QED
  BY <1>1, <1>2, <1>3, <1>4, <1>5 DEF Handle

(* A write that has just been worked out from the row, or that changes no  *)
(* filled-in country, is not stale.                                        *)
LEMMA FreshNotStale ==
  ASSUME TypeOK, NEW r \in Requests, At(r, "update"),
         req[r].row = Filled(req[r].matched, req[r].buyer)
  PROVE  ~Stale(r)
<1>1. req[r].matched \in DOMAIN customers /\ req[r].buyer \in Company
  BY DEF TypeOK, WellRead, At
<1>2. req[r].row.country = FillBlank(customers[req[r].matched].country, req[r].buyer.country)
  BY <1>1, FilledRow
<1> QED
  BY <1>2 DEF Stale, FillBlank

LEMMA StepShared ==
  ASSUME TypeOK, KeyUnique, InFlight, AloneInv, SharedInv, NEW r \in Requests, Submit(r) \/ Handle(r)
  PROVE  SharedInv'
<1> USE DEF Goto, Finish, Fixed
<1> SUFFICES ASSUME overlaps' <= 1 PROVE CasesFind' /\ RequestsFind' /\ StaleAlone'
  BY DEF SharedInv
<1>typ. /\ req \in [Requests -> Request] /\ req[r] \in Request /\ overlaps \in Nat
        /\ \A s \in Requests : WellRead(req[s], customers)
        /\ \A c \in Cases : done[c] => link[c] \in DOMAIN customers
  BY DEF TypeOK
<1>req. req \in [Requests -> Request] /\ req[r] \in Request
  BY <1>typ
<1>one. overlaps <= 1
  BY <1>typ, HandledInFlight, BegunRequest
<1>inv. CasesFind /\ RequestsFind /\ StaleAlone
  BY <1>one DEF SharedInv
<1>others. \A s \in Requests : s # r => req'[s] = req[s]
  BY OthersStay
<1>busy. ASSUME req[r].step \notin {"idle", "link"}
         PROVE  \A s \in Requests : s # r => ~Stale(s)
  BY <1>busy, <1>inv DEF StaleAlone
<1>aside. ASSUME UNCHANGED customers, req'[r].step \notin {"update", "link"},
                 \A s \in Requests : s # r => ~Stale(s),
                 \A c \in Cases : CaseRelies(c)' =>
                   CaseRelies(c) /\ link'[c] = link[c] /\ buyer'[c] = buyer[c]
          PROVE  CasesFind' /\ RequestsFind' /\ StaleAlone'
  <2>1. CasesFind'
    BY <1>aside, <1>inv DEF CasesFind
  <2>2. \A s \in Requests : s # r => (RequestRelies(s)' <=> RequestRelies(s)) /\ (Stale(s)' <=> Stale(s))
    BY <1>aside, <1>others DEF RequestRelies, Stale, At
  <2>3. ~RequestRelies(r)' /\ ~Stale(r)'
    BY <1>aside DEF RequestRelies, Stale, At
  <2>4. RequestsFind'
    BY <2>2, <2>3, <1>aside, <1>others, <1>inv DEF RequestsFind, At
  <2>5. StaleAlone'
    BY <2>2, <2>3, <1>aside DEF StaleAlone
  <2> QED BY <2>1, <2>4, <2>5
<1>1. CASE Submit(r)
  <2>1. \A s \in Requests : ~Stale(s)
    <3>1. CASE Quiet
      BY <3>1 DEF Quiet, Stale, At
    <3>2. CASE ~Quiet
      <4>1. overlaps = 0
        BY <3>2, <1>1, <1>typ, BegunRequest
      <4>2. \A s \in Requests : At(s, "update") => req[s].row = Filled(req[s].matched, req[s].buyer)
        BY <4>1 DEF AloneInv, ReadIsFresh
      <4> QED BY <4>2, FreshNotStale DEF Stale
    <3> QED BY <3>1, <3>2
  <2>2. \A c \in Cases : CaseRelies(c)' =>
          CaseRelies(c) /\ link'[c] = link[c] /\ buyer'[c] = buyer[c]
    <3>1. PICK d \in Cases : /\ done' = [done EXCEPT ![d] = FALSE]
                            /\ \A c \in Cases : c # d => buyer'[c] = buyer[c]
      BY <1>1, BegunRequest
    <3>2. done \in [Cases -> BOOLEAN] /\ link' = link
      BY <1>1, BegunRequest DEF TypeOK
    <3> QED BY <3>1, <3>2 DEF CaseRelies
  <2> QED BY <2>1, <2>2, <1>1, <1>aside, BegunRequest
<1>same. ASSUME UNCHANGED <<done, link, buyer>>
         PROVE  \A c \in Cases : (CaseRelies(c)' <=> CaseRelies(c)) /\ link'[c] = link[c] /\ buyer'[c] = buyer[c]
  BY <1>same DEF CaseRelies
<1>2. CASE ReadBuyer(r)
  <2>1. req'[r].step \in {"idle", "readCustomers"}
    BY <1>2, <1>req, IdleRequest DEF ReadBuyer, Request
  <2>2. UNCHANGED <<done, link, buyer, customers>> /\ req[r].step = "readBuyer"
    BY <1>2 DEF ReadBuyer, At
  <2> QED BY <2>1, <2>2, <1>same, <1>busy, <1>aside
<1>3. CASE ReadCustomers(r)
  <2> DEFINE b == req[r].buyer
  <2>1. UNCHANGED <<done, link, buyer, customers>> /\ req[r].step = "readCustomers"
    BY <1>3 DEF ReadCustomers, At
  <2>2. b \in Company
    BY <2>1, <1>typ DEF WellRead
  <2>3. CASE req' = [req EXCEPT ![r].step = "create", ![r].row = b]
    <3>1. req'[r].step = "create"
      BY <2>3, <1>req DEF Request
    <3> QED BY <3>1, <2>1, <1>same, <1>busy, <1>aside
  <2>4. ASSUME NEW i \in PickMatchingCustomer(b),
               req' = [req EXCEPT ![r].step = "update", ![r].matched = i, ![r].row = Filled(i, b)]
        PROVE  CasesFind' /\ RequestsFind' /\ StaleAlone'
    <3>1. /\ req'[r].step = "update" /\ req'[r].matched = i /\ req'[r].row = Filled(i, b)
          /\ req'[r].buyer = b
      BY <2>4, <1>req DEF Request
    <3>2. i \in DOMAIN customers
      BY PickedRow
    <3>3. /\ Filled(i, b).name = customers[i].name
          /\ Filled(i, b).country = FillBlank(customers[i].country, b.country)
      BY <3>2, <2>2, FilledRow
    <3>4. ByKey(b) => Key(customers[i]) = Key(b) /\ Key(Filled(i, b)) = Key(b)
      <4>1. ASSUME ByKey(b) PROVE customers[i].name = b.name /\ customers[i].country = b.country
        BY <4>1 DEF ByKey, PickMatchingCustomer, HasReg, HasName
      <4>2. ByKey(b) => b.country # Blank
        BY DEF ByKey
      <4> QED BY <4>1, <4>2, <3>3 DEF Key, FillBlank
    <3>5. \A s \in Requests : ~Stale(s)'
      <4>1. ~Stale(r)'
        BY <3>1, <3>3, <2>1 DEF Stale, FillBlank
      <4>2. \A s \in Requests : s # r => ~Stale(s)'
        BY <2>1, <1>busy, <1>others DEF Stale, At
      <4> QED BY <4>1, <4>2
    <3>6. CasesFind'
      BY <2>1, <1>same, <1>inv DEF CasesFind
    <3>7. RequestsFind'
      <4>1. \A s \in Requests : s # r => (RequestRelies(s)' <=> RequestRelies(s))
        BY <1>others DEF RequestRelies
      <4> QED BY <4>1, <3>1, <3>4, <2>1, <1>others, <1>inv DEF RequestsFind, RequestRelies, At
    <3> QED BY <3>5, <3>6, <3>7 DEF StaleAlone
  <2> QED BY <2>3, <2>4, <1>3 DEF ReadCustomers
<1>4. CASE UpdateCustomer(r)
  <2> DEFINE i == req[r].matched
             row == req[r].row
  <2>1. UNCHANGED <<done, link, buyer>> /\ req[r].step = "update"
    BY <1>4 DEF UpdateCustomer, At
  <2>2. CASE ~KeyFree(row, i)
    <3>1. req'[r].step = "idle" /\ UNCHANGED customers
      BY <2>2, <1>4, <1>req, IdleRequest DEF UpdateCustomer
    <3> QED BY <3>1, <2>1, <1>same, <1>busy, <1>aside
  <2>3. CASE KeyFree(row, i)
    <3>1. req'[r].step = "link" /\ req'[r].matched = i /\ req'[r].buyer = req[r].buyer
      BY <2>3, <1>4, <1>req DEF UpdateCustomer, Request
    <3>2. /\ i \in DOMAIN customers /\ row.name = customers[i].name
          /\ \A j \in DOMAIN customers : customers'[j] = IF j = i THEN row ELSE customers[j]
      BY <2>1, <2>3, <1>4, <1>typ, RowWrites DEF WellRead
    <3>3. \A c \in Cases : CaseRelies(c) => link[c] \in DOMAIN customers
      BY <1>typ DEF CaseRelies
    <3>4. \A s \in Requests : RequestRelies(s) \/ At(s, "update") => req[s].matched \in DOMAIN customers
      BY <1>typ DEF WellRead, RequestRelies, At
    <3>5. \A s \in Requests : s # r => ~Stale(s)
      BY <2>1, <1>busy
    <3>6. RequestRelies(r)' => RequestRelies(r) /\ Key(row) = Key(req[r].buyer)
      BY <3>1, <2>1, <1>inv DEF RequestRelies, RequestsFind, At
    <3> HIDE DEF i, row
    <3>enough. ASSUME \A c \in Cases : CaseRelies(c) => link[c] # i \/ Key(row) = Key(customers[i]),
                      \A s \in Requests : (s # r /\ RequestRelies(s)) =>
                        req[s].matched # i \/ Key(row) = Key(customers[i])
               PROVE  CasesFind' /\ RequestsFind'
      <4>1. \A j \in DOMAIN customers : j # i \/ Key(row) = Key(customers[i]) => Key(customers'[j]) = Key(customers[j])
        BY <3>2
      <4>2. CasesFind'
        <5>1. \A c \in Cases : CaseRelies(c) => Key(customers'[link[c]]) = Key(customers[link[c]])
          BY <4>1, <3>3, <3>enough
        <5> QED BY <5>1, <2>1, <1>same, <1>inv DEF CasesFind
      <4>3. RequestsFind'
        <5>1. \A s \in Requests : s # r => (RequestRelies(s)' <=> RequestRelies(s))
          BY <1>others DEF RequestRelies
        <5>2. \A s \in Requests : (s # r /\ RequestRelies(s)) =>
                Key(customers'[req[s].matched]) = Key(customers[req[s].matched])
          BY <4>1, <3>4, <3>enough
        <5>3. RequestRelies(r)' => Key(customers'[i]) = Key(req[r].buyer)
          BY <3>2, <3>6
        <5>4. ~At(r, "update")'
          BY <3>1 DEF At
        <5> QED BY <5>1, <5>2, <5>3, <5>4, <3>1, <1>others, <1>inv DEF RequestsFind, At
      <4> QED BY <4>2, <4>3
    <3>7. CASE Stale(r)
      <4>1. /\ \A c \in Cases : CaseRelies(c) => link[c] # i
            /\ \A s \in Requests : s # r =>
                 req[s].step \in {"idle", "link"} /\ (RequestRelies(s) => req[s].matched # i)
        BY <3>7, <1>inv DEF StaleAlone, i
      <4>2. \A s \in Requests : ~Stale(s)'
        BY <4>1, <3>1, <1>others DEF Stale, At
      <4> QED BY <4>1, <4>2, <3>enough DEF StaleAlone
    <3>8. CASE ~Stale(r) /\ customers[i].country = row.country
      <4>1. Key(row) = Key(customers[i])
        BY <3>8, <3>2 DEF Key
      <4>2. \A s \in Requests : ~Stale(s)'
        <5>1. ~Stale(r)'
          BY <3>1 DEF Stale, At
        <5>2. \A j \in DOMAIN customers : customers'[j].country = customers[j].country
          BY <3>2, <3>8
        <5>3. \A s \in Requests : s # r => ~Stale(s)'
          BY <5>2, <3>4, <3>5, <1>others DEF Stale, At
        <5> QED BY <5>1, <5>3
      <4> QED BY <4>1, <4>2, <3>enough DEF StaleAlone
    <3>9. CASE ~Stale(r) /\ customers[i].country # row.country
      <4>1. customers[i].country = Blank
        BY <3>9, <2>1 DEF Stale, At, i, row
      <4>2. \A b : ByKey(b) => Key(b) # Key(customers[i])
        BY <4>1 DEF ByKey, Key
      <4>3. \A c \in Cases : CaseRelies(c) => link[c] # i
        BY <4>2, <1>inv DEF CasesFind, CaseRelies
      <4>4. \A s \in Requests : RequestRelies(s) => req[s].matched # i
        BY <4>2, <1>inv DEF RequestsFind, RequestRelies
      <4>5. \A s \in Requests : s # r /\ At(s, "update") =>
              \A t \in Requests : t # s /\ t # r => req[t].step = "idle"
        BY <2>1, <1>one DEF InFlight, At
      <4>6. ~RequestRelies(r)'
        BY <4>4, <3>6 DEF i
      <4>7. StaleAlone'
        <5> SUFFICES ASSUME NEW s \in Requests, Stale(s)'
                     PROVE  /\ \A c \in Cases : CaseRelies(c)' => link'[c] # req'[s].matched
                            /\ \A t \in Requests : t # s =>
                                 /\ req'[t].step \in {"idle", "link"}
                                 /\ ~RequestRelies(t)'
          BY DEF StaleAlone
        <5>1. s # r
          BY <3>1 DEF Stale, At
        <5>2. req'[s] = req[s] /\ At(s, "update") /\ req[s].matched \in DOMAIN customers
          BY <5>1, <1>others, <3>4 DEF Stale, At
        <5>3. req[s].matched = i
          BY <5>1, <5>2, <3>2, <3>5 DEF Stale
        <5>4. \A c \in Cases : CaseRelies(c)' => link'[c] # i
          BY <4>3, <2>1, <1>same
        <5>5. \A t \in Requests : t # s => req'[t].step \in {"idle", "link"} /\ ~RequestRelies(t)'
          <6>1. ASSUME NEW t \in Requests, t # s, t # r
                PROVE  req'[t].step = "idle"
            BY <6>1, <5>1, <5>2, <4>5, <1>others
          <6> QED BY <6>1, <4>6, <3>1 DEF RequestRelies
        <5> QED BY <5>2, <5>3, <5>4, <5>5
      <4> QED BY <4>3, <4>4, <4>7, <3>enough
    <3> QED BY <3>7, <3>8, <3>9
  <2> QED BY <2>2, <2>3
<1>5. CASE CreateCustomer(r)
  <2>1. UNCHANGED <<done, link, buyer>> /\ req[r].step = "create" /\ req[r].row = req[r].buyer
    BY <1>5, <1>typ DEF CreateCustomer, At, WellRead
  <2>2. CASE ~KeyFree(req[r].row, 0)
    <3>1. req'[r].step = "recover" /\ UNCHANGED customers
      BY <2>2, <1>5, <1>req DEF CreateCustomer, Request
    <3> QED BY <3>1, <2>1, <1>same, <1>busy, <1>aside
  <2>3. CASE KeyFree(req[r].row, 0)
    <3>1. /\ req'[r].step = "link" /\ req'[r].matched = Len(customers) + 1
          /\ req'[r].buyer = req[r].buyer
      BY <2>3, <1>5, <1>req DEF CreateCustomer, Request
    <3>2. /\ \A j \in DOMAIN customers : customers'[j] = customers[j]
          /\ customers'[Len(customers) + 1] = req[r].buyer
      BY <2>1, <2>3, <1>5, RowWrites
    <3>3. CasesFind'
      BY <3>2, <2>1, <1>same, <1>typ, <1>inv DEF CasesFind, CaseRelies
    <3>4. \A s \in Requests : (RequestRelies(s) \/ At(s, "update")) => req[s].matched \in DOMAIN customers
      BY <1>typ DEF WellRead, RequestRelies, At
    <3>5. RequestsFind'
      <4>1. \A s \in Requests : s # r => (RequestRelies(s)' <=> RequestRelies(s))
        BY <1>others DEF RequestRelies
      <4> QED BY <4>1, <3>1, <3>2, <3>4, <1>others, <1>inv DEF RequestsFind, At
    <3>6. \A s \in Requests : ~Stale(s)'
      BY <2>1, <3>1, <3>2, <3>4, <1>busy, <1>others DEF Stale, At
    <3> QED BY <3>3, <3>5, <3>6 DEF StaleAlone
  <2> QED BY <2>2, <2>3
<1>6. CASE Recover(r)
  <2>1. UNCHANGED <<done, link, buyer, customers>> /\ req[r].step = "recover" /\ req[r].row = req[r].buyer
    BY <1>6, <1>typ DEF Recover, At, WellRead
  <2>2. CASE Finish(r)
    <3>1. req'[r].step = "idle"
      BY <2>2, <1>req, IdleRequest
    <3> QED BY <3>1, <2>1, <1>same, <1>busy, <1>aside
  <2>3. ASSUME NEW i \in DOMAIN customers, Key(customers[i]) = Key(req[r].buyer),
               req' = [req EXCEPT ![r].step = "link", ![r].matched = i]
        PROVE  CasesFind' /\ RequestsFind' /\ StaleAlone'
    <3>1. req'[r].step = "link" /\ req'[r].matched = i /\ req'[r].buyer = req[r].buyer
      BY <2>3, <1>req DEF Request
    <3>2. CasesFind'
      BY <2>1, <1>same, <1>inv DEF CasesFind
    <3>3. RequestsFind'
      <4>1. \A s \in Requests : s # r => (RequestRelies(s)' <=> RequestRelies(s))
        BY <1>others DEF RequestRelies
      <4> QED BY <4>1, <3>1, <2>1, <2>3, <1>others, <1>inv DEF RequestsFind, At
    <3>4. \A s \in Requests : ~Stale(s)'
      BY <2>1, <3>1, <1>busy, <1>others DEF Stale, At
    <3> QED BY <3>2, <3>3, <3>4 DEF StaleAlone
  <2> QED BY <2>1, <2>2, <2>3, <1>6 DEF Recover, Key
<1>7. CASE Link(r)
  <2>d. PICK d \in Cases : d = req[r].case
    BY <1>7, <1>typ DEF Link, At, WellRead
  <2>1. UNCHANGED <<customers, buyer>> /\ req[r].step = "link" /\ req'[r].step = "idle"
    BY <1>7, <1>req, IdleRequest DEF Link, At
  <2>2. /\ \A c \in Cases : c # d => done'[c] = done[c] /\ link'[c] = link[c]
        /\ link'[d] = req[r].matched /\ done'[d] = (req[r].buyer = buyer[d])
    BY <1>7, <2>d DEF Link, TypeOK
  <2>3. CaseRelies(d)' => RequestRelies(r) /\ req[r].buyer = buyer[d]
    <3> SUFFICES ASSUME done'[d], ByKey(buyer'[d]) PROVE RequestRelies(r) /\ req[r].buyer = buyer[d]
      BY DEF CaseRelies
    <3>1. req[r].buyer = buyer[d]
      BY <2>2
    <3>2. ByKey(req[r].buyer)
      BY <3>1, <2>1
    <3> QED BY <3>1, <3>2, <2>1 DEF RequestRelies
  <2>4. \A c \in Cases : c # d => (CaseRelies(c)' <=> CaseRelies(c))
    BY <2>1, <2>2 DEF CaseRelies
  <2>5. CasesFind'
    <3> SUFFICES ASSUME NEW c \in Cases, CaseRelies(c)'
                 PROVE  Key(customers[link'[c]]) = Key(buyer[c])
      BY <2>1 DEF CasesFind
    <3>1. CASE c = d
      BY <3>1, <2>2, <2>3, <1>inv DEF RequestsFind
    <3>2. CASE c # d
      BY <3>2, <2>2, <2>4, <1>inv DEF CasesFind
    <3> QED BY <3>1, <3>2
  <2>6. \A s \in Requests : s # r => (RequestRelies(s)' <=> RequestRelies(s)) /\ (Stale(s)' <=> Stale(s))
    BY <2>1, <1>others DEF RequestRelies, Stale, At
  <2>7. ~RequestRelies(r)' /\ ~Stale(r)'
    BY <2>1 DEF RequestRelies, Stale, At
  <2>8. RequestsFind'
    BY <2>1, <2>6, <2>7, <1>others, <1>inv DEF RequestsFind, At
  <2>9. StaleAlone'
    <3> SUFFICES ASSUME NEW s \in Requests, Stale(s)'
                 PROVE  /\ \A c \in Cases : CaseRelies(c)' => link'[c] # req'[s].matched
                        /\ \A t \in Requests : t # s =>
                             /\ req'[t].step \in {"idle", "link"}
                             /\ RequestRelies(t)' => req'[t].matched # req'[s].matched
      BY DEF StaleAlone
    <3>1. s # r /\ Stale(s) /\ req'[s] = req[s]
      BY <2>6, <2>7, <1>others
    <3>2. /\ \A c \in Cases : CaseRelies(c) => link[c] # req[s].matched
          /\ \A t \in Requests : t # s =>
               /\ req[t].step \in {"idle", "link"}
               /\ RequestRelies(t) => req[t].matched # req[s].matched
      BY <3>1, <1>inv DEF StaleAlone
    <3>3. ASSUME NEW c \in Cases, CaseRelies(c)' PROVE link'[c] # req[s].matched
      <4>1. CASE c = d
        BY <4>1, <3>1, <3>2, <3>3, <2>2, <2>3
      <4>2. CASE c # d
        BY <4>2, <3>2, <3>3, <2>2, <2>4
      <4> QED BY <4>1, <4>2
    <3>4. ASSUME NEW t \in Requests, t # s
          PROVE  /\ req'[t].step \in {"idle", "link"}
                 /\ RequestRelies(t)' => req'[t].matched # req[s].matched
      <4>1. CASE t = r
        BY <4>1, <2>1, <2>7
      <4>2. CASE t # r
        BY <4>2, <3>2, <3>4, <2>6, <1>others
      <4> QED BY <4>1, <4>2
    <3> QED BY <3>1, <3>3, <3>4
  <2> QED BY <2>5, <2>8, <2>9
<1> QED
  BY <1>1, <1>2, <1>3, <1>4, <1>5, <1>6, <1>7 DEF Handle

LEMMA InitInv == Init => IInv
<1> SUFFICES ASSUME Init PROVE IInv
  OBVIOUS
<1>1. \A r \in Requests : At(r, "idle")
  BY IdleRequest DEF Init, At
<1>2. DOMAIN customers = {}
  BY DEF Init
<1>3. \A c \in Cases : ~done[c]
  BY DEF Init
<1>4. KeyUnique /\ OneCustomerPerRegistration
  BY <1>2 DEF KeyUnique, OneCustomerPerRegistration
<1>5. InFlight
  BY <1>1 DEF InFlight
<1>6. AloneInv
  BY <1>1, <1>4 DEF AloneInv, ReadIsFresh, At
<1>7. SharedInv
  BY <1>1, <1>3 DEF SharedInv, CasesFind, RequestsFind, StaleAlone, CaseRelies, RequestRelies, Stale, At
<1> QED
  BY <1>4, <1>5, <1>6, <1>7, InitTyped DEF IInv

LEMMA StepInv == IInv /\ [Next]_vars => IInv'
<1> SUFFICES ASSUME IInv, [Next]_vars PROVE IInv'
  OBVIOUS
<1>1. CASE Next
  BY <1>1, StepTyped, StepKey, StepInFlight, StepAlone, StepShared DEF IInv, Next
<1>2. CASE UNCHANGED vars
  <2> USE <1>2 DEF vars
  <2>1. TypeOK'
    BY DEF IInv, TypeOK
  <2>2. KeyUnique'
    BY DEF IInv, KeyUnique
  <2>3. InFlight'
    BY DEF IInv, InFlight, At
  <2>4. AloneInv'
    BY DEF IInv, AloneInv, ReadIsFresh, At, OneCustomerPerRegistration, HasReg, Filled
  <2>5. SharedInv'
    BY DEF IInv, SharedInv, CasesFind, RequestsFind, StaleAlone, CaseRelies, RequestRelies, Stale, At
  <2> QED BY <2>1, <2>2, <2>3, <2>4, <2>5 DEF IInv
<1> QED
  BY <1>1, <1>2

(* Every reachable state of the register satisfies the invariant.          *)
THEOREM Invariance == Spec => []IInv
<1> QED
  BY InitInv, StepInv, PTL DEF Spec

(* What an enrolment has read, and what it writes, stays in its type: a    *)
(* matched customer is a row that is there, a done case is linked to one.  *)
THEOREM TypeCorrect == Spec => []TypeOK
<1>1. IInv => TypeOK
  BY DEF IInv
<1> QED
  BY <1>1, Invariance, PTL

(* The register never holds two rows of one name and country, however many *)
(* enrolments read and write it at the same time.                          *)
THEOREM NoRowTwice == Spec => []KeyUnique
<1>1. IInv => KeyUnique
  BY DEF IInv
<1> QED
  BY <1>1, Invariance, PTL

(* A company is one customer: enrolments handled one after the other never *)
(* register a registration number twice, and with at most one overlap two  *)
(* enrolled cases of equal buyers share their customer and its limit.      *)
THEOREM CompanyIsOneCustomer == Spec => []OneCustomerPerCompany
<1>1. ASSUME IInv PROVE OneCustomerPerCompany
  <2>1. OneCustomerPerRegistration
    BY <1>1 DEF IInv, AloneInv, OneCustomerPerRegistration
  <2>2. SameBuyerSharesCustomer
    <3> SUFFICES ASSUME overlaps <= 1, NEW c \in Cases, NEW d \in Cases, done[c], done[d],
                        buyer[c] = buyer[d], ByKey(buyer[c])
                 PROVE  link[c] = link[d]
      BY DEF SameBuyerSharesCustomer, ByKey
    <3>1. CaseRelies(c) /\ CaseRelies(d)
      BY DEF CaseRelies
    <3>2. Key(customers[link[c]]) = Key(buyer[c]) /\ Key(customers[link[d]]) = Key(buyer[d])
      BY <3>1, <1>1 DEF IInv, SharedInv, CasesFind
    <3>3. link[c] \in DOMAIN customers /\ link[d] \in DOMAIN customers
      BY <1>1 DEF IInv, TypeOK
    <3> QED BY <3>2, <3>3, <1>1 DEF IInv, KeyUnique
  <2> QED BY <2>1, <2>2 DEF OneCustomerPerCompany
<1> QED
  BY <1>1, Invariance, PTL

(* Handled one after the other, enrolments only fill in blanks: no write   *)
(* changes a customer's name or a country or number it already has.        *)
THEOREM NothingTakenBack == Spec => FilledStays
<1> DEFINE Stays == \A i \in DOMAIN customers :
             /\ customers'[i].name = customers[i].name
             /\ customers[i].country # Blank => customers'[i].country = customers[i].country
             /\ customers[i].reg # Blank => customers'[i].reg = customers[i].reg
<1>1. ASSUME IInv, [Next]_vars, overlaps = 0 PROVE Stays
  <2>1. CASE UNCHANGED customers
    BY <2>1
  <2>2. ASSUME NEW r \in Requests, UpdateCustomer(r), KeyFree(req[r].row, req[r].matched) PROVE Stays
    <3> DEFINE k == req[r].matched
    <3>1. k \in DOMAIN customers /\ req[r].buyer \in Company
      BY <1>1, <2>2 DEF IInv, TypeOK, WellRead, UpdateCustomer, At
    <3>2. req[r].row = Filled(k, req[r].buyer)
      BY <1>1, <2>2 DEF IInv, AloneInv, ReadIsFresh, UpdateCustomer
    <3>3. /\ req[r].row.name = customers[k].name
          /\ req[r].row.country = FillBlank(customers[k].country, req[r].buyer.country)
          /\ req[r].row.reg = FillBlank(customers[k].reg, req[r].buyer.reg)
      BY <1>1, <3>1, <3>2, FilledRow DEF IInv
    <3>4. \A i \in DOMAIN customers : customers'[i] = IF i = k THEN req[r].row ELSE customers[i]
      BY <1>1, <2>2, RowWrites DEF IInv
    <3> HIDE DEF k
    <3> QED BY <3>3, <3>4 DEF FillBlank
  <2>3. ASSUME NEW r \in Requests, CreateCustomer(r), KeyFree(req[r].row, 0) PROVE Stays
    BY <1>1, <2>3, RowWrites DEF IInv
  <2>4. CASE Next
    <3>1. PICK r \in Requests : Submit(r) \/ Handle(r)
      BY <2>4 DEF Next
    <3>2. TypeOK
      BY <1>1 DEF IInv
    <3>3. UpdateCustomer(r) => UNCHANGED customers \/ KeyFree(req[r].row, req[r].matched)
      BY <3>2, RowWrites
    <3>4. CreateCustomer(r) => UNCHANGED customers \/ KeyFree(req[r].row, 0)
      BY <3>2, RowWrites
    <3>5. Submit(r) \/ ReadBuyer(r) \/ ReadCustomers(r) \/ Recover(r) \/ Link(r) => UNCHANGED customers
      BY DEF Submit, SaveOther, UpsertBuyer, Begin, ReadBuyer, ReadCustomers, Recover, Link
    <3> HIDE DEF Stays
    <3> QED BY <3>1, <3>3, <3>4, <3>5, <2>1, <2>2, <2>3 DEF Handle
  <2>5. CASE UNCHANGED vars
    BY <2>1, <2>5 DEF vars
  <2> HIDE DEF Stays
  <2> QED BY <1>1, <2>4, <2>5
<1>2. IInv /\ [Next]_vars => [overlaps = 0 => Stays]_vars
  BY <1>1
<1> QED
  BY <1>2, Invariance, PTL DEF Spec, FilledStays
=============================================================================
