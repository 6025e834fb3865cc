----------------------- MODULE ContractChangesProofs ------------------------
(***************************************************************************)
(* Proofs about ContractChanges, for every number of requests, of rows and *)
(* of overlaps.  That the newest quote is in force and that an order takes *)
(* effect only with its acknowledgements needs nothing of how requests     *)
(* overlap.  That the newest contract version is in force, and that an     *)
(* applied order stays applied, needs requests handled one after another:  *)
(* the invariant there says what the one request in flight has read.       *)
(***************************************************************************)
EXTENDS ContractChanges, SequenceTheorems, TLAPS

Order == [to : Terms, sensitive : BOOLEAN, customer : BOOLEAN, internal : BOOLEAN,
          approved : BOOLEAN, status : Pending \cup {"APPLIED"}]

Version == [status : {Active, Superseded}, terms : Terms]

SnapshotSteps == {"snapshot", "closeVersions", "readLast", "createVersion"}
ApplySteps == SnapshotSteps \cup {"patch", "markApplied"}
Steps == {"idle", "closeQuote", "createQuote", "createOrder", "ack", "snapshot", "closeVersions",
          "readLast", "createVersion", "patch", "markApplied"}

Request == [step : Steps, number : Nat, order : Nat, ack : AckTypes, to : Terms \cup {NoTerms},
            status : Pending, sensitive : BOOLEAN]

(* What a request has read names orders that exist, and terms where it is  *)
(* to write some.                                                          *)
WellRead(q, rows) ==
  /\ q.step \in {"ack", "patch", "markApplied"} => q.order \in DOMAIN rows
  /\ q.step \in SnapshotSteps => q.order = 0 \/ q.order \in DOMAIN rows
  /\ q.step \in {"createOrder", "closeVersions", "readLast", "createVersion"} => q.to \in Terms

TypeOK ==
  /\ quotes \in Seq({Active, Superseded})
  /\ orders \in Seq(Order)
  /\ contract \in Terms
  /\ versions \in Seq(Version)
  /\ req \in [Requests -> Request]
  /\ overlaps \in Nat
  /\ \A r \in Requests : WellRead(req[r], orders)

(* No older quote is in force.                                             *)
OldQuotesClosed == \A i \in DOMAIN quotes : quotes[i] = Active => i = Len(quotes)

(* A request about to create the next quote has closed the newest.         *)
NewestClosedFirst == \A r \in Requests :
  /\ req[r].step \in {"closeQuote", "createQuote"} => req[r].number \in 1..(Len(quotes) + 1)
  /\ At(r, "createQuote") /\ req[r].number = Len(quotes) + 1 /\ quotes # <<>>
       => quotes[Len(quotes)] = Superseded

(* When the newest quote is closed, a request is about to create the next. *)
NextQuoteOwed ==
  quotes # <<>> /\ quotes[Len(quotes)] = Superseded
    => \E r \in Requests : At(r, "createQuote") /\ req[r].number = Len(quotes) + 1

QuotesInv == OldQuotesClosed /\ NewestClosedFirst /\ NextQuoteOwed

(* An order being applied has its acknowledgements, and so has an applied  *)
(* one.                                                                    *)
ApplyingAcked == \A r \in Requests :
  req[r].step \in ApplySteps /\ req[r].order # 0 => MayApply(orders[req[r].order])

AppliedAcked == \A i \in DOMAIN orders : orders[i].status = "APPLIED" => MayApply(orders[i])

AcksInv == ApplyingAcked /\ AppliedAcked

(* Requests handled one after the other: one is in flight, and what it has *)
(* read still is so.                                                       *)
Alone == \A r, s \in Requests : At(r, "idle") \/ At(s, "idle") \/ r = s

OneInForce == \A i \in DOMAIN versions : versions[i].status = Active <=> i = Len(versions)
NoneInForce == \A i \in DOMAIN versions : versions[i].status = Superseded

(* What the one request in flight has read.                                *)
ReadIsFresh(r) ==
  /\ At(r, "ack") => orders[req[r].order].status \in Pending
  /\ At(r, "snapshot") => OneInForce
  /\ At(r, "closeVersions") => req[r].to = contract
  /\ At(r, "readLast") => NoneInForce /\ req[r].to = contract
  /\ At(r, "createVersion") =>
       NoneInForce /\ req[r].to = contract /\ req[r].number = Len(versions) + 1

(* With no snapshot under way, the newest version shows the contract.      *)
SnapshotTaken ==
  (\A r \in Requests : req[r].step \notin SnapshotSteps)
    => OneInForce /\ versions[Len(versions)].terms = contract

AloneInv ==
  overlaps = 0 =>
    /\ Alone
    /\ versions # <<>>
    /\ SnapshotTaken
    /\ \A r \in Requests : ReadIsFresh(r)

IInv == TypeOK /\ QuotesInv /\ AcksInv /\ AloneInv

(* A function on 1..n is a sequence of n elements.                         *)
LEMMA MappedSeq ==
  ASSUME NEW S, NEW n \in Nat, NEW f \in [1..n -> S]
  PROVE  f \in Seq(S) /\ Len(f) = n
OBVIOUS

(* The step of the request r, in a well-typed state.                       *)
Moves(r) == (Submit(r) /\ CountOverlap) \/ (Handle(r) /\ UNCHANGED overlaps)

LEMMA OthersStay ==
  ASSUME TypeOK, NEW r \in Requests, Moves(r)
  PROVE  \A s \in Requests : s # r => req'[s] = req[s]
BY DEF Moves, TypeOK, Submit, Handle, ReadLastQuote, CloseQuote, CreateQuote, CountOrders, CreateOrder,
   ReadForAck, Acknowledge, SaveContract, ReadForApply, PatchContract, ReadContract, CloseVersions,
   ReadLastVersion, CreateVersion, MarkApplied, Goto, Finish, rowVars

LEMMA IdleRequest == Idle \in [step : {"idle"}, number : {0}, order : {0}, ack : AckTypes,
                               to : {NoTerms}, status : Pending, sensitive : BOOLEAN]
BY DEF Idle, AckTypes, Pending

(* Orders are only added, and keep what is acknowledged; versions are only *)
(* added.                                                                  *)
LEMMA RowsGrow ==
  ASSUME TypeOK, NEW r \in Requests, Moves(r)
  PROVE  /\ DOMAIN orders \subseteq DOMAIN orders'
         /\ \A i \in DOMAIN orders :
              /\ orders'[i].customer = TRUE \/ orders'[i].customer = orders[i].customer
              /\ orders'[i].internal = TRUE \/ orders'[i].internal = orders[i].internal
              /\ orders'[i].approved = TRUE \/ orders'[i].approved = orders[i].approved
              /\ orders'[i].sensitive = orders[i].sensitive
<1> USE DEF rowVars
<1>ord. \A i \in DOMAIN orders : orders[i] \in Order
  BY DEF TypeOK
<1>1. CASE UNCHANGED orders
  BY <1>1
<1>2. CASE CreateOrder(r)
  BY <1>2 DEF CreateOrder, TypeOK
<1>3. CASE Acknowledge(r)
  <2> DEFINE i == req[r].order
  <2>1. i \in DOMAIN orders
    BY <1>3 DEF Acknowledge, TypeOK, WellRead, At
  <2>2. CASE orders' = [orders EXCEPT ![i].customer = TRUE]
    BY <2>1, <2>2, <1>ord DEF Order
  <2>3. CASE orders' = [orders EXCEPT ![i].internal = TRUE, ![i].status = req[r].status]
    BY <2>1, <2>3, <1>ord DEF Order
  <2>4. CASE orders' = [orders EXCEPT ![i].approved = TRUE, ![i].status = "PENDING_ACK"]
    BY <2>1, <2>4, <1>ord DEF Order
  <2> QED BY <1>3, <2>2, <2>3, <2>4 DEF Acknowledge
<1>4. CASE MarkApplied(r)
  BY <1>4, <1>ord DEF MarkApplied, TypeOK, WellRead, At, Order
<1> QED
  BY <1>1, <1>2, <1>3, <1>4 DEF Moves, Submit, Handle, ReadLastQuote, CloseQuote, CreateQuote,
     CountOrders, ReadForAck, SaveContract, ReadForApply, PatchContract, ReadContract,
     CloseVersions, ReadLastVersion, CreateVersion

LEMMA InitTyped == Init => TypeOK
BY IdleRequest, ContractChangesAssumption
   DEF Init, TypeOK, WellRead, Request, Version, Active, Superseded, SnapshotSteps, Steps

(* The rows alone.                                                         *)
RowsTyped ==
  /\ quotes \in Seq({Active, Superseded})
  /\ orders \in Seq(Order)
  /\ contract \in Terms
  /\ versions \in Seq(Version)

LEMMA StepTyped ==
  ASSUME TypeOK, NEW r \in Requests, Moves(r)
  PROVE  TypeOK'
<1> USE DEF rowVars, Goto, Finish
<1>typ. /\ req \in [Requests -> Request]
        /\ \A s \in Requests : WellRead(req[s], orders)
        /\ RowsTyped /\ overlaps \in Nat
  BY DEF TypeOK, RowsTyped
<1>dom. DOMAIN orders \subseteq DOMAIN orders'
  BY RowsGrow
<1>over. overlaps' \in Nat
  BY <1>typ DEF Moves, CountOverlap
<1>moved. ASSUME NEW q, req' = [req EXCEPT ![r] = q], q \in Request, WellRead(q, orders'), RowsTyped'
          PROVE  TypeOK'
  <2>1. req' \in [Requests -> Request]
    BY <1>moved, <1>typ
  <2>2. \A s \in Requests : WellRead(req'[s], orders')
    BY <1>moved, <1>typ, <1>dom DEF WellRead
  <2> QED BY <2>1, <2>2, <1>over, <1>moved DEF TypeOK, RowsTyped
<1>same. ASSUME UNCHANGED req, RowsTyped' PROVE TypeOK'
  BY <1>same, <1>typ, <1>dom, <1>over DEF TypeOK, RowsTyped, WellRead
<1>fin. ASSUME Finish(r), RowsTyped' PROVE TypeOK'
  BY <1>fin, <1>moved DEF Idle, AckTypes, Pending, Request, Steps, WellRead, SnapshotSteps
<1>rows. /\ \A i \in DOMAIN orders : orders[i] \in Order
         /\ \A i \in DOMAIN versions : versions[i] \in Version
  BY <1>typ DEF RowsTyped
<1>len. /\ Len(quotes) \in Nat /\ Len(orders) \in Nat /\ Len(versions) \in Nat
        /\ Len(quotes) + 1 \in Nat /\ Len(orders) + 1 \in Nat /\ Len(versions) + 1 \in Nat
        /\ DOMAIN orders \subseteq Nat
  BY <1>typ DEF RowsTyped
<1>1. CASE ReadLastQuote(r)
  <2> DEFINE q == [Idle EXCEPT !.step = "closeQuote", !.number = Len(quotes) + 1]
  <2>1. q \in Request /\ WellRead(q, orders')
    BY <1>len DEF Idle, AckTypes, Pending, Request, Steps, WellRead, SnapshotSteps
  <2> QED BY <2>1, <1>1, <1>moved, <1>typ DEF ReadLastQuote, RowsTyped
<1>2. ASSUME NEW t \in Terms, SaveContract(r, t) PROVE TypeOK'
  <2> DEFINE q == [Idle EXCEPT !.step = "snapshot"]
  <2>1. q \in Request /\ WellRead(q, orders')
    BY IdleRequest DEF Request, Steps, WellRead, SnapshotSteps, ApplySteps
  <2> QED BY <2>1, <1>2, <1>moved, <1>typ DEF SaveContract, RowsTyped
<1>3. ASSUME NEW t \in Terms, NEW b \in BOOLEAN, CountOrders(r, t, b) PROVE TypeOK'
  <2> DEFINE q == [Idle EXCEPT !.step = "createOrder", !.number = Len(orders) + 1,
                               !.to = t, !.sensitive = b]
  <2>1. q \in Request /\ WellRead(q, orders')
    BY <1>len DEF Idle, AckTypes, Pending, Request, Steps, WellRead, SnapshotSteps
  <2> QED BY <2>1, <1>3, <1>moved, <1>typ DEF CountOrders, RowsTyped
<1>4. ASSUME NEW i \in DOMAIN orders, ReadForApply(r, i) PROVE TypeOK'
  <2> DEFINE q == [Idle EXCEPT !.step = "patch", !.order = i]
  <2>1. q \in Request /\ WellRead(q, orders')
    BY <1>4, <1>dom, <1>typ, <1>len DEF Idle, AckTypes, Pending, Request, Steps, WellRead, SnapshotSteps, ApplySteps, RowsTyped
  <2> QED BY <2>1, <1>4, <1>moved, <1>same, <1>typ DEF ReadForApply, RowsTyped
<1>5. ASSUME NEW i \in DOMAIN orders, NEW ack \in AckTypes, ReadForAck(r, i, ack) PROVE TypeOK'
  <2> DEFINE q == [Idle EXCEPT !.step = "ack", !.order = i, !.ack = ack,
                               !.status = StatusAfterInternal(orders[i])]
  <2>1. q \in Request /\ WellRead(q, orders')
    BY <1>5, <1>dom, <1>typ, <1>len
       DEF Idle, AckTypes, Request, Steps, WellRead, SnapshotSteps, RowsTyped, StatusAfterInternal, Pending
  <2> QED BY <2>1, <1>5, <1>moved, <1>same, <1>typ DEF ReadForAck, RowsTyped
<1>goto. ASSUME NEW step \in Steps, Goto(r, step), WellRead([req[r] EXCEPT !.step = step], orders'), RowsTyped'
         PROVE  TypeOK'
  <2>1. /\ req' = [req EXCEPT ![r] = [req[r] EXCEPT !.step = step]]
        /\ [req[r] EXCEPT !.step = step] \in Request
    BY <1>goto, <1>typ DEF Request
  <2> QED BY <2>1, <1>goto, <1>moved
<1>6. CASE CloseQuote(r)
  <2>1. WellRead([req[r] EXCEPT !.step = "createQuote"], orders')
    BY <1>typ DEF WellRead, SnapshotSteps, Request
  <2>2. RowsTyped'
    <3>1. quotes' \in [1..Len(quotes) -> {Active, Superseded}]
      BY <1>6, <1>typ DEF CloseQuote, RowsTyped
    <3> QED BY <3>1, <1>6, <1>typ, <1>len, MappedSeq DEF CloseQuote, RowsTyped
  <2> QED BY <2>1, <2>2, <1>6, <1>goto DEF CloseQuote, Steps
<1>7. CASE CreateQuote(r)
  BY <1>7, <1>fin, <1>typ DEF CreateQuote, RowsTyped
<1>8. CASE CreateOrder(r)
  <2>1. NewOrder(req[r].to, req[r].sensitive) \in Order
    BY <1>8, <1>typ DEF CreateOrder, At, WellRead, NewOrder, Order, Request, Pending
  <2> QED BY <2>1, <1>8, <1>fin, <1>typ DEF CreateOrder, RowsTyped
<1>9. CASE Acknowledge(r)
  <2> DEFINE i == req[r].order
  <2>1. i \in DOMAIN orders /\ orders[i] \in Order /\ req[r].status \in Pending
    BY <1>9, <1>typ DEF Acknowledge, WellRead, At, RowsTyped, Request
  <2>2. \A o \in Order : [orders EXCEPT ![i] = o] \in Seq(Order)
    BY <2>1, <1>typ, ExceptSeq DEF RowsTyped
  <2>3. ASSUME orders' = [orders EXCEPT ![i].customer = TRUE] PROVE orders' \in Seq(Order)
    <3> DEFINE o == [orders[i] EXCEPT !.customer = TRUE]
    <3>1. o \in Order
      BY <2>1 DEF Order
    <3>2. orders' = [orders EXCEPT ![i] = o]
      BY <2>3
    <3> HIDE DEF o
    <3> QED BY <3>1, <3>2, <2>2
  <2>4. ASSUME orders' = [orders EXCEPT ![i].internal = TRUE, ![i].status = req[r].status] PROVE orders' \in Seq(Order)
    <3> DEFINE o == [orders[i] EXCEPT !.internal = TRUE, !.status = req[r].status]
    <3>1. o \in Order
      BY <2>1 DEF Order
    <3>2. orders' = [orders EXCEPT ![i] = o]
      BY <2>4
    <3> HIDE DEF o
    <3> QED BY <3>1, <3>2, <2>2
  <2>5. ASSUME orders' = [orders EXCEPT ![i].approved = TRUE, ![i].status = "PENDING_ACK"] PROVE orders' \in Seq(Order)
    <3> DEFINE o == [orders[i] EXCEPT !.approved = TRUE, !.status = "PENDING_ACK"]
    <3>1. o \in Order
      BY <2>1 DEF Order, Pending
    <3>2. orders' = [orders EXCEPT ![i] = o]
      BY <2>5
    <3> HIDE DEF o
    <3> QED BY <3>1, <3>2, <2>2
  <2>6. RowsTyped'
    <3>1. orders' \in Seq(Order)
      BY <1>9, <2>3, <2>4, <2>5 DEF Acknowledge
    <3> QED BY <3>1, <1>9, <1>typ DEF Acknowledge, RowsTyped
  <2> QED BY <2>6, <1>9, <1>fin DEF Acknowledge
<1>10. CASE PatchContract(r)
  <2>1. WellRead([req[r] EXCEPT !.step = "snapshot"], orders')
    BY <1>10, <1>typ, <1>dom DEF PatchContract, At, WellRead, SnapshotSteps, Request
  <2>2. orders[req[r].order].to \in Terms
    BY <1>10, <1>typ, <1>rows DEF PatchContract, At, WellRead, Order
  <2> QED BY <2>1, <2>2, <1>10, <1>goto, <1>typ DEF PatchContract, Steps, ApplySteps, SnapshotSteps, RowsTyped
<1>11. CASE ReadContract(r)
  <2> DEFINE q == [req[r] EXCEPT !.step = "closeVersions", !.to = contract]
  <2>1. q \in Request /\ WellRead(q, orders')
    BY <1>11, <1>typ, <1>dom
       DEF ReadContract, At, WellRead, RowsTyped, Request, Steps, ApplySteps, SnapshotSteps
  <2>2. req' = [req EXCEPT ![r] = q]
    BY <1>11, <1>typ DEF ReadContract
  <2> QED BY <2>1, <2>2, <1>11, <1>moved, <1>typ DEF ReadContract, RowsTyped
<1>12. CASE CloseVersions(r)
  <2>1. WellRead([req[r] EXCEPT !.step = "readLast"], orders')
    BY <1>12, <1>typ, <1>dom DEF CloseVersions, At, WellRead, SnapshotSteps, Request
  <2>2. \A i \in DOMAIN versions : [versions[i] EXCEPT !.status = Superseded] \in Version
    BY <1>rows DEF Version, Active, Superseded
  <2>3. versions' \in [1..Len(versions) -> Version]
    BY <2>2, <1>12, <1>typ DEF CloseVersions, RowsTyped
  <2>4. RowsTyped'
    BY <2>3, <1>12, <1>typ, <1>len, MappedSeq DEF CloseVersions, RowsTyped
  <2> QED BY <2>1, <2>4, <1>12, <1>goto DEF CloseVersions, Steps, ApplySteps, SnapshotSteps
<1>13. CASE ReadLastVersion(r)
  <2> DEFINE q == [req[r] EXCEPT !.step = "createVersion", !.number = Len(versions) + 1]
  <2>1. q \in Request /\ WellRead(q, orders')
    BY <1>13, <1>typ, <1>dom, <1>len, LenProperties
       DEF ReadLastVersion, At, WellRead, RowsTyped, Request, Steps, ApplySteps, SnapshotSteps
  <2>2. req' = [req EXCEPT ![r] = q]
    BY <1>13, <1>typ DEF ReadLastVersion
  <2> QED BY <2>1, <2>2, <1>13, <1>moved, <1>typ DEF ReadLastVersion, RowsTyped
<1>14. CASE CreateVersion(r)
  <2>1. [status |-> Active, terms |-> req[r].to] \in Version
    BY <1>14, <1>typ DEF CreateVersion, At, WellRead, Version
  <2>2. RowsTyped'
    BY <2>1, <1>14, <1>typ DEF CreateVersion, RowsTyped
  <2>3. req[r].order # 0 => WellRead([req[r] EXCEPT !.step = "markApplied"], orders')
    BY <1>14, <1>typ, <1>dom DEF CreateVersion, At, WellRead, SnapshotSteps, Request
  <2> QED BY <2>2, <2>3, <1>14, <1>fin, <1>goto DEF CreateVersion, Steps, ApplySteps
<1>15. CASE MarkApplied(r)
  <2>1. [orders[req[r].order] EXCEPT !.status = "APPLIED"] \in Order
    BY <1>15, <1>typ, <1>rows DEF MarkApplied, At, WellRead, Order
  <2>2. RowsTyped'
    BY <2>1, <1>15, <1>typ, ExceptSeq DEF MarkApplied, At, WellRead, RowsTyped
  <2> QED BY <2>2, <1>15, <1>fin DEF MarkApplied
<1> QED
  BY <1>1, <1>2, <1>3, <1>4, <1>5, <1>6, <1>7, <1>8, <1>9, <1>10, <1>11, <1>12, <1>13, <1>14, <1>15
     DEF Moves, Submit, Handle

(* The quotes through one step of one request.                             *)
LEMMA StepQuotes ==
  ASSUME TypeOK, QuotesInv, NEW r \in Requests, Moves(r)
  PROVE  QuotesInv'
<1> USE DEF rowVars, Goto, Finish, Active, Superseded, OldQuotesClosed, NewestClosedFirst, NextQuoteOwed
<1>typ. /\ req \in [Requests -> Request] /\ quotes \in Seq({Active, Superseded})
        /\ Len(quotes) \in Nat /\ DOMAIN quotes = 1..Len(quotes)
  BY DEF TypeOK
<1>others. \A s \in Requests : s # r => req'[s] = req[s]
  BY OthersStay
<1>inv. OldQuotesClosed /\ NewestClosedFirst /\ NextQuoteOwed
  BY DEF QuotesInv
<1>1. CASE CloseQuote(r)
  <2> DEFINE n == req[r].number
  <2>1. /\ n \in 1..(Len(quotes) + 1)
        /\ req'[r].step = "createQuote" /\ req'[r].number = n
    BY <1>1, <1>inv, <1>typ DEF CloseQuote, At, Request
  <2>2. /\ quotes' \in [1..Len(quotes) -> {Active, Superseded}]
        /\ \A i \in 1..Len(quotes) : quotes'[i] = IF i = n - 1 THEN Superseded ELSE quotes[i]
    BY <1>1, <1>typ DEF CloseQuote
  <2>3. quotes' \in Seq({Active, Superseded}) /\ Len(quotes') = Len(quotes)
    BY <2>2, <1>typ, MappedSeq
  <2>4. DOMAIN quotes' = 1..Len(quotes) /\ (quotes' = <<>> <=> quotes = <<>>)
    BY <2>2, <2>3, <1>typ
  <2>5. OldQuotesClosed'
    BY <2>2, <2>3, <2>4, <1>inv, <1>typ
  <2>6. NewestClosedFirst'
    <3> SUFFICES ASSUME NEW s \in Requests
                 PROVE  (NewestClosedFirst!(s))'
      OBVIOUS
    <3>1. CASE s = r
      BY <3>1, <2>1, <2>2, <2>3, <2>4, <1>typ DEF At
    <3>2. CASE s # r
      <4>1. req'[s] = req[s]
        BY <3>2, <1>others
      <4> QED BY <4>1, <2>2, <2>3, <2>4, <1>inv, <1>typ, LenProperties DEF At
    <3> QED BY <3>1, <3>2
  <2>7. NextQuoteOwed'
    <3> SUFFICES ASSUME quotes' # <<>>, quotes'[Len(quotes)] = Superseded
                 PROVE  \E s \in Requests : req'[s].step = "createQuote" /\ req'[s].number = Len(quotes) + 1
      BY <2>3 DEF At
    <3>0. quotes # <<>> /\ Len(quotes) \in 1..Len(quotes)
      BY <2>4, <1>typ
    <3>1. CASE n = Len(quotes) + 1
      BY <3>1, <2>1
    <3>2. CASE n # Len(quotes) + 1
      <4>1. quotes[Len(quotes)] = Superseded
        BY <3>2, <3>0, <2>1, <2>2, <1>typ
      <4>2. PICK s \in Requests : At(s, "createQuote") /\ req[s].number = Len(quotes) + 1
        BY <4>1, <3>0, <1>inv
      <4>3. s # r
        BY <4>2, <1>1 DEF CloseQuote, At
      <4> QED BY <4>2, <4>3, <1>others DEF At
    <3> QED BY <3>1, <3>2
  <2> QED BY <2>5, <2>6, <2>7 DEF QuotesInv
<1>2. CASE CreateQuote(r)
  <2>1. req'[r] = Idle
    BY <1>2, <1>typ DEF CreateQuote
  <2>2. CASE req[r].number = Len(quotes) + 1
    <3>1. /\ quotes' = Append(quotes, Active)
          /\ quotes' \in Seq({Active, Superseded})
          /\ Len(quotes') = Len(quotes) + 1 /\ DOMAIN quotes' = 1..(Len(quotes) + 1)
          /\ \A i \in 1..Len(quotes) : quotes'[i] = quotes[i]
          /\ quotes'[Len(quotes) + 1] = Active
          /\ quotes' # <<>>
      BY <1>2, <2>2, <1>typ, AppendProperties DEF CreateQuote
    <3>2. \A i \in 1..Len(quotes) : quotes[i] = Superseded
      <4> SUFFICES ASSUME NEW i \in 1..Len(quotes) PROVE quotes[i] = Superseded
        OBVIOUS
      <4>1. quotes # <<>>
        BY <1>typ
      <4>2. quotes[Len(quotes)] = Superseded
        BY <4>1, <2>2, <1>2, <1>inv DEF CreateQuote
      <4>3. quotes[i] \in {Active, Superseded}
        BY <1>typ, ElementOfSeq
      <4> QED BY <4>2, <4>3, <1>inv, <1>typ
    <3>3. OldQuotesClosed'
      BY <3>1, <3>2, <1>typ
    <3>4. NewestClosedFirst'
      BY <3>1, <2>1, <1>others, <1>inv, <1>typ DEF At, Idle, Request
    <3>5. NextQuoteOwed'
      BY <3>1
    <3> QED BY <3>3, <3>4, <3>5 DEF QuotesInv
  <2>3. CASE req[r].number # Len(quotes) + 1
    <3>1. quotes' = quotes
      BY <1>2, <2>3 DEF CreateQuote
    <3> QED BY <3>1, <2>1, <2>3, <1>others, <1>inv, <1>2 DEF QuotesInv, At, Idle, CreateQuote
  <2> QED BY <2>2, <2>3
<1>3. CASE UNCHANGED quotes /\ req[r].step \notin {"closeQuote", "createQuote"}
  <2>1. ~At(r, "createQuote")' /\ (At(r, "closeQuote")' => req'[r].number = Len(quotes) + 1)
    <3>0. req \in [Requests -> Request]
      BY <1>typ
    <3>1. ReadLastQuote(r) => req'[r].step = "closeQuote" /\ req'[r].number = Len(quotes) + 1
      BY <3>0 DEF ReadLastQuote, Idle
    <3>2. Submit(r) => ReadLastQuote(r) \/ req'[r].step \notin {"closeQuote", "createQuote"}
      BY <3>0, <1>3 DEF Submit, CountOrders, ReadForAck, SaveContract, ReadForApply, Idle
    <3>3. Handle(r) => req'[r].step \notin {"closeQuote", "createQuote"}
      BY <3>0, <1>3 DEF Handle, CloseQuote, CreateQuote, CreateOrder, Acknowledge, PatchContract,
         ReadContract, CloseVersions, ReadLastVersion, CreateVersion, MarkApplied, At, Idle, Request
    <3> QED BY <3>1, <3>2, <3>3 DEF Moves, At
  <2> QED BY <2>1, <1>3, <1>typ, <1>others, <1>inv DEF QuotesInv, At
<1> QED
  BY <1>1, <1>2, <1>3
     DEF Moves, Submit, Handle, ReadLastQuote, CloseQuote, CreateQuote, CountOrders, CreateOrder,
         ReadForAck, Acknowledge, SaveContract, ReadForApply, PatchContract, ReadContract,
         CloseVersions, ReadLastVersion, CreateVersion, MarkApplied, At

(* The acknowledgements through one step of one request.                   *)
LEMMA StepAcks ==
  ASSUME TypeOK, AcksInv, NEW r \in Requests, Moves(r)
  PROVE  AcksInv'
<1> USE DEF rowVars, Goto, Finish
<1>typ. /\ req \in [Requests -> Request] /\ orders \in Seq(Order)
        /\ \A s \in Requests : WellRead(req[s], orders)
  BY DEF TypeOK
<1>others. \A s \in Requests : s # r => req'[s] = req[s]
  BY OthersStay
<1>rows. \A i \in DOMAIN orders : orders[i] \in Order
  BY <1>typ
<1>kept. \A i \in DOMAIN orders : MayApply(orders[i]) => MayApply(orders'[i])
  BY RowsGrow DEF MayApply
<1>named. \A s \in Requests : req[s].step \in ApplySteps /\ req[s].order # 0 => req[s].order \in DOMAIN orders
  BY <1>typ DEF WellRead, ApplySteps
<1>mine. (req[r].step \in ApplySteps /\ req[r].order = req'[r].order) \/ req'[r].step \notin ApplySteps
           \/ req'[r].order = 0 \/ \E i \in DOMAIN orders : MayApply(orders[i]) /\ req'[r].order = i
  <2>0. req \in [Requests -> Request]
    BY <1>typ
  <2> USE <2>0 DEF At, Idle, Request, ApplySteps, SnapshotSteps
  <2>1. ReadLastQuote(r) \/ (\E t \in Terms : SaveContract(r, t) \/ \E b \in BOOLEAN : CountOrders(r, t, b))
          => req'[r].step \notin ApplySteps \/ req'[r].order = 0
    <3>1. ReadLastQuote(r) => req'[r].step \notin ApplySteps
      BY DEF ReadLastQuote
    <3>2. \A t \in Terms : SaveContract(r, t) => req'[r].order = 0
      BY DEF SaveContract
    <3>3. \A t \in Terms, b \in BOOLEAN : CountOrders(r, t, b) => req'[r].step \notin ApplySteps
      BY DEF CountOrders
    <3> QED BY <3>1, <3>2, <3>3
  <2>2. ASSUME NEW i \in DOMAIN orders, ReadForApply(r, i)
        PROVE  req'[r].step \notin ApplySteps \/ (MayApply(orders[i]) /\ req'[r].order = i)
    <3>1. CASE MayApply(orders[i])
      <4>1. req'[r] = [Idle EXCEPT !.step = "patch", !.order = i]
        BY <3>1, <2>2 DEF ReadForApply
      <4>2. req'[r].order = i
        BY <4>1
      <4> QED BY <4>2, <3>1
    <3>2. CASE ~MayApply(orders[i])
      <4>1. req' = req /\ req[r].step = "idle"
        BY <3>2, <2>2 DEF ReadForApply
      <4> QED BY <4>1
    <3> QED BY <3>1, <3>2
  <2>3. ASSUME NEW i \in DOMAIN orders, NEW ack \in AckTypes, ReadForAck(r, i, ack)
        PROVE  req'[r].step \notin ApplySteps
    BY <2>3 DEF ReadForAck
  <2>4. CloseQuote(r) \/ CreateQuote(r) \/ CreateOrder(r) \/ Acknowledge(r) \/ MarkApplied(r)
          => req'[r].step \notin ApplySteps
    BY DEF CloseQuote, CreateQuote, CreateOrder, Acknowledge, MarkApplied
  <2>5. PatchContract(r) \/ ReadContract(r) \/ CloseVersions(r) \/ ReadLastVersion(r)
          => req[r].step \in ApplySteps /\ req[r].order = req'[r].order
    BY DEF PatchContract, ReadContract, CloseVersions, ReadLastVersion
  <2>6. CreateVersion(r) => req'[r].step \notin ApplySteps \/ (req[r].step \in ApplySteps /\ req[r].order = req'[r].order)
    BY DEF CreateVersion
  <2> QED BY <2>1, <2>2, <2>3, <2>4, <2>5, <2>6 DEF Moves, Submit, Handle
<1>1. ApplyingAcked'
  <2> SUFFICES ASSUME NEW s \in Requests, req'[s].step \in ApplySteps, req'[s].order # 0
               PROVE  MayApply(orders'[req'[s].order])
    BY DEF ApplyingAcked
  <2>1. CASE s = r
    BY <2>1, <1>mine, <1>named, <1>kept DEF AcksInv, ApplyingAcked, AppliedAcked
  <2>2. CASE s # r
    BY <2>2, <1>others, <1>named, <1>kept DEF AcksInv, ApplyingAcked, AppliedAcked
  <2> QED BY <2>1, <2>2
<1>2. AppliedAcked'
  <2> SUFFICES ASSUME NEW i \in DOMAIN orders', orders'[i].status = "APPLIED"
               PROVE  MayApply(orders'[i])
    BY DEF AppliedAcked
  <2>1. CASE UNCHANGED orders
    BY <2>1 DEF AcksInv, ApplyingAcked, AppliedAcked
  <2>2. CASE CreateOrder(r)
    BY <2>2, <1>kept, <1>typ DEF AcksInv, ApplyingAcked, AppliedAcked, CreateOrder, NewOrder
  <2>3. CASE Acknowledge(r)
    <3>1. req[r].order \in DOMAIN orders /\ req[r].status \in Pending
      BY <2>3, <1>typ DEF Acknowledge, At, WellRead, Request
    <3>2. i \in DOMAIN orders /\ orders[i].status = "APPLIED"
      BY <3>1, <2>3, <1>rows DEF Acknowledge, Pending, Order
    <3> QED BY <3>2, <1>kept DEF AcksInv, ApplyingAcked, AppliedAcked
  <2>4. CASE MarkApplied(r)
    <3>1. req[r].order \in DOMAIN orders
      BY <2>4, <1>typ DEF MarkApplied, At, WellRead
    <3>2. req[r].order # 0
      BY <3>1, <1>typ
    <3>3. MayApply(orders[req[r].order])
      BY <3>2, <2>4 DEF AcksInv, ApplyingAcked, AppliedAcked, MarkApplied, At, ApplySteps
    <3>4. i \in DOMAIN orders /\ (i = req[r].order \/ orders[i].status = "APPLIED")
      BY <3>1, <2>4, <1>rows DEF MarkApplied, Order
    <3> QED BY <3>3, <3>4, <1>kept DEF AcksInv, ApplyingAcked, AppliedAcked
  <2> QED
    BY <2>1, <2>2, <2>3, <2>4 DEF Moves, Submit, Handle, ReadLastQuote, CloseQuote, CreateQuote,
       CountOrders, ReadForAck, SaveContract, ReadForApply, PatchContract, ReadContract,
       CloseVersions, ReadLastVersion, CreateVersion
<1> QED
  BY <1>1, <1>2 DEF AcksInv, ApplyingAcked, AppliedAcked

(* The one request in flight through its step.                             *)
LEMMA StepAlone ==
  ASSUME TypeOK, AloneInv, NEW r \in Requests, Moves(r)
  PROVE  AloneInv'
<1> USE DEF rowVars, Goto, Finish
<1> SUFFICES ASSUME overlaps' = 0
             PROVE  (Alone /\ versions # <<>> /\ SnapshotTaken /\ \A s \in Requests : ReadIsFresh(s))'
  BY DEF AloneInv
<1>typ. /\ req \in [Requests -> Request] /\ orders \in Seq(Order) /\ versions \in Seq(Version)
        /\ overlaps \in Nat /\ Len(versions) \in Nat /\ DOMAIN versions = 1..Len(versions)
        /\ \A s \in Requests : WellRead(req[s], orders)
  BY DEF TypeOK
<1>rows. /\ \A i \in DOMAIN orders : orders[i] \in Order
         /\ \A i \in DOMAIN versions : versions[i] \in Version
  BY <1>typ
<1>zero. overlaps = 0 /\ ((Submit(r) /\ Quiet) \/ Handle(r))
  BY <1>typ DEF Moves, CountOverlap
<1>inv. /\ versions # <<>> /\ SnapshotTaken /\ \A s \in Requests : ReadIsFresh(s)
        /\ Alone
  BY <1>zero DEF AloneInv
(* Nobody else is in flight.                                               *)
<1>mine. \A s \in Requests : s # r => req'[s] = req[s] /\ req[s].step = "idle"
  <2>1. Quiet => \A s \in Requests : req[s].step = "idle"
    BY DEF Quiet, At
  <2>2. Handle(r) => req[r].step # "idle"
    BY DEF Handle, CloseQuote, CreateQuote, CreateOrder, Acknowledge, PatchContract,
       ReadContract, CloseVersions, ReadLastVersion, CreateVersion, MarkApplied, At
  <2> QED BY <2>1, <2>2, <1>zero, OthersStay, <1>inv DEF Alone, At
<1>alone. Alone'
  BY <1>mine DEF Alone, At
(* So it is enough to look at the request that moved.                      *)
<1>enough. ASSUME versions' # <<>>,
                  req'[r].step \notin SnapshotSteps =>
                    OneInForce' /\ versions'[Len(versions')].terms = contract',
                  ReadIsFresh(r)'
           PROVE  (Alone /\ versions # <<>> /\ SnapshotTaken /\ \A s \in Requests : ReadIsFresh(s))'
  <2>1. \A s \in Requests : s # r => ReadIsFresh(s)'
    BY <1>mine DEF ReadIsFresh, At
  <2>2. SnapshotTaken'
    BY <1>enough DEF SnapshotTaken
  <2> QED BY <2>1, <2>2, <1>enough, <1>alone
(* A request outside the snapshot changes neither contract nor versions.   *)
<1>before. req[r].step \notin SnapshotSteps => OneInForce /\ versions[Len(versions)].terms = contract
  <2>1. \A s \in Requests : s # r => req[s].step \notin SnapshotSteps
    BY <1>mine DEF SnapshotSteps
  <2> QED BY <2>1, <1>inv DEF SnapshotTaken
<1>aside. ASSUME UNCHANGED <<contract, versions>>, req[r].step \notin SnapshotSteps,
                 req'[r].step \notin SnapshotSteps \cup {"ack"}
          PROVE  (Alone /\ versions # <<>> /\ SnapshotTaken /\ \A s \in Requests : ReadIsFresh(s))'
  <2>1. ReadIsFresh(r)'
    BY <1>aside DEF ReadIsFresh, At, SnapshotSteps
  <2>2. OneInForce' /\ versions'[Len(versions')].terms = contract'
    BY <1>aside, <1>before DEF OneInForce
  <2> QED BY <2>1, <2>2, <1>enough, <1>inv, <1>aside
<1>req. req \in [Requests -> Request]
  BY <1>typ
<1>1. CASE ReadLastQuote(r)
  BY <1>1, <1>aside, <1>req DEF ReadLastQuote, At, SnapshotSteps, Idle
<1>2. ASSUME NEW t \in Terms, SaveContract(r, t)
      PROVE  (Alone /\ versions # <<>> /\ SnapshotTaken /\ \A s \in Requests : ReadIsFresh(s))'
  <2>1. req'[r].step = "snapshot" /\ UNCHANGED versions /\ req[r].step \notin SnapshotSteps
    BY <1>2, <1>req DEF SaveContract, Idle, At, SnapshotSteps
  <2>2. ReadIsFresh(r)'
    BY <2>1, <1>before DEF ReadIsFresh, At, OneInForce
  <2> QED BY <2>1, <2>2, <1>enough, <1>inv DEF SnapshotSteps
<1>3. ASSUME NEW t \in Terms, NEW b \in BOOLEAN, CountOrders(r, t, b)
      PROVE  (Alone /\ versions # <<>> /\ SnapshotTaken /\ \A s \in Requests : ReadIsFresh(s))'
  BY <1>3, <1>aside, <1>req DEF CountOrders, At, SnapshotSteps, Idle
<1>4. ASSUME NEW i \in DOMAIN orders, ReadForApply(r, i)
      PROVE  (Alone /\ versions # <<>> /\ SnapshotTaken /\ \A s \in Requests : ReadIsFresh(s))'
  <2>1. req'[r].step \in {"idle", "patch"}
    BY <1>4, <1>req DEF ReadForApply, At, Idle
  <2> QED BY <2>1, <1>4, <1>aside DEF ReadForApply, At, SnapshotSteps
<1>5. ASSUME NEW i \in DOMAIN orders, NEW ack \in AckTypes, ReadForAck(r, i, ack)
      PROVE  (Alone /\ versions # <<>> /\ SnapshotTaken /\ \A s \in Requests : ReadIsFresh(s))'
  <2>1. CASE AckAllowed(orders[i], ack)
    <3>1. req'[r].step = "ack" /\ req'[r].order = i /\ UNCHANGED rowVars /\ req[r].step \notin SnapshotSteps
      BY <2>1, <1>5, <1>req DEF ReadForAck, Idle, At, SnapshotSteps
    <3>2. ReadIsFresh(r)'
      BY <3>1, <2>1 DEF ReadIsFresh, At, AckAllowed
    <3>3. OneInForce' /\ versions'[Len(versions')].terms = contract'
      BY <3>1, <1>before DEF OneInForce
    <3> QED BY <3>1, <3>2, <3>3, <1>enough, <1>inv
  <2>2. CASE ~AckAllowed(orders[i], ack)
    <3>1. req' = req /\ req[r].step = "idle" /\ UNCHANGED rowVars
      BY <2>2, <1>5 DEF ReadForAck, At
    <3> QED BY <3>1, <1>aside DEF SnapshotSteps
  <2> QED BY <2>1, <2>2
<1>6. CASE CloseQuote(r) \/ CreateQuote(r) \/ CreateOrder(r) \/ Acknowledge(r) \/ MarkApplied(r)
  <2>1. UNCHANGED <<contract, versions>> /\ req[r].step \notin SnapshotSteps
    BY <1>6 DEF CloseQuote, CreateQuote, CreateOrder, Acknowledge, MarkApplied, At, SnapshotSteps
  <2>2. req'[r].step \in {"createQuote", "idle"}
    BY <1>6, <1>req DEF CloseQuote, CreateQuote, CreateOrder, Acknowledge, MarkApplied, Idle, Request
  <2> QED BY <2>1, <2>2, <1>aside DEF SnapshotSteps
<1>7. CASE PatchContract(r)
  <2>1. req'[r].step = "snapshot" /\ UNCHANGED versions /\ req[r].step \notin SnapshotSteps
    BY <1>7, <1>req DEF PatchContract, At, SnapshotSteps, Request
  <2>2. ReadIsFresh(r)'
    BY <2>1, <1>before DEF ReadIsFresh, At, OneInForce
  <2> QED BY <2>1, <2>2, <1>enough, <1>inv DEF SnapshotSteps
<1>8. CASE ReadContract(r)
  <2>1. req'[r].step = "closeVersions" /\ req'[r].to = contract /\ UNCHANGED rowVars
    BY <1>8, <1>req DEF ReadContract, Request
  <2>2. ReadIsFresh(r)'
    BY <2>1 DEF ReadIsFresh, At
  <2> QED BY <2>1, <2>2, <1>enough, <1>inv DEF SnapshotSteps
<1>9. CASE CloseVersions(r)
  <2>1. /\ req'[r].step = "readLast" /\ req'[r].to = req[r].to /\ UNCHANGED contract
        /\ DOMAIN versions' = DOMAIN versions
        /\ \A i \in DOMAIN versions : versions'[i].status = Superseded
    BY <1>9, <1>req, <1>rows DEF CloseVersions, Request, Version
  <2>2. versions' # <<>>
    BY <2>1, <1>inv, <1>typ
  <2>3. req[r].to = contract
    BY <1>9, <1>inv DEF CloseVersions, ReadIsFresh
  <2>4. ReadIsFresh(r)'
    BY <2>1, <2>3 DEF ReadIsFresh, NoneInForce, At
  <2> QED BY <2>1, <2>2, <2>4, <1>enough DEF SnapshotSteps
<1>10. CASE ReadLastVersion(r)
  <2>1. /\ req'[r].step = "createVersion" /\ req'[r].to = req[r].to
        /\ req'[r].number = Len(versions) + 1 /\ UNCHANGED rowVars
    BY <1>10, <1>req DEF ReadLastVersion, Request
  <2>2. NoneInForce /\ req[r].to = contract
    BY <1>10, <1>inv DEF ReadLastVersion, ReadIsFresh
  <2>3. ReadIsFresh(r)'
    BY <2>1, <2>2 DEF ReadIsFresh, NoneInForce, At
  <2> QED BY <2>1, <2>3, <1>enough, <1>inv DEF SnapshotSteps
<1>11. CASE CreateVersion(r)
  <2>1. NoneInForce /\ req[r].to = contract /\ req[r].number = Len(versions) + 1
    BY <1>11, <1>inv DEF CreateVersion, ReadIsFresh
  <2> DEFINE v == [status |-> Active, terms |-> req[r].to]
  <2>2. v \in Version
    BY <1>11, <1>typ DEF CreateVersion, At, WellRead, Version
  <2>3. versions' = Append(versions, v) /\ UNCHANGED contract
    BY <1>11, <2>1 DEF CreateVersion
  <2>4. /\ Len(versions') = Len(versions) + 1 /\ DOMAIN versions' = 1..(Len(versions) + 1)
        /\ \A i \in 1..Len(versions) : versions'[i] = versions[i]
        /\ versions'[Len(versions) + 1] = v
        /\ versions' # <<>>
    BY <2>2, <2>3, <1>typ, AppendProperties, LenProperties
  <2>5. OneInForce'
    BY <2>4, <2>1, <1>typ DEF OneInForce, NoneInForce, Active, Superseded
  <2>6. versions'[Len(versions')].terms = contract'
    BY <2>1, <2>3, <2>4
  <2>7. req'[r].step \in {"markApplied", "idle"}
    BY <1>11, <1>req DEF CreateVersion, Idle, Request
  <2>8. ReadIsFresh(r)'
    BY <2>7 DEF ReadIsFresh, At
  <2> QED BY <2>4, <2>5, <2>6, <2>8, <1>enough
<1> QED
  BY <1>1, <1>2, <1>3, <1>4, <1>5, <1>6, <1>7, <1>8, <1>9, <1>10, <1>11 DEF Moves, Submit, Handle

LEMMA InitInv == Init => IInv
<1> SUFFICES ASSUME Init PROVE IInv
  OBVIOUS
<1>1. TypeOK
  BY InitTyped
<1>2. QuotesInv
  BY DEF Init, QuotesInv, OldQuotesClosed, NewestClosedFirst, NextQuoteOwed, At, Idle
<1>3. AcksInv
  BY DEF Init, AcksInv, ApplyingAcked, AppliedAcked, Idle, ApplySteps, SnapshotSteps
<1>4. AloneInv
  <2>1. versions # <<>> /\ Len(versions) = 1 /\ DOMAIN versions = {1} /\ versions[1] = [status |-> Active, terms |-> contract]
    BY DEF Init
  <2>2. SnapshotTaken
    BY <2>1 DEF SnapshotTaken, OneInForce
  <2> QED BY <2>1, <2>2 DEF Init, AloneInv, Alone, ReadIsFresh, At, Idle
<1> QED
  BY <1>1, <1>2, <1>3, <1>4 DEF IInv

LEMMA NextMoves == Next <=> \E r \in Requests : Moves(r)
BY DEF Next, Moves

LEMMA StepInv == IInv /\ [Next]_vars => IInv'
<1>1. ASSUME IInv, Next PROVE IInv'
  BY <1>1, NextMoves, StepTyped, StepQuotes, StepAcks, StepAlone DEF IInv
<1>2. ASSUME IInv, UNCHANGED vars PROVE IInv'
  BY <1>2 DEF vars, IInv, TypeOK, WellRead, QuotesInv, OldQuotesClosed, NewestClosedFirst,
     NextQuoteOwed, AcksInv, ApplyingAcked, AppliedAcked, AloneInv, Alone, SnapshotTaken,
     ReadIsFresh, OneInForce, NoneInForce, At
<1> QED
  BY <1>1, <1>2

(* The inductive invariant holds in every reachable state.                 *)
THEOREM Invariance == Spec => []IInv
<1> QED
  BY InitInv, StepInv, PTL DEF Spec

(* The rows and the requests stay well formed.                             *)
THEOREM TypeCorrect == Spec => []TypeOK
<1>1. IInv => TypeOK
  BY DEF IInv
<1> QED
  BY <1>1, Invariance, PTL

(* However requests overlap, no older quote is in force, and once requests *)
(* have settled the newest is; handled one after the other, they leave one *)
(* contract version in force, the newest, which shows the contract.        *)
THEOREM NewestInForceHolds == Spec => []NewestInForce
<1>1. ASSUME IInv PROVE NewestQuoteInForce
  <2>1. ASSUME Quiet, quotes # <<>> PROVE quotes[Len(quotes)] = Active
    <3>1. quotes[Len(quotes)] \in {Active, Superseded}
      BY <1>1, <2>1 DEF IInv, TypeOK
    <3> QED BY <3>1, <1>1, <2>1 DEF IInv, QuotesInv, NextQuoteOwed, Quiet, At
  <2> QED BY <2>1, <1>1 DEF NewestQuoteInForce, IInv, QuotesInv, OldQuotesClosed
<1>2. ASSUME IInv PROVE VersionInForce
  BY <1>2 DEF IInv, AloneInv, SnapshotTaken, OneInForce, VersionInForce, Quiet, At, SnapshotSteps
<1>3. IInv => NewestInForce
  BY <1>1, <1>2 DEF NewestInForce
<1> QED
  BY <1>3, Invariance, PTL

(* However requests overlap, an order takes effect only with both          *)
(* acknowledgements, and with the approval if it is sensitive.             *)
THEOREM AppliedHasAcks == Spec => []AppliedWithAcks
<1>1. IInv => AppliedWithAcks
  BY DEF IInv, AcksInv, AppliedAcked, AppliedWithAcks, MayApply
<1> QED
  BY <1>1, Invariance, PTL

(* Handled one after the other, requests never make an order pending again *)
(* once it has taken effect.                                               *)
THEOREM AppliedOrderStays == Spec => AppliedStays
<1>1. ASSUME IInv, NEW r \in Requests, Moves(r), overlaps = 0,
             NEW i \in DOMAIN orders, orders[i].status = "APPLIED"
      PROVE  orders'[i].status = "APPLIED"
  <2> USE <1>1
  <2>1. /\ orders \in Seq(Order) /\ WellRead(req[r], orders)
        /\ orders[i] \in Order /\ ReadIsFresh(r)
    BY DEF IInv, TypeOK, AloneInv
  <2>2. CASE UNCHANGED orders
    BY <2>2
  <2>3. CASE CreateOrder(r)
    BY <2>1, <2>3 DEF CreateOrder
  <2>4. CASE Acknowledge(r)
    <3>1. orders[req[r].order].status \in Pending /\ req[r].order \in DOMAIN orders
      BY <2>1, <2>4 DEF Acknowledge, ReadIsFresh, WellRead, At
    <3>2. i # req[r].order
      BY <3>1 DEF Pending
    <3> QED BY <3>1, <3>2, <2>1, <2>4 DEF Acknowledge
  <2>5. CASE MarkApplied(r)
    BY <2>1, <2>5 DEF MarkApplied, Order
  <2> QED
    BY <2>2, <2>3, <2>4, <2>5 DEF Moves, Submit, Handle, ReadLastQuote, CloseQuote, CreateQuote,
       CountOrders, ReadForAck, SaveContract, ReadForApply, PatchContract, ReadContract,
       CloseVersions, ReadLastVersion, CreateVersion, rowVars
<1>2. IInv /\ [Next]_vars =>
        [overlaps = 0 => \A i \in DOMAIN orders :
           orders[i].status = "APPLIED" => orders'[i].status = "APPLIED"]_vars
  BY <1>1, NextMoves
<1> QED
  BY <1>2, Invariance, PTL DEF Spec, AppliedStays
=============================================================================
