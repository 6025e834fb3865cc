---------------------------- MODULE RadarFindings ----------------------------
(***************************************************************************)
(* What the risk radar finds in the facts, before it matches the findings  *)
(* with its cards: listed partners, a used-up limit, receipts that are     *)
(* late, papers that are missing.  One customer with parties in several    *)
(* cases; rescreening him runs in steps that overlap with the desk's work. *)
(* How alike two names are is left out: a menu says how well each spelling *)
(* of his name fits each entry of the lists.                               *)
(***************************************************************************)
EXTENDS GateRules

CONSTANTS
  Requests,    \* rescreenings under way at once
  Parties,     \* sequence of his parties, the oldest first
  SpelledAs,   \* the spelling each of them is screened under
  FileName,    \* the spelling of his own file
  Menus,       \* lists: for a spelling and an entry, the tiers of its aliases
  MaxHits,     \* bound on hits ever written
  Limits, Amounts,
  LastDay, TermDays

VARIABLES
  lists,       \* the lists in force
  hits,        \* sequence of screening hits; a deleted one is GONE
  req,         \* rescreenings under way
  limits,      \* limits of his policies in US dollars, the oldest first
  contract,    \* terms of one contract of his
  batch,       \* a batch of it
  today

vars == <<lists, hits, req, limits, contract, batch, today>>
listVars == <<lists, hits, req>>
saleVars == <<limits, contract, batch, today>>

(***************************************************************************)
(* Matching a name: the best tier of an entry's name and aliases.          *)
(***************************************************************************)
Rank == [LOW |-> 1, MEDIUM |-> 2, HIGH |-> 3]
BestTier(tiers) == CHOOSE t \in tiers : \A u \in tiers : Rank[u] <= Rank[t]

MatchAgainstLists(name) ==
  LET matched == {e \in DOMAIN lists[name] : lists[name][e] # {}}
  IN [e \in matched |-> BestTier(lists[name][e])]

(***************************************************************************)
(* Rescreening: a match no hit stands for is fresh; a match whose tier is  *)
(* no longer that of the hit changes it.  One row changes: the first of    *)
(* the newest party.                                                       *)
(***************************************************************************)
Suspect == {"OPEN", "MONITORING", "SUPPLEMENTED"}
Standing(e) == {i \in DOMAIN hits : hits[i].entry = e /\ hits[i].disposition \notin {"GONE", "FALSE_POSITIVE"}}
FirstOf(S) == CHOOSE i \in S : \A j \in S \ {i} :
  \/ hits[j].party < hits[i].party
  \/ hits[j].party = hits[i].party /\ i < j

Fresh(matches) == {e \in DOMAIN matches : Standing(e) = {}}

(* Variant: a hit keeps the tier it came with.                             *)
ChangedNever(matches) == {}

Changed(matches) ==
  LET open(e) == {i \in Standing(e) : hits[i].disposition \in Suspect}
      settled(e) == \E i \in Standing(e) : hits[i].disposition = "CONFIRMED_TRUE"
  IN {FirstOf(open(e)) : e \in {d \in DOMAIN matches :
        ~settled(d) /\ open(d) # {} /\ hits[FirstOf(open(d))].tier # matches[d]}}

Idle == [step |-> "idle", matches |-> <<>>, fresh |-> {}, changed |-> {}, alone |-> TRUE]

(* Whoever writes a hit meanwhile.                                         *)
Disturbed(r) == [q \in Requests |-> IF q = r \/ req[q].step = "idle" THEN req[q]
                                    ELSE [req[q] EXCEPT !.alone = FALSE]]

(* Room for n more hits, besides those a rescreening is about to write.    *)
Room(n) ==
  Len(hits) + n + Cardinality(UNION {{r} \X req[r].fresh : r \in {q \in Requests : req[q].step = "fresh"}})
    <= MaxHits

ReadHits(r) ==
  /\ req[r].step = "idle"
  /\ LET matches == MatchAgainstLists(FileName)
     IN /\ Room(Cardinality(Fresh(matches)))
        /\ req' = [req EXCEPT ![r] = [step |-> "fresh", matches |-> matches, fresh |-> Fresh(matches),
                                      changed |-> Changed(matches), alone |-> TRUE]]
  /\ UNCHANGED <<lists, hits, saleVars>>

(* Variant: a hit starts with the tier of an unread one.                   *)
NewHitUnread(e, party, tier) == [entry |-> e, party |-> party, tier |-> "LOW", disposition |-> "OPEN"]

NewHit(e, party, tier) == [entry |-> e, party |-> party, tier |-> tier, disposition |-> "OPEN"]

(* Fresh hits hang on his newest party, whatever node its case is at.  The *)
(* rows are written one after the other, from what was read before; they   *)
(* are taken together, as nothing that happens between them changes them.  *)
CreateFresh(r) ==
  /\ req[r].step = "fresh"
  /\ hits' = hits \o [k \in 1..Cardinality(req[r].fresh) |->
                        LET e == SetToSeq(req[r].fresh)[k]
                        IN NewHit(e, Len(Parties), req[r].matches[e])]
  /\ req' = [Disturbed(r) EXCEPT ![r].step = "update"]
  /\ UNCHANGED <<lists, saleVars>>

(* A row deleted meanwhile fails the request before the rows after it.     *)
UpdateChanged(r) ==
  LET there == {i \in req[r].changed : hits[i].disposition # "GONE"} IN
  /\ req[r].step = "update"
  /\ \E done \in SUBSET there :
       /\ there = req[r].changed => done = there
       /\ hits' = [i \in DOMAIN hits |->
                     IF i \in done THEN [hits[i] EXCEPT !.tier = req[r].matches[hits[i].entry]]
                     ELSE hits[i]]
  /\ req' = [Disturbed(r) EXCEPT ![r] = Idle]
  /\ UNCHANGED <<lists, saleVars>>

(***************************************************************************)
(* What else writes hits: screening a case's parties, which starts over,   *)
(* and the desk.                                                           *)
(***************************************************************************)
ScreenParties(p) ==
  LET matches == MatchAgainstLists(SpelledAs[p])
      names   == SetToSeq(DOMAIN matches)
  IN /\ Room(Len(names))
     /\ hits' = [i \in DOMAIN hits |-> IF hits[i].party = p THEN [hits[i] EXCEPT !.disposition = "GONE"]
                                       ELSE hits[i]]
                \o [k \in DOMAIN names |-> NewHit(names[k], p, matches[names[k]])]
     /\ req' = Disturbed("nobody")
     /\ UNCHANGED <<lists, saleVars>>

DisposeHit(i, disposition) ==
  /\ hits[i].disposition # "GONE"
  /\ hits' = [hits EXCEPT ![i].disposition = disposition]
  /\ req' = Disturbed("nobody")
  /\ UNCHANGED <<lists, saleVars>>

Relist ==
  /\ \A r \in Requests : req[r].step = "idle"
  /\ lists' \in Menus \ {lists}
  /\ UNCHANGED <<hits, req, saleVars>>

(* The card of a bucket of hits, by its colour; NONE has no card.          *)
SanctionBucket(h) ==
  CASE h.disposition \in {"FALSE_POSITIVE", "GONE"} -> "NONE"
    [] h.disposition = "CONFIRMED_TRUE" -> "RED"
    [] h.tier = "HIGH" /\ h.disposition \in Suspect -> "ORANGE"
    [] h.tier = "LOW" /\ h.disposition = "OPEN" -> "YELLOW"
    [] OTHER -> "NONE"

SanctionFindings == {SanctionBucket(hits[i]) : i \in DOMAIN hits} \ {"NONE"}

(***************************************************************************)
(* The limit.  A later policy above the first counts as an additional      *)
(* limit; the newest is the limit in force.                                *)
(***************************************************************************)
QuotaFromLimits ==
  LET newest == IF limits = <<>> THEN 0 ELSE limits[Len(limits)]
  IN [effective |-> newest, additional |-> IF limits = <<>> THEN 0 ELSE AtLeastZero(newest - limits[1])]

Ledger == [amount |-> contract.amount, settlement |-> batch.settlement]

Exposed ==
  LET portions == ContractOccupancyPortions(contract.amount,
        <<[amount |-> contract.amount, shipped |-> batch.n6 > 0,
           received |-> ReceivedFenForBatch(Ledger, contract.amount, TRUE)]>>)
  IN EvaluateOccupancy([open |-> portions.open, fulfilled |-> portions.fulfilled], 0, TRUE,
                       QuotaFromLimits.effective, TRUE)

OccupancyRuleColor ==
  LET limit == QuotaFromLimits.effective
      taken == Exposed.occupancy
  IN IF limit = 0 \/ taken = 0 THEN "NONE"
     ELSE IF taken > limit /\ QuotaFromLimits.additional = 0 THEN "RED"
     ELSE CASE taken * 10 > limit * 9 -> "ORANGE"
            [] taken * 10 \in (limit * 8)..(limit * 9) -> "YELLOW"
            [] OTHER -> "NONE"

(***************************************************************************)
(* Receipts under T/T after shipment: due some days after the arrival, or  *)
(* after the day N6 passed where none is written.                          *)
(***************************************************************************)
NoTerm == -1

ReceivableDueDate ==
  LET base == IF batch.eta > 0 THEN batch.eta ELSE batch.n6
  IN IF contract.days = NoTerm \/ base = 0 THEN 0 ELSE base + contract.days

(* Variant: only a bank memo collects the batch.                           *)
BatchCollectedByMemo == batch.settlement.memo /\ IsSettlementPaid(batch.settlement, contract.amount)

BatchCollected == IsSettlementPaid(batch.settlement, contract.amount)

OverdueRuleColor ==
  LET due  == ReceivableDueDate
      past == today - due
  IN IF contract.timing # "AFTER" \/ due = 0 \/ BatchCollected \/ past <= 0 THEN "NONE"
     ELSE IF past > 7 THEN "ORANGE" ELSE "YELLOW"

(* The papers a batch still lacks after N7.                                *)
Snapshot == [contract |-> [incoterms |-> contract.incoterms, ttTiming |-> contract.timing # ""],
             shipment |-> batch.shipment, evidences |-> batch.evidences, changes |-> <<>>]

(* Variant: the certificate of origin whatever the term.                   *)
DocMissingAlways == IF batch.n7 THEN N7_UPLOADS \ batch.evidences ELSE {}

DocMissing ==
  LET optional == IF EffectiveN6Incoterms(Snapshot) = "FOB" THEN {"N7_ORIGIN_CERT"} ELSE {}
  IN IF batch.n7 THEN (N7_UPLOADS \ optional) \ batch.evidences ELSE {}

(***************************************************************************)
(* The facts move.                                                         *)
(***************************************************************************)
Init ==
  /\ lists \in Menus /\ hits = <<>> /\ req = [r \in Requests |-> Idle]
  /\ limits = <<>>
  /\ contract \in [incoterms : {"FOB", "CIF"}, timing : {""}, days : {NoTerm}, amount : Amounts]
  /\ batch = [eta |-> 0, n6 |-> 0, n7 |-> FALSE, evidences |-> {},
              shipment |-> [present |-> FALSE, override |-> ""],
              settlement |-> [arrived |-> FALSE, memo |-> FALSE, amount |-> NoAmount]]
  /\ today = 1

SaveSinosure(limit) ==
  /\ Len(limits) < 3
  /\ limits' = Append(limits, limit)
  /\ UNCHANGED <<contract, batch, today>>

SaveContract(incoterms, timing, days, amount) ==
  /\ contract' = [incoterms |-> incoterms, timing |-> timing, amount |-> amount,
                  days |-> IF timing = "AFTER" THEN days ELSE NoTerm]
  /\ UNCHANGED <<limits, batch, today>>

SaveShipment(eta, override) ==
  /\ batch' = [batch EXCEPT !.eta = eta, !.shipment = [present |-> TRUE, override |-> override]]
  /\ UNCHANGED <<limits, contract, today>>

SaveSettlement(arrived, memo, amount) ==
  /\ batch' = [batch EXCEPT !.settlement = [arrived |-> arrived, memo |-> memo, amount |-> amount]]
  /\ UNCHANGED <<limits, contract, today>>

UploadNodeDocuments(kinds) ==
  /\ batch' = [batch EXCEPT !.evidences = @ \cup kinds]
  /\ UNCHANGED <<limits, contract, today>>

AdvanceN6 ==
  /\ batch.n6 = 0
  /\ batch' = [batch EXCEPT !.n6 = today]
  /\ UNCHANGED <<limits, contract, today>>

AdvanceN7 ==
  /\ batch.n6 > 0 /\ ~batch.n7
  /\ EvaluateN7(Snapshot).proceed
  /\ batch' = [batch EXCEPT !.n7 = TRUE]
  /\ UNCHANGED <<limits, contract, today>>

LaterDay ==
  /\ today' \in (today + 1)..LastDay
  /\ UNCHANGED <<limits, contract, batch>>

Screen ==
  \/ \E r \in Requests : ReadHits(r) \/ CreateFresh(r) \/ UpdateChanged(r)
  \/ \E p \in DOMAIN Parties : ScreenParties(p)
  \/ \E i \in DOMAIN hits, d \in {"FALSE_POSITIVE", "CONFIRMED_TRUE", "MONITORING"} : DisposeHit(i, d)
  \/ Relist

Insure == \E l \in Limits : SaveSinosure(l)

Sell == \E a \in Amounts : \/ SaveContract(contract.incoterms, "AFTER", TermDays, a)
                          \/ SaveContract(contract.incoterms, "", TermDays, a)

Collect == \E arrived, memo \in BOOLEAN, a \in Amounts \cup {NoAmount} : SaveSettlement(arrived, memo, a)

Ship ==
  \/ \E term \in {"FOB", "CIF"} : SaveContract(term, contract.timing, contract.days, contract.amount)
  \/ \E eta \in {0, today}, override \in {"", "FOB", "CIF"} : SaveShipment(eta, override)
  \/ \E kinds \in {{"N7_ORIGIN_CERT"}, {"N7_INVOICE"}, N7_UPLOADS \ {"N7_INVOICE", "N7_ORIGIN_CERT"}} :
       UploadNodeDocuments(kinds)
  \/ AdvanceN6
  \/ AdvanceN7

Next == Screen \/ ((Insure \/ Sell \/ Collect \/ Ship \/ LaterDay) /\ UNCHANGED listVars)

Spec == Init /\ [][Next]_vars

(***************************************************************************)
(* A rescreening nobody disturbed leaves nothing for the next one: what it *)
(* found stands in the hits (diffScreeningMatches).                        *)
(***************************************************************************)
Rescreened(r) == req[r].step = "update" /\ req[r].alone /\ req'[r].step = "idle"
MatchesNow == MatchAgainstLists(FileName)

RescreenSettles == [][\A r \in Requests :
  Rescreened(r) => Fresh(MatchesNow)' = {} /\ Changed(MatchesNow)' = {}]_vars

(***************************************************************************)
(* And a partner whose name fits an entry best has an orange or red card,  *)
(* however his hits were graded and decided before (sanctionBucket).       *)
(***************************************************************************)
ListedPartnerShows == [][\A r \in Requests :
  Rescreened(r) /\ (\E e \in DOMAIN MatchesNow : MatchesNow[e] = "HIGH")
    => SanctionFindings' \cap {"ORANGE", "RED"} # {}]_vars

(***************************************************************************)
(* The gate and the radar ask for the same papers: passing N7 never leaves *)
(* a card of missing papers behind (evaluateN7, docMissingLines).          *)
(***************************************************************************)
PassedPapersComplete == [][~batch.n7 /\ batch'.n7 => DocMissing' = {}]_vars

(***************************************************************************)
(* Only money that still takes of the limit is overdue: the radar's and    *)
(* the ledger's idea of a settled batch agree (batchCollected).            *)
(***************************************************************************)
OverdueIsOwed == OverdueRuleColor # "NONE" => Exposed.occupancy > 0
=============================================================================
