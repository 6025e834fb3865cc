------------------------------ MODULE Screening -----------------------------
(***************************************************************************)
(* Sanctions screening of one trading party: the buyer side at N3 or the   *)
(* supplier at N5.  screenParties throws the old hits away and writes the  *)
(* new ones row by row, the desk disposes of hits, upsertParty renames the *)
(* party, and advance() asks the gate.  One step is one database write;    *)
(* between two of them a request may fail or the process restart.          *)
(***************************************************************************)
EXTENDS Pipeline

CONSTANTS
  Requests,   \* slots for HTTP requests in flight; one slot means no overlap
  Subjects,   \* the nodes a behaviour may screen for: "N3", "N5"
  Names,      \* the names a user may give the party
  NoName,     \* the party is not filled in
  Level,      \* what the lists say of a name: "NONE", "MEDIUM" or "HIGH"
  Seeded      \* the buyers create() may have seeded the case with

Levels == {"NONE", "MEDIUM", "HIGH"}
Verdicts == {"PASS", "REVIEW", "HARD_BLOCK"}
Dispositions == {"OPEN", "CONFIRMED_TRUE", "FALSE_POSITIVE"}

VARIABLES
  subject,   \* the node screened for
  party,     \* the party's name
  hits,      \* ScreeningHit rows; "by" tells rows of two screenings apart
  reports,   \* the names KycReport rows of this node hold
  status,    \* the CaseNode row's status
  req,       \* the requests in flight and what each has read
  cleared,   \* history: names a desk has cleared since they were last screened
  onFile,    \* history: names screened in full, their hits not thrown away since
  overtaken       \* history: requests about to write a verdict the hits have moved under

vars == <<subject, party, hits, reports, status, req, cleared, onFile, overtaken>>
rowVars == <<subject, party, hits, reports, cleared, onFile>>

PartyNames == Names \cup {NoName}
Steps == {"idle", "delete", "match", "report", "touch", "reeval", "rewrite", "gate", "write"}

Idle == [step |-> "idle", name |-> NoName, verdict |-> "PASS"]
Begin(r, step, name) == req' = [req EXCEPT ![r] = [Idle EXCEPT !.step = step, !.name = name]]
Goto(r, step) == req' = [req EXCEPT ![r].step = step]
Decided(r, step, verdict) == req' = [req EXCEPT ![r].step = step, ![r].verdict = verdict]
Finish(r) == req' = [req EXCEPT ![r] = Idle]
At(r, step) == req[r].step = step

Init ==
  /\ subject \in Subjects
  /\ party \in IF subject = "N3" THEN Seeded ELSE {NoName}
  /\ hits = {}
  /\ reports = {}
  /\ status = "IN_PROGRESS"
  /\ req = [r \in Requests |-> Idle]
  /\ cleared = {}
  /\ onFile = {}
  /\ overtaken = {}

(***************************************************************************)
(* The screening part of the N3 and N5 gates.                              *)
(***************************************************************************)
(* Variant: a hit confirmed as true is no longer open.                     *)
UnhandledHits == {h \in hits : h.disposition = "OPEN"}

OpenHits == {h \in hits : h.disposition \in {"OPEN", "CONFIRMED_TRUE"}}

HighHits == {h \in OpenHits : h.disposition = "CONFIRMED_TRUE" \/ Level[h.name] = "HIGH"}

(* Any report of the node will do for the buyer (kycRan); the supplier's   *)
(* own name must be in one (hasSupplierScreen).                            *)
Screened == IF subject = "N3" THEN reports # {} ELSE party \in reports

ScreeningVerdict ==
  IF HighHits # {} \/ party = NoName \/ ~Screened THEN "HARD_BLOCK"
  ELSE IF OpenHits # {} THEN "REVIEW"
  ELSE "PASS"

NodeStatusOf(verdict) ==
  CASE verdict = "PASS" -> "IN_PROGRESS"
    [] verdict = "REVIEW" -> "REVIEW"
    [] OTHER -> "BLOCKED"

(* The rest of the gate may refuse what screening lets through, and turns  *)
(* no refusal into a pass.                                                 *)
GateVerdicts ==
  CASE ScreeningVerdict = "HARD_BLOCK" -> {"HARD_BLOCK"}
    [] ScreeningVerdict = "REVIEW" -> {"REVIEW", "HARD_BLOCK"}
    [] OTHER -> Verdicts

Touched == IF status = "PASSED" THEN "PASSED" ELSE "IN_PROGRESS"

(***************************************************************************)
(* upsertParty.                                                            *)
(***************************************************************************)
UpsertParty(r, name) ==
  /\ At(r, "idle")
  /\ party' = name
  /\ Begin(r, "touch", NoName)
  /\ UNCHANGED <<subject, hits, reports, status, cleared, onFile>>

TouchNode(r) ==
  /\ At(r, "touch")
  /\ status' = Touched
  /\ Finish(r)
  /\ UNCHANGED rowVars

(***************************************************************************)
(* screenParties: read the party, delete its node's hits, write a row for  *)
(* each match, file the report, touch the node.                            *)
(***************************************************************************)
ReadParty(r) ==
  /\ At(r, "idle")
  /\ subject = "N5" => party # NoName
  /\ Begin(r, "delete", party)
  /\ UNCHANGED <<rowVars, status>>

DeleteHits(r) ==
  /\ At(r, "delete")
  /\ hits' = {}
  /\ cleared' = cleared \ {req[r].name}
  /\ onFile' = onFile \cap {req[r].name}
  /\ Goto(r, "match")
  /\ UNCHANGED <<subject, party, reports, status>>

(* Variant: only high-confidence matches are stored.                       *)
WriteHighHit(r) ==
  LET name == req[r].name
  IN /\ At(r, "match")
     /\ hits' = IF name \in Names /\ Level[name] = "HIGH"
                THEN hits \cup {[name |-> name, by |-> r, disposition |-> "OPEN"]}
                ELSE hits
     /\ onFile' = onFile \cup {name}
     /\ Goto(r, "report")
     /\ UNCHANGED <<subject, party, reports, status, cleared>>

WriteHit(r) ==
  LET name == req[r].name
  IN /\ At(r, "match")
     /\ hits' = IF name \in Names /\ Level[name] # "NONE"
                THEN hits \cup {[name |-> name, by |-> r, disposition |-> "OPEN"]}
                ELSE hits
     /\ onFile' = onFile \cup {name}
     /\ Goto(r, "report")
     /\ UNCHANGED <<subject, party, reports, status, cleared>>

FileReport(r) ==
  /\ At(r, "report")
  /\ reports' = reports \cup {req[r].name}
  /\ Begin(r, "touch", NoName)
  /\ UNCHANGED <<subject, party, hits, status, cleared, onFile>>

(***************************************************************************)
(* applyWorkbench on a hit.  Only a supplier's hit has its node rewritten, *)
(* whatever that node's status; FALSE_POSITIVE stands for the three        *)
(* dispositions that take a hit out of the gate's sight.                   *)
(***************************************************************************)
DisposeHit(r, h, disposition) ==
  /\ At(r, "idle")
  /\ h \in hits
  /\ hits' = (hits \ {h}) \cup {[h EXCEPT !.disposition = disposition]}
  /\ cleared' = IF disposition = "FALSE_POSITIVE" THEN cleared \cup {h.name}
                ELSE cleared \ {h.name}
  /\ IF subject = "N5" THEN Begin(r, "reeval", NoName) ELSE Finish(r)
  /\ UNCHANGED <<subject, party, reports, status, onFile>>

Reevaluate(r) ==
  /\ At(r, "reeval")
  /\ \E verdict \in GateVerdicts : Decided(r, "rewrite", verdict)
  /\ UNCHANGED <<rowVars, status>>

RewriteNode(r) ==
  /\ At(r, "rewrite")
  /\ status' = NodeStatusOf(req[r].verdict)
  /\ Finish(r)
  /\ UNCHANGED rowVars

(***************************************************************************)
(* advance() on the node: the gate may refuse for reasons of its own.      *)
(***************************************************************************)
Advance(r) ==
  /\ At(r, "idle")
  /\ ResolveAdvance(subject, subject, status) = "allow"
  /\ Begin(r, "gate", NoName)
  /\ UNCHANGED <<rowVars, status>>

Gate(r) ==
  /\ At(r, "gate")
  /\ \E verdict \in GateVerdicts : Decided(r, "write", verdict)
  /\ UNCHANGED <<rowVars, status>>

WriteVerdict(r) ==
  /\ At(r, "write")
  /\ status' = IF req[r].verdict = "PASS" THEN "PASSED" ELSE NodeStatusOf(req[r].verdict)
  /\ Finish(r)
  /\ UNCHANGED rowVars

Submit(r) ==
  \/ \E name \in Names : UpsertParty(r, name)
  \/ ReadParty(r)
  \/ \E h \in hits, disposition \in {"CONFIRMED_TRUE", "FALSE_POSITIVE"} :
       DisposeHit(r, h, disposition)
  \/ Advance(r)

Handle(r) ==
  \/ TouchNode(r) \/ DeleteHits(r) \/ WriteHit(r) \/ FileReport(r)
  \/ Reevaluate(r) \/ RewriteNode(r)
  \/ Gate(r) \/ WriteVerdict(r)

(* The request fails or the process restarts: what it has written stays.   *)
Stop(r) ==
  /\ ~At(r, "idle")
  /\ onFile' = IF At(r, "match") THEN {} ELSE onFile
  /\ Finish(r)
  /\ UNCHANGED <<subject, party, hits, reports, status, cleared>>

(* A screening is between throwing the hits away and writing the new ones. *)
HalfWay == \E r \in Requests : At(r, "match")

Next == \E r \in Requests :
  /\ Submit(r) \/ Handle(r) \/ Stop(r)
  /\ overtaken' = {q \in Requests : /\ At(q, "write")'
                                    /\ q \in overtaken \/ hits' # hits \/ HalfWay'}

Spec == Init /\ [][Next]_vars
-----------------------------------------------------------------------------
(***************************************************************************)
(* Properties.                                                             *)
(***************************************************************************)
(* A name may pass when the lists do not hold it, or when the desk has     *)
(* cleared it since it was last screened.                                  *)
MayPass(name) == name \in Names /\ (Level[name] = "NONE" \/ name \in cleared)

(* However screenings, renamings, dispositions, gates and failures overlap, *)
(* a hit that has been written is not lost: the matches of a name screened *)
(* in full are there for the gate, until the desk clears the name, another *)
(* name is screened or a screening stops half way.                         *)
HitNotLost ==
  ~HalfWay =>
    \A name \in onFile \cap Names : ~MayPass(name) => \E h \in OpenHits : h.name = name

(* However requests overlap, one whose verdict no screening or disposition *)
(* has moved under passes the node only with a party that may, provided    *)
(* the name the party has then is on file.                                 *)
OnlyClearedPartyPasses ==
  [][status # "PASSED" /\ status' = "PASSED" =>
       \/ MayPass(party)
       \/ party \notin onFile
       \/ \E r \in overtaken : At(r, "write") /\ At(r, "idle")']_vars

(* What the documentation says of N3: the party the node passes with has   *)
(* been screened.                                                          *)
ScreenedPartyPasses ==
  [][status # "PASSED" /\ status' = "PASSED" => party \in reports]_vars
=============================================================================
