-------------------------------- MODULE MCRisk --------------------------------
(***************************************************************************)
(* Screening and risk radar for TLC.  They share no row that a step of     *)
(* more than one of them writes, so each behaviour moves one of them:      *)
(* "radar" the risk card, one request at a time; "overlap" the card, two   *)
(* requests at a time; "screen" the screening of a party; and the          *)
(* findings, "list" of the lists, "quota" of the limit, "due" of receipts, *)
(* "papers" of missing papers.                                             *)
(***************************************************************************)
EXTENDS RiskRadar, TLC

CONSTANTS
  r1, r2, u1, u2, nobody, t1, t2,
  clean, medium, high, blank,
  ScreenRequests, Subjects,                                 \* of Screening
  MaxHits, Limits, Amounts, LastDay, TermDays,              \* of RadarFindings
  MediumMin, HighMin, UltraMin

OneRequest == {r1}
TwoRequests == {r1, r2}
TwoUsers == {u1, u2}
TwoTasks == {t1, t2}
AllColors == Colors

Symmetry == Permutations(TwoRequests) \cup Permutations(TwoTasks)

(***************************************************************************)
(* The card where requests overlap: a rule as of missing documents, which  *)
(* answers yellow only, one person and one task of a release at a time.    *)
(***************************************************************************)
Mild ==
  /\ rule' \in {"NONE", "YELLOW"}
  /\ \A r \in Requests : req'[r].user \in {u1, NoUser}
  /\ \A s, t \in TaskIds : tasks'[s] # "NONE" /\ tasks'[t] # "NONE" => s = t

(***************************************************************************)
(* The screening: the mock lists have one name they do not hold, and one   *)
(* of each level.                                                          *)
(***************************************************************************)
VARIABLES subject, party, hits, reports, status, screenReq, cleared, onFile, overtaken

screenVars == <<subject, party, hits, reports, status, screenReq, cleared, onFile, overtaken>>

Names == {clean, medium, high}
Level == [n \in Names |-> CASE n = clean -> "NONE" [] n = medium -> "MEDIUM" [] OTHER -> "HIGH"]

ASSUME ScreeningAssumption ==
  Subjects \subseteq {"N3", "N5"} /\ blank \notin Names

Screen == INSTANCE Screening
  WITH Requests <- ScreenRequests, NoName <- blank, Seeded <- Names, req <- screenReq

(* One of the two listed names at a time, besides the clean one.           *)
OneListed == \E n \in Names \ {clean} :
  n \notin reports' \cup {party'} \cup {screenReq'[r].name : r \in ScreenRequests}

(***************************************************************************)
(* The findings: one customer of two cases, spelled "cn" in the first and  *)
(* in his file, "en" in the second.                                        *)
(***************************************************************************)
VARIABLES lists, matched, rescreens, limits, contract, batch, today

listVars == <<lists, matched, rescreens>>
findVars == <<lists, matched, rescreens, limits, contract, batch, today>>

Fits(cn, en) == [name \in {"cn", "en"} |-> [entry \in {"ofac"} |-> IF name = "cn" THEN cn ELSE en]]
Menus == {Fits({"LOW", "HIGH"}, {"HIGH"}), Fits({"LOW"}, {"MEDIUM"}), Fits({}, {"LOW"})}

ASSUME FindingsAssumption ==
  MaxHits \in Nat /\ LastDay \in Nat /\ TermDays \in Nat /\ Amounts \subseteq Nat \ {0}

Find == INSTANCE RadarFindings
  WITH Requests <- {"rescreen"}, Parties <- <<"first", "second">>, SpelledAs <- <<"cn", "en">>,
       FileName <- "cn", hits <- matched, req <- rescreens

(* Where a lane does not move what another one needs several of, the       *)
(* behaviour starts with one of them.                                      *)
VARIABLE lane

MCInit ==
  /\ Init /\ Screen!Init /\ Find!Init
  /\ lane \in {"radar", "overlap", "screen", "list", "quota", "due", "papers"}
  /\ lane # "screen" => subject = "N3" /\ party = clean
  /\ lane # "list" => lists = CHOOSE m \in Menus : TRUE
  /\ lane # "papers" => contract.incoterms = "FOB"
  /\ lane \notin {"quota", "due"} => contract.amount = 4

FindNext ==
  \/ lane = "list" /\ Find!Screen
  \/ /\ \/ lane = "quota" /\ (Find!Insure \/ Find!Sell \/ Find!Collect)
        \/ lane = "due" /\ (Find!Sell \/ Find!Collect \/ Find!AdvanceN6 \/ Find!LaterDay)
        \/ lane = "due" /\ (\E eta \in {0, today} : Find!SaveShipment(eta, ""))
        \/ lane = "papers" /\ Find!Ship
     /\ UNCHANGED listVars

MCNext ==
  /\ \/ lane = "radar" /\ SerialNext /\ UNCHANGED <<screenVars, findVars>>
     \/ lane = "overlap" /\ Next /\ Mild /\ UNCHANGED <<screenVars, findVars>>
     \/ lane = "screen" /\ Screen!Next /\ OneListed /\ UNCHANGED <<vars, findVars>>
     \/ FindNext /\ UNCHANGED <<vars, screenVars>>
  /\ UNCHANGED lane

MCSpec == MCInit /\ [][MCNext]_<<vars, screenVars, findVars, lane>>

(* While requests do not overlap no red risk stands released or resolved,  *)
(* and a card comes to rest.                                               *)
SerialRedNotReleased == lane = "radar" => RedNotReleased
SerialCardSettles == lane = "radar" => CardSettles

(* While requests do not overlap a disposition holds until a person        *)
(* changes it, the rule gets worse or the tasks of a release are late.     *)
SerialDispositionKept == [][lane = "radar" => KeepsDisposition]_vars

(* However requests overlap, whatever they write over, a risk released on  *)
(* conditions still has its tasks, and a rule that never answers red       *)
(* leaves no red card.                                                     *)
OverlapLawful == ReleaseHasTasks /\ (lane = "overlap" => risk.color # "RED")

(* The properties of Screening.                                            *)
HitNotLost == Screen!HitNotLost
OnlyClearedPartyPasses == Screen!OnlyClearedPartyPasses
ScreenedPartyPasses == Screen!ScreenedPartyPasses

(* The properties of RadarFindings.                                        *)
RescreenSettles == Find!RescreenSettles
ListedPartnerShows == Find!ListedPartnerShows
PassedPapersComplete == Find!PassedPapersComplete
OverdueIsOwed == Find!OverdueIsOwed
=============================================================================
