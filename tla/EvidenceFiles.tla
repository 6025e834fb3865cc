----------------------------- MODULE EvidenceFiles -----------------------------
(***************************************************************************)
(* Files of a case and the rows that point at them.  An upload writes the  *)
(* file under a fresh key and then an evidence row; a Sinosure policy is   *)
(* one more evidence row with the key of the row it is linked to, and the  *)
(* policy itself.  The server may stop between any two of these steps.     *)
(***************************************************************************)
EXTENDS Naturals, Sequences, FiniteSets

CONSTANTS
  Requests,          \* requests in flight
  Cases,
  Limits,            \* insured limits a form may hold; 0 is a form without one
  MaxFiles, MaxRows  \* bounds on keys drawn and rows written

VARIABLES
  files,     \* storage keys whose file is complete on the disk
  drawn,     \* keys drawn so far
  evidence,  \* sequence of [case, kind, key, source]
  policies,  \* sequence of [case, node, evidence, limit, confirmed]
  req        \* the requests

vars == <<files, drawn, evidence, policies, req>>

NoKey == [case |-> "none", id |-> 0]
Stopped == [step |-> "idle", case |-> "none", node |-> "N3", kind |-> "DOC", key |-> NoKey,
            source |-> 0, limit |-> 0]

Init ==
  /\ files = {} /\ drawn = 0 /\ evidence = <<>> /\ policies = <<>>
  /\ req = [r \in Requests |-> Stopped]

At(r, step) == req[r].step = step
Stop(r) == req' = [req EXCEPT ![r] = Stopped]

(***************************************************************************)
(* uploadSinosureFile and uploadNodeDocument: the file first, then its row.*)
(* What fails to be written leaves no row.                                 *)
(***************************************************************************)
NewKey(c) == [case |-> c, id |-> drawn + 1]

(* Variant: nobody waits for the disk.                                     *)
WriteUnawaited(r, c, kind) ==
  /\ At(r, "idle") /\ drawn < MaxFiles
  /\ drawn' = drawn + 1
  /\ files' \in {files, files \cup {NewKey(c)}}
  /\ req' = [req EXCEPT ![r] = [Stopped EXCEPT !.step = "row", !.case = c, !.kind = kind, !.key = NewKey(c)]]
  /\ UNCHANGED <<evidence, policies>>

Write(r, c, kind) ==
  /\ At(r, "idle") /\ drawn < MaxFiles
  /\ drawn' = drawn + 1
  /\ req' = [req EXCEPT ![r] = [Stopped EXCEPT !.step = "writing", !.case = c, !.kind = kind, !.key = NewKey(c)]]
  /\ UNCHANGED <<files, evidence, policies>>

Written(r) ==
  /\ At(r, "writing")
  /\ files' = files \cup {req[r].key}
  /\ req' = [req EXCEPT ![r].step = "row"]
  /\ UNCHANGED <<drawn, evidence, policies>>

WriteFails(r) == At(r, "writing") /\ Stop(r) /\ UNCHANGED <<files, drawn, evidence, policies>>

AddEvidence(r) ==
  /\ At(r, "row") /\ Len(evidence) < MaxRows
  /\ evidence' = Append(evidence, [case |-> req[r].case, kind |-> req[r].kind,
                                   key |-> req[r].key, source |-> req[r].source])
  /\ Stop(r)
  /\ UNCHANGED <<files, drawn, policies>>

(***************************************************************************)
(* saveSinosure.  A confirmation takes what its form leaves out from the   *)
(* newest policy of N3; N3 without a confirmation wants a row it may link, *)
(* N4 does with a name.  Rows are never changed or deleted.                *)
(***************************************************************************)
Forms == [confirmed : BOOLEAN, evidence : 0..Len(evidence), named : BOOLEAN, limit : Limits]
Prior(c) == {i \in DOMAIN policies : policies[i].case = c /\ policies[i].node = "N3"}
Newest(S) == CHOOSE i \in S : \A j \in S : j <= i

(* A row that names a file; whether the page can open it.                  *)
ParseStoredFile(row) == row.key # NoKey
OpenEvidenceFile(row) == row.key \in files

(* Variant: a row of any case.                                             *)
LinkableAnywhere(c, node, confirmed) == DOMAIN evidence

Linkable(c, node, confirmed) ==
  {i \in DOMAIN evidence :
     /\ evidence[i].case = c
     /\ node = "N3" /\ ~confirmed =>
          evidence[i].kind \in {"SINOSURE_POLICY", "SINOSURE_CONFIRM"} \/ ParseStoredFile(evidence[i])}

ReadPolicy(r, c, node, form) ==
  LET prior == Prior(c)
      first == form.confirmed => prior # {}
      link  == IF form.confirmed /\ form.evidence = 0 THEN policies[Newest(prior)].evidence ELSE form.evidence
      limit == IF form.confirmed /\ form.limit = 0 THEN policies[Newest(prior)].limit ELSE form.limit
  IN /\ At(r, "idle")
     /\ first
     /\ IF link = 0 THEN form.named /\ node = "N4" ELSE link \in Linkable(c, node, form.confirmed)
     /\ limit > 0
     /\ req' = [req EXCEPT ![r] =
          [step |-> "copy", case |-> c, node |-> node, limit |-> limit, source |-> link,
           kind |-> IF form.confirmed THEN "SINOSURE_CONFIRM" ELSE "SINOSURE_POLICY",
           key |-> IF link = 0 THEN NoKey ELSE evidence[link].key]]
     /\ UNCHANGED <<files, drawn, evidence, policies>>

CopyEvidence(r) ==
  /\ At(r, "copy") /\ Len(evidence) < MaxRows
  /\ evidence' = Append(evidence, [case |-> req[r].case, kind |-> req[r].kind,
                                   key |-> req[r].key, source |-> req[r].source])
  /\ req' = [req EXCEPT ![r].step = "policy", ![r].source = Len(evidence')]
  /\ UNCHANGED <<files, drawn, policies>>

CreatePolicy(r) ==
  /\ At(r, "policy")
  /\ policies' = Append(policies, [case |-> req[r].case, node |-> req[r].node, evidence |-> req[r].source,
                                   limit |-> req[r].limit, confirmed |-> req[r].kind = "SINOSURE_CONFIRM"])
  /\ Stop(r)
  /\ UNCHANGED <<files, drawn, evidence>>

(* The server stops and starts: what was under way is lost.                *)
Restart ==
  /\ \E r \in Requests : ~At(r, "idle")
  /\ req' = [r \in Requests |-> Stopped]
  /\ UNCHANGED <<files, drawn, evidence, policies>>

Next ==
  \/ \E r \in Requests :
       \/ \E c \in Cases, kind \in {"SINOSURE_POLICY", "DOC"} : Write(r, c, kind)
       \/ \E c \in Cases, node \in {"N3", "N4"}, form \in Forms : ReadPolicy(r, c, node, form)
       \/ Written(r) \/ WriteFails(r) \/ AddEvidence(r) \/ CopyEvidence(r) \/ CreatePolicy(r)
  \/ Restart

Spec == Init /\ [][Next]_vars
-----------------------------------------------------------------------------
(***************************************************************************)
(* Wherever the server stops, a row that names a file can be opened: there *)
(* may be files without a row, never the other way (openEvidenceFile).     *)
(***************************************************************************)
StoredFileOpens == \A i \in DOMAIN evidence : ParseStoredFile(evidence[i]) => OpenEvidenceFile(evidence[i])

(***************************************************************************)
(* A policy, however often it was confirmed or linked again, shows a file  *)
(* that was uploaded for its own case, and the file of the row it names.   *)
(***************************************************************************)
FilesStayInCase ==
  /\ \A i \in DOMAIN evidence : LET row == evidence[i] IN
       /\ ParseStoredFile(row) => row.key.case = row.case
       /\ row.source # 0 => evidence[row.source].key = row.key
  /\ \A i \in DOMAIN policies : evidence[policies[i].evidence].case = policies[i].case
=============================================================================
