------------------------------ MODULE VexSurfaces ------------------------------
(***************************************************************************)
(* The consumers of the `.vex/` ledger that decide whether a change is     *)
(* mergeable, each as a predicate of a repository tree, the day the job    *)
(* runs and the advisories its scanner knows:                              *)
(*   npm audit gate   npm-audit-gate.ts   + security.yml job npm-audit     *)
(*   Grype FS gate    grype-fs-gate.ts    + security.yml job grype         *)
(*   OSV scanner      vex-dialects.ts     + security.yml job osv-scanner   *)
(*   dialect drift    vex-dialects.mjs    + security.yml job vex-dialects  *)
(*   revisit_by gate  vex-revisit-gate.ts + security.yml job vex-revisit   *)
(* A tree is [ledger, trivy, osv]: the records, the record paths listed in *)
(* trivy.yaml and the [[IgnoredVulns]] rows of osv-scanner.toml.  Reasons  *)
(* and layout of the generated files are left out.                         *)
(***************************************************************************)
EXTENDS VexLedger

SuppressingStatuses == {"not_affected", "fixed"}

OSV_SCANNED_PURL_TYPES == {"npm", "pypi"}

(* An advisory that hits a locked dependency of the repository tree.       *)
(* `purls` holds the one purl the scanner reports, or nothing when that    *)
(* does not parse; `rated` is whether Grype reports a severity for it.     *)
Advisory ==
  [eco : {"npm", "pypi"}, pkg : STRING, purls : SUBSET Purls,
   ids : SUBSET Ids, rated : BOOLEAN]

Row == [id : CveIds, until : Nat, status : SuppressingStatuses]

--------------------------------------------------------------------------------
(* npm audit: one entry per vulnerable package, with the GHSAs of all the  *)
(* advisories npm lists under it.                                          *)

npmAudit(live) ==
  LET npm == { e \in live : e.eco = "npm" }
  IN  [ pkg \in { e.pkg : e \in npm } |->
          UNION { e.ids \cap GhsaIds : e \in { x \in npm : x.pkg = pkg } } ]

(* A package is covered as soon as ANY of its GHSAs is accepted.           *)
uncoveredAdvisories(audit, accepted) ==
  { pkg \in DOMAIN audit : audit[pkg] \cap accepted = {} }

npmGate(ledger, now, live) ==
  uncoveredAdvisories(npmAudit(live), activeRecordIds(ledger, now)) = {}

(* Grype over the file system: every rated match must be covered by id and *)
(* by purl.  The shim is never given a date.                               *)
uncoveredVulns(live, acceptances) ==
  { e \in live : e.rated /\ ~isCovered(acceptances, e.ids, e.purls) }

grypeFsGate(ledger, live) == uncoveredVulns(live, recordAcceptances(ledger)) = {}

--------------------------------------------------------------------------------
(* The generated dialects.                                                 *)

docSuppresses(doc) == \E st \in doc.statements : st.status \in SuppressingStatuses

(* The surface of the statement is not looked at.                          *)
MutOsvEmittable(st) == st.purls # {}

(* A row can only help where every product of the statement is of an       *)
(* ecosystem OSV scans here.                                               *)
osvEmittable(st) ==
  /\ st.purls # {}
  /\ \A purl \in st.purls : purl.type \in OSV_SCANNED_PURL_TYPES

suppressingRecords(ledger) == { p \in DOMAIN ledger : docSuppresses(ledger[p]) }

(* One row per emittable statement of a suppressing record that names a    *)
(* CVE, in either shape of `vulnerability`; it expires with the DOCUMENT's *)
(* date.                                                                   *)
rowsOf(doc) ==
  { [id |-> st.name, until |-> doc.revisit.due, status |-> st.status] :
      st \in { s \in doc.statements : /\ s.status \in SuppressingStatuses
                                      /\ osvEmittable(s)
                                      /\ s.name \in CveIds } }

(* A row per emittable statement, whatever its status.                     *)
MutIgnoredVulns(ledger) ==
  { [id |-> st.name, until |-> 0, status |-> st.status] :
      st \in { s \in UNION { ledger[p].statements : p \in DOMAIN ledger } :
                 osvEmittable(s) /\ s.name \in CveIds } }

ignoredVulns(ledger) ==
  UNION { rowsOf(ledger[p]) : p \in suppressingRecords(ledger) }

loads(ledger) == \A p \in DOMAIN ledger : ledger[p].parses

(* Only the first of the two files is compared.                            *)
MutDialectCheck(tree) ==
  loads(tree.ledger) /\ tree.trivy = suppressingRecords(tree.ledger)

(* `vex-dialects.mjs check`: the load throws on a file that is not JSON.   *)
dialectCheck(tree) ==
  /\ loads(tree.ledger)
  /\ tree.trivy = suppressingRecords(tree.ledger)
  /\ tree.osv = ignoredVulns(tree.ledger)

(* OSV-Scanner itself: an ignore row silences its id wherever it is found, *)
(* until its date comes.                                                   *)
rowInForce(row, now) == row.until = 0 \/ row.until > now

osvIgnored(rows, ids, now) ==
  \E row \in rows : row.id \in ids /\ rowInForce(row, now)

(* One silenced id is enough for all that was found.                       *)
MutOsvScan(rows, now, live) ==
  LET npm == { e \in live : e.eco = "npm" }
  IN  npm = {} \/ osvIgnored(rows, UNION { e.ids : e \in npm }, now)

osvScan(rows, now, live) ==
  \A e \in live : e.eco = "npm" => osvIgnored(rows, e.ids, now)

--------------------------------------------------------------------------------
(* The revisit_by gate.                                                    *)

(* `doc.x ?? stmt.x`: an explicit null at document level falls through.    *)
effectiveRevisitBy(doc, st) ==
  IF doc.revisit.shape \in {"absent", "null"} THEN st.revisit ELSE doc.revisit

effectiveEvidence(doc, st) ==
  IF doc.evidence = "absent" THEN st.evidence ELSE doc.evidence

inForcePairs(doc) ==
  IF doc.statements = {}
  THEN { [value |-> doc.revisit, evidence |-> doc.evidence] }
  ELSE { [value    |-> effectiveRevisitBy(doc, st),
          evidence |-> effectiveEvidence(doc, st)] : st \in doc.statements }

(* The evidence of a standing acceptance is not looked at.                 *)
MutRecordViolation(doc) ==
  ~doc.parses \/ \E pair \in inForcePairs(doc) : pair.value.form = "none"

recordViolation(doc) ==
  \/ ~doc.parses
  \/ \E pair \in inForcePairs(doc) :
       \/ pair.value.form = "none"
       \/ pair.value.form = "standing" /\ pair.evidence # "complete"

revisitGate(ledger) ==
  /\ DOMAIN ledger # {}
  /\ \A p \in DOMAIN ledger : ~recordViolation(ledger[p])

================================================================================
