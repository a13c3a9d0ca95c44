----------------------------- MODULE TwoLedgerReport -----------------------------
(***************************************************************************)
(* The VEX report of the Security workflow: what a run on a ref tells a    *)
(* reader who joins two ledgers, the repository's `.vex/` records and the  *)
(* code-scanning alerts GitHub keeps, with the scans of the run itself.    *)
(*   scan jobs        security.yml ministack-image, trivy-image, others    *)
(*                    vex-to-sarif-suppressions.ts                         *)
(*   report job       security.yml vex-report: alerts-findings.ts,         *)
(*                    sarif-cve-ids.ts, gate-findings.ts, vex-report.ts    *)
(* A finding is one alert: an id a scanner reports, with the severity of   *)
(* its badge (NVD) and the one its scanner gates on.  GitHub's alert store *)
(* is external: it opens what an upload to a ref contains and fixes what   *)
(* the next upload of the same scanner to the same ref omits; a dismissal  *)
(* belongs to the alert, whatever the ref.                                 *)
(* The scans of locked dependencies are the other scanners: the report     *)
(* lists their alerts and does not wait for them; what their SARIFs hold   *)
(* is given with the tree.  A purl stands for a package and its version,   *)
(* without the qualifiers that records leave out.  Justifications, links   *)
(* and the Markdown are left out.                                          *)
(***************************************************************************)
EXTENDS Naturals, FiniteSets

CONSTANTS
  OtherScanners,  \* uploads the report lists beside the image scans' alerts
  Findings,  \* [id, scanner, badge, gate]
  CveIds,    \* the ids of the CVE namespace
  Purls,     \* the packages and versions findings and records name
  Trees,     \* what a ref may hold: [content, records]
  Starts     \* bound: the runs

Refs == {"main", "pr"}
ImageScanners == {"grype-ministack-image", "trivy-image"}
Scanners == ImageScanners \cup OtherScanners

(* UNKNOWN, NEGLIGIBLE, LOW, MEDIUM, HIGH, CRITICAL; the report and both   *)
(* image gates are given HIGH.                                             *)
Ranks == 0..5
GateFloor == 4

SuppressingStatuses == {"not_affected", "fixed"}

(* A statement of `.vex/`: the surface its file name says it is for, and   *)
(* its place in the order of the file names.                               *)
Records ==
  [id : { f.id : f \in Findings },
   status : SuppressingStatuses \cup {"affected", "under_investigation"},
   products : SUBSET Purls,
   prefix : {"CVE", "other"},
   order : Nat,
   overdue : BOOLEAN]

(* The record vexByCve ends up with: each one of an id replaces the one    *)
(* before, whatever surface it is for.                                     *)
isLast(rec, recs) == \A other \in recs : other.order <= rec.order

recordsOf(id, records) == { rec \in records : rec.id = id }

Ids == { f.id : f \in Findings } \cup { rec.id : rec \in UNION { t.records : t \in Trees } }

ReportAssumption ==
  /\ \A f \in Findings : f.scanner \in Scanners /\ f.badge \in Ranks /\ f.gate \in Ranks
  /\ \A t \in Trees :
       /\ DOMAIN t.content \subseteq Findings
       /\ \A f \in DOMAIN t.content : t.content[f] \in Purls
       /\ t.records \subseteq Records
       /\ \A rec \in t.records :
            \E last \in recordsOf(rec.id, t.records) : isLast(last, recordsOf(rec.id, t.records))
  /\ OtherScanners \cap ImageScanners = {}
  /\ Starts \in Nat

ASSUME ReportAssumption

VARIABLES
  tree,       \* the tree each ref holds
  job,        \* the scan jobs of the last run on each ref
  instance,   \* GitHub: the state of each alert's instance on each ref
  dismissal,  \* GitHub: who dismissed an alert, if anyone did
  report,     \* the report of the last run on each ref
  starts

vars == <<tree, job, instance, dismissal, report, starts>>

--------------------------------------------------------------------------------
(* vex-report.ts: from the two ledgers to rows.                            *)

UnifiedStatus ==
  {"Accepted", "Tracked", "Decision needed", "Revisit overdue", "Stale record",
   "Investigating", "VEX drift", "Undocumented dismissal", "Scanner-cleared",
   "Resolved"}

isActionable(status) ==
  status \in {"Decision needed", "Revisit overdue", "Stale record", "VEX drift",
              "Undocumented dismissal"}

PRIORITY ==
  [status \in UnifiedStatus |->
     CASE status = "Decision needed" -> 0
       [] status = "Revisit overdue" -> 1
       [] status = "Undocumented dismissal" -> 2
       [] status = "VEX drift" -> 3
       [] status = "Stale record" -> 4
       [] status = "Resolved" -> 5
       [] status = "Scanner-cleared" -> 6
       [] status = "Investigating" -> 7
       [] status = "Accepted" -> 8
       [] status = "Tracked" -> 9]

(* What buildReport keeps of the alerts of one id.                         *)
Signals ==
  [isCve : BOOLEAN, atFloor : BOOLEAN, anyOpen : BOOLEAN,
   anyDismissed : BOOLEAN, anyFixed : BOOLEAN]

(* The alerts against the scans of this run: only a CVE at the floor can   *)
(* be missed there.                                                        *)
clearedByScan(g, id, scan) ==
  scan.given /\ g.isCve /\ g.atFloor /\ id \notin scan.ids

coveredStatus(rec, g, cleared) ==
  IF rec.overdue THEN "Revisit overdue"
  ELSE IF rec.status \in SuppressingStatuses
       THEN IF g.anyOpen /\ ~cleared THEN "VEX drift" ELSE "Accepted"
       ELSE IF rec.status = "affected" THEN "Tracked" ELSE "Investigating"

(* A demoted row gets a status that summarize and PRIORITY have no entry   *)
(* for.                                                                    *)
MutUncoveredStatus(g, cleared) ==
  IF g.anyOpen /\ cleared THEN "Cleared"
  ELSE IF g.anyDismissed THEN "Undocumented dismissal"
  ELSE IF g.atFloor THEN "Decision needed" ELSE "Tracked"

uncoveredStatus(g, cleared) ==
  IF g.anyOpen
  THEN IF cleared THEN "Scanner-cleared"
       ELSE IF g.atFloor THEN "Decision needed" ELSE "Tracked"
  ELSE IF g.anyDismissed THEN "Undocumented dismissal"
  ELSE IF g.anyFixed THEN "Resolved"
  ELSE IF g.atFloor THEN "Decision needed" ELSE "Tracked"

(* `recs` holds the records of the id, if there are any.                   *)
unifiedStatus(recs, g, id, scan) ==
  IF recs = {} THEN uncoveredStatus(g, clearedByScan(g, id, scan))
  ELSE coveredStatus(CHOOSE rec \in recs : isLast(rec, recs), g, clearedByScan(g, id, scan))

(* An alert as alerts-findings.ts hands it over: the finding and a state.  *)
ScannerFinding ==
  [finding : Findings, state : {"open", "dismissed", "fixed"}]

signals(id, alerts) ==
  LET mine == { a \in alerts : a.finding.id = id }
  IN  [isCve |-> id \in CveIds,
       atFloor |-> \E a \in mine : a.finding.badge >= GateFloor,
       anyOpen |-> \E a \in mine : a.state = "open",
       anyDismissed |-> \E a \in mine : a.state = "dismissed",
       anyFixed |-> \E a \in mine : a.state = "fixed"]

Row == [status : UnifiedStatus, shown : BOOLEAN]
Rows == UNION { [ids -> Row] : ids \in SUBSET Ids }

(* A row for every id of either ledger.  `shown` is the severity cell: it  *)
(* names a rating at or above the floor, the badge's or the gate's.        *)
(* isRecentlyResolved keeps the resolved rows in `recent`.                 *)
buildReport(records, alerts, scan, gated, recent) ==
  LET found == { a.finding.id : a \in alerts }
      status(id) ==
        IF id \in found
        THEN unifiedStatus(recordsOf(id, records), signals(id, alerts), id, scan)
        ELSE "Stale record"
  IN  [ id \in { x \in found \cup { rec.id : rec \in records } :
                   status(x) = "Resolved" => x \in recent } |->
          [status |-> status(id),
           shown |-> id \in gated \/ signals(id, alerts).atFloor] ]

--------------------------------------------------------------------------------
(* The scans of a run and what they leave behind.                          *)

(* A scanner applies a record to the package and version it is about.      *)
(* Grype's image gate is given the records named for the image, Trivy      *)
(* every suppressing one.                                                  *)
covered(t, f) ==
  \E rec \in recordsOf(f.id, t.records) :
    /\ rec.status \in SuppressingStatuses
    /\ t.content[f] \in rec.products
    /\ f.scanner = "grype-ministack-image" => rec.prefix = "CVE"

(* Trivy is not told of the records.                                       *)
MutResults(t, s) ==
  { f \in DOMAIN t.content : f.scanner = s /\ (s = "trivy-image" => f.gate >= GateFloor) }

(* Trivy leaves out what the records cover and what is below the floor.    *)
(* Grype's SARIF holds everything, the records become suppressions in it.  *)
results(t, s) ==
  { f \in DOMAIN t.content :
      f.scanner = s /\ (s = "trivy-image" => f.gate >= GateFloor /\ ~covered(t, f)) }

(* What the gate of an image scanner fails on.                             *)
uncovered(t, s) ==
  { f \in results(t, s) : f.gate >= GateFloor /\ ~covered(t, f) }

(* What is suppressed in Grype's SARIF: the injector looks at the CVE of a *)
(* record and not at its products.                                         *)
suppressedIds(t) ==
  { rec.id : rec \in { x \in t.records : x.status \in SuppressingStatuses /\ x.prefix = "CVE" } }

(* Of a job: whether it is over, whether its SARIF and its JSON exist,     *)
(* whether the upload was processed and the dismissals were applied.       *)
Outcome ==
  [done : BOOLEAN, sarif : BOOLEAN, json : BOOLEAN, uploaded : BOOLEAN,
   applied : BOOLEAN]
Waiting ==
  [done |-> FALSE, sarif |-> FALSE, json |-> FALSE, uploaded |-> FALSE,
   applied |-> FALSE]
NotStarted == [Waiting EXCEPT !.done = TRUE]

(* Whether the report job has yet to run, and what it has written.         *)
NoReport == [due |-> FALSE, fetched |-> FALSE, rows |-> [id \in {} |-> 0]]

(* The image SARIFs the run has: one that is missing contributes nothing.  *)
readSarifs(r) == { s \in ImageScanners : job[r][s].sarif }

(* The CVE ids of these; none at all is not the same as an empty set.      *)
cveIdsFromSarifs(r) ==
  [given |-> readSarifs(r) # {},
   ids |-> { f.id : f \in UNION { results(tree[r], s) : s \in readSarifs(r) } } \cap CveIds]

(* What a scanner gates on, if its JSON is there.                          *)
gateMapFor(r, s) ==
  { f \in results(tree[r], s) : job[r][s].json /\ f.gate >= GateFloor }

(* The CVEs some scanner gates on: the highest gate severity of an id is   *)
(* the one shown.                                                          *)
gatedResults(r) == UNION { gateMapFor(r, s) : s \in ImageScanners }

gateHigh(r) == { f.id : f \in gatedResults(r) } \cap CveIds

(* GitHub: a processed upload of scanner s to ref r.                       *)
upload(r, s) ==
  [instance EXCEPT ![r] =
     [ f \in Findings |->
         IF f.scanner # s THEN @[f]
         ELSE IF f \in results(tree[r], s) THEN "open"
         ELSE IF @[f] = "none" THEN "none" ELSE "fixed" ]]

(* Previously dismissed alerts stay dismissed.                             *)
MutDismissAlerts(t) ==
  [ f \in Findings |->
      IF f \in results(t, "grype-ministack-image") /\ f.id \in suppressedIds(t)
         /\ dismissal[f] = "no"
      THEN "vex" ELSE dismissal[f] ]

(* dismiss-alerts, after the upload of Grype's suppressed SARIF: dismiss   *)
(* what carries a suppression, reopen what it had dismissed and no longer  *)
(* does.                                                                   *)
dismissAlerts(t) ==
  [ f \in Findings |->
      IF f \in results(t, "grype-ministack-image") /\ dismissal[f] # "human"
      THEN IF f.id \in suppressedIds(t) THEN "vex" ELSE "no"
      ELSE dismissal[f] ]

(* GitHub: the alerts of a ref.  What is fixed or dismissed is anchored to *)
(* the default branch and absent from a pull request's listing.            *)
listing(r) ==
  { [finding |-> f,
     state |-> IF instance[r][f] = "fixed" THEN "fixed"
               ELSE IF dismissal[f] # "no" THEN "dismissed" ELSE "open"] :
      f \in { x \in Findings :
                /\ instance[r][x] # "none"
                /\ r = "pr" => instance[r][x] = "open" /\ dismissal[x] = "no" } }

sameKey(a, m) == a.finding.id = m.finding.id /\ a.finding.scanner = m.finding.scanner

(* Main's entries win.                                                     *)
MutMergeAlertLedgers(runRef, mainRef) ==
  mainRef \cup { a \in runRef : \A m \in mainRef : ~sameKey(a, m) }

(* Of main's alerts those whose id and scanner the run's ref has none of.  *)
mergeAlertLedgers(runRef, mainRef) ==
  runRef \cup { m \in mainRef : \A a \in runRef : ~sameKey(a, m) }

(* The alerts of the run's ref, with main's beside them; a listing that    *)
(* cannot be fetched counts as empty.                                      *)
alertsOf(r, fetched, mainFetched) ==
  mergeAlertLedgers(IF fetched THEN listing(r) ELSE {},
                    IF mainFetched THEN listing("main") ELSE {})

--------------------------------------------------------------------------------
Init ==
  /\ \E t \in Trees : tree = [r \in Refs |-> t]
  /\ job = [r \in Refs |-> [s \in Scanners |-> NotStarted]]
  /\ instance = [r \in Refs |-> [f \in Findings |-> "none"]]
  /\ dismissal = [f \in Findings |-> "no"]
  /\ report = [r \in Refs |-> NoReport]
  /\ starts = 0

(* A push, or a scheduled run over what the scanners know by now, starts   *)
(* the workflow and cancels the run the ref had (concurrency group).       *)
Start(r, t) ==
  /\ starts < Starts
  /\ tree' = [tree EXCEPT ![r] = t]
  /\ job' = [job EXCEPT ![r] = [s \in Scanners |-> Waiting]]
  /\ report' = [report EXCEPT ![r] = [NoReport EXCEPT !.due = TRUE]]
  /\ starts' = starts + 1
  /\ UNCHANGED <<instance, dismissal>>

(* A job's artifacts may be missing, its upload may fail; the dismissals   *)
(* are a later step of Grype's job, on pushes to main only.                *)
ScanOutcomes(r, s) ==
  { o \in Outcome :
      /\ o.done
      /\ o.uploaded => o.sarif
      /\ o.applied => o.uploaded /\ r = "main" /\ s = "grype-ministack-image"
      /\ s = "trivy-image" /\ o.sarif => o.json
      /\ s \in OtherScanners => o.sarif = o.uploaded /\ ~o.json }

Scan(r, s) ==
  /\ ~job[r][s].done
  /\ \E o \in ScanOutcomes(r, s) :
       /\ job' = [job EXCEPT ![r][s] = o]
       /\ instance' = IF o.uploaded THEN upload(r, s) ELSE instance
       /\ dismissal' = IF o.applied THEN dismissAlerts(tree[r]) ELSE dismissal
  /\ UNCHANGED <<tree, report, starts>>

(* A maintainer dismisses an alert of main in the Security tab.            *)
HumanDismiss(f) ==
  /\ instance["main"][f] = "open"
  /\ dismissal[f] = "no"
  /\ dismissal' = [dismissal EXCEPT ![f] = "human"]
  /\ UNCHANGED <<tree, job, instance, report, starts>>

(* The report job needs the two image jobs, finished either way, and only  *)
(* them.  Main's listing is asked for off main.                            *)
Report(r) ==
  /\ report[r].due
  /\ \A s \in ImageScanners : job[r][s].done
  /\ \E fetched \in BOOLEAN, mainFetched \in { b \in BOOLEAN : b => r # "main" } :
       LET alerts == alertsOf(r, fetched, mainFetched)
       IN  \E recent \in SUBSET { a.finding.id : a \in { x \in alerts : x.state = "fixed" } } :
             report' = [report EXCEPT ![r] =
               [due |-> FALSE, fetched |-> fetched,
                rows |-> buildReport(tree[r].records, alerts, cveIdsFromSarifs(r),
                                     gateHigh(r), recent)]]
  /\ UNCHANGED <<tree, job, instance, dismissal, starts>>

Next ==
  \/ \E r \in Refs, t \in Trees : Start(r, t)
  \/ \E r \in Refs, s \in Scanners : Scan(r, s)
  \/ \E f \in Findings : HumanDismiss(f)
  \/ \E r \in Refs : Report(r)

Spec == Init /\ [][Next]_vars

--------------------------------------------------------------------------------
TypeOK ==
  /\ tree \in [Refs -> Trees]
  /\ job \in [Refs -> [Scanners -> Outcome]]
  /\ instance \in [Refs -> [Findings -> {"none", "open", "fixed"}]]
  /\ dismissal \in [Findings -> {"no", "human", "vex"}]
  /\ report \in [Refs -> [due : BOOLEAN, fetched : BOOLEAN, rows : Rows]]
  /\ starts \in 0..Starts

rowsWith(rows, status) == { id \in DOMAIN rows : rows[id].status = status }

(* A finding that turns an image gate red, of an id no record names, is    *)
(* shown to the reader as something to act on, or as tracked with a rating *)
(* at the floor, unless somebody dismissed it: whatever the other ref, the *)
(* other scanners and main's history put beside it.                        *)
RedGateIsShown ==
  [][ \A r \in Refs :
        report[r].due /\ ~report'[r].due /\ report'[r].fetched =>
          \A f \in UNION { uncovered(tree[r], s) : s \in ImageScanners } :
            /\ job[r][f.scanner].uploaded /\ job[r][f.scanner].json
            /\ f.id \in CveIds /\ dismissal[f] = "no"
            /\ recordsOf(f.id, tree[r].records) = {}
            => /\ f.id \in DOMAIN report'[r].rows
               /\ LET row == report'[r].rows[f.id]
                  IN  isActionable(row.status) \/ (row.status = "Tracked" /\ row.shown) ]_vars

(* "Undocumented dismissal: a human hid it": once a run of main has        *)
(* applied the dismissals, no record that was withdrawn leaves a dismissal *)
(* behind that looks like a person's.                                      *)
DismissalIsHuman ==
  job["main"]["grype-ministack-image"].applied =>
    \A id \in rowsWith(report["main"].rows, "Undocumented dismissal") :
      \E f \in Findings : f.id = id /\ dismissal[f] = "human"

(* After such a run whose Trivy results arrived too, "VEX drift" is never  *)
(* an alert that lags behind its record: the automation has closed those,  *)
(* and an image finding still open is one that no record given to its      *)
(* scanner covers, because it is about another version or for another      *)
(* surface.                                                                *)
DriftIsReconciled ==
  /\ job["main"]["grype-ministack-image"].applied
  /\ job["main"]["trivy-image"].uploaded
  => \A id \in rowsWith(report["main"].rows, "VEX drift") :
       \E f \in Findings :
         /\ f.id = id
         /\ instance["main"][f] # "none"
         /\ f.scanner \in ImageScanners =>
              /\ f \in results(tree["main"], f.scanner)
              /\ ~covered(tree["main"], f)

(* "Stale record: .vex/ record with no finding -- the real PRUNE signal"   *)
(* (vex-report.ts:165): when every scan of the run arrived, the image has  *)
(* nothing the record would cover.                                         *)
StaleRecordIsUnused ==
  \A r \in Refs :
    report[r].fetched /\ (\A s \in Scanners : job[r][s].uploaded) =>
      \A id \in rowsWith(report[r].rows, "Stale record") :
        \A f \in DOMAIN tree[r].content : f.id # id

================================================================================
