------------------------ MODULE TwoLedgerReportProofs ------------------------
(***************************************************************************)
(* Theorems about TwoLedgerReport, for any findings, trees and records.    *)
(***************************************************************************)
EXTENDS TwoLedgerReport, TLAPS

Grype == "grype-ministack-image"

--------------------------------------------------------------------------------
(* The join of the ledgers.                                                *)

Scan0 == [given |-> FALSE, ids |-> {}]

(* "The check only DEMOTES ...; it never invents a finding or hides one    *)
(* the scan still reports" (vex-report.ts:362): beside the demotion named  *)
(* there is one more, of drift to accepted, and an id the scan reports     *)
(* keeps its status.                                                       *)
THEOREM CrossCheckOnlyDemotes ==
  ASSUME NEW recs, NEW g \in Signals, NEW id, NEW scan
  PROVE  LET with == unifiedStatus(recs, g, id, scan)
             without == unifiedStatus(recs, g, id, Scan0)
         IN  /\ \/ with = without
                \/ without = "Decision needed" /\ with = "Scanner-cleared"
                \/ without = "VEX drift" /\ with = "Accepted"
             /\ id \in scan.ids => with = without
<1>1. ~clearedByScan(g, id, Scan0)
  BY DEF clearedByScan, Scan0
<1>2. /\ clearedByScan(g, id, scan) => g.atFloor /\ id \notin scan.ids
      /\ clearedByScan(g, id, scan) \in BOOLEAN
  BY DEF clearedByScan, Signals
<1>3. CASE recs = {}
  BY <1>1, <1>2, <1>3 DEF unifiedStatus, uncoveredStatus, Signals
<1>4. CASE recs # {}
  <2> DEFINE rec == CHOOSE x \in recs : isLast(x, recs)
  <2>1. /\ unifiedStatus(recs, g, id, scan) = coveredStatus(rec, g, clearedByScan(g, id, scan))
        /\ unifiedStatus(recs, g, id, Scan0) = coveredStatus(rec, g, clearedByScan(g, id, Scan0))
    BY <1>4 DEF unifiedStatus
  <2> HIDE DEF rec
  <2>2. QED
    BY <1>1, <1>2, <2>1 DEF coveredStatus, Signals
<1>5. QED
  BY <1>3, <1>4

(* The rows that ask for something come before those that do not.          *)
THEOREM ActionableRowsLead ==
  \A a, b \in UnifiedStatus :
    isActionable(a) /\ ~isActionable(b) => PRIORITY[a] < PRIORITY[b]
<1>1. /\ PRIORITY["Decision needed"] = 0 /\ PRIORITY["Revisit overdue"] = 1
      /\ PRIORITY["Undocumented dismissal"] = 2 /\ PRIORITY["VEX drift"] = 3
      /\ PRIORITY["Stale record"] = 4
  BY DEF UnifiedStatus, PRIORITY
<1>2. /\ PRIORITY["Resolved"] = 5 /\ PRIORITY["Scanner-cleared"] = 6
      /\ PRIORITY["Investigating"] = 7 /\ PRIORITY["Accepted"] = 8
      /\ PRIORITY["Tracked"] = 9
  BY DEF UnifiedStatus, PRIORITY
<1> HIDE DEF PRIORITY
<1>3. \A a \in UnifiedStatus : isActionable(a) => PRIORITY[a] \in {0, 1, 2, 3, 4}
  BY <1>1 DEF isActionable
<1>4. \A b \in UnifiedStatus : ~isActionable(b) => PRIORITY[b] \in {5, 6, 7, 8, 9}
  BY <1>2 DEF isActionable, UnifiedStatus
<1>5. QED
  BY <1>3, <1>4

(* No record drops out of the report, whatever the alerts and the scan say *)
(* of its id: it has a row, with a status of records; the row is "Stale    *)
(* record" exactly when no alert has the id, and an overdue acceptance     *)
(* that still covers something is called overdue, not accepted or cleared; *)
(* the record read last speaks for its id.                                 *)
THEOREM RecordsAreListed ==
  ASSUME NEW records, NEW alerts, NEW scan, NEW gated, NEW recent, NEW rec \in records,
         \E last \in recordsOf(rec.id, records) : isLast(last, recordsOf(rec.id, records))
  PROVE  LET row == buildReport(records, alerts, scan, gated, recent)[rec.id]
             isFound == \E a \in alerts : a.finding.id = rec.id
         IN  /\ rec.id \in DOMAIN buildReport(records, alerts, scan, gated, recent)
             /\ row.status = "Stale record" <=> ~isFound
             /\ isFound => row.status \in {"Revisit overdue", "VEX drift", "Accepted",
                                           "Tracked", "Investigating"}
             /\ isFound /\ (\A x \in recordsOf(rec.id, records) :
                               isLast(x, recordsOf(rec.id, records)) => x.overdue) =>
                  row.status = "Revisit overdue"
<1> DEFINE id == rec.id
           found == { a.finding.id : a \in alerts }
           recs == recordsOf(id, records)
           status(x) == IF x \in found
                        THEN unifiedStatus(recordsOf(x, records), signals(x, alerts), x, scan)
                        ELSE "Stale record"
           rows == buildReport(records, alerts, scan, gated, recent)
           chosen == CHOOSE x \in recs : isLast(x, recs)
           recorded == {"Revisit overdue", "VEX drift", "Accepted", "Tracked", "Investigating"}
<1>1. chosen \in recs /\ isLast(chosen, recs)
  <2>1. \E x \in recs : isLast(x, recs)
    OBVIOUS
  <2> HIDE DEF recs
  <2>2. QED
    BY <2>1
<1>2. id \in found =>
        status(id) = coveredStatus(chosen, signals(id, alerts),
                                   clearedByScan(signals(id, alerts), id, scan))
  <2>1. recs # {}
    BY <1>1
  <2>2. QED
    BY <2>1 DEF unifiedStatus
<1>3. \A x, g, cleared : /\ coveredStatus(x, g, cleared) \in recorded
                         /\ x.overdue => coveredStatus(x, g, cleared) = "Revisit overdue"
  BY DEF coveredStatus
<1>4. /\ id \in found => status(id) \in recorded
      /\ id \in found /\ (\A x \in recs : isLast(x, recs) => x.overdue) => status(id) = "Revisit overdue"
      /\ id \notin found => status(id) = "Stale record"
  <2> HIDE DEF chosen, recorded, recs
  <2>1. QED
    BY <1>1, <1>2, <1>3
<1>5. DOMAIN rows = { x \in found \cup { r.id : r \in records } :
                        status(x) = "Resolved" => x \in recent }
  BY DEF buildReport
<1>6. id \in DOMAIN rows
  <2>1. status(id) # "Resolved"
    BY <1>4
  <2> HIDE DEF status, rows, found
  <2>2. QED
    BY <1>5, <2>1
<1>7. rows[id].status = status(id)
  BY <1>6 DEF buildReport
<1>8. id \in found <=> \E a \in alerts : a.finding.id = id
  OBVIOUS
<1>9. /\ id \in DOMAIN rows
      /\ rows[id].status = "Stale record" <=> id \notin found
      /\ id \in found => rows[id].status \in recorded
      /\ id \in found /\ (\A x \in recs : isLast(x, recs) => x.overdue) => rows[id].status = "Revisit overdue"
  <2> HIDE DEF status, rows, found, recs
  <2>1. QED
    BY <1>4, <1>6, <1>7
<1> HIDE DEF found
<1>10. QED
  BY <1>8, <1>9

LEMMA SignalsType ==
  ASSUME NEW id, NEW alerts
  PROVE  signals(id, alerts) \in Signals
BY DEF signals, Signals

LEMMA StatusType ==
  ASSUME NEW recs, NEW g \in Signals, NEW id, NEW scan
  PROVE  unifiedStatus(recs, g, id, scan) \in UnifiedStatus
<1>1. uncoveredStatus(g, clearedByScan(g, id, scan)) \in UnifiedStatus
  BY DEF uncoveredStatus, UnifiedStatus
<1>2. ASSUME NEW rec PROVE coveredStatus(rec, g, clearedByScan(g, id, scan)) \in UnifiedStatus
  BY DEF coveredStatus, UnifiedStatus
<1>3. QED
  BY <1>1, <1>2 DEF unifiedStatus

LEMMA RowsType ==
  ASSUME NEW t \in Trees, NEW alerts, alerts \subseteq ScannerFinding,
         NEW scan, NEW gated, NEW recent
  PROVE  buildReport(t.records, alerts, scan, gated, recent) \in Rows
<1> DEFINE rows == buildReport(t.records, alerts, scan, gated, recent)
<1>1. DOMAIN rows \subseteq Ids
  <2>1. \A a \in alerts : a.finding.id \in Ids
    BY DEF ScannerFinding, Ids
  <2>2. \A rec \in t.records : rec.id \in Ids
    BY DEF Ids
  <2>3. QED
    BY <2>1, <2>2 DEF buildReport
<1>2. ASSUME NEW id \in DOMAIN rows PROVE rows[id] \in Row
  <2> DEFINE st == unifiedStatus(recordsOf(id, t.records), signals(id, alerts), id, scan)
  <2>1a. st \in UnifiedStatus
    BY StatusType, SignalsType
  <2>1b. /\ rows[id].status = IF id \in { a.finding.id : a \in alerts } THEN st ELSE "Stale record"
         /\ rows[id].shown = (id \in gated \/ signals(id, alerts).atFloor)
    BY DEF buildReport
  <2>1c. rows[id].status \in UnifiedStatus
    BY <2>1a, <2>1b DEF UnifiedStatus
  <2>1d. rows[id].shown \in BOOLEAN
    BY <2>1b, SignalsType DEF Signals
  <2>1. rows[id].status \in UnifiedStatus /\ rows[id].shown \in BOOLEAN
    BY <2>1c, <2>1d
  <2>2. rows[id] = [status |-> rows[id].status, shown |-> rows[id].shown]
    BY DEF buildReport
  <2>3. QED
    BY <2>1, <2>2 DEF Row
<1>3. rows = [id \in DOMAIN rows |-> rows[id]]
  BY DEF buildReport
<1>4. rows \in [DOMAIN rows -> Row]
  <2> HIDE DEF rows
  <2>1. QED
    BY <1>2, <1>3
<1>5. QED
  <2> HIDE DEF rows
  <2>1. DOMAIN rows \in SUBSET Ids
    BY <1>1
  <2>2. rows \in Rows
    BY <1>4, <2>1 DEF Rows
  <2>3. QED
    BY <2>2 DEF rows

LEMMA AlertsType ==
  ASSUME TypeOK, NEW r \in Refs, NEW fetched, NEW mainFetched
  PROVE  alertsOf(r, fetched, mainFetched) \subseteq ScannerFinding
<1>1. \A ref \in Refs : listing(ref) \subseteq ScannerFinding
  BY DEF listing, ScannerFinding
<1>2. QED
  BY <1>1 DEF alertsOf, mergeAlertLedgers, Refs
--------------------------------------------------------------------------------
(* The inductive invariant: rows are only written once the image jobs are  *)
(* over, an upload leaves exactly its results open, and the dismissals     *)
(* applied on main follow the records of main.                             *)

Uploads ==
  \A r \in Refs, s \in Scanners :
    job[r][s].uploaded =>
      /\ job[r][s].sarif
      /\ \A f \in Findings :
           f.scanner = s => (instance[r][f] = "open" <=> f \in results(tree[r], s))

Dismissals ==
  /\ \A f \in Findings : dismissal[f] = "vex" => f.scanner = Grype
  /\ job["main"][Grype].applied =>
       /\ job["main"][Grype].uploaded
       /\ \A f \in results(tree["main"], Grype) :
            /\ dismissal[f] = "vex" => f.id \in suppressedIds(tree["main"])
            /\ f.id \in suppressedIds(tree["main"]) => dismissal[f] # "no"

Written ==
  \A r \in Refs :
    DOMAIN report[r].rows # {} =>
      ~report[r].due /\ \A s \in ImageScanners : job[r][s].done

ReportInv ==
  /\ TypeOK /\ Uploads /\ Dismissals /\ Written
  /\ DismissalIsHuman /\ DriftIsReconciled

LEMMA Names ==
  /\ Refs = {"main", "pr"} /\ Grype \in ImageScanners /\ "trivy-image" \in ImageScanners
  /\ ImageScanners \subseteq Scanners /\ Grype # "trivy-image"
  /\ \A s \in ImageScanners : s = Grype \/ s = "trivy-image"
BY DEF Refs, ImageScanners, Scanners, Grype

LEMMA ResultsAreFindings ==
  ASSUME NEW t \in Trees, NEW s
  PROVE  \A f \in results(t, s) : f \in Findings /\ f.scanner = s
BY ReportAssumption DEF results, ReportAssumption

LEMMA NoRows ==
  /\ NoReport \in [due : BOOLEAN, fetched : BOOLEAN, rows : Rows]
  /\ [NoReport EXCEPT !.due = TRUE] \in [due : BOOLEAN, fetched : BOOLEAN, rows : Rows]
  /\ DOMAIN NoReport.rows = {} /\ DOMAIN [NoReport EXCEPT !.due = TRUE].rows = {}
<1> DEFINE empty == [id \in {} |-> 0]
<1>1. empty \in [{} -> Row]
  OBVIOUS
<1>2. empty \in Rows
  BY <1>1 DEF Rows
<1>3. DOMAIN empty = {}
  OBVIOUS
<1> HIDE DEF empty
<1>4. NoReport = [due |-> FALSE, fetched |-> FALSE, rows |-> empty]
  BY DEF NoReport, empty
<1>5. QED
  BY <1>2, <1>3, <1>4

LEMMA InitInv == Init => ReportInv
<1> SUFFICES ASSUME Init PROVE ReportInv
  OBVIOUS
<1>1. NotStarted \in Outcome /\ ~NotStarted.uploaded /\ ~NotStarted.applied
  BY DEF NotStarted, Waiting, Outcome
<1>2. TypeOK
  BY <1>1, NoRows, ReportAssumption DEF Init, TypeOK, ReportAssumption
<1>3. \A r \in Refs : report[r] = NoReport /\ \A s \in Scanners : job[r][s] = NotStarted
  BY DEF Init
<1>4. Uploads /\ Dismissals /\ Written
  BY <1>1, <1>3, NoRows, Names DEF Init, Uploads, Dismissals, Written
<1>5. DismissalIsHuman /\ DriftIsReconciled
  BY <1>3, NoRows, Names DEF DismissalIsHuman, DriftIsReconciled, rowsWith
<1>6. QED
  BY <1>2, <1>4, <1>5 DEF ReportInv

LEMMA StartInv ==
  ASSUME ReportInv, NEW r \in Refs, NEW t \in Trees, Start(r, t)
  PROVE  ReportInv'
<1>1. Waiting \in Outcome /\ ~Waiting.uploaded /\ ~Waiting.applied
  BY DEF Waiting, Outcome
<1>2. TypeOK'
  BY <1>1, NoRows, ReportAssumption DEF ReportInv, Start, TypeOK, ReportAssumption
<1>3. /\ \A s \in Scanners : job'[r][s] = Waiting
      /\ DOMAIN report'[r].rows = {}
      /\ \A q \in Refs \ {r} : tree'[q] = tree[q] /\ job'[q] = job[q] /\ report'[q] = report[q]
      /\ instance' = instance /\ dismissal' = dismissal
  BY NoRows DEF ReportInv, Start, TypeOK
<1>4. Uploads'
  BY <1>1, <1>3 DEF ReportInv, Uploads
<1>5. Dismissals'
  BY <1>1, <1>3, Names DEF ReportInv, Dismissals
<1>6. Written'
  BY <1>3 DEF ReportInv, Written
<1>7. (DismissalIsHuman /\ DriftIsReconciled)'
  <2>1. CASE r = "main"
    BY <1>3, <2>1 DEF DismissalIsHuman, DriftIsReconciled, rowsWith
  <2>2. CASE r # "main"
    <3>1. /\ report'["main"] = report["main"] /\ job'["main"] = job["main"]
          /\ tree'["main"] = tree["main"]
      BY <1>3, <2>2, Names
    <3>2. DismissalIsHuman'
      BY <1>3, <3>1 DEF ReportInv, DismissalIsHuman
    <3>3. DriftIsReconciled'
      BY <1>3, <3>1 DEF ReportInv, DriftIsReconciled
    <3>4. QED
      BY <3>2, <3>3
  <2>3. QED
    BY <2>1, <2>2
<1>8. QED
  BY <1>2, <1>4, <1>5, <1>6, <1>7 DEF ReportInv

LEMMA ScanInv ==
  ASSUME ReportInv, NEW r \in Refs, NEW s \in Scanners, Scan(r, s)
  PROVE  ReportInv'
<1>1. PICK o \in ScanOutcomes(r, s) :
        /\ job' = [job EXCEPT ![r][s] = o]
        /\ instance' = IF o.uploaded THEN upload(r, s) ELSE instance
        /\ dismissal' = IF o.applied THEN dismissAlerts(tree[r]) ELSE dismissal
  BY DEF Scan
<1>2. /\ o \in Outcome /\ o.done /\ (o.uploaded => o.sarif)
      /\ o.applied => o.uploaded /\ r = "main" /\ s = Grype
  BY DEF ScanOutcomes, Grype
<1>3. /\ ~job[r][s].done /\ tree' = tree /\ report' = report /\ starts' = starts
      /\ job'[r][s] = o
      /\ \A q \in Refs, x \in Scanners : q # r \/ x # s => job'[q][x] = job[q][x]
  BY <1>1 DEF Scan, ReportInv, TypeOK
<1>4. /\ instance' \in [Refs -> [Findings -> {"none", "open", "fixed"}]]
      /\ \A q \in Refs, f \in Findings :
           q # r \/ f.scanner # s \/ ~o.uploaded => instance'[q][f] = instance[q][f]
      /\ o.uploaded => \A f \in Findings : f.scanner = s =>
           (instance'[r][f] = "open" <=> f \in results(tree[r], s))
      /\ \A q \in Refs, f \in Findings :
           instance[q][f] # "none" => instance'[q][f] # "none"
  BY <1>1 DEF upload, ReportInv, TypeOK
<1>5. /\ dismissal' \in [Findings -> {"no", "human", "vex"}]
      /\ \A f \in Findings :
           /\ dismissal[f] = "human" => dismissal'[f] = "human"
           /\ dismissal'[f] = "vex" => f.scanner = Grype
  BY <1>1, <1>2, ResultsAreFindings DEF dismissAlerts, ReportInv, TypeOK, Dismissals, Grype
<1>6. TypeOK'
  <2>1. job' \in [Refs -> [Scanners -> Outcome]]
    BY <1>1, <1>2 DEF ReportInv, TypeOK
  <2>2. QED
    BY <1>3, <1>4, <1>5, <2>1 DEF ReportInv, TypeOK
<1>7. Uploads'
  <2> SUFFICES ASSUME NEW q \in Refs, NEW x \in Scanners, job'[q][x].uploaded
               PROVE  /\ job'[q][x].sarif
                      /\ \A f \in Findings : f.scanner = x =>
                           (instance'[q][f] = "open" <=> f \in results(tree'[q], x))
    BY <1>3 DEF Uploads
  <2>1. CASE q = r /\ x = s
    BY <1>2, <1>3, <1>4, <2>1
  <2>2. CASE q # r \/ x # s
    BY <1>3, <1>4, <2>2 DEF ReportInv, Uploads
  <2>3. QED
    BY <2>1, <2>2
<1>8. Dismissals'
  <2>1. CASE o.applied
    <3>1. \A f \in results(tree["main"], Grype) :
            /\ dismissal'[f] = "vex" => f.id \in suppressedIds(tree["main"])
            /\ f.id \in suppressedIds(tree["main"]) => dismissal'[f] # "no"
      BY <1>1, <1>2, <2>1, ResultsAreFindings
      DEF dismissAlerts, ReportInv, TypeOK, Grype
    <3>2. QED
      BY <1>2, <1>3, <1>5, <2>1, <3>1, Names DEF Dismissals
  <2>2. CASE ~o.applied
    <3>1. dismissal' = dismissal
      BY <1>1, <2>2
    <3>2. QED
      BY <1>3, <2>2, <3>1, Names DEF ReportInv, Dismissals
  <2>3. QED
    BY <2>1, <2>2
<1>9. Written'
  BY <1>2, <1>3, Names DEF ReportInv, Written
<1>10. DOMAIN report[r].rows # {} => s \notin ImageScanners
  BY <1>3 DEF ReportInv, Written
<1>11. ASSUME r = "main" /\ s \in ImageScanners PROVE DismissalIsHuman' /\ DriftIsReconciled'
  <2>1. DOMAIN report["main"].rows = {}
    BY <1>10, <1>11
  <2>2. \A status : rowsWith(report'["main"].rows, status) = {}
    BY <1>3, <2>1 DEF rowsWith
  <2>3. QED
    BY <2>2 DEF DismissalIsHuman, DriftIsReconciled
<1>12. ASSUME ~(r = "main" /\ s \in ImageScanners) PROVE DismissalIsHuman' /\ DriftIsReconciled'
  <2>1. \A x \in ImageScanners : job'["main"][x] = job["main"][x]
    BY <1>3, <1>12, Names
  <2>2. \A f \in Findings : dismissal[f] = "human" => dismissal'[f] = "human"
    BY <1>5
  <2>3. \A f \in Findings : instance["main"][f] # "none" => instance'["main"][f] # "none"
    BY <1>4, Names
  <2>4. DismissalIsHuman'
    <3>1. job'["main"]["grype-ministack-image"] = job["main"]["grype-ministack-image"]
      BY <2>1, Names DEF Grype
    <3>2. report' = report
      BY <1>3
    <3>3. DismissalIsHuman
      BY DEF ReportInv
    <3>4. QED
      BY <2>2, <3>1, <3>2, <3>3 DEF DismissalIsHuman
  <2>5. DriftIsReconciled'
    <3>1. /\ job'["main"]["grype-ministack-image"] = job["main"]["grype-ministack-image"]
          /\ job'["main"]["trivy-image"] = job["main"]["trivy-image"]
      BY <2>1, Names DEF Grype
    <3>2. report' = report
      BY <1>3
    <3>3. DriftIsReconciled
      BY DEF ReportInv
    <3>4. QED
      BY <1>3, <2>3, <3>1, <3>2, <3>3 DEF DriftIsReconciled
  <2>6. QED
    BY <2>4, <2>5
<1>13. QED
  BY <1>6, <1>7, <1>8, <1>9, <1>11, <1>12 DEF ReportInv

LEMMA HumanDismissInv ==
  ASSUME ReportInv, NEW f \in Findings, HumanDismiss(f)
  PROVE  ReportInv'
<1>1. /\ UNCHANGED <<tree, job, instance, report, starts>>
      /\ dismissal' \in [Findings -> {"no", "human", "vex"}]
      /\ dismissal'[f] = "human" /\ dismissal[f] = "no"
      /\ \A g \in Findings \ {f} : dismissal'[g] = dismissal[g]
  BY DEF HumanDismiss, ReportInv, TypeOK
<1>2. TypeOK' /\ Uploads' /\ Written'
  BY <1>1 DEF ReportInv, TypeOK, Uploads, Written
<1>3. DriftIsReconciled'
  BY <1>1, Names DEF ReportInv, DriftIsReconciled
<1>4. Dismissals'
  BY <1>1, ResultsAreFindings, Names DEF ReportInv, Dismissals, TypeOK
<1>5. DismissalIsHuman'
  <2>1. \A g \in Findings : dismissal[g] = "human" => dismissal'[g] = "human"
    BY <1>1
  <2>2. QED
    BY <1>1, <2>1 DEF ReportInv, DismissalIsHuman
<1>6. QED
  BY <1>2, <1>3, <1>4, <1>5 DEF ReportInv

--------------------------------------------------------------------------------
(* What a written row says of the ledgers it was made from.                *)

LEMMA WhatAStatusMeans ==
  ASSUME NEW recs, NEW g \in Signals, NEW id, NEW scan
  PROVE  LET status == unifiedStatus(recs, g, id, scan)
         IN  /\ status = "Undocumented dismissal" => recs = {} /\ g.anyDismissed
             /\ status = "VEX drift" => g.anyOpen
<1>1. CASE recs = {}
  BY <1>1 DEF unifiedStatus, uncoveredStatus
<1>2. CASE recs # {}
  <2> DEFINE rec == CHOOSE x \in recs : isLast(x, recs)
  <2>1. unifiedStatus(recs, g, id, scan) = coveredStatus(rec, g, clearedByScan(g, id, scan))
    BY <1>2 DEF unifiedStatus
  <2> HIDE DEF rec
  <2>2. QED
    BY <1>2, <2>1 DEF coveredStatus
<1>3. QED
  BY <1>1, <1>2

LEMMA WhatARowMeans ==
  ASSUME NEW records, NEW alerts, NEW scan, NEW gated, NEW recent, NEW id, NEW status,
         id \in rowsWith(buildReport(records, alerts, scan, gated, recent), status),
         status # "Stale record"
  PROVE  /\ signals(id, alerts) \in Signals
         /\ unifiedStatus(recordsOf(id, records), signals(id, alerts), id, scan) = status
<1>1. /\ id \in DOMAIN buildReport(records, alerts, scan, gated, recent)
      /\ buildReport(records, alerts, scan, gated, recent)[id].status = status
  BY DEF rowsWith
<1>2. QED
  BY <1>1, SignalsType DEF buildReport

LEMMA WhatRowsMean ==
  ASSUME NEW records, NEW alerts, NEW scan, NEW gated, NEW recent, NEW id
  PROVE  LET rows == buildReport(records, alerts, scan, gated, recent)
         IN  /\ id \in rowsWith(rows, "Undocumented dismissal") =>
                  recordsOf(id, records) = {} /\ signals(id, alerts).anyDismissed
             /\ id \in rowsWith(rows, "VEX drift") => signals(id, alerts).anyOpen
<1> DEFINE rows == buildReport(records, alerts, scan, gated, recent)
           recs == recordsOf(id, records)
           g == signals(id, alerts)
<1>1. \A status : status # "Stale record" /\ id \in rowsWith(rows, status) =>
        unifiedStatus(recs, g, id, scan) = status
  BY WhatARowMeans
<1>2. g \in Signals
  BY SignalsType
<1> HIDE DEF rows, recs, g
<1>3. /\ unifiedStatus(recs, g, id, scan) = "Undocumented dismissal" =>
           recs = {} /\ g.anyDismissed
      /\ unifiedStatus(recs, g, id, scan) = "VEX drift" => g.anyOpen
  BY <1>2, WhatAStatusMeans
<1>4. /\ id \in rowsWith(rows, "Undocumented dismissal") => recs = {} /\ g.anyDismissed
      /\ id \in rowsWith(rows, "VEX drift") => g.anyOpen
  BY <1>1, <1>3
<1>5. QED
  BY <1>4 DEF rows, recs, g

LEMMA MainListing ==
  ASSUME NEW fetched \in BOOLEAN, NEW mainFetched \in BOOLEAN,
         NEW a \in alertsOf("main", fetched, mainFetched)
  PROVE  /\ a.finding \in Findings
         /\ instance["main"][a.finding] # "none"
         /\ a.state = "dismissed" =>
              instance["main"][a.finding] # "fixed" /\ dismissal[a.finding] # "no"
         /\ a.state = "open" =>
              instance["main"][a.finding] # "fixed" /\ dismissal[a.finding] = "no"
<1>1. a \in listing("main")
  BY DEF alertsOf, mergeAlertLedgers
<1>2. QED
  BY <1>1 DEF listing

LEMMA ReportStepInv ==
  ASSUME ReportInv, NEW r \in Refs, Report(r)
  PROVE  ReportInv'
<1>1. PICK fetched \in BOOLEAN, mainFetched \in BOOLEAN :
        \E recent :
          report' = [report EXCEPT ![r] =
            [due |-> FALSE, fetched |-> fetched,
             rows |-> buildReport(tree[r].records, alertsOf(r, fetched, mainFetched),
                                  cveIdsFromSarifs(r), gateHigh(r), recent)]]
  BY DEF Report
<1>2. PICK recent :
        report' = [report EXCEPT ![r] =
          [due |-> FALSE, fetched |-> fetched,
           rows |-> buildReport(tree[r].records, alertsOf(r, fetched, mainFetched),
                                cveIdsFromSarifs(r), gateHigh(r), recent)]]
  BY <1>1
<1> DEFINE alerts == alertsOf(r, fetched, mainFetched)
           scan == cveIdsFromSarifs(r)
           rows == buildReport(tree[r].records, alerts, scan, gateHigh(r), recent)
<1>3. /\ UNCHANGED <<tree, job, instance, dismissal, starts>>
      /\ \A s \in ImageScanners : job[r][s].done
      /\ tree[r] \in Trees
  BY DEF Report, ReportInv, TypeOK
<1>4. rows \in Rows
  BY <1>3, AlertsType, RowsType DEF ReportInv
<1> HIDE DEF rows
<1>5. /\ report'[r].rows = rows /\ ~report'[r].due
      /\ \A q \in Refs \ {r} : report'[q] = report[q]
      /\ report' \in [Refs -> [due : BOOLEAN, fetched : BOOLEAN, rows : Rows]]
  BY <1>2, <1>4 DEF ReportInv, TypeOK, rows
<1>6. TypeOK' /\ Uploads' /\ Dismissals' /\ Written'
  <2>1. TypeOK' /\ Uploads' /\ Dismissals'
    BY <1>3, <1>5 DEF ReportInv, TypeOK, Uploads, Dismissals
  <2>2. Written'
    BY <1>3, <1>5 DEF ReportInv, Written
  <2>3. QED
    BY <2>1, <2>2
<1>7. ASSUME r = "main", job["main"][Grype].applied,
             NEW id \in rowsWith(rows, "Undocumented dismissal")
      PROVE  \E f \in Findings : f.id = id /\ dismissal[f] = "human"
  <2>1. recordsOf(id, tree[r].records) = {} /\ signals(id, alerts).anyDismissed
    BY WhatRowsMean DEF rows
  <2>2. PICK a \in alerts : a.finding.id = id /\ a.state = "dismissed"
    BY <2>1 DEF signals
  <2> DEFINE f == a.finding
  <2>3. /\ f \in Findings /\ f.id = id /\ instance["main"][f] \notin {"none", "fixed"}
        /\ dismissal[f] # "no"
    BY <1>7, <2>2, MainListing
  <2> HIDE DEF f
  <2>4. dismissal[f] # "vex"
    <3> SUFFICES ASSUME dismissal[f] = "vex" PROVE FALSE
      OBVIOUS
    <3>1. f.scanner = Grype
      BY <2>3 DEF ReportInv, Dismissals
    <3>2. instance["main"][f] = "open"
      <4>1. instance["main"] \in [Findings -> {"none", "open", "fixed"}]
        BY Names DEF ReportInv, TypeOK
      <4>2. QED
        BY <2>3, <4>1
    <3>3. job["main"][Grype].uploaded
      BY <1>7 DEF ReportInv, Dismissals
    <3>4. f \in results(tree["main"], Grype)
      BY <2>3, <3>1, <3>2, <3>3, Names DEF ReportInv, Uploads
    <3>5. f.id \in suppressedIds(tree["main"])
      BY <1>7, <3>4 DEF ReportInv, Dismissals
    <3>6. QED
      BY <1>7, <2>1, <2>3, <3>5 DEF suppressedIds, recordsOf
  <2>5. QED
    BY <2>3, <2>4 DEF ReportInv, TypeOK
<1>8. ASSUME r = "main", job["main"][Grype].applied, job["main"]["trivy-image"].uploaded,
             NEW id \in rowsWith(rows, "VEX drift")
      PROVE  \E f \in Findings :
               /\ f.id = id
               /\ instance["main"][f] # "none"
               /\ f.scanner \in ImageScanners =>
                    f \in results(tree["main"], f.scanner) /\ ~covered(tree["main"], f)
  <2>1. signals(id, alerts).anyOpen
    BY WhatRowsMean DEF rows
  <2>2. PICK a \in alerts : a.finding.id = id /\ a.state = "open"
    BY <2>1 DEF signals
  <2> DEFINE f == a.finding
  <2>3. /\ f \in Findings /\ f.id = id /\ instance["main"][f] \notin {"none", "fixed"}
        /\ dismissal[f] = "no"
    BY <1>8, <2>2, MainListing
  <2> HIDE DEF f
  <2>4. instance["main"][f] = "open"
    <3>1. instance["main"] \in [Findings -> {"none", "open", "fixed"}]
      BY Names DEF ReportInv, TypeOK
    <3>2. QED
      BY <2>3, <3>1
  <2>5. ASSUME f.scanner \in ImageScanners PROVE f \in results(tree["main"], f.scanner)
    <3>1. job["main"][f.scanner].uploaded
      BY <1>8, <2>5, Names DEF ReportInv, Dismissals
    <3>2. QED
      BY <2>3, <2>4, <2>5, <3>1, Names DEF ReportInv, Uploads
  <2>6. ASSUME f.scanner = Grype PROVE ~covered(tree["main"], f)
    <3>1. f \in results(tree["main"], Grype)
      BY <2>5, <2>6, Names
    <3>2. f.id \notin suppressedIds(tree["main"])
      BY <1>8, <2>3, <3>1 DEF ReportInv, Dismissals
    <3>3. QED
      BY <2>6, <3>2 DEF covered, suppressedIds, recordsOf, Grype
  <2>7. ASSUME f.scanner = "trivy-image" PROVE ~covered(tree["main"], f)
    BY <2>5, <2>7, Names DEF results
  <2>8. QED
    BY <2>3, <2>5, <2>6, <2>7, Names
<1> HIDE DEF alerts, scan
<1>9. DismissalIsHuman'
  <2>1. CASE r = "main"
    <3>1. report'["main"].rows = rows
      BY <1>5, <2>1
    <3>2. job["main"][Grype].applied =>
            \A id \in rowsWith(rows, "Undocumented dismissal") :
              \E f \in Findings : f.id = id /\ dismissal[f] = "human"
      BY <1>7, <2>1
    <3>3. QED
      BY <1>3, <3>1, <3>2 DEF DismissalIsHuman, Grype
  <2>2. CASE r # "main"
    <3>1. report'["main"] = report["main"]
      BY <1>5, <2>2, Names
    <3>2. QED
      BY <1>3, <3>1 DEF ReportInv, DismissalIsHuman
  <2>3. QED
    BY <2>1, <2>2
<1>10. DriftIsReconciled'
  <2>1. CASE r = "main"
    <3>1. report'["main"].rows = rows
      BY <1>5, <2>1
    <3>2. job["main"][Grype].applied /\ job["main"]["trivy-image"].uploaded =>
            \A id \in rowsWith(rows, "VEX drift") :
              \E f \in Findings :
                /\ f.id = id
                /\ instance["main"][f] # "none"
                /\ f.scanner \in ImageScanners =>
                     f \in results(tree["main"], f.scanner) /\ ~covered(tree["main"], f)
      BY <1>8, <2>1
    <3>3. QED
      BY <1>3, <3>1, <3>2 DEF DriftIsReconciled, Grype
  <2>2. CASE r # "main"
    <3>1. report'["main"] = report["main"]
      BY <1>5, <2>2, Names
    <3>2. QED
      BY <1>3, <3>1 DEF ReportInv, DriftIsReconciled
  <2>3. QED
    BY <2>1, <2>2
<1>11. QED
  BY <1>6, <1>9, <1>10 DEF ReportInv

LEMMA StepInv ==
  ASSUME ReportInv, [Next]_vars
  PROVE  ReportInv'
<1>1. CASE UNCHANGED vars
  <2>1. TypeOK' /\ Uploads' /\ Dismissals' /\ Written'
    BY <1>1 DEF vars, ReportInv, TypeOK, Uploads, Dismissals, Written
  <2>2. DismissalIsHuman'
    BY <1>1 DEF vars, ReportInv, DismissalIsHuman
  <2>3. DriftIsReconciled'
    BY <1>1 DEF vars, ReportInv, DriftIsReconciled
  <2>4. QED
    BY <2>1, <2>2, <2>3 DEF ReportInv
<1>2. CASE Next
  BY <1>2, StartInv, ScanInv, HumanDismissInv, ReportStepInv DEF Next
<1>3. QED
  BY <1>1, <1>2

LEMMA ReportAlways == Spec => []ReportInv
BY InitInv, StepInv, PTL DEF Spec

--------------------------------------------------------------------------------
(* The variables and the rows of every report keep their types: no row has *)
(* a status the summary and the ordering do not know.                      *)
THEOREM ReportTypeCorrect == Spec => []TypeOK
BY ReportAlways, PTL DEF ReportInv

(* What the report blames on a person, a person did.                       *)
THEOREM OnlyHumansAreBlamed == Spec => []DismissalIsHuman
BY ReportAlways, PTL DEF ReportInv

(* The dismissals applied on main leave no drift among image findings that *)
(* a record given to their scanner covers: what is left needs a record of  *)
(* another version or for another surface.                                 *)
THEOREM MainReconciles == Spec => []DriftIsReconciled
BY ReportAlways, PTL DEF ReportInv

--------------------------------------------------------------------------------
(* A red gate is shown: the run's own listing holds the finding, open, and *)
(* wins the merge; the run's own scan holds its id, so that no demotion    *)
(* applies.                                                                *)

LEMMA OpenRowStays ==
  ASSUME NEW records, NEW alerts, NEW scan, NEW gated, NEW recent, NEW a \in alerts,
         a.state = "open", recordsOf(a.finding.id, records) = {},
         a.finding.id \in scan.ids
  PROVE  LET id == a.finding.id
             rows == buildReport(records, alerts, scan, gated, recent)
         IN  /\ id \in DOMAIN rows
             /\ rows[id].status \in {"Decision needed", "Tracked"}
             /\ id \in gated => rows[id].shown
<1> DEFINE id == a.finding.id
           g == signals(id, alerts)
           found == { x.finding.id : x \in alerts }
           status(x) == IF x \in found
                        THEN unifiedStatus(recordsOf(x, records), signals(x, alerts), x, scan)
                        ELSE "Stale record"
           rows == buildReport(records, alerts, scan, gated, recent)
<1>1. id \in found /\ g.anyOpen
  BY DEF signals
<1>2. ~clearedByScan(g, id, scan)
  BY DEF clearedByScan
<1>3. status(id) \in {"Decision needed", "Tracked"}
  <2>1. status(id) = uncoveredStatus(g, clearedByScan(g, id, scan))
    BY <1>1 DEF unifiedStatus
  <2>2. uncoveredStatus(g, clearedByScan(g, id, scan)) \in {"Decision needed", "Tracked"}
    <3> HIDE DEF g, id
    <3>1. QED
      BY <1>1, <1>2 DEF uncoveredStatus
  <2>3. QED
    BY <2>1, <2>2
<1>4. DOMAIN rows = { x \in found \cup { rec.id : rec \in records } :
                        status(x) = "Resolved" => x \in recent }
  BY DEF buildReport
<1>5. id \in DOMAIN rows
  <2> HIDE DEF status, rows, id, found
  <2>1. QED
    BY <1>1, <1>3, <1>4
<1>6. rows[id].status = status(id)
  BY <1>5 DEF buildReport
<1>7. id \in gated => rows[id].shown
  BY <1>5 DEF buildReport
<1>8. QED
  BY <1>3, <1>5, <1>6, <1>7

LEMMA RedRowIsShown ==
  ASSUME ReportInv, NEW r \in Refs, NEW mainFetched, NEW recent,
         NEW s \in ImageScanners, NEW f \in uncovered(tree[r], s),
         job[r][s].uploaded, job[r][s].json, f.id \in CveIds, dismissal[f] = "no",
         recordsOf(f.id, tree[r].records) = {}
  PROVE  LET rows == buildReport(tree[r].records, alertsOf(r, TRUE, mainFetched),
                                 cveIdsFromSarifs(r), gateHigh(r), recent)
         IN  /\ f.id \in DOMAIN rows
             /\ rows[f.id].status = "Decision needed" \/
                  (rows[f.id].status = "Tracked" /\ rows[f.id].shown)
<1> DEFINE alerts == alertsOf(r, TRUE, mainFetched)
           scan == cveIdsFromSarifs(r)
           a == [finding |-> f, state |-> "open"]
<1>1. tree[r] \in Trees /\ f \in results(tree[r], s) /\ f.gate >= GateFloor
  BY DEF ReportInv, TypeOK, uncovered
<1>2. f \in Findings /\ f.scanner = s /\ s \in Scanners
  BY <1>1, ResultsAreFindings, Names
<1>3. job[r][s].sarif /\ instance[r][f] = "open"
  BY <1>1, <1>2 DEF ReportInv, Uploads
<1>4. a \in alerts
  <2>1. a \in listing(r)
    BY <1>2, <1>3 DEF listing
  <2> HIDE DEF a
  <2>2. QED
    BY <2>1 DEF alertsOf, mergeAlertLedgers
<1>5. f.id \in scan.ids
  BY <1>1, <1>3 DEF cveIdsFromSarifs, readSarifs
<1>6. f.id \in gateHigh(r)
  <2>1. f \in gateMapFor(r, s)
    BY <1>1 DEF gateMapFor
  <2>2. QED
    BY <2>1 DEF gateHigh, gatedResults
<1>7. a.finding = f /\ a.state = "open"
  OBVIOUS
<1> DEFINE rows == buildReport(tree[r].records, alerts, scan, gateHigh(r), recent)
<1> HIDE DEF a, alerts, scan
<1>8. /\ f.id \in DOMAIN rows
      /\ rows[f.id].status \in {"Decision needed", "Tracked"}
      /\ f.id \in gateHigh(r) => rows[f.id].shown
  BY <1>4, <1>5, <1>7, OpenRowStays
<1>9. QED
  BY <1>6, <1>8 DEF alerts, scan

(* What turns an image gate red and is nobody's dismissal, the reader of   *)
(* the run's report sees.                                                  *)
THEOREM RedGatesAreShown == Spec => RedGateIsShown
<1> DEFINE shown ==
      \A r \in Refs :
        report[r].due /\ ~report'[r].due /\ report'[r].fetched =>
          \A f \in UNION { uncovered(tree[r], s) : s \in ImageScanners } :
            /\ job[r][f.scanner].uploaded /\ job[r][f.scanner].json
            /\ f.id \in CveIds /\ dismissal[f] = "no"
            /\ recordsOf(f.id, tree[r].records) = {}
            => /\ f.id \in DOMAIN report'[r].rows
               /\ LET row == report'[r].rows[f.id]
                  IN  isActionable(row.status) \/ (row.status = "Tracked" /\ row.shown)
<1>1. ASSUME ReportInv, [Next]_vars PROVE shown
  <2> SUFFICES ASSUME NEW r \in Refs,
                      report[r].due, ~report'[r].due, report'[r].fetched,
                      NEW s \in ImageScanners, NEW f \in uncovered(tree[r], s),
                      job[r][f.scanner].uploaded, job[r][f.scanner].json,
                      f.id \in CveIds, dismissal[f] = "no",
                      recordsOf(f.id, tree[r].records) = {}
      PROVE  /\ f.id \in DOMAIN report'[r].rows
             /\ LET row == report'[r].rows[f.id]
                IN  isActionable(row.status) \/ (row.status = "Tracked" /\ row.shown)
    OBVIOUS
  <2>1. f.scanner = s
    <3>1. tree[r] \in Trees
      BY <1>1 DEF ReportInv, TypeOK
    <3>2. QED
      BY <3>1, ResultsAreFindings DEF uncovered
  <2>2. Report(r)
    <3>1. ASSUME NEW q \in Refs, NEW t \in Trees, Start(q, t) PROVE FALSE
      BY <1>1, <3>1 DEF Start, NoReport, ReportInv, TypeOK
    <3>2. ASSUME NEW q \in Refs, NEW x \in Scanners, Scan(q, x) PROVE FALSE
      BY <3>2 DEF Scan
    <3>3. ASSUME NEW g \in Findings, HumanDismiss(g) PROVE FALSE
      BY <3>3 DEF HumanDismiss
    <3>4. ASSUME NEW q \in Refs, Report(q), q # r PROVE FALSE
      BY <1>1, <3>4 DEF Report, ReportInv, TypeOK
    <3>5. ASSUME UNCHANGED vars PROVE FALSE
      BY <3>5 DEF vars
    <3>6. QED
      BY <1>1, <3>1, <3>2, <3>3, <3>4, <3>5 DEF Next
  <2>3. PICK fetched \in BOOLEAN, mainFetched \in BOOLEAN :
          \E recent :
            report' = [report EXCEPT ![r] =
              [due |-> FALSE, fetched |-> fetched,
               rows |-> buildReport(tree[r].records, alertsOf(r, fetched, mainFetched),
                                    cveIdsFromSarifs(r), gateHigh(r), recent)]]
    BY <2>2 DEF Report
  <2>4. PICK recent :
          report' = [report EXCEPT ![r] =
            [due |-> FALSE, fetched |-> fetched,
             rows |-> buildReport(tree[r].records, alertsOf(r, fetched, mainFetched),
                                  cveIdsFromSarifs(r), gateHigh(r), recent)]]
    BY <2>3
  <2> DEFINE rows == buildReport(tree[r].records, alertsOf(r, TRUE, mainFetched),
                                 cveIdsFromSarifs(r), gateHigh(r), recent)
  <2>5. fetched = TRUE /\ report'[r].rows = rows
    <3>1. report'[r].fetched = fetched
      BY <1>1, <2>4 DEF ReportInv, TypeOK
    <3>2. fetched = TRUE
      BY <3>1, Zenon
    <3>3. QED
      BY <1>1, <2>4, <3>2 DEF ReportInv, TypeOK
  <2>6. /\ f.id \in DOMAIN rows
        /\ rows[f.id].status = "Decision needed" \/
             (rows[f.id].status = "Tracked" /\ rows[f.id].shown)
    BY <1>1, <2>1, RedRowIsShown
  <2> HIDE DEF rows
  <2>7. QED
    BY <2>5, <2>6 DEF isActionable
<1>2. QED
  BY <1>1, ReportAlways, PTL DEF Spec, RedGateIsShown

================================================================================
