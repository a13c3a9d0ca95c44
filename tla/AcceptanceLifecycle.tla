-------------------------- MODULE AcceptanceLifecycle --------------------------
(***************************************************************************)
(* The life of an acceptance: a maintainer edits the `.vex/` ledger on a   *)
(* branch, regenerates the scanner dialects, the jobs of security.yml      *)
(* judge the branch, it is merged, and the jobs judge the main branch on   *)
(* every push and once a week while days pass and vulnerability databases  *)
(* change.                                                                 *)
(*                                                                         *)
(* One open branch is enough: the ruleset requires it to be up to date     *)
(* with main (docs/SECURITY-TOOLING.md, strict_required_status_checks), so *)
(* when main advances every other branch gets a new head and loses its     *)
(* checks, which is what Abandon does.                                     *)
(***************************************************************************)
EXTENDS VexSurfaces

CONSTANTS
  Paths,           \* names of record files
  Docs,            \* the documents an author may write
  Advisories,      \* the advisories the databases may publish
  HandRows,        \* what osv-scanner.toml may be edited to by hand
  InitLedger,      \* the ledger main starts from
  RequiredChecks,  \* the checks a merge waits for
  Reports,         \* how a scan job's tool may answer
  MaxDay           \* bound on the calendar

Checks == {"npm", "grype", "osv", "drift", "revisit"}

(* The jobs that scan with an external tool, which may fail to report.     *)
ScanChecks == {"npm", "grype", "osv"}

Ledger == UNION { [P -> Docs] : P \in SUBSET Paths }

Tree == [ledger : Ledger, trivy : SUBSET Paths, osv : SUBSET Row]

LifecycleAssumption ==
  /\ VexAssumption
  /\ Docs \subseteq Document
  /\ Advisories \subseteq Advisory
  /\ HandRows \subseteq SUBSET Row
  /\ InitLedger \in Ledger
  /\ revisitGate(InitLedger)
  /\ RequiredChecks \subseteq Checks
  /\ Reports \subseteq {"complete", "missing", "error"}
  /\ MaxDay \in Nat \ {0}

ASSUME LifecycleAssumption

VARIABLES
  today,    \* the UTC day every job reads
  live,     \* the published advisories that hit the locked dependencies
  main,     \* the tree at the head of main
  branch,   \* the tree at the head of the open branch
  green,    \* the checks green on the branch's head commit
  mainRed   \* the jobs the last run on main ended red

vars == <<today, live, main, branch, green, mainRed>>

--------------------------------------------------------------------------------
(* What a job concludes when its tool reports.                             *)
Verdict(check, tree, day, db) ==
  CASE check = "npm"     -> npmGate(tree.ledger, day, db)
    [] check = "grype"   -> grypeFsGate(tree.ledger, db)
    [] check = "osv"     -> osvScan(tree.osv, day, db)
    [] check = "drift"   -> dialectCheck(tree)
    [] check = "revisit" -> revisitGate(tree.ledger)

(* A tool's report may be missing, which every scan job takes as red; or,  *)
(* for npm, be a well-formed error object with no `vulnerabilities`, which *)
(* the gate takes as nothing to cover.                                     *)
Outcome(check, tree, day, db, report) ==
  IF check \notin ScanChecks THEN Verdict(check, tree, day, db)
  ELSE \/ report = "complete" /\ Verdict(check, tree, day, db)
       \/ report = "error" /\ check = "npm"

freshTree(ledger) ==
  [ledger |-> ledger,
   trivy  |-> suppressingRecords(ledger),
   osv    |-> ignoredVulns(ledger)]

--------------------------------------------------------------------------------
Init ==
  /\ today = 1
  /\ live = {}
  /\ main = freshTree(InitLedger)
  /\ branch = main
  /\ green = {}
  /\ mainRed = {}

(* A new head commit on the branch: no check has reported on it yet.       *)
Commit(tree) ==
  /\ tree # branch
  /\ branch' = tree
  /\ green' = {}
  /\ UNCHANGED <<today, live, main, mainRed>>

WriteRecord(path, doc) ==
  Commit([branch EXCEPT !.ledger =
            [p \in DOMAIN branch.ledger \cup {path} |->
               IF p = path THEN doc ELSE branch.ledger[p]]])

DeleteRecord(path) ==
  /\ path \in DOMAIN branch.ledger
  /\ Commit([branch EXCEPT !.ledger =
               [p \in DOMAIN branch.ledger \ {path} |-> branch.ledger[p]]])

(* `vex-dialects.mjs write`: both files, in this order.                    *)
WriteDialects ==
  /\ loads(branch.ledger)
  /\ Commit(freshTree(branch.ledger))

(* ... stopped after the first file, and committed as it is.               *)
WriteDialectsInterrupted ==
  /\ loads(branch.ledger)
  /\ Commit([branch EXCEPT !.trivy = suppressingRecords(branch.ledger)])

HandEditOsv(rows) == Commit([branch EXCEPT !.osv = rows])

(* The branch starts again from main: closed, or overtaken by a merge.     *)
Abandon == Commit(main)

(* One job on the branch's head, its first run or a re-run; the colour of  *)
(* a check no merge waits for decides nothing and is not kept.             *)
RunCheck(check, report) ==
  /\ green' = IF Outcome(check, branch, today, live, report)
              THEN green \cup {check} ELSE green \ {check}
  /\ UNCHANGED <<today, live, main, branch, mainRed>>

Merge ==
  /\ branch # main
  /\ RequiredChecks \subseteq green
  /\ main' = branch
  /\ green' = {}
  /\ UNCHANGED <<today, live, branch, mainRed>>

(* The workflow on main: every push and the weekly schedule.               *)
RunMain(report) ==
  /\ mainRed' = { c \in Checks : ~Outcome(c, main, today, live, report) }
  /\ UNCHANGED <<today, live, main, branch, green>>

Tick ==
  /\ today < MaxDay
  /\ today' = today + 1
  /\ UNCHANGED <<live, main, branch, green, mainRed>>

Republish(advisories) ==
  /\ live' = advisories
  /\ UNCHANGED <<today, main, branch, green, mainRed>>

Publish == \E a \in Advisories \ live : Republish(live \cup {a})

Withdraw == \E a \in live : Republish(live \ {a})

Next ==
  \/ \E path \in Paths, doc \in Docs : WriteRecord(path, doc)
  \/ \E path \in Paths : DeleteRecord(path)
  \/ WriteDialects
  \/ WriteDialectsInterrupted
  \/ \E rows \in HandRows : HandEditOsv(rows)
  \/ Abandon
  \/ \E check \in RequiredChecks, report \in Reports : RunCheck(check, report)
  \/ Merge
  \/ \E report \in Reports : RunMain(report)
  \/ Tick
  \/ Publish
  \/ Withdraw

Spec == Init /\ [][Next]_vars

(* Days pass, and the scheduled workflow keeps running; now and then the   *)
(* tools answer.  Nothing obliges an author, a reviewer or a database.     *)
FairSpec == Spec /\ WF_vars(Tick) /\ WF_vars(RunMain("complete"))

--------------------------------------------------------------------------------
(* Type correctness of the lifecycle's state.                              *)
TypeOK ==
  /\ today \in 1..MaxDay
  /\ live \subseteq Advisories
  /\ main \in Tree
  /\ branch \in Tree
  /\ green \subseteq Checks
  /\ mainRed \subseteq Checks

(* Main's trivy.yaml and osv-scanner.toml are exactly what the generator   *)
(* makes of main's own ledger, whatever was hand-edited, half-written or   *)
(* forgotten on the way (security.yml, job vex-dialects).                  *)
MainDialectsFresh ==
  /\ main.trivy = suppressingRecords(main.ledger)
  /\ main.osv = ignoredVulns(main.ledger)

(* Every acceptance on main parses and names how it ends, a standing one   *)
(* cites its evidence, and the ledger is never emptied (security.yml, job  *)
(* vex-revisit).                                                           *)
MainLedgerReviewed ==
  /\ DOMAIN main.ledger # {}
  /\ \A p \in DOMAIN main.ledger :
       /\ main.ledger[p].parses
       /\ \A st \in main.ledger[p].statements :
            LET revisit == effectiveRevisitBy(main.ledger[p], st)
            IN  /\ revisit.form \in SanctionedForms
                /\ revisit.form = "standing" =>
                     effectiveEvidence(main.ledger[p], st) = "complete"

(* What OSV is silent about on main always traces back to a committed      *)
(* suppressing statement about repository packages, in a document whose    *)
(* own date has not come: no orphan row outlives its record, no image      *)
(* record reaches the repository scan, and the row expires no later than   *)
(* the record does on the npm gate (vex-dialects.ts, ignoredVulns).        *)
OsvIgnoreIsBacked ==
  \A row \in main.osv :
    rowInForce(row, today) =>
      \E p \in DOMAIN main.ledger :
        /\ ~isRevisitOverdue(main.ledger[p].revisit, today)
        /\ \E st \in main.ledger[p].statements :
             /\ st.name = row.id
             /\ st.status \in SuppressingStatuses
             /\ \A purl \in st.purls : purl.type \notin {"deb", "generic"}

(* Time alone never clears a finding: while main and the databases stay as *)
(* they are, a job that would be red today is red on every later day, on   *)
(* the npm gate, on OSV and on the others alike.                           *)
TimeNeverGreens ==
  [][ today' # today /\ main' = main /\ live' = live =>
        \A c \in Checks : Verdict(c, main, today', live) =>
                            Verdict(c, main, today, live) ]_vars

(* News never clear a finding either: while main stays as it is and        *)
(* advisories are only added, a job that would be red stays red.  The npm  *)
(* gate is excepted where a package already reported gets another GHSA:    *)
(* any accepted one covers the package (npm-audit-gate.ts,                 *)
(* uncoveredAdvisories).                                                   *)
NewsNeverGreens ==
  [][ live' # live /\ main' = main /\ live \subseteq live' =>
        \A c \in Checks :
          /\ c = "npm" => \A pkg \in DOMAIN npmAudit(live) :
                            npmAudit(live')[pkg] = npmAudit(live)[pkg]
          /\ Verdict(c, main, today', live')
          => Verdict(c, main, today, live) ]_vars

(* The documents of main that name one of the ids as a matching id.        *)
naming(ids) ==
  { d \in documents(main.ledger) :
      \E st \in d.statements : statementIds(st) \cap ids # {} }

(* The npm findings whose acceptance is only time-boxed: some active or    *)
(* expired document accepts the package, and every one that does is dated. *)
OnlyDated(pkg) ==
  LET hits == naming(npmAudit(live)[pkg])
  IN  /\ hits # {}
      /\ \A d \in hits : d.revisit.due # 0

(* A finding that stays, accepted on the npm surface by nothing but dated  *)
(* records, is reported red again and again from some day on: a            *)
(* time-boxed acceptance cannot rot (.vex/README.md, the dated form).      *)
DatedReReds ==
  <>[](\E pkg \in DOMAIN npmAudit(live) : OnlyDated(pkg))
    => []<>("npm" \in mainRed)

================================================================================
