------------------------------ MODULE DebianTracker ------------------------------
(***************************************************************************)
(* The weekly join of the `.vex/` ledger with Debian's security tracker:   *)
(* .github/scripts/vex-debian-tracker.ts and the job of security.yml that  *)
(* runs it.  Debian publishes, main moves, a scheduled run checks main     *)
(* out, fetches the tracker and writes a report; a push to main cancels    *)
(* the run in between.  The report says for every accepted Debian package  *)
(* what Debian rules, and for every standing acceptance whether its        *)
(* premise, "unimportant, no fix will come", still holds.                  *)
(*                                                                         *)
(* A version text is the part before its body, the body and the part       *)
(* behind it; of the tracker's strings the verdict depends on, only        *)
(* whether they are the ones asked for is kept.  The revisit form and the  *)
(* citation are the document's, as in every record of the ledger.  Scope,  *)
(* reasons and the layout of the report are left out.                      *)
(***************************************************************************)
EXTENDS Naturals, FiniteSets

CONSTANTS
  Paths,           \* records of `.vex/`
  Names,           \* binary packages
  SourcePackages,  \* source packages, what the tracker is keyed on
  Cves,
  Suites,          \* Debian's suites ...
  DEBIAN_SUITE,    \* ... and the one the image is built from
  Prefixes,        \* what may stand before the body of a version ...
  Epochs,          \* ... `<digits>:` among it ...
  ZeroEpoch,       \* ... `0:` of these
  Bodies,
  Suffixes,        \* what may stand behind it ...
  BinNmus,         \* ... `+b<digits>` among it
  Payloads,        \* what the tracker may publish: sets of entries
  Ledgers,         \* what main may hold: paths to records
  Scans,           \* what the image scans of a run may say: sets of claims
  Changes          \* bound: publications and pushes

VersionText == [prefix : Prefixes, body : Bodies, suffix : Suffixes]
Blank == [prefix |-> "", body |-> "", suffix |-> ""]

(* One node of the tracker: a source package, a CVE and a suite.           *)
TrackerEntry ==
  [sourcePackage : SourcePackages, cve : Cves, suite : Suites,
   suiteVersion : VersionText, resolved : BOOLEAN, fixedVersion : BOOLEAN,
   unimportant : BOOLEAN, nodsa : BOOLEAN]

(* A purl, written with its epoch and its signs encoded or not, qualified  *)
(* or not; a record's document.                                            *)
Purl ==
  [debian : BOOLEAN, name : Names, version : VersionText,
   spelling : {"plain", "encoded", "qualified"}]
Citation == [suite : Suites, source_package : SourcePackages]
Record ==
  [statements : SUBSET [cve : Cves, purls : SUBSET Purl],
   standing : BOOLEAN, evidence : Citation]

States == {"fixed", "not-fixed", "wont-fix", "affected", "will_not_fix",
           "fix_deferred", "end_of_life", "unknown"}
FixStateClaim == [id : Cves, scanner : {"grype", "trivy"}, state : States]

TrackerAssumption ==
  /\ "" \in Prefixes \ Epochs /\ "" \in Suffixes \ BinNmus /\ "" \in Bodies
  /\ Epochs \subseteq Prefixes /\ BinNmus \subseteq Suffixes
  /\ ZeroEpoch \in Epochs /\ DEBIAN_SUITE \in Suites
  /\ \A p \in Payloads : p \subseteq TrackerEntry /\ IsFiniteSet(p)
  /\ \A l \in Ledgers :
       /\ DOMAIN l \subseteq Paths
       /\ \A path \in DOMAIN l :
            /\ l[path] \in Record
            /\ IsFiniteSet(l[path].statements)
            /\ \A st \in l[path].statements : IsFiniteSet(st.purls)
  /\ \A s \in Scans : s \subseteq FixStateClaim
  /\ Changes \in Nat

ASSUME TrackerAssumption

VARIABLES
  tracker,   \* what Debian publishes
  ledger,    \* `.vex/` on main
  job,       \* the last run: its checkout, its payload, how far it came
  report,    \* the artifact of the last run that wrote one
  changes

vars == <<tracker, ledger, job, report, changes>>

--------------------------------------------------------------------------------
(* The join key.                                                           *)

(* A prefix that is no epoch and a suffix that is no binNMU stay with the  *)
(* body; "" is no epoch written, which is not the epoch 0.                 *)
parseDebianVersion(v) ==
  [epoch |-> IF v.prefix \in Epochs THEN v.prefix ELSE "",
   base |-> <<IF v.prefix \in Epochs THEN "" ELSE v.prefix, v.body,
              IF v.suffix \in BinNmus THEN "" ELSE v.suffix>>,
   binNmu |-> IF v.suffix \in BinNmus THEN v.suffix ELSE ""]

epochsEqual(a, b) ==
  (IF a.epoch = "" THEN ZeroEpoch ELSE a.epoch) = (IF b.epoch = "" THEN ZeroEpoch ELSE b.epoch)

matchDebianVersion(purlVersion, suiteVersion) ==
  LET left == parseDebianVersion(purlVersion)
      right == parseDebianVersion(suiteVersion)
  IN  /\ purlVersion # Blank /\ suiteVersion # Blank
      /\ left.base = right.base
      /\ epochsEqual(left, right) \/ left.epoch = "" \/ right.epoch = ""

VersionRelaxation == SUBSET {"binnmu", "epoch-stripped"}

(* What a match had to overlook: nothing is `exact`.                       *)
relaxation(purlVersion, suiteVersion) ==
  LET left == parseDebianVersion(purlVersion)
      right == parseDebianVersion(suiteVersion)
  IN  { x \in {"binnmu", "epoch-stripped"} :
          \/ x = "binnmu" /\ left.binNmu # right.binNmu
          \/ x = "epoch-stripped" /\ ~epochsEqual(left, right) }

--------------------------------------------------------------------------------
(* Debian's verdicts.                                                      *)

(* The entries of a CVE in the suite, whichever package they are filed     *)
(* under.                                                                  *)
indexTracker(payload, cve) ==
  { e \in payload : e.suite = DEBIAN_SUITE /\ e.cve = cve }

EntryBuckets == {"UNIMPORTANT-NO-FIX", "NO-DSA", "OPEN-NO-FIX", "FIXED-UPSTREAM"}
BUCKETS == EntryBuckets \cup {"AMBIGUOUS", "NO-VERSION-MATCH", "NO-CVE-IN-TRACKER"}

entryVerdict(e) ==
  CASE e.fixedVersion \/ e.resolved -> "FIXED-UPSTREAM"
    [] ~e.fixedVersion /\ ~e.resolved /\ e.unimportant -> "UNIMPORTANT-NO-FIX"
    [] ~e.fixedVersion /\ ~e.resolved /\ ~e.unimportant /\ e.nodsa -> "NO-DSA"
    [] OTHER -> "OPEN-NO-FIX"

(* Both channels of a product are kept as they are spelled.                *)
MutDebTriples(l) ==
  UNION { UNION { { [path |-> path, cve |-> st.cve, purl |-> p] :
                      p \in { q \in st.purls : q.debian } } :
                  st \in l[path].statements } :
          path \in DOMAIN l }

(* One triple per record, CVE and Debian package, however the package is   *)
(* spelled.                                                                *)
debTriples(l) ==
  UNION { UNION { { [path |-> path, cve |-> st.cve, purl |-> [p EXCEPT !.spelling = "plain"]] :
                      p \in { q \in st.purls : q.debian } } :
                  st \in l[path].statements } :
          path \in DOMAIN l }

(* The first package that joined decides.                                  *)
MutBucketFor(candidates, joined) ==
  IF candidates = {} THEN "NO-CVE-IN-TRACKER"
  ELSE IF joined = {} THEN "NO-VERSION-MATCH"
  ELSE entryVerdict(CHOOSE e \in joined : TRUE)

bucketFor(candidates, joined) ==
  IF candidates = {} THEN "NO-CVE-IN-TRACKER"
  ELSE IF joined = {} THEN "NO-VERSION-MATCH"
  ELSE IF \E d, e \in joined : entryVerdict(d) # entryVerdict(e) THEN "AMBIGUOUS"
  ELSE entryVerdict(CHOOSE e \in joined : TRUE)

classifyTriple(payload, t) ==
  LET candidates == indexTracker(payload, t.cve)
      joined == { e \in candidates : matchDebianVersion(t.purl.version, e.suiteVersion) }
  IN  [triple |-> t, candidates |-> Cardinality(candidates),
       joined |-> { [entry |-> e, relaxation |-> relaxation(t.purl.version, e.suiteVersion)] :
                      e \in joined },
       bucket |-> bucketFor(candidates, joined)]

classifyTriples(payload, l) == { classifyTriple(payload, t) : t \in debTriples(l) }

bucketCounts(rows) ==
  [b \in BUCKETS |-> Cardinality({ row \in rows : row.bucket = b })]

--------------------------------------------------------------------------------
(* The scanners' second opinion and the premise of a standing acceptance.  *)

NO_FIX_STATES ==
  {"not-fixed", "wont-fix", "affected", "will_not_fix", "fix_deferred", "end_of_life"}

(* Whatever is not fixed has no fix.                                       *)
MutCorroborate(bucket, claims) ==
  LET trackerHasFix == bucket = "FIXED-UPSTREAM"
  IN  IF claims = {} THEN "no-scanner-data"
      ELSE IF \E c \in claims : (c.state = "fixed") # trackerHasFix THEN "conflict"
      ELSE "agree"

corroborate(bucket, claims) ==
  LET trackerHasFix == bucket = "FIXED-UPSTREAM"
      informative == { c \in claims : c.state = "fixed" \/ c.state \in NO_FIX_STATES }
  IN  IF informative = {} THEN "no-scanner-data"
      ELSE IF \E c \in informative : (c.state = "fixed") # trackerHasFix THEN "conflict"
      ELSE "agree"

(* The cited package is looked for among the binary ones' verdicts only.   *)
MutPremiseFor(evidence, rows) ==
  IF rows = {} THEN "unverifiable"
  ELSE IF /\ \A row \in rows : row.bucket = "UNIMPORTANT-NO-FIX"
          /\ evidence.suite = DEBIAN_SUITE
       THEN "holds" ELSE "stale"

premiseFor(evidence, rows) ==
  IF rows = {} THEN "unverifiable"
  ELSE IF /\ \A row \in rows : row.bucket = "UNIMPORTANT-NO-FIX"
          /\ evidence.suite = DEBIAN_SUITE
          /\ \E row \in rows : \E j \in row.joined :
               j.entry.sourcePackage = evidence.source_package
       THEN "holds" ELSE "stale"

standingPremises(l, rows) ==
  [path \in { p \in DOMAIN l : l[p].standing } |->
     premiseFor(l[path].evidence, { row \in rows : row.triple.path = path })]

Report(payload, l, claims) ==
  LET rows == classifyTriples(payload, l)
  IN  [rows |-> rows,
       fixState |-> [row \in rows |->
                       corroborate(row.bucket, { c \in claims : c.id = row.triple.cve })],
       claims |-> claims,
       counts |-> bucketCounts(rows),
       premises |-> standingPremises(l, rows)]

--------------------------------------------------------------------------------
(* The job.                                                                *)

NoRun == [phase |-> "none", ledger |-> [p \in {} |-> 0], payload |-> {}]
NoReport ==
  [rows |-> {}, fixState |-> [r \in {} |-> 0], claims |-> {},
   counts |-> [b \in BUCKETS |-> 0], premises |-> [p \in {} |-> 0]]

Init ==
  /\ tracker \in Payloads
  /\ ledger \in Ledgers
  /\ job = NoRun
  /\ report = NoReport
  /\ changes = 0

Publish(p) ==
  /\ changes < Changes
  /\ changes' = changes + 1
  /\ tracker' = p
  /\ UNCHANGED <<ledger, job, report>>

(* A push to main supersedes the run of its ref (concurrency group); the   *)
(* run it starts is no scheduled one and skips the job.                    *)
Push(l) ==
  /\ changes < Changes
  /\ changes' = changes + 1
  /\ ledger' = l
  /\ job' = IF job.phase \in {"checked out", "fetched"} THEN NoRun ELSE job
  /\ UNCHANGED <<tracker, report>>

(* The cron, or a dispatch on main; it supersedes the run before it.       *)
Checkout ==
  /\ job' = [phase |-> "checked out", ledger |-> ledger, payload |-> {}]
  /\ UNCHANGED <<tracker, ledger, report, changes>>

Fetch ==
  /\ job.phase = "checked out"
  /\ job' = [job EXCEPT !.phase = "fetched", !.payload = tracker]
  /\ UNCHANGED <<tracker, ledger, report, changes>>

(* The answer is joined whatever its status is.                            *)
MutFetchFails ==
  /\ job.phase = "checked out"
  /\ job' = [job EXCEPT !.phase = "fetched"]
  /\ UNCHANGED <<tracker, ledger, report, changes>>

(* The request fails or is not answered with success: the run is red and   *)
(* writes nothing.                                                         *)
FetchFails ==
  /\ job.phase = "checked out"
  /\ job' = [job EXCEPT !.phase = "red"]
  /\ UNCHANGED <<tracker, ledger, report, changes>>

(* With the fix states of the scan JSONs this run has, if it has any.      *)
Write ==
  /\ job.phase = "fetched"
  /\ job' = [job EXCEPT !.phase = "green"]
  /\ \E claims \in Scans : report' = Report(job.payload, job.ledger, claims)
  /\ UNCHANGED <<tracker, ledger, changes>>

Next ==
  \/ \E p \in Payloads : Publish(p)
  \/ \E l \in Ledgers : Push(l)
  \/ Checkout \/ Fetch \/ FetchFails \/ Write

Spec == Init /\ [][Next]_vars

(* The cron comes again, and a host that is down is up again at times.     *)
Fairness == WF_vars(Checkout) /\ SF_vars(Fetch) /\ SF_vars(Write)

FairSpec == Spec /\ Fairness

--------------------------------------------------------------------------------
Triple == [path : Paths, cve : Cves, purl : Purl]
Row ==
  [triple : Triple, candidates : Nat, bucket : BUCKETS,
   joined : SUBSET [entry : TrackerEntry, relaxation : VersionRelaxation]]
Premises == UNION { [ps -> {"holds", "stale", "unverifiable"}] : ps \in SUBSET Paths }

TypeOK ==
  /\ tracker \in Payloads
  /\ ledger \in Ledgers
  /\ job.phase \in {"none", "checked out", "fetched", "red", "green"}
  /\ job.phase # "none" => job.ledger \in Ledgers
  /\ job.phase \in {"fetched", "green"} => job.payload \in Payloads
  /\ report.rows \subseteq Row
  /\ report.fixState \in [report.rows -> {"agree", "conflict", "no-scanner-data"}]
  /\ report.claims \subseteq FixStateClaim
  /\ DOMAIN report.counts = BUCKETS
  /\ report.premises \in Premises
  /\ changes \in 0..Changes

(* What two version texts must share to name one source version: a text    *)
(* that writes no epoch may stand for any, a rebuild changes no source.    *)
SourceVersions(v) ==
  { [epoch |-> e, base |-> parseDebianVersion(v).base] :
      e \in { x \in Epochs : parseDebianVersion(v).epoch \in {"", x} } }

SameSource(v, w) ==
  v # Blank /\ w # Blank /\ SourceVersions(v) \cap SourceVersions(w) # {}

HasFix(e) == e.fixedVersion \/ e.resolved

(* "A join MISS" is never "indistinguishable from Debian has no opinion"   *)
(* (vex-debian-tracker.ts:371): a row of a finished run has a verdict only *)
(* when some source package names its version and all that do agree, and   *)
(* tells an unknown CVE from an unknown version.                           *)
RowsSpeakForDebian ==
  job.phase = "green" =>
    \A row \in report.rows :
      LET known == { e \in job.payload : e.suite = DEBIAN_SUITE /\ e.cve = row.triple.cve }
          apt == { e \in known : SameSource(row.triple.purl.version, e.suiteVersion) }
      IN  /\ row.bucket = "NO-CVE-IN-TRACKER" <=> known = {}
          /\ row.bucket = "NO-VERSION-MATCH" <=> known # {} /\ apt = {}
          /\ row.bucket = "FIXED-UPSTREAM" => \A e \in apt : HasFix(e)
          /\ row.bucket = "UNIMPORTANT-NO-FIX" => \A e \in apt : e.unimportant /\ ~HasFix(e)
          /\ row.bucket = "NO-DSA" => \A e \in apt : e.nodsa /\ ~e.unimportant /\ ~HasFix(e)
          /\ row.bucket = "OPEN-NO-FIX" => \A e \in apt : ~e.nodsa /\ ~e.unimportant /\ ~HasFix(e)

(* "HOLDS -- Debian still returns the same non-security/no-fix verdict for *)
(* the cited source package and suite" (.vex/README.md:248), for a CVE and *)
(* a version the record accepts.                                           *)
HoldsIsCited ==
  job.phase = "green" =>
    \A path \in { p \in DOMAIN report.premises : report.premises[p] = "holds" } :
      LET rec == job.ledger[path]
      IN  \E e \in job.payload, st \in rec.statements :
            /\ e.sourcePackage = rec.evidence.source_package /\ e.suite = rec.evidence.suite
            /\ e.unimportant /\ ~HasFix(e)
            /\ e.cve = st.cve
            /\ \E p \in st.purls : p.debian /\ SameSource(p.version, e.suiteVersion)

(* An acceptance is one row, however often and in whatever spelling its    *)
(* products carry the purl ("the report doubled every row",                *)
(* vex-debian-tracker.ts:314), and every Debian one has a row.             *)
AcceptancesAreCountedOnce ==
  job.phase = "green" =>
    \A path \in DOMAIN job.ledger :
      Cardinality({ row \in report.rows : row.triple.path = path }) =
        Cardinality(UNION { { <<st.cve, p.name, p.version>> : p \in { q \in st.purls : q.debian } } :
                            st \in job.ledger[path].statements })

(* Agreement and conflict rest on a claim about the row's CVE that says    *)
(* something about a fix: "it must not be read as agreement"               *)
(* (vex-debian-tracker.ts:496).                                            *)
CorroborationIsInformed ==
  \A row \in report.rows :
    LET about == { c \in report.claims : c.id = row.triple.cve }
        saysNone == \E c \in about : c.state \in NO_FIX_STATES
        saysFixed == \E c \in about : c.state = "fixed"
    IN  /\ report.fixState[row] = "agree" =>
             IF row.bucket = "FIXED-UPSTREAM" THEN saysFixed /\ ~saysNone ELSE saysNone /\ ~saysFixed
        /\ report.fixState[row] = "conflict" =>
             IF row.bucket = "FIXED-UPSTREAM" THEN saysNone ELSE saysFixed

(* A standing acceptance whose cited verdict Debian has withdrawn, or      *)
(* never gave, is noticed: a report says that it does not hold, unless the *)
(* record or the tracker changes first -- whatever requests fail and       *)
(* pushes cancel on the way.                                               *)
Drifted(path) ==
  /\ path \in DOMAIN ledger /\ ledger[path].standing
  /\ \A e \in tracker :
       /\ e.sourcePackage = ledger[path].evidence.source_package
       /\ e.suite = ledger[path].evidence.suite
       => ~e.unimportant \/ HasFix(e)

DriftIsReported ==
  \A path \in Paths :
    []<>(Drifted(path) => path \in DOMAIN report.premises /\ report.premises[path] # "holds")

================================================================================
