# Formal models of e2e-ministack

TLA+ models, model-checking runs and machine-checked proofs for the parts of this
repository that decide something over time: which vulnerability acceptances hold and when
they end, how a dependency of unknown licence is resolved, how the emulator image is
bumped, how its compatibility catalogue is re-verified, what a report of two ledgers tells
its reader, when a standing acceptance is re-examined against Debian, and how shared test
resources are provisioned. Source paths below are relative to the repository's root.

1. [Inventory](#inventory)
2. [Modules](#modules)
3. [The acceptance ledger and its gates](#the-acceptance-ledger-and-its-gates)
4. [The license-review queue](#the-license-review-queue)
5. [The pin fan-out](#the-pin-fan-out)
6. [The compatibility workflow](#the-compatibility-workflow)
7. [The two-ledger report](#the-two-ledger-report)
8. [The Debian tracker join](#the-debian-tracker-join)
9. [The verify-or-provision adapters](#the-verify-or-provision-adapters)
10. [Runs](#runs)
11. [Theorems and proofs](#theorems-and-proofs)
12. [Where the code and its text disagree](#where-the-code-and-its-text-disagree)
13. [Not modelled](#not-modelled)

## Inventory

The repository is a small CDK application and a large amount of automation around it. The
automation is where the logic is.

### A. The VEX ledger and its gates -- `.github/scripts/vex-ledger.ts`, `npm-audit-gate.*`, `grype-fs-gate.*`, `vex-dialects.*`, `vex-revisit-gate.*`, `security.yml`

*State.* `.vex/*.openvex.json`: one document per acceptance, with statements (a
vulnerability, its aliases, a status, product purls), a `revisit_by` that says how the
acceptance ends, and evidence. Two files generated from it and committed with it,
`trivy.yaml` and `osv-scanner.toml`.
*Operations.* `vex-dialects.mjs write` regenerates the two files, one after the other;
`check` compares them. `npm-audit-gate.mjs` and `grype-fs-gate.mjs` let a scan pass if the
ledger covers what it found. `vex-revisit-gate.mjs` requires every record to name its exit.
*Interactions.* All read the same ledger, each through its own projection: the npm gate by
GHSA and with a date, the Grype gate by id and product without one, OSV through generated
rows with a date of their own, the revisit gate through the statement in force. They run as
jobs of `security.yml` on a pull request, on a push to `main` and weekly.
*Hard.* Checks are read at merge time, after later commits, other days and newly published
advisories; two generated files are not written atomically; the same question ("until
when?", "which id?") is answered in four places; an advisory service may answer with a
well-formed error.
*Correct if* `main` never carries generated files that are not its own ledger's, nor a
record without an exit; nothing OSV is silent about is without a live record; time alone
never turns a finding green; a time-boxed acceptance is reported red once its time is over.

### B. The license-review queue -- `security.yml` (License-UNKNOWN triage), `license-review-poller.yml`, `license-verdict.*`

*State.* GitHub issues with the label `review:license`: title, labels, comments, age;
ClearlyDefined's declared licence of each package.
*Operations.* A pull-request run searches for an issue of the package and comments or
creates. A weekly poller lists the open issues, fetches each declaration and closes,
escalates, reminds, or turns its own run red.
*Interactions.* Through GitHub, with concurrent runs and with people who close and label.
*Hard.* Search-then-create by runs that do not see each other; a poller working from a
snapshot; `bash -e` ending a run between two calls; labels as the only memory between runs;
a job timeout; a bounded listing.
*Correct if* only an issue with an acceptable licence is ever closed by the poller, an
acceptable one is closed eventually, an unacceptable one keeps the schedule red, an old one
is raised, and a package has one open issue.

### C. The pin fan-out -- `scripts/update-ministack.*`, `.github/scripts/check-ministack-digest-drift.sh`, `ci.yml` (ministack-digest-drift)

*State.* The image digest in every file that pins it, one of which
(`services/_registry/ministack-pin.json`) is also the source of the old digest.
*Operations.* Read the old digest, resolve the new one, substitute in every file in turn,
run the guard.
*Hard.* Not atomic: a kill between two files, or between truncation and write of one,
leaves a mixture from which the tool is started again; a file may have been bumped by hand.
*Correct if* success means that the resolved digest is the only one left, and a tree that
agreed is bumped.

### D. The two-ledger report -- `vex-report.*`, `alerts-findings.*`, `sarif-cve-ids.*`, `gate-findings.*`, `vex-to-sarif-suppressions.*`, `security.yml` (image scans, vex-report)

*State.* None of its own: it joins the code-scanning alerts, this run's scan results and
the `.vex/` records into one row and one status per finding. The alerts live in GitHub,
per ref, and are what the uploads and dismissals of earlier runs made of them.
*Hard.* Sources of different ages and surfaces: an alert missing from this run's scan may be
fixed, or may belong to a surface this run did not scan; a source may be absent altogether;
two scanners rate and filter differently.
*Correct if* what turns a gate red is shown, what looks like a person's doing is a person's,
and what is called drift between the ledgers is not an alert that only lags behind.

### E. The compatibility workflow -- `ministack-compat.yml`, `services/_registry/provisioning.json`

*State.* Rows with the digest they were last verified on; the outcome file of a run; one
drift issue. *Operations.* Compute the stale rows, deploy, run the verticals, file or update
the drift issue, enforce.
*Hard.* The image under test and the digest it is reported on are read from different
files; a step that never ran leaves no outcome file, which two later steps read in opposite
ways; search-then-create of the issue; a waiting run is replaced by the next one.
*Correct if* the image tested is the one reported on, green is earned, drift has one issue,
and lasting drift gets it.

### F. Verify-or-provision adapters -- `services/*/iac/cdk/deploy.ts`, `services/*/health.ts`, `services/*/checks.*.ts`, `services/_harness/`

*State.* Resources in a MiniStack instance that outlives the test runs: present or not,
healthy or not, with or without this stack's provenance marker.
*Operations.* Look; provision if absent, unhealthy or foreign; look again and require the
marker; test. *Hard.* Everything may change between the looks: a timed-out hook does not
stop its child, a killed run leaves half a resource and perhaps a deploy behind.
*Correct if* a marked vertical is only green on its own resource and leftovers get repaired.

### G. The Debian tracker join -- `vex-debian-tracker.*`, `security.yml` (vex-debian-tracker)

A report-only function of the ledger's Debian products and a downloaded table, run weekly:
versions compared, entries bucketed, premises of standing records examined, scanners asked
for a second opinion. *Hard.* Version texts with epochs and rebuild suffixes that are written
or not; a miss that must not look like an opinion; a download that fails, a run that a push
cancels. *Correct if* a verdict is Debian's about that version, a premise that is said to
hold does, and one that ceases to hold is reported in the end.

### H. Agent configuration sync -- `scripts/sync-mcp-config.*`

One canonical file rendered to several committed ones, with a parity check: the write
pattern of A and C again.

### I. Everything else

`scripts/ministack-upstream.*` (a person-gated helper around the issue tracker of MiniStack),
the SARIF converters and `suppression-inventory.ts` (stateless document conversions),
`lib/`, `bin/`, `lambda/` (declarative infrastructure, a pure handler),
`scripts/verify-all.sh` (a list of commands) and the third-party automation in
`.github/workflows/`. [Not modelled](#not-modelled) has the reasons.

## Modules

| component | model | small instance | proofs |
|-----------|-------|----------------|--------|
| A | `VexLedger`, `VexSurfaces`, `AcceptanceLifecycle` | `MCAcceptanceLifecycle` | `AcceptanceLifecycleProofs` |
| B | `LicenseReview`, and `ReviewQueue`, its abstract specification | `MCLicenseReview` | `LicenseReviewProofs` |
| C | `PinSites`, `PinFanOut` | `MCPinFanOut` | `PinSitesProofs`, `PinFanOutProofs` |
| E | `CompatDrift` over `PinSites` | `MCCompatDrift` | `CompatDriftProofs` |
| D | `TwoLedgerReport` | `MCTwoLedgerReport` | `TwoLedgerReportProofs` |
| G | `DebianTracker` | `MCDebianTracker` | `DebianTrackerProofs` |
| F | `VerifyOrProvision` | `MCVerifyOrProvision` | `VerifyOrProvisionProofs` |

*Composition.* `AcceptanceLifecycle` extends `VexSurfaces`, which extends `VexLedger`.
`PinFanOut` and `CompatDrift` both extend `PinSites`, the files and the guard: the updater
ends with the guard's verdict, and the compat workflow's `main` takes the trees the guard
passes.
*Order.* The gates and the branch (A) came first, as everything else rests on the ledger;
then the stateful queues (B, C), what builds on an agreeing `main` (E), and the readers of
the ledger (D, G) and the test harness (F). Modules with proofs declare no recursive
operator.

## The acceptance ledger and its gates

| module | stands for |
|--------|------------|
| `VexLedger` | `vex-ledger.ts`, and the vocabulary of `vex-revisit-gate.ts`: what a document is and each question asked of the ledger |
| `VexSurfaces` | each gate and generator as a predicate or function of a tree, a day and the advisories |
| `AcceptanceLifecycle` | branch, checks, merge, scheduled runs, calendar, databases |
| `MCAcceptanceLifecycle` | small documents, advisories and trees for TLC |

**Data.** A tree is `[ledger, trivy, osv]`: records by path, the paths listed in
`trivy.yaml`, the rows of `osv-scanner.toml`. Text is kept at the grain the readers read it:
a `revisit_by` is its JSON shape, its vocabulary form and the first date *anywhere* in it,
because the code reads the three independently (`revisitForm` looks at the first tokens,
`revisitDate` searches the whole string). Identifiers are normalised (`normId`), a purl is
type, name with namespace, version and qualifiers. A scanner's advisory is its ids, its
package and the purl reported for it. Reasons and layout of generated files are left out,
and so is a text that looks like a date but names no day (`2026-13-45`): `revisitDate` has a
guard for it and yields nothing, `ignoreUntilFrom` (vex-dialects.ts:176) has none and yields
an invalid `Date`, which is truthy and becomes the `ignoreUntil` of a row. In the model a
date always is a day, and the two agree.

**Actions.** `WriteRecord`, `DeleteRecord` and `HandEditOsv` are a maintainer's commits,
`WriteDialects` is the generator, `WriteDialectsInterrupted` the generator killed after its
first file with the result committed. Each is a new head with no check reported. `RunCheck`
is one job on the branch's head, a first run or a re-run, with the tool's report complete,
missing, or (npm) a well-formed error object. `Merge` waits for `RequiredChecks` and takes
whatever is green by then, possibly since days. `RunMain` is the workflow on `main`. `Tick`,
`Publish` and `Withdraw` are the world.

**Branches.** One open branch is enough: the ruleset has
`strict_required_status_checks_policy` (docs/SECURITY-TOOLING.md), so a merge forces every
other branch to a new head, without its checks -- `Abandon` followed by new commits.

**`RequiredChecks`** is a parameter because the repository's own text distinguishes two
cases: the `VEX revisit_by gate` and `VEX dialect drift-check` jobs are *not* required
contexts of the ruleset; "the hole ... is held closed by the practice of not merging
anything red" (docs/SECURITY-TOOLING.md). The runs and the assumption `StaticGates` of the
theorems take that practice as given; without it, `MainDialectsFresh` and
`MainLedgerReviewed` would say nothing about this repository.

**Properties.** `MainDialectsFresh`, `MainLedgerReviewed` and `OsvIgnoreIsBacked` are about
what may get to `main`.
`TimeNeverGreens` compares every job's verdict on `main` on two successive days: expiry is decided
separately in `activeRecordIds` and in `ignoreUntil`, and a comparison wrong on one boundary
would let a finding go quiet by waiting. `NewsNeverGreens` is the same for advisories: one
more of them never turns a job green -- with one exception the code makes, stated in the
property: the npm gate covers a package by *any* accepted GHSA, so a package that was
reported is covered by a record of another of its advisories. `DatedReReds` is the liveness
behind time-boxing.

**Fairness** (`FairSpec`). `WF(Tick)`: days pass. `WF(RunMain("complete"))`: `security.yml`
has a weekly `schedule`, and its tools answer now and then; runs whose report is missing or
an error may come in between in any number. Nothing obliges an author, a merge or a
database.

**Bounds.** Two records (one suppressing, one not, in either order, overlapping in an id), a
calendar of three days -- before, on and after a date -- one advisory per scanned ecosystem,
and a second npm advisory of the same package for the exception above. The predicates
quantify over statements and records one at a time or look at a pair, so two records and
these advisories show each case; the theorems then drop the bounds. `MCInitLedger` is a
ledger that passes the revisit gate, as `main`'s does; one of the documents written to the
branch does not parse.

## The license-review queue

`LicenseReview` models both ends: `Search`, `File` and `FileFails` are the triage step of a
pull-request run (the search and the write are separate because other runs may come in
between); `PollStart` to `EndRun` are the poller's script, one action per exit of its loop.
Runs of the poller do not overlap (`concurrency: group: ${{ github.workflow }}`).

**The snapshot.** `poll.rows` is what `gh issue list` returned: title, labels and date as
they were. A handler writes to the issue as it *is*. Comments, by contrast, are read again
before a reminder (`Heartbeat`).

**Failures.** The script runs under `bash -e`: a failing call ends the run red, with the
calls before it done -- `partly` has the intermediate states (labels without comment, comment
without closing). A failed fetch skips the row; failed comment reading counts as no comment;
a failed search counts as nothing found; a verdict script that exits with neither 0 nor 1
reds the run and leaves the issue alone (`VerdictError`); the job has a timeout.

**Time** is in units of the poller's thresholds; `EscalateAfter` is its thirty days.
**SPDX** satisfaction (`license-verdict.ts`) is a verdict per package; an expression that
does not parse is unacceptable there and here. A declaration, once harvested, is assumed not
to be withdrawn or changed: in the model it appears and stays. A declaration that changes between
the poller's fetch and its close is therefore outside what `ClosedMeansAcceptable` says.

**Properties.** `ReviewQueue` is the queue without runs: issues that enter, close, get
prioritised or escalated, each by a rule on the state of *that moment*. `LicenseReview`
implements it (`ImplementsReviewQueue`) with a mapping that forgets comments, titles and all
of the runs' state: a label is put on only for an unacceptable licence or the issue's own
age, no label, verdict or age is lost, nothing reopens, nothing changes its package --
although the poller decides on rows it listed earlier and may stop between any two of its
calls. `ClosedMeansAcceptable` is the invariant the closing half of it comes to.
`AcceptableGetsClosed`, `UnacceptableKeepsRed` and `AgedIsRaised` are what must happen in the
end. The last says that an old issue without a licence gets `priority:high`, from the poller
*or from a person*: the poller takes the label for its own mark (line 118), so that it also
adds `area:security` and a comment, as line 21 has it, is not true and not claimed.

**Fairness** (`FairSpec`). `WF(PollStart)`: the poller has a weekly schedule. `SF(PollEnd)`,
`SF` of the skip of a title without a purl, and per issue number `SF(Fetch)` and `SF(Act)`:
a run may be cut short and services may fail again and again, but not always at the same
row. Weak fairness would not do, since a timeout disables the row's action; per issue,
because fairness of the action as a whole would be met by progress on another row.

**Bounds.** Two issues, one listing of two, a calendar of one threshold. `LicenseQueue` has
the interleavings: two packages, people who close and prioritise, failing comment reading,
verdicts and actions, and timeouts. `LicenseProgress` has the liveness: one package, a
duplicate or a mislabelled issue in front of the one in question, people who prioritise, and
failing searches, fetches, actions and timeouts.

## The pin fan-out

`PinSites` is the files and the guard: a site is the *set* of digests it carries, `{}` for a
file truncated and not yet written; `driftGuard` is the shell script's "exactly one distinct
digest" with its treatment of an unreadable registry file. The guard also accepts a tree in
which no file carries a pin, which the model keeps.

`PinFanOut` has one action per step of `main` in `update-ministack.mjs`; a write is
`Truncate` then `Fill`, and `Crash` may come anywhere. Between runs a maintainer may bump
any site by hand, fully or in part, restore the committed tree, or land what the guard lets
through; the image registry may serve another digest at any time.

`OkMeansLanded` and `AgreeingTreeBumps` are action properties of the last step of a run:
success means that every site that carried a pin when the run read it carries the resolved
digest alone, and that a tree that agreed is bumped. A site that a killed run had emptied
before is not noticed, by the guard or by the run. Three sites are the registry, one written
after it, and one more for a kill in between; three digests are the old one, the new one and
a stray. The theorems cover any number.

Nothing is claimed of what gets to `main`: the guard's job (`MiniStack digest drift guard`)
is not among the required contexts of the ruleset (docs/SECURITY-TOOLING.md, lines
1021-1040). `Land` takes trees the guard passes, which is the practice, and no property of
the updater depends on it.

Simplifications: no line carries two pins (the guard reads one per line); the files are read
at one moment in `Resolve`, as the tool is not run beside an editor; `--dry-run` writes
nothing and `--digest` is another way to choose `served`; a bump is landed as the working
tree is.

## The compatibility workflow

| model | code (`ministack-compat.yml`) |
|-------|------|
| `Land`, `PushBranch`, `Schedule`, `Dispatch` | the four triggers; a push starts a run only if it touches a path of the filter (`TriggerSites`) |
| `Trigger`, `StartPending`, `group` | `concurrency`: one run in progress, one waiting, a newer one takes the place of the one that waits |
| `ComputeWorkList` | the digest of the registry file, the rows that are stale or all of them; an empty list ends the run green, a missing digest ends it red |
| `Deploy`, `Verticals`, `CutShort` | start the image *of the workflow file*, wait, build, deploy, run the tier and record its exit code; any of it may fail or run out of time |
| `EvidenceFails` | the `if: always()` steps that write the summary and upload the evidence (lines 263-301): one that fails reds the job, whatever the tier's outcome, and stops nothing that follows |
| `Report`, `File`, `ReportFails` | the `if: always()` step: search, comment or create; its calls may fail, the one that creates also after GitHub has created the issue |
| `Enforce` | the colour of the run |
| `RecordVerdict`, `CloseIssue`, `Behave` | people, and an image that begins or ceases to fail under the same digest |

The run carries the tree it was triggered with, so a merge in the meantime does not change
what it reads. `held` is a history field: whether the image was good when the tier ran.

**`main` agrees by practice.** `Land` gives `main` trees that pass the guard. Neither the
guard nor `Verify compat against current pin` is a required context of the ruleset
(docs/SECURITY-TOOLING.md, lines 1021-1040); that red is not merged is the same practice as
with the ledger's gates. `JudgedIsPinned` rests on it: on a `main` with mixed pins, as on a
branch, a run tests one digest and reports on another.

**Properties.** `JudgedIsPinned`: a run of `main` tests the digest it reports on, although
the two are read from different files. `GreenMeansHeld`: green is earned.
`DriftIsWhatIsFiled`: the runs that set out to comment or create are exactly those whose tier
ran and failed, whichever other step of theirs failed -- the part that holds of the sentence
`RedRunIsReported` is about.
`OneDriftIssue`: search-then-create does not file twice, because runs of *all* refs share
one group. `DriftGetsIssue`: lasting drift gets an issue, also when every row is recorded as
verified, since the weekly run takes all.

**Fairness.** `SF(Schedule /\ Idle)`: the cron comes again and, whenever the queue keeps
emptying, some time into an empty queue; without it pushes may replace the waiting run for
ever, which is what the hypothesis `[]<>Idle` of `DriftGetsIssue` is about. `WF(RunStep)`
and `WF(StartPending)`: runners work. `SF` on deploy, verticals, report and filing of a run
of `main`: a step may fail often, not every time.

**Bounds.** Two pin sites suffice for a disagreement, two digests for a stale row; one row
in `CompatDrift`, two in `CompatWeekly` so that one can be recorded and the other not. The
branch is half-bumped in `CompatDrift`; in `CompatWeekly` its registry file has lost its
digest. Issues need no bound: `OneDriftIssue` keeps them at one, and TLC terminates because it does.

*Left out:* what the evidence and the log contain, the text of the issue, steps that GitHub still
runs on a cancelled job (a run is cancelled only while it waits, when nothing of it has
started).

## The two-ledger report

| model | code |
|-------|------|
| `Start` | a push or a scheduled run on a ref; cancels the run before it (`concurrency`) |
| `covered` | how a scanner applies records: by id *and* product with its version; Grype's image gate is given `.vex/CVE-*` only (security.yml:741), Trivy every suppressing record |
| `Scan`, `ScanOutcomes`, `results`, `uncovered` | the image jobs: what their SARIF holds, what their gate fails on, which files and uploads come about |
| `suppressedIds` | `vex-to-sarif-suppressions.ts`: by CVE alone, whatever the product (line 222) |
| `upload`, `listing`, `dismissAlerts` | GitHub's alert store and the dismiss-alerts action, external: from how `security.yml` uses them |
| `mergeAlertLedgers`, `alertsOf` | `alerts-findings.*`: the alerts of the ref, `main`'s behind them, per id and tool |
| `readSarifs`, `cveIdsFromSarifs`, `gateMapFor`, `gateHigh` | `sarif-cve-ids.*`, `gate-findings.*`, over whichever files the run has |
| `signals`, `unifiedStatus`, `buildReport`, `PRIORITY` | `vex-report.ts` |
| `Report` | the job, which waits for the two image jobs and no others |
| `HumanDismiss` | a maintainer in the Security tab |

Severity is a rank, twice: the badge's (NVD) and the one the scanner gates on. Grype's SARIF
of the run is VEX-free and its records become suppressions; Trivy's is VEX-gated and cut at
the floor. A purl stands for a package and its version, without the qualifiers that records
leave out. Several records may have one id, each with its products and the surface its file
name gives it; the report keeps the one whose file name comes last (`isLast`,
vex-report.ts:387). Listings may fail, which counts as empty; the recency window of resolved
rows is any subset (`recent`).

**Properties.** `RedGateIsShown` follows a finding from an image gate through upload,
listing, merge and status to a row: whatever the other ref, the other scanner and history
put beside it, what turned the gate red is there as something to do or as tracked with a
rating at the floor. It speaks of ids without a record. `DismissalIsHuman` and
`DriftIsReconciled` hold after a run of `main` that applied its dismissals, and need the
chain *upload, then dismiss, then report*. VEX drift on an image finding does occur on
`main` -- a record left on the version before a bump (`.vex/README.md`, lines 447-450) goes
on accepting in the report what the scanner reports again -- and what `DriftIsReconciled`
says is that this is the only way: the finding is one that its scanner reports and that no
record given to that scanner covers; it is never an alert that merely lags behind its record.

That nothing is *cleared falsely* is not stated, because it does not hold: see
[below](#disagreements-without-a-run).

**Bounds.** One CVE seen by both scanners with different ratings, and three runs over two
refs, each with one of four trees: bare; accepted by a record for the image and another for
a locked copy of the package, which is read last; bumped to another version with the record
left behind; fixed as far as Grype can tell. That is enough for a dismissal, its withdrawal
and a run on a pull request in between. `OtherScanners`, the scans of locked dependencies,
is empty in the runs (each one multiplies the states) and arbitrary in the theorems, which
say for which findings they speak. Starts are bounded, so the model ends and
`CHECK_DEADLOCK` is off in its two runs.

*Left out:* Markdown, the order of equal ranks, suggested justifications, links, the sticky
comment of the pull request (hence "partly").

## The Debian tracker join

| model | code |
|-------|------|
| `parseDebianVersion`, `epochsEqual`, `matchDebianVersion`, `relaxation` | the version join: a text is what stands before its body, the body and what stands behind it |
| `indexTracker`, `entryVerdict`, `debTriples`, `bucketFor`, `classifyTriple(s)`, `bucketCounts` | one row per record, CVE and Debian package; one bucket per row |
| `corroborate`, `premiseFor`, `standingPremises`, `Report` | the second opinion and the premises |
| `Checkout`, `Fetch`, `FetchFails`, `Write`, `Push` | the weekly job, and the push that cancels it |
| `Publish` | Debian |

`SameSource` and the properties do not reuse the code's operators: two version texts name one
source version when the sets of source versions they may stand for intersect. That the code's
pairwise comparison is the same is a theorem (`MatchIsSameSource`), and it is what
`RowsSpeakForDebian` and `HoldsIsCited` are judged against. `AcceptancesAreCountedOnce`
compares rows with the acceptances themselves. `CorroborationIsInformed` separates silence
from agreement. `DriftIsReported` is the purpose of the job: a standing acceptance whose
cited verdict is gone is reported as not holding, or the record or the tracker changes first.

**Fairness.** `WF(Checkout)`: the cron. `SF(Fetch)` and `SF(Write)`: a host that is down is
up again at times, and not every run is cancelled by a push; both are disabled in between by
failures and cancellations, so weak fairness would be empty.

**Bounds.** Twenty-one payloads of one CVE that differ in version spelling, suite, source
package and verdict, six ledgers, four scan results, one change during the run: the join is
per record and CVE, so a second of either adds nothing but rows.

## The verify-or-provision adapters

| model | code |
|-------|------|
| `Verify` with `isPresent` | `deploy`: the health predicate of the vertical and, for two of three, the marker |
| `Bootstrapped`, `DeployActs`, `DeployFinishes`, `CdkSucceeds`, `CdkFails` | `provisionCompatStack`: two cdk children, and what the second does to the resource |
| `Prove` | `assertProvenance` |
| `OraclePasses`, `OracleFails` | `checkSdk`, then `checkCli` |
| `TimeOut` | the five minutes of `beforeAll`; the child is not stopped |
| `Kill`, `Reset`, `Occupy`, `Settle` | an interrupted run whose child may survive, `POST /_ministack/reset`, somebody else, the emulator |

What a resource answers is one of `StatesOf`; for the function it is the combination that
`isFunctionConfigHealthy` looks at: usable, on its way, broken, or broken by its last update
(`UpdateFailed`, from `LastUpdateStatus`).

A cdk child is *awaited* by its test, *adrift* after a time-out, or *orphaned* by a run that
is gone. S3 has no marker: what is there and answers is taken, so `GreenIsOurs` speaks of
the other two (`Marked`).

**Assumptions.** A `cdk deploy` of this stack's resource succeeds when the resource is usable
(`CdkSucceeds`). A deploy without changes is a no-op that also exits 0
(lambda/iac/cdk/deploy.ts:122-132): a resource that broke *after* its stack was complete
would stay broken, and nothing in the model breaks one then. Nobody else takes a free name while the oracles of that vertical run (guard
of `Occupy`): there is no look between the proof and the last oracle, and no code could keep
`GreenIsOurs` without it. Before the proof, names may be taken at any time.

**Fairness.** Runs are started and what a process waits for comes (`WF`); a deploy finishes
and a resource on its way becomes usable some day although the emulator may be reset under
it (`SF`). Faults are bounded by `Faults`, which is what "in the end" means here: after the
last one, `LeftoversAreRepaired`.

**Bounds.** All three verticals, each with a usable, a broken and (where there is one) a
transient answer; two faults are a kill or time-out and one more on top of it.

*Left out:* the requests of the oracles and the test data they put and delete, the stacks'
other resources, the second oracle of a test that already failed.

## Runs

| run | question | distinct states |
|-----|----------|-----------------|
| `LedgerOnMain` | Do generators that are forgotten, interrupted or bypassed, and records written, broken and deleted in any order, ever leave `main` stale or unreviewed? No, as long as the two static gates are waited for. | 48,375 |
| `ChecksOnBranch` | All five jobs: do days or further advisories turn a job green, does an expired acceptance stay quiet? No. | 94,080 |
| `LicenseQueue` | Does the poller, on its snapshot, close or escalate an issue it must not, or lose what was decided? No; it implements `ReviewQueue`. | 2,214,490 |
| `LicenseProgress` | Is every issue closed, kept red or raised as its licence calls for, through failures and people's labels? Yes, under the fairness above. | 84,264 |
| `PinBump` | Does success mean the pin has landed and none was lost, after any history of kills and hand edits? Yes. | 172,656 |
| `CompatDrift` | Over a `main` whose pins agree, does a run test what it reports on, is green earned, is drift filed once, and by the runs that found it? Yes. | 344,120 |
| `CompatWeekly` | Does lasting drift get its issue through the weekly run alone? Yes. | 2,958 |
| `RedRunIsReported` | Is the issue filed precisely when the job goes red? **No.** | violated |
| `TwoLedgerReport` | Is what turns an image gate red in the report, is a dismissal called a person's a person's, and is VEX drift more than an alert that lags? Yes. | 4,468,448 |
| `StaleRecordIsUnused` | Is a stale record one that covers nothing? **No.** | violated |
| `DebianTracker` | Are verdicts Debian's, premises held by what they cite, drift reported in the end? Yes. | 61,362 |
| `VerifyOrProvision` | Is a marked vertical green on its own stack only, and is what was left half-done repaired? Yes. | 47,896 |

Every property of a passing run has a mutant in `PROJECT.json`: an operator beside the one it
replaces, with a plausible mistake (`Mut...`), under which TLC finds the property violated.
Deadlock is checked everywhere but in the two report runs, whose model really ends.

## Theorems and proofs

`*Proofs.tla` hold proofs checked by TLAPS, for every value of the constants that satisfies
the modules' assumptions. Each component has one inductive invariant; what it adds to the
properties is the argument.

*`AcceptanceLifecycleProofs`.* `StaticInv`: the branch's `drift` and `revisit` checks, when
green, are true of the branch, which days and databases do not change; and `main` passes
both. `Merge` carries the first into the second. From it
`DialectsStayFresh`, `LedgerStaysReviewed` and `OsvSilenceIsBacked`, all under `StaticGates` (the two checks are among
`RequiredChecks`). `OsvSilenceIsBacked` also needs that a row in force has a date that is
not overdue for its document, a lemma about `rowsOf` and `isRevisitOverdue`.
`TimeOnlyReds` is an action property: verdicts are
antitone in the day, lemma by lemma from `isRevisitOverdue`; `NewsOnlyReds` is the same in
the advisories. `LapsedReReds`: once every document that accepts an npm finding is overdue,
it stays uncovered while `main` and the advisories stay, and each complete run reports it.

*`LicenseReviewProofs`.* `ReviewInv` adds `PollAgrees` to the type invariant and
`ClosedMeansAcceptable`: the row the poller acts on is still about the package of the issue
with its number, and an answer other than "none" is still the declared one. That is what
lets a snapshot be acted on, and why a declaration that could be withdrawn would break it.
The date of the row is the issue's and the run's idea of today is not ahead of the calendar:
with that, `QueueKeepsItsPromise` maps every step of the runs to a step of `ReviewQueue` or
to a stutter, action by action.
The greatest row exists by well-foundedness, from the library's theorem on sets of naturals.

*`PinSitesProofs`, `PinFanOutProofs`.* `AgreeingTrees`: in a tree the guard passes every site
carries the registry file's digest or none. `FanOutInv` says what a running updater has done
so far: sites before `next` are substituted, sites after it are as read, and so is `next`
itself unless it is being filled; the old digest is the only one read from the registry
file, which never carries two. `SuccessMeansLanded` and
`AgreeingTreeSucceeds` follow at `Verify`.

*`CompatDriftProofs`.* `CompatInv`: what a run has read so far is what its tree says
(`Consistent`, which also ties an attempt to report to the tier's exit code), trees of runs of `main`
are agreeing, as `Land` takes no others, and a run about to file that found no issue still finds none, which
serialisation keeps true. `MainTestsItsPin` cites `AgreeingTrees`; `DriftIsFiledOnce`,
`GreenIsEarned` and `FilingIsPrecise` are the others.

*`TwoLedgerReportProofs`.* Three theorems about the pure part: `CrossCheckOnlyDemotes` (a
scan set changes a status only from *Decision needed* to *Scanner-cleared* or from *VEX
drift* to *Accepted*), `ActionableRowsLead`, and `RecordsAreListed` (the id of
every record has a row: *Stale record* exactly when no alert has the id, *Revisit overdue*
when the last record of the id is overdue and an alert has it). `ReportInv` adds `Uploads` (an alert of a
scanner whose upload of this run arrived is open exactly when the scan reports it),
`Dismissals` (after they were applied, a dismissal of a reported Grype finding is a record's
or a person's) and `Written` (a report that is there was written when the image jobs were
over). `OnlyHumansAreBlamed` is a conjunct of it. `MainReconciles` follows from all three: an
open alert of Grype's that is reported carries no suppression of the automation's, so no
record named for the image has its id, let alone covers it; an open one of Trivy's is in its
VEX-gated results, which leave out what is covered.
`RedGatesAreShown` follows one finding of a red gate through its alert, the merged listings
and `unifiedStatus` to its row.

*`DebianTrackerProofs`.* `MatchIsSameSource` first, then `TrackerInv`: a finished run's
report is `Report` of the payload and ledger it holds. `VerdictsAreDebians`,
`HeldPremisesAreCited` and `CorroborationIsSaid` are then statements about `Report`, for any
payload. `OneRowPerAcceptance` counts: rows and acceptances are put in one-to-one
correspondence, for which ledgers and payloads have to be finite (`TrackerAssumption`).
`DriftIsSaid`: a finished run on the tracker and ledger of now reports every standing
acceptance whose cited verdict is gone.

*`VerifyOrProvisionProofs`.* `AdapterInv` adds that there is at most one awaited child per
vertical, that every child of a run that is gone is orphaned, and `TestedIsOurs`: from the
proof to the last oracle a marked resource is the stack's or gone. `GreenIsOfItsStack`
follows at the last oracle.

**Model-checked only.** The liveness properties (`DatedReReds`, `AcceptableGetsClosed`,
`UnacceptableKeepsRed`, `AgedIsRaised`, `DriftGetsIssue`, `DriftIsReported`,
`LeftoversAreRepaired`): temporal reasoning with fairness and `ENABLED` is outside what the
prover handles. Of the first and of `DriftIsReported` the step that does the work is proved
(`LapsedReReds`, `DriftIsSaid`), and that it is taken is what TLC checks. Every invariant,
action property and refinement of a passing run is proved. `RedRunIsReported` and
`StaleRecordIsUnused` are false.

## Where the code and its text disagree

Two have a run in which TLC finds the disagreement:

- `RedRunIsReported`. "the artifact exists and the issue is filed precisely when this job
  goes red" (ministack-compat.yml:411). When the deploy fails, the verticals never run and
  there is no outcome file; the reporting step takes a missing file for `0` (line 352), the
  enforcing step for `1`: red, and no issue. `DriftIsWhatIsFiled` is what is true instead.
- `StaleRecordIsUnused`. "`.vex/` record with no finding -- the real PRUNE signal"
  (vex-report.ts:165). Trivy's upload is VEX-gated, so what a record covers there never
  becomes an alert, and a record of a CVE that only Trivy reports is called stale although
  deleting it turns the gate red.

### Disagreements without a run

Seen while modelling; where the models contain the behaviour, they contain the code's.

- The Grype file-system gate reads no date (`recordAcceptances`, vex-ledger.ts:404), though
  the dated form expires by `.vex/README.md` (line 282) and `vex-ledger.ts` (line 23).
- `revisitDate` takes the first date anywhere in the string (vex-ledger.ts:93), so an event
  form with a date in its free text or link expires; "event-token forms never expire by
  design" (`.vex/README.md`, line 285).
- A `null` at document level is a missing value for the revisit gate (`??`) and a value for
  the report (`!== undefined`, vex-ledger.ts:577): the gate accepts a trigger the report does
  not render, against the comment at vex-revisit-gate.ts:126.
- A date at statement level is in force for the revisit gate and unseen by the npm gate
  (`activeRecordIds`, vex-ledger.ts:467).
- A bare-string vulnerability is inert for the gates and still yields an OSV ignore
  (vex-dialects.ts:264, vex-ledger.ts:542).
- An issue that a person gave `priority:high` is taken for escalated and gets neither
  `area:security` nor a comment (license-review-poller.yml:118 and 21).
- Two pull-request runs may file one package twice (security.yml:541), against "idempotent"
  at line 535.
- Of the two image SARIFs one may be missing (security.yml:1268): what only that scanner
  reports counts as cleared, against "no false clears" at line 1193.
- The report asks for the alerts of `npm-audit` and OSV too (security.yml:1241), whose CVEs
  are not in the image SARIFs: an open one at the floor is called cleared
  (vex-report.ts:138 and 374), although no scan of its surface was looked at.
- A comment says that a suppressed npm finding "dismisses its alert" (security.yml:142); the
  `npm-audit` job injects suppressions and uploads, and has no step that dismisses.
- A record left on the version before a bump does not suppress in the scanner, which turns
  the gate red; the injector looks at the CVE alone (vex-to-sarif-suppressions.ts:222), has
  the alert dismissed, and the report says "Accepted ... gated, nothing to do"
  (vex-report.ts:662).
- `corroborate` (vex-debian-tracker.ts:517) compares scanners with the tracker also on rows
  that never joined or are ambiguous, where the tracker has no verdict: it calls them
  agreement with "no fix".
- The CLI oracle of S3 deletes its object only after a successful comparison
  (s3/checks.cli.ts:77), unlike the other oracles.
- A run after a time-out or kill may start a second deploy of a stack whose deploy still goes
  on (lambda/iac/cdk/deploy.ts:126); the model lets both work.

Smaller things a reader of the code may stumble over: a statement with aliases only covers
findings and is absent from the report; one accepted GHSA covers a package and with it a
second advisory of that package (npm-audit-gate.ts:133); an npm report that is an error
object passes the gate; more than a hundred newer open issues hide an older one from the
poller; an issue escalated for its age gets no verdict comment when its licence turns out
unacceptable; a rerun after a kill inside a write reports success with a pin site left
empty; a line with two pins is reduced to its last (check-ministack-digest-drift.sh:35); the
search for the drift issue may lag behind its creation (ministack-compat.yml:397); an
`affected` record turns an open finding into *Tracked* (vex-report.ts:516); of a record with
several standing statements the first one's evidence is examined (vex-debian-tracker.ts:660).

## Not modelled

*Agent configuration sync.* A deterministic function of one document; what could go wrong is
the layout it renders, and its writes have the pattern of components A and C. *Upstream
reference tool.* A person runs it, looks at scored search results and lets it rewrite one
record. *SARIF converters and inventories.* One document in, one out; no state. *Stack and
sample function, local verification script, third-party automation.* Nothing that changes
over time but what their services do.

Within the modelled components: wording, layout, logging, summaries and artifacts; the Trivy
scan of the repository (it reads `trivy.yaml`, which is checked to be fresh); SPDX parsing;
title and purl regular expressions beyond "has one or has not"; evidence of records with
several statements; what GitHub's `if: always()` steps do in cancelled jobs; GitHub's own
behaviour beyond labels, issues, comments, alerts per ref and the concurrency queue.
