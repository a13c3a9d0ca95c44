------------------------------ MODULE CompatDrift ------------------------------
(***************************************************************************)
(* The compatibility workflow (.github/workflows/ministack-compat.yml):    *)
(* runs triggered by pushes, the weekly schedule and people take a         *)
(* checked-out tree, verify the rows of the catalogue that are stale       *)
(* against the image the workflow file pins, report drift in one issue of  *)
(* the repository, and pass or fail.                                       *)
(*                                                                         *)
(* main only takes trees the digest drift guard of ci.yml passes.  That is *)
(* practice and not enforced: the guard is not among the contexts the      *)
(* ruleset of main requires (docs/SECURITY-TOOLING.md), a red one is just  *)
(* not merged over.  JudgedIsPinned rests on it.                           *)
(*                                                                         *)
(* A row is stale when its lastVerifiedDigest is not the registry's.       *)
(* Runs take a tree as it was when they were triggered, and any step of a  *)
(* run may be the last that works: a container that is not healthy, a      *)
(* deploy that fails, a timeout, an API that does not answer.              *)
(***************************************************************************)
EXTENDS PinSites

CONSTANTS
  Rows,         \* of services/_registry/provisioning.json
  CompatSite,   \* ministack-compat.yml among the pin sites
  TriggerSites, \* the pin sites whose push starts a run
  BranchTrees   \* the trees people push to other branches

CompatAssumption ==
  /\ PinSitesAssumption
  /\ Rows # {}
  /\ CompatSite \in Sites
  /\ TriggerSites \subseteq Sites
  /\ BranchTrees \subseteq Trees

ASSUME CompatAssumption

Refs == {"main", "branch"}

Workflow == "ministack compat"

(* One group per branch, as other workflows have.                          *)
MutGroup(ref) == ref

(* All runs are serialised.                                                *)
group(ref) == Workflow

Groups == {group(ref) : ref \in Refs}

VARIABLES
  main,      \* the tree of main
  verified,  \* lastVerifiedDigest of each row
  regressed, \* the images on which the integration tier fails now
  running,   \* the run in progress of each concurrency group
  pending,   \* the run that waits for it
  issues,    \* open issues with the drift marker
  colour     \* of the last run that ended

vars == <<main, verified, regressed, running, pending, issues, colour>>

(* A run before anything is read.  held is not a file of the run: whether  *)
(* its image was good when the tier ran.                                   *)
Job(ref, tree, all) ==
  [pc |-> "worklist", ref |-> ref, tree |-> tree, all |-> all,
   rows |-> verified, digest |-> NoDigest, image |-> NoDigest,
   tier |-> "missing", held |-> FALSE, failed |-> FALSE, found |-> FALSE, report |-> "none"]

NoJob ==
  [pc |-> "none", ref |-> "main", tree |-> Blank, all |-> FALSE,
   rows |-> [r \in Rows |-> NoDigest], digest |-> NoDigest, image |-> NoDigest,
   tier |-> "missing", held |-> FALSE, failed |-> FALSE, found |-> FALSE, report |-> "none"]

--------------------------------------------------------------------------------
(* The default on the schedule is taken for `false`.                       *)
MutReverifyAll(event, input) == event = "dispatch" /\ input

(* ... which the input of a dispatch overrides and a push ignores.         *)
reverifyAll(event, input) ==
  \/ event = "schedule"
  \/ event = "dispatch" /\ input

(* The rows to verify.                                                     *)
workList(job, digest) ==
  {r \in Rows : job.all \/ job.rows[r] # digest}

(* A triggered run takes the place of the one that waits.                  *)
Trigger(job) ==
  LET g == group(job.ref)
  IN IF running[g].pc = "none" /\ pending[g].pc = "none"
       THEN running' = [running EXCEPT ![g] = job] /\ UNCHANGED pending
       ELSE pending' = [pending EXCEPT ![g] = job] /\ UNCHANGED running

--------------------------------------------------------------------------------
Init ==
  /\ main \in Agreeing
  /\ main[CompatSite] # {}
  /\ verified \in [Rows -> Digests]
  /\ regressed = {}
  /\ running = [g \in Groups |-> NoJob]
  /\ pending = [g \in Groups |-> NoJob]
  /\ issues = 0
  /\ colour = "none"

(* A merge to main, which is a push.  A workflow file without its pin is   *)
(* no workflow.                                                            *)
Land ==
  /\ main' \in Agreeing \ {main}
  /\ IF main'[CompatSite] # {} /\ \E s \in TriggerSites : main'[s] # main[s]
       THEN Trigger(Job("main", main', reverifyAll("push", FALSE)))
       ELSE UNCHANGED <<running, pending>>
  /\ UNCHANGED <<verified, regressed, issues, colour>>

PushBranch ==
  /\ \E tree \in BranchTrees :
       /\ tree[CompatSite] # {}
       /\ Trigger(Job("branch", tree, reverifyAll("push", FALSE)))
  /\ UNCHANGED <<main, verified, regressed, issues, colour>>

Schedule ==
  /\ main[CompatSite] # {}
  /\ Trigger(Job("main", main, reverifyAll("schedule", FALSE)))
  /\ UNCHANGED <<main, verified, regressed, issues, colour>>

Dispatch ==
  /\ main[CompatSite] # {}
  /\ \E input \in BOOLEAN :
       Trigger(Job("main", main, reverifyAll("dispatch", input)))
  /\ UNCHANGED <<main, verified, regressed, issues, colour>>

StartPending(g) ==
  /\ running[g].pc = "none" /\ pending[g].pc # "none"
  /\ running' = [running EXCEPT ![g] = pending[g]]
  /\ pending' = [pending EXCEPT ![g] = NoJob]
  /\ UNCHANGED <<main, verified, regressed, issues, colour>>

(* The run that waits, or the one in progress, is over: nothing is left of *)
(* its files.                                                              *)
End(g, verdict) ==
  /\ running' = [running EXCEPT ![g] = NoJob]
  /\ colour' = verdict

(* A step is taken and leads to pc, with other fields of the run changed.  *)
Go(g, job) ==
  /\ running' = [running EXCEPT ![g] = job]
  /\ UNCHANGED colour

--------------------------------------------------------------------------------
(* The steps of a run.                                                     *)

(* An empty digest is not an error.                                        *)
MutComputeWorkList(g) ==
  LET job == running[g] IN
  /\ job.pc = "worklist"
  /\ \E digest \in job.tree[Registry] \cup {NoDigest} :
       IF workList(job, digest) = {}
         THEN End(g, "green")
         ELSE Go(g, [job EXCEPT !.pc = "deploy", !.digest = digest])
  /\ UNCHANGED <<main, verified, regressed, pending, issues>>

(* No digest in the registry file, nothing to verify, or a work-list.      *)
ComputeWorkList(g) ==
  LET job == running[g] IN
  /\ job.pc = "worklist"
  /\ \/ /\ job.tree[Registry] = {}
        /\ End(g, "red")
     \/ \E digest \in job.tree[Registry] :
          IF workList(job, digest) = {}
            THEN End(g, "green")
            ELSE Go(g, [job EXCEPT !.pc = "deploy", !.digest = digest])
  /\ UNCHANGED <<main, verified, regressed, pending, issues>>

(* Start the image this file pins, wait for it, build, bootstrap, deploy.  *)
Deploy(g) ==
  LET job == running[g] IN
  /\ job.pc = "deploy"
  /\ \E image \in job.tree[CompatSite] :
       Go(g, [job EXCEPT !.pc = "verticals", !.image = image])
  /\ UNCHANGED <<main, verified, regressed, pending, issues>>

(* What is recorded is the exit code of a pipe.                            *)
MutVerticals(g) ==
  LET job == running[g] IN
  /\ job.pc = "verticals"
  /\ Go(g, [job EXCEPT !.pc = "report", !.held = job.image \notin regressed,
              !.tier = "0"])
  /\ UNCHANGED <<main, verified, regressed, pending, issues>>

(* The step passes whatever the tier says, and records it.                 *)
Verticals(g) ==
  LET job == running[g] IN
  /\ job.pc = "verticals"
  /\ Go(g, [job EXCEPT !.pc = "report", !.held = job.image \notin regressed,
              !.tier = IF job.image \in regressed THEN "1" ELSE "0"])
  /\ UNCHANGED <<main, verified, regressed, pending, issues>>

(* A step up to the tier fails, or the job's time is over.                 *)
CutShort(g) ==
  LET job == running[g] IN
  /\ job.pc \in {"deploy", "verticals"}
  /\ Go(g, [job EXCEPT !.pc = "report", !.failed = TRUE])
  /\ UNCHANGED <<main, verified, regressed, pending, issues>>

(* The summary is not written or the evidence not uploaded: the run will   *)
(* be red whatever the tier said, and goes on.                             *)
EvidenceFails(g) ==
  LET job == running[g] IN
  /\ job.pc = "report" /\ ~job.failed
  /\ Go(g, [job EXCEPT !.failed = TRUE])
  /\ UNCHANGED <<main, verified, regressed, pending, issues>>

(* No recorded result counts as drift.                                     *)
MutReport(g) ==
  LET job == running[g] IN
  /\ job.pc = "report"
  /\ Go(g, IF job.tier = "0"
             THEN [job EXCEPT !.pc = "enforce"]
             ELSE [job EXCEPT !.pc = "file", !.found = issues > 0])
  /\ UNCHANGED <<main, verified, regressed, pending, issues>>

(* No recorded result counts as no drift here ...                          *)
Report(g) ==
  LET job == running[g]
      rc  == IF job.tier = "missing" THEN "0" ELSE job.tier
  IN
  /\ job.pc = "report"
  /\ Go(g, IF rc = "0"
             THEN [job EXCEPT !.pc = "enforce"]
             ELSE [job EXCEPT !.pc = "file", !.found = issues > 0])
  /\ UNCHANGED <<main, verified, regressed, pending, issues>>

(* A comment on the issue that was found, or a new one.                    *)
File(g) ==
  LET job == running[g] IN
  /\ job.pc = "file"
  /\ issues' = IF job.found THEN issues ELSE issues + 1
  /\ Go(g, [job EXCEPT !.pc = "enforce", !.report = "filed"])
  /\ UNCHANGED <<main, verified, regressed, pending>>

(* The reporting step fails: in its search, or with the issue commented on *)
(* or created all the same.                                                *)
ReportFails(g) ==
  LET job == running[g] IN
  /\ job.pc \in {"report", "file"} /\ job.tier = "1"
  /\ \/ UNCHANGED issues
     \/ job.pc = "file" /\ ~job.found /\ issues' = issues + 1
  /\ Go(g, [job EXCEPT !.pc = "enforce", !.failed = TRUE, !.report = "failed"])
  /\ UNCHANGED <<main, verified, regressed, pending>>

(* ... and as a failure here.                                              *)
Enforce(g) ==
  LET job == running[g]
      rc  == IF job.tier = "missing" THEN "1" ELSE job.tier
  IN
  /\ job.pc = "enforce"
  /\ End(g, IF job.failed \/ rc # "0" THEN "red" ELSE "green")
  /\ UNCHANGED <<main, verified, regressed, pending, issues>>

--------------------------------------------------------------------------------
(* People and images.                                                      *)

(* A maintainer's pull request records a verdict; nothing ties it to a run.*)
RecordVerdict ==
  /\ \E r \in Rows, digest \in main[Registry] :
       verified' = [verified EXCEPT ![r] = digest]
  /\ UNCHANGED <<main, regressed, running, pending, issues, colour>>

CloseIssue ==
  /\ issues > 0
  /\ issues' = issues - 1
  /\ UNCHANGED <<main, verified, regressed, running, pending, colour>>

(* The tests, the stack or the runner change under the same digest.        *)
Behave ==
  /\ \E image \in Digests :
       regressed' \in {regressed \cup {image}, regressed \ {image}}
  /\ UNCHANGED <<main, verified, running, pending, issues, colour>>

RunStep(g) ==
  \/ ComputeWorkList(g) \/ Deploy(g) \/ Verticals(g) \/ CutShort(g)
  \/ EvidenceFails(g) \/ Report(g) \/ File(g) \/ ReportFails(g) \/ Enforce(g)

Next ==
  \/ Land \/ PushBranch \/ Schedule \/ Dispatch
  \/ \E g \in Groups : StartPending(g) \/ RunStep(g)
  \/ RecordVerdict \/ CloseIssue \/ Behave

Spec == Init /\ [][Next]_vars

Idle == \A g \in Groups : running[g].pc = "none" /\ pending[g].pc = "none"

(* The schedule keeps coming, runs move on, and a run of main that gets to *)
(* a step again and again is not cut short there each time.                *)
Fairness ==
  /\ SF_vars(Schedule /\ Idle)
  /\ \A g \in Groups :
       /\ WF_vars(StartPending(g))
       /\ WF_vars(RunStep(g))
       /\ SF_vars(running[g].ref = "main" /\ Deploy(g))
       /\ SF_vars(running[g].ref = "main" /\ Verticals(g))
       /\ SF_vars(running[g].ref = "main" /\ running[g].tier = "1" /\ Report(g))
       /\ SF_vars(running[g].ref = "main" /\ File(g))

FairSpec == Spec /\ Fairness

--------------------------------------------------------------------------------
JobType ==
  [pc : {"none", "worklist", "deploy", "verticals", "report", "file", "enforce"},
   ref : Refs, tree : Trees, all : BOOLEAN,
   rows : [Rows -> Digests \cup {NoDigest}],
   digest : Digests \cup {NoDigest}, image : Digests \cup {NoDigest},
   tier : {"missing", "0", "1"}, held : BOOLEAN, failed : BOOLEAN,
   found : BOOLEAN, report : {"none", "filed", "failed"}]

TypeOK ==
  /\ main \in Trees
  /\ verified \in [Rows -> Digests]
  /\ regressed \subseteq Digests
  /\ running \in [Groups -> JobType]
  /\ pending \in [Groups -> JobType]
  /\ \A g \in Groups :
       /\ running[g].pc \notin {"none", "worklist"} => running[g].digest \in Digests
       /\ pending[g].pc \in {"none", "worklist"}
  /\ issues \in Nat
  /\ colour \in {"none", "green", "red"}

(* What a run of main tests is what it reports on: the image of the        *)
(* workflow file is the digest of the registry file (ministack-compat.yml, *)
(* which reads one from each).                                             *)
JudgedIsPinned ==
  \A g \in Groups :
    running[g].ref = "main" /\ running[g].image # NoDigest
      => running[g].image = running[g].digest

(* A run is green only if every row is recorded as verified on its digest, *)
(* or the tier held on its image in this run ("If it FAILS ... that is     *)
(* DRIFT", ministack-compat.yml).                                          *)
GreenMeansHeld ==
  [][ \A g \in Groups :
        running[g].pc # "none" /\ running'[g].pc = "none" /\ colour' = "green"
          => \/ running[g].held
             \/ /\ ~running[g].all
                /\ \A r \in Rows : running[g].rows[r] \in
                                     running[g].tree[Registry] ]_vars

(* Drift has one open issue, however many runs meet it ("marker-idempotent *)
(* issue", ministack-compat.yml).                                          *)
OneDriftIssue == issues <= 1

(* An image of main that keeps failing gets an issue, again and again if   *)
(* it is closed, also when its rows are recorded as verified, as long as   *)
(* the queue of runs is empty now and then.                                *)
DriftGetsIssue ==
  \A digest \in Digests :
    /\ <>[](/\ main[Registry] = {digest} /\ main[CompatSite] # {}
            /\ digest \in regressed)
    /\ []<>Idle
    => []<>(issues > 0)

(* Reporting is undertaken precisely by the runs whose tier ran and        *)
(* failed, one way or the other: not by those cut short on the way to the  *)
(* tier or red for their evidence alone, and by all of the former, also    *)
(* when an earlier step failed (ministack-compat.yml, step "Open or update *)
(* drift issue").                                                          *)
DriftIsWhatIsFiled ==
  \A g \in Groups :
    running[g].pc = "enforce" =>
      (running[g].report # "none" <=> running[g].tier = "1")

(* "the artifact exists and the issue is filed precisely when this job     *)
(* goes red" (ministack-compat.yml): a run about to go red has reported.   *)
RedRunIsReported ==
  \A g \in Groups :
    running[g].pc = "enforce" /\ (running[g].failed \/ running[g].tier # "0")
      => running[g].report = "filed"

================================================================================
