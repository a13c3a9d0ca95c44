--------------------------- MODULE CompatDriftProofs ---------------------------
(***************************************************************************)
(* Theorems about CompatDrift, for any pin sites, digests and rows, over a *)
(* main whose trees all pass the digest drift guard.                       *)
(***************************************************************************)
EXTENDS CompatDrift, PinSitesProofs

--------------------------------------------------------------------------------
Started == {"deploy", "verticals", "report", "file", "enforce"}

(* What a run has read so far is what its tree says, and what it recorded  *)
(* is what the tier did.                                                   *)
Consistent(job) ==
  /\ job.pc # "none" /\ job.ref = "main" => job.tree \in Agreeing
  /\ job.pc \in Started => job.digest \in job.tree[Registry]
  /\ job.pc \notin Started => job.image = NoDigest
  /\ job.image # NoDigest => job.image \in job.tree[CompatSite]
  /\ job.tier = "0" => job.held
  /\ job.pc \notin {"report", "file", "enforce"} =>
       job.tier = "missing" /\ job.failed = FALSE /\ job.report = "none"
  /\ job.pc = "report" =>
       job.report = "none" /\ (job.tier = "missing" => job.failed = TRUE)
  /\ job.pc = "file" => job.tier = "1" /\ job.report = "none"
  /\ job.pc = "enforce" => (job.report # "none" <=> job.tier = "1")

Run(job) == job \in JobType /\ Consistent(job)

CompatInv ==
  /\ main \in Agreeing
  /\ verified \in [Rows -> Digests]
  /\ regressed \subseteq Digests
  /\ issues \in Nat
  /\ colour \in {"none", "green", "red"}
  /\ running \in [Groups -> JobType]
  /\ pending \in [Groups -> JobType]
  /\ \A g \in Groups :
       /\ Consistent(running[g])
       /\ Consistent(pending[g]) /\ pending[g].pc \in {"none", "worklist"}
       /\ running[g].pc = "file" /\ ~running[g].found => issues = 0
  /\ OneDriftIssue

LEMMA OneGroup == Groups = {Workflow} /\ \A ref : group(ref) = Workflow
BY DEF Groups, group, Refs

LEMMA NoJobRun == Run(NoJob)
BY DEF Run, Consistent, NoJob, JobType, Refs, Trees, Blank, Content, Started

LEMMA NewJobRun ==
  ASSUME CompatInv, NEW ref \in Refs, NEW tree \in Trees, NEW all \in BOOLEAN,
         ref = "main" => tree \in Agreeing
  PROVE  Run(Job(ref, tree, all)) /\ Job(ref, tree, all).pc = "worklist"
BY DEF Run, Consistent, Job, JobType, CompatInv, Started

(* The runs of a state are in order after a new one was triggered.         *)
LEMMA Triggered ==
  ASSUME CompatInv, NEW job, Run(job), job.pc = "worklist", Trigger(job)
  PROVE  /\ running' \in [Groups -> JobType] /\ pending' \in [Groups -> JobType]
         /\ \A g \in Groups :
              /\ Consistent(running'[g])
              /\ Consistent(pending'[g]) /\ pending'[g].pc \in {"none", "worklist"}
              /\ running'[g].pc = "file" =>
                   running'[g] = running[g]
BY OneGroup DEF CompatInv, Trigger, Run

(* ... or after the run in progress took a step.                           *)
LEMMA Stepped ==
  ASSUME CompatInv, NEW g \in Groups, NEW job, Run(job),
         running' = [running EXCEPT ![g] = job], UNCHANGED pending
  PROVE  /\ running' \in [Groups -> JobType] /\ pending' \in [Groups -> JobType]
         /\ \A h \in Groups :
              /\ Consistent(running'[h])
              /\ Consistent(pending'[h]) /\ pending'[h].pc \in {"none", "worklist"}
         /\ running'[g] = job /\ \A h \in Groups : h = g
BY OneGroup DEF CompatInv, Run

LEMMA CompatInit == Init => CompatInv
<1> SUFFICES ASSUME Init PROVE CompatInv OBVIOUS
<1>1. main \in Agreeing BY DEF Init
<1>2. running \in [Groups -> JobType] /\ pending \in [Groups -> JobType]
  BY NoJobRun DEF Init, Run
<1>3. \A g \in Groups : running[g] = NoJob /\ pending[g] = NoJob BY DEF Init
<1>4. NoJob.pc = "none" BY DEF NoJob
<1> QED BY <1>1, <1>2, <1>3, <1>4, NoJobRun DEF Init, CompatInv, OneDriftIssue, Run

(* Steps that only trigger a run.                                          *)
LEMMA TriggersKeep ==
  ASSUME CompatInv, Land \/ PushBranch \/ Schedule \/ Dispatch
  PROVE  CompatInv'
<1> USE DEF Refs
<1>1. main \in Agreeing /\ main \in Trees BY DEF CompatInv, Agreeing
<1>2. \A event, input : reverifyAll(event, input) \in BOOLEAN
  BY DEF reverifyAll
<1>3. CASE Land
  <2>1. main' \in Agreeing /\ main' \in Trees BY <1>3 DEF Land, Agreeing
  <2>2. CASE UNCHANGED <<running, pending>>
    BY <1>3, <2>1, <2>2 DEF Land, CompatInv, OneDriftIssue
  <2>3. CASE Trigger(Job("main", main', reverifyAll("push", FALSE)))
    <3>1. Run(Job("main", main', reverifyAll("push", FALSE)))
          /\ Job("main", main', reverifyAll("push", FALSE)).pc = "worklist"
      BY <1>2, <2>1, NewJobRun
    <3> QED BY <1>3, <2>1, <2>3, <3>1, Triggered
        DEF Land, CompatInv, OneDriftIssue
  <2> QED BY <1>3, <2>2, <2>3 DEF Land
<1>4. CASE PushBranch
  <2>1. PICK tree \in BranchTrees :
          Trigger(Job("branch", tree, reverifyAll("push", FALSE)))
    BY <1>4 DEF PushBranch
  <2>2. Run(Job("branch", tree, reverifyAll("push", FALSE)))
        /\ Job("branch", tree, reverifyAll("push", FALSE)).pc = "worklist"
    BY <1>2, NewJobRun, CompatAssumption DEF CompatAssumption
  <2> QED BY <1>4, <2>1, <2>2, Triggered DEF PushBranch, CompatInv, OneDriftIssue
<1>5. CASE Schedule
  <2>1. Run(Job("main", main, reverifyAll("schedule", FALSE)))
        /\ Job("main", main, reverifyAll("schedule", FALSE)).pc = "worklist"
    BY <1>1, <1>2, NewJobRun
  <2> QED BY <1>5, <2>1, Triggered DEF Schedule, CompatInv, OneDriftIssue
<1>6. CASE Dispatch
  <2>1. PICK input \in BOOLEAN :
          Trigger(Job("main", main, reverifyAll("dispatch", input)))
    BY <1>6 DEF Dispatch
  <2>2. Run(Job("main", main, reverifyAll("dispatch", input)))
        /\ Job("main", main, reverifyAll("dispatch", input)).pc = "worklist"
    BY <1>1, <1>2, NewJobRun
  <2> QED BY <1>6, <2>1, <2>2, Triggered DEF Dispatch, CompatInv, OneDriftIssue
<1> QED BY <1>3, <1>4, <1>5, <1>6

LEMMA StartKeeps ==
  ASSUME CompatInv, NEW g \in Groups, StartPending(g)
  PROVE  CompatInv'
BY NoJobRun, OneGroup
DEF CompatInv, StartPending, OneDriftIssue, Run, NoJob

(* The steps of a run.                                                     *)
LEMMA RunStepKeeps ==
  ASSUME CompatInv, NEW g \in Groups, RunStep(g)
  PROVE  CompatInv'
<1> DEFINE job == running[g]
<1>0. /\ job \in JobType /\ Consistent(job) /\ job.tree \in Trees
      /\ CompatSite \in Sites /\ Registry \in Sites
  BY RegistryIsASite, CompatAssumption
  DEF CompatInv, JobType, CompatAssumption
<1> HIDE DEF job
<1>1. CASE ComputeWorkList(g)
  <2>1. CASE End(g, "red") \/ End(g, "green")
    <3>1. UNCHANGED <<main, verified, regressed, pending, issues>>
      BY <1>1 DEF ComputeWorkList
    <3>2. running' = [running EXCEPT ![g] = NoJob] /\ colour' \in {"red", "green"}
      BY <2>1 DEF End
    <3>3. NoJob.pc = "none" BY DEF NoJob
    <3> QED BY <3>1, <3>2, <3>3, NoJobRun, Stepped DEF CompatInv, OneDriftIssue
  <2>2. ASSUME NEW digest \in job.tree[Registry],
               Go(g, [job EXCEPT !.pc = "deploy", !.digest = digest]),
               job.pc = "worklist"
        PROVE  CompatInv'
    <3> DEFINE new == [job EXCEPT !.pc = "deploy", !.digest = digest]
    <3>1. digest \in Digests BY <1>0 DEF Trees, Content
    <3>2. new \in JobType BY <1>0, <3>1 DEF JobType
    <3>3. Consistent(new) BY <1>0, <2>2 DEF Consistent, JobType, Started
    <3>4. new.pc = "deploy" BY <1>0 DEF JobType
    <3>5. Run(new) /\ running' = [running EXCEPT ![g] = new] /\ UNCHANGED colour
      BY <2>2, <3>2, <3>3 DEF Run, Go
    <3> HIDE DEF new
    <3> QED BY <1>1, <3>4, <3>5, Stepped
        DEF ComputeWorkList, CompatInv, OneDriftIssue
  <2> QED BY <1>1, <2>1, <2>2 DEF ComputeWorkList, job
<1>2. CASE Deploy(g)
  <2>1. PICK image \in job.tree[CompatSite] :
          Go(g, [job EXCEPT !.pc = "verticals", !.image = image])
    BY <1>2 DEF Deploy, job
  <2> DEFINE new == [job EXCEPT !.pc = "verticals", !.image = image]
  <2>2. image \in Digests /\ job.pc = "deploy"
    BY <1>2, <1>0, <2>1 DEF Trees, Content, Deploy, job
  <2>3. new \in JobType BY <1>0, <2>2 DEF JobType
  <2>4. Consistent(new) BY <1>0, <2>1, <2>2 DEF Consistent, JobType, Started
  <2>5. new.pc = "verticals" BY <1>0 DEF JobType
  <2>6. Run(new) /\ running' = [running EXCEPT ![g] = new] /\ UNCHANGED colour
    BY <2>1, <2>3, <2>4 DEF Run, Go
  <2> HIDE DEF new
  <2> QED BY <1>2, <2>5, <2>6, Stepped DEF Deploy, CompatInv, OneDriftIssue
<1>3. CASE Verticals(g)
  <2> DEFINE result == IF job.image \in regressed THEN "1" ELSE "0"
             new == [job EXCEPT !.pc = "report", !.held = job.image \notin regressed,
                                !.tier = result]
  <2>1. job.pc = "verticals" BY <1>3 DEF Verticals, job
  <2>2. new \in JobType BY <1>0 DEF JobType
  <2>3. Consistent(new) BY <1>0, <2>1 DEF Consistent, JobType, Started
  <2>4. new.pc = "report" BY <1>0 DEF JobType
  <2>5. Run(new) /\ running' = [running EXCEPT ![g] = new] /\ UNCHANGED colour
    BY <1>3, <2>2, <2>3 DEF Run, Go, Verticals, job
  <2> HIDE DEF new
  <2> QED BY <1>3, <2>4, <2>5, Stepped DEF Verticals, CompatInv, OneDriftIssue
<1>4. CASE CutShort(g)
  <2> DEFINE new == [job EXCEPT !.pc = "report", !.failed = TRUE]
  <2>1. job.pc \in {"deploy", "verticals"} BY <1>4 DEF CutShort, job
  <2>2. new \in JobType BY <1>0 DEF JobType
  <2>3. Consistent(new) BY <1>0, <2>1 DEF Consistent, JobType, Started
  <2>4. new.pc = "report" BY <1>0 DEF JobType
  <2>5. Run(new) /\ running' = [running EXCEPT ![g] = new] /\ UNCHANGED colour
    BY <1>4, <2>2, <2>3 DEF Run, Go, CutShort, job
  <2> HIDE DEF new
  <2> QED BY <1>4, <2>4, <2>5, Stepped DEF CutShort, CompatInv, OneDriftIssue
<1>5. CASE Report(g)
  <2> DEFINE quiet == [job EXCEPT !.pc = "enforce"]
             loud == [job EXCEPT !.pc = "file", !.found = issues > 0]
  <2>1. job.pc = "report" BY <1>5 DEF Report, job
  <2>2. ASSUME job.tier # "1" PROVE Run(quiet) /\ quiet.pc = "enforce"
    BY <1>0, <2>1, <2>2 DEF Run, Consistent, JobType, Started
  <2>3. ASSUME job.tier = "1" PROVE Run(loud) /\ (~loud.found => issues = 0)
    <3>1. issues \in Nat /\ (issues > 0) \in BOOLEAN BY DEF CompatInv
    <3>2. loud \in JobType BY <1>0, <3>1 DEF JobType
    <3>3. /\ loud.pc = "file" /\ loud.tier = job.tier /\ loud.failed = job.failed
          /\ loud.report = job.report /\ loud.held = job.held
          /\ loud.ref = job.ref /\ loud.tree = job.tree
          /\ loud.digest = job.digest /\ loud.image = job.image
          /\ loud.found = (issues > 0)
      BY <1>0 DEF JobType
    <3>4. Consistent(loud)
      <4> HIDE DEF loud
      <4> QED BY <1>0, <2>1, <2>3, <3>3 DEF Consistent, Started
    <3>5. CASE issues > 0
      <4>1. (issues > 0) = TRUE BY <3>5
      <4>2. loud.found = TRUE BY <3>3, <4>1, Zenon
      <4> QED BY <3>2, <3>4, <4>2, Zenon DEF Run
    <3>6. CASE ~(issues > 0)
      <4>1. issues = 0 BY <3>1, <3>6
      <4> QED BY <3>2, <3>4, <4>1, Zenon DEF Run
    <3> QED BY <3>5, <3>6
  <2>4. \/ job.tier # "1" /\ running' = [running EXCEPT ![g] = quiet]
        \/ job.tier = "1" /\ running' = [running EXCEPT ![g] = loud]
    BY <1>0, <1>5 DEF Report, Go, job, JobType
  <2>5. UNCHANGED <<main, verified, regressed, pending, issues, colour>>
    BY <1>5 DEF Report, Go
  <2>6. CASE job.tier # "1" /\ running' = [running EXCEPT ![g] = quiet]
    <3> HIDE DEF quiet, loud
    <3> QED BY <2>2, <2>5, <2>6, Stepped DEF CompatInv, OneDriftIssue
  <2>7. CASE job.tier = "1" /\ running' = [running EXCEPT ![g] = loud]
    <3> HIDE DEF quiet, loud
    <3> QED BY <2>3, <2>5, <2>7, Stepped DEF CompatInv, OneDriftIssue
  <2> QED BY <2>4, <2>6, <2>7
<1>6. CASE File(g)
  <2> DEFINE new == [job EXCEPT !.pc = "enforce", !.report = "filed"]
  <2>1. job.pc = "file" BY <1>6 DEF File, job
  <2>2. Run(new) /\ new.pc = "enforce"
    BY <1>0, <2>1 DEF Run, Consistent, JobType, Started
  <2>3. running' = [running EXCEPT ![g] = new]
    BY <1>6 DEF File, Go, job
  <2>4. UNCHANGED <<main, verified, regressed, pending, colour>>
    BY <1>6 DEF File, Go
  <2>5. issues' = IF job.found THEN issues ELSE issues + 1 BY <1>6 DEF File, job
  <2>6. issues' \in Nat /\ issues' <= 1
    BY <1>0, <2>1, <2>5 DEF CompatInv, OneDriftIssue, job, JobType
  <2> HIDE DEF new
  <2> QED BY <2>2, <2>3, <2>4, <2>6, Stepped DEF CompatInv, OneDriftIssue
<1>7. CASE ReportFails(g)
  <2> DEFINE new == [job EXCEPT !.pc = "enforce", !.failed = TRUE,
                                !.report = "failed"]
  <2>1. job.pc \in {"report", "file"} /\ job.tier = "1"
    BY <1>7 DEF ReportFails, job
  <2>2. Run(new) /\ new.pc = "enforce"
    BY <1>0, <2>1 DEF Run, Consistent, JobType, Started
  <2>3. /\ running' = [running EXCEPT ![g] = new]
        /\ UNCHANGED <<main, verified, regressed, pending, colour>>
    BY <1>7 DEF ReportFails, Go, job
  <2>4. \/ UNCHANGED issues
        \/ job.pc = "file" /\ ~job.found /\ issues' = issues + 1
    BY <1>7 DEF ReportFails, job
  <2>5. issues' \in Nat /\ issues' <= 1
    BY <2>4 DEF CompatInv, OneDriftIssue, job
  <2> HIDE DEF new
  <2> QED BY <2>2, <2>3, <2>5, Stepped DEF CompatInv, OneDriftIssue
<1>8. CASE Enforce(g)
  BY <1>8, NoJobRun, Stepped
  DEF Enforce, End, CompatInv, OneDriftIssue, NoJob
<1>9. CASE EvidenceFails(g)
  <2> DEFINE new == [job EXCEPT !.failed = TRUE]
  <2>1. job.pc = "report" BY <1>9 DEF EvidenceFails, job
  <2>2. Run(new) /\ new.pc = "report"
    BY <1>0, <2>1 DEF Run, Consistent, JobType, Started
  <2>3. running' = [running EXCEPT ![g] = new] /\ UNCHANGED colour
    BY <1>9 DEF EvidenceFails, Go, job
  <2> HIDE DEF new
  <2> QED BY <1>9, <2>2, <2>3, Stepped DEF EvidenceFails, CompatInv, OneDriftIssue
<1> QED BY <1>1, <1>2, <1>3, <1>4, <1>5, <1>6, <1>7, <1>8, <1>9 DEF RunStep

LEMMA CompatInvariant == Spec => []CompatInv
<1>1. CompatInv /\ [Next]_vars => CompatInv'
  <2> SUFFICES ASSUME CompatInv, [Next]_vars PROVE CompatInv' OBVIOUS
  <2>1. CASE RecordVerdict
    <3>1. verified' \in [Rows -> Digests]
      <4>1. PICK r \in Rows, digest \in main[Registry] :
              verified' = [verified EXCEPT ![r] = digest]
        BY <2>1 DEF RecordVerdict
      <4>2. digest \in Digests
        BY RegistryIsASite DEF CompatInv, Agreeing, Trees, Content
      <4> QED BY <4>1, <4>2 DEF CompatInv
    <3> QED BY <2>1, <3>1 DEF RecordVerdict, CompatInv, OneDriftIssue
  <2>2. CASE CloseIssue
    BY <2>2 DEF CloseIssue, CompatInv, OneDriftIssue
  <2>3. CASE Behave
    BY <2>3 DEF Behave, CompatInv, OneDriftIssue
  <2>4. CASE UNCHANGED vars
    BY <2>4 DEF vars, CompatInv, OneDriftIssue
  <2> QED BY <2>1, <2>2, <2>3, <2>4, TriggersKeep, StartKeeps, RunStepKeeps DEF Next
<1> QED BY <1>1, CompatInit, PTL DEF Spec

--------------------------------------------------------------------------------
(* The state of the compatibility workflow is always well-typed.           *)
THEOREM CompatTypeCorrect == Spec => []TypeOK
<1>1. CompatInv => TypeOK
  <2> SUFFICES ASSUME CompatInv PROVE TypeOK OBVIOUS
  <2>1. ASSUME NEW g \in Groups, running[g].pc \notin {"none", "worklist"}
        PROVE  running[g].digest \in Digests
    <3>1. running[g] \in JobType /\ Consistent(running[g]) BY DEF CompatInv
    <3>2. running[g].pc \in Started BY <2>1, <3>1 DEF JobType, Started
    <3>3. running[g].tree[Registry] \subseteq Digests
      BY <3>1, RegistryIsASite DEF JobType, Trees, Content
    <3> QED BY <3>1, <3>2, <3>3 DEF Consistent
  <2> QED BY <2>1 DEF CompatInv, TypeOK, Agreeing
<1> QED BY <1>1, CompatInvariant, PTL

(* A run of main tests the image it reports on, whatever is half-bumped on *)
(* other branches, and for any number of pin sites.                        *)
THEOREM MainTestsItsPin == Spec => []JudgedIsPinned
<1>1. CompatInv => JudgedIsPinned
  <2> SUFFICES ASSUME CompatInv, NEW g \in Groups, running[g].ref = "main",
                      running[g].image # NoDigest
               PROVE  running[g].image = running[g].digest
    BY DEF JudgedIsPinned
  <2>1. running[g] \in JobType /\ Consistent(running[g]) BY DEF CompatInv
  <2>2. running[g].pc \in Started BY <2>1 DEF Consistent
  <2>3. running[g].tree \in Agreeing BY <2>1, <2>2 DEF Consistent, Started
  <2>4. running[g].image \in running[g].tree[Registry]
    BY <2>1, <2>3, AgreeingTrees, CompatAssumption DEF Consistent, CompatAssumption
  <2>5. running[g].digest \in running[g].tree[Registry]
    BY <2>1, <2>2 DEF Consistent
  <2> QED BY <2>3, <2>4, <2>5, AgreeingTrees
<1> QED BY <1>1, CompatInvariant, PTL

(* Serialised runs never open a second drift issue.                        *)
THEOREM DriftIsFiledOnce == Spec => []OneDriftIssue
<1>1. CompatInv => OneDriftIssue BY DEF CompatInv
<1> QED BY <1>1, CompatInvariant, PTL

(* A green run found its rows recorded, or its image good.                 *)
THEOREM GreenIsEarned == Spec => GreenMeansHeld
<1>1. CompatInv /\ [Next]_vars =>
        \A g \in Groups :
          running[g].pc # "none" /\ running'[g].pc = "none" /\ colour' = "green"
            => \/ running[g].held
               \/ /\ ~running[g].all
                  /\ \A r \in Rows : running[g].rows[r] \in
                                       running[g].tree[Registry]
  <2> SUFFICES ASSUME CompatInv, [Next]_vars, NEW g \in Groups,
                      running[g].pc # "none", running'[g].pc = "none",
                      colour' = "green", ~running[g].held
               PROVE  /\ ~running[g].all
                      /\ \A r \in Rows : running[g].rows[r] \in
                                           running[g].tree[Registry]
    OBVIOUS
  <2>1. /\ running \in [Groups -> JobType] /\ running[g] \in JobType
        /\ Consistent(running[g])
    BY DEF CompatInv
  <2>2. ComputeWorkList(g) \/ Enforce(g)
    <3>1. CASE Land \/ PushBranch \/ Schedule \/ Dispatch
      BY <3>1, <2>1, OneGroup
      DEF Land, PushBranch, Schedule, Dispatch, Trigger
    <3>2. CASE RecordVerdict \/ CloseIssue \/ Behave \/ UNCHANGED vars
      BY <3>2 DEF RecordVerdict, CloseIssue, Behave, vars
    <3>3. ASSUME NEW h \in Groups, StartPending(h) \/ RunStep(h)
          PROVE  ComputeWorkList(g) \/ Enforce(g)
      <4>1. h = g BY OneGroup
      <4>2. ~StartPending(g) BY DEF StartPending
      <4>3. ~Deploy(g)
        BY <2>1 DEF Deploy, Go, JobType
      <4>4. ~Verticals(g)
        <5> DEFINE new == [running[g] EXCEPT !.pc = "report",
                             !.held = running[g].image \notin regressed,
                             !.tier = IF running[g].image \in regressed
                                        THEN "1" ELSE "0"]
        <5>1. new.pc = "report" BY <2>1 DEF JobType
        <5>2. Verticals(g) => running'[g] = new BY <2>1 DEF Verticals, Go
        <5> HIDE DEF new
        <5> QED BY <5>1, <5>2
      <4>5. ~CutShort(g) BY <2>1 DEF CutShort, Go, JobType
      <4>6. ~File(g)
        <5> DEFINE new == [running[g] EXCEPT !.pc = "enforce", !.report = "filed"]
        <5>1. new.pc = "enforce" BY <2>1 DEF JobType
        <5>2. File(g) => running'[g] = new BY <2>1 DEF File, Go
        <5> HIDE DEF new
        <5> QED BY <5>1, <5>2
      <4>7. ~ReportFails(g)
        <5> DEFINE new == [running[g] EXCEPT !.pc = "enforce", !.failed = TRUE,
                                             !.report = "failed"]
        <5>1. new.pc = "enforce" BY <2>1 DEF JobType
        <5>2. ReportFails(g) => running'[g] = new BY <2>1 DEF ReportFails, Go
        <5> HIDE DEF new
        <5> QED BY <5>1, <5>2
      <4>9. ~EvidenceFails(g)
        <5> DEFINE new == [running[g] EXCEPT !.failed = TRUE]
        <5>1. EvidenceFails(g) => new.pc = "report" /\ running'[g] = new
          BY <2>1 DEF EvidenceFails, Go, JobType
        <5> HIDE DEF new
        <5> QED BY <5>1
      <4>8. ~Report(g)
        <5> DEFINE quiet == [running[g] EXCEPT !.pc = "enforce"]
                   loud == [running[g] EXCEPT !.pc = "file", !.found = issues > 0]
        <5>1. quiet.pc = "enforce" /\ loud.pc = "file" BY <2>1 DEF JobType
        <5>2. Report(g) => running'[g] = quiet \/ running'[g] = loud
          BY <2>1 DEF Report, Go
        <5> HIDE DEF quiet, loud
        <5> QED BY <5>1, <5>2
      <4> QED BY <3>3, <4>1, <4>2, <4>3, <4>4, <4>5, <4>6, <4>7, <4>8,
             <4>9 DEF RunStep
    <3> QED BY <3>1, <3>2, <3>3 DEF Next
  <2>3. CASE ComputeWorkList(g)
    <3>1. PICK digest \in running[g].tree[Registry] :
            workList(running[g], digest) = {}
      BY <2>3, <2>1 DEF ComputeWorkList, End, Go, JobType
    <3> QED BY <3>1, CompatAssumption DEF workList, CompatAssumption
  <2>4. CASE Enforce(g)
    <3>1. running[g].tier = "0"
      BY <2>4, <2>1 DEF Enforce, End, JobType
    <3> QED BY <3>1, <2>1 DEF Consistent
  <2> QED BY <2>2, <2>3, <2>4
<1> QED BY <1>1, CompatInvariant, PTL DEF Spec, GreenMeansHeld

(* What is reported is what the tier found, for any rows, pins and         *)
(* triggers: nothing for a run cut short before it, nothing for a run red  *)
(* for its evidence, and nothing withheld.                                 *)
THEOREM FilingIsPrecise == Spec => []DriftIsWhatIsFiled
<1>1. CompatInv => DriftIsWhatIsFiled
  BY DEF CompatInv, Consistent, DriftIsWhatIsFiled
<1> QED BY <1>1, CompatInvariant, PTL

================================================================================
