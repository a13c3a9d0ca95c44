-------------------------- MODULE LicenseReviewProofs --------------------------
(***************************************************************************)
(* Theorems about LicenseReview, for any number of packages, pull-request  *)
(* runs and issues, any listing limit and whatever goes wrong.             *)
(***************************************************************************)
EXTENDS LicenseReview, SequenceTheorems, WellFoundedInduction, TLAPS

--------------------------------------------------------------------------------
(* The newest of some issues: what both listings take first.               *)

LEMMA GreatestExists ==
  ASSUME NEW n \in Nat, NEW S, S \subseteq 0..n, S # {}
  PROVE  \E m \in S : \A k \in S : k <= m
<1> DEFINE T == { n - k : k \in S }
           R == OpToRel(<, Nat)
<1>1. T \subseteq Nat /\ T # {}
  <2>1. PICK k \in S : TRUE OBVIOUS
  <2>2. n - k \in T BY <2>1
  <2>3. \A j \in S : j \in 0..n OBVIOUS
  <2>4. \A j \in S : n - j \in Nat BY <2>3
  <2> QED BY <2>2, <2>4
<1>2. IsWellFoundedOn(R, Nat) BY NatLessThanWellFounded
<1>3. PICK t \in T : \A u \in T : <<u, t>> \notin R
  <2> HIDE DEF T, R
  <2> QED BY <1>1, <1>2, WFMin
<1>4. PICK m \in S : t = n - m OBVIOUS
<1>5. ASSUME NEW k \in S PROVE k <= m
  <2>1. n - k \in T OBVIOUS
  <2>2. n - k \in Nat /\ t \in Nat BY <2>1, <1>1
  <2>3. ~ (n - k < t) BY <1>3, <2>1, <2>2 DEF OpToRel
  <2> QED BY <2>3, <1>4
<1> QED BY <1>5

(* The poller's next row is one of its rows.                               *)
LEMMA NextRow ==
  ASSUME TypeOK, poll.rows # {}
  PROVE  row \in poll.rows
<1> DEFINE numbers == { r.number : r \in poll.rows }
<1>1. numbers \subseteq 0..MaxIssues /\ numbers # {}
  BY DEF TypeOK, Row
<1>2. PICK m \in numbers : \A k \in numbers : k <= m
  <2> HIDE DEF numbers
  <2> QED BY <1>1, GreatestExists, LicenseAssumption DEF LicenseAssumption
<1>3. \E r \in poll.rows : \A s \in poll.rows : s.number <= r.number
  BY <1>2
<1> QED BY <1>3 DEF row

(* The triage step finds no issue or one of those that exist.              *)
LEMMA ExistingType ==
  ASSUME TypeOK, NEW package
  PROVE  existing(package) \in 0..MaxIssues
<1> DEFINE same == { n \in listed : issues[n].package = package }
<1>1. CASE same = {}
  BY <1>1, LicenseAssumption DEF existing, LicenseAssumption
<1>2. CASE same # {}
  <2>1. same \subseteq 0..MaxIssues
    BY LicenseAssumption DEF listed, TypeOK, LicenseAssumption
  <2>2. \E n \in same : \A m \in same : m <= n
    <3> HIDE DEF same
    <3> QED BY <1>2, <2>1, GreatestExists, LicenseAssumption DEF LicenseAssumption
  <2>3. newestOf(same) \in same BY <2>2 DEF newestOf
  <2> QED BY <1>2, <2>1, <2>3 DEF existing
<1> QED BY <1>1, <1>2

--------------------------------------------------------------------------------
(* Typing.                                                                 *)

(* A change to one issue, and one more issue, keep the queue typed.        *)
LEMMA QueueType ==
  ASSUME TypeOK
  PROVE  /\ DOMAIN issues \subseteq 1..MaxIssues
         /\ \A n \in DOMAIN issues : issues[n] \in Issue
         /\ \A n \in DOMAIN issues, issue \in Issue :
              /\ [issues EXCEPT ![n] = issue] \in Seq(Issue)
              /\ Len([issues EXCEPT ![n] = issue]) = Len(issues)
              /\ DOMAIN [issues EXCEPT ![n] = issue] = DOMAIN issues
         /\ \A issue \in Issue :
              /\ Append(issues, issue) \in Seq(Issue)
              /\ Len(Append(issues, issue)) = Len(issues) + 1
<1>1. issues \in Seq(Issue) /\ Len(issues) <= MaxIssues /\ Len(issues) \in Nat
  BY LenProperties DEF TypeOK
<1>2. DOMAIN issues = 1..Len(issues) BY <1>1
<1>3. ASSUME NEW n \in DOMAIN issues, NEW issue \in Issue
      PROVE  /\ [issues EXCEPT ![n] = issue] \in Seq(Issue)
             /\ Len([issues EXCEPT ![n] = issue]) = Len(issues)
  BY <1>1, <1>2, ExceptSeq
<1>4. \A issue \in Issue : /\ Append(issues, issue) \in Seq(Issue)
                           /\ Len(Append(issues, issue)) = Len(issues) + 1
  BY <1>1, AppendProperties
<1>5. \A n \in DOMAIN issues : issues[n] \in Issue
  BY <1>1, ElementOfSeq, <1>2
<1>6. DOMAIN issues \subseteq 1..MaxIssues
  BY <1>1, <1>2, LicenseAssumption DEF LicenseAssumption
<1> QED BY <1>3, <1>4, <1>5, <1>6

(* What the poller holds agrees with the issues it will touch: titles and  *)
(* dates do not change, its clock only lags, and what ClearlyDefined       *)
(* declared when it was asked stands.                                      *)
PollAgrees ==
  /\ \A r \in poll.rows : r.number \in DOMAIN issues
                         /\ r.package = issues[r.number].package
                         /\ r.created = issues[r.number].created
  /\ poll.now <= day
  /\ poll.pc = "act" =>
       /\ poll.rows # {}
       /\ row.package \in Packages
       /\ poll.got # "none" => poll.got = declared[row.package]

ReviewInv == TypeOK /\ PollAgrees /\ ClosedMeansAcceptable

(* Going on to the next row, and ending the run.                           *)
LEMMA SkipKeeps ==
  ASSUME TypeOK, PollAgrees, NEW failed \in BOOLEAN,
         Skip(failed) \/ (\E colour \in {"green", "red"} : EndRun(colour)),
         UNCHANGED <<day, declared, job>>,
         issues' \in Seq(Issue), Len(issues') <= MaxIssues,
         DOMAIN issues \subseteq DOMAIN issues',
         \A n \in DOMAIN issues : /\ issues'[n].package = issues[n].package
                                  /\ issues'[n].created = issues[n].created
  PROVE  TypeOK' /\ PollAgrees'
<1>1. CASE Skip(failed)
  <2>1. poll' = [pc |-> "fetch", rows |-> restRows, now |-> poll.now,
                 failed |-> failed, got |-> "none"]
    BY <1>1 DEF Skip, TypeOK
  <2>2. restRows \subseteq poll.rows BY DEF restRows
  <2>3. TypeOK' BY <1>1, <2>1, <2>2 DEF Skip, TypeOK, Verdicts
  <2>4. PollAgrees' BY <2>1, <2>2 DEF PollAgrees
  <2> QED BY <2>3, <2>4
<1>2. CASE \E colour \in {"green", "red"} : EndRun(colour)
  BY <1>2, LicenseAssumption
  DEF EndRun, IdlePoll, TypeOK, PollAgrees, Verdicts, LicenseAssumption
<1> QED BY <1>1, <1>2

(* A handler that leaves the issues alone, or changes the row's issue      *)
(* without its title and closes it only on an acceptable licence.          *)
LEMMA HandlerKeeps ==
  ASSUME ReviewInv, poll.pc = "act", NEW issue \in Issue, NEW failed \in BOOLEAN,
         issues' = issues \/ issues' = [issues EXCEPT ![row.number] = issue],
         issue.package = issues[row.number].package,
         issue.created = issues[row.number].created,
         issue.state = "closed by poller" =>
           \/ issues[row.number].state = "closed by poller"
           \/ poll.got = "acceptable",
         Skip(failed) \/ (\E colour \in {"green", "red"} : EndRun(colour)),
         UNCHANGED <<day, declared, job>>
  PROVE  ReviewInv'
<1>1. row \in poll.rows BY NextRow DEF ReviewInv, PollAgrees
<1>2. /\ row.number \in DOMAIN issues
      /\ row.package = issues[row.number].package
      /\ row.package \in Packages
  BY <1>1 DEF ReviewInv, PollAgrees
<1>3. /\ issues' \in Seq(Issue) /\ Len(issues') <= MaxIssues
      /\ DOMAIN issues' = DOMAIN issues
  <2>1. CASE issues' = issues BY <2>1 DEF ReviewInv, TypeOK
  <2>2. CASE issues' = [issues EXCEPT ![row.number] = issue]
    <3> DEFINE k == row.number
    <3>1. k \in DOMAIN issues /\ issues' = [issues EXCEPT ![k] = issue]
      BY <1>2, <2>2
    <3> HIDE DEF k
    <3> QED BY <3>1, QueueType DEF ReviewInv, TypeOK
  <2> QED BY <2>1, <2>2
<1>4. \A n \in DOMAIN issues : /\ issues'[n].package = issues[n].package
                               /\ issues'[n].created = issues[n].created
  BY <1>2
<1>5. TypeOK' /\ PollAgrees'
  BY <1>3, <1>4, SkipKeeps DEF ReviewInv
<1>6. ClosedMeansAcceptable'
  <2> SUFFICES ASSUME NEW n \in DOMAIN issues, issues'[n].state = "closed by poller"
               PROVE  issues'[n].package \in Packages
                      /\ declared[issues'[n].package] = "acceptable"
    BY <1>3 DEF ClosedMeansAcceptable
  <2>1. CASE issues[n].state = "closed by poller"
    BY <2>1, <1>4 DEF ReviewInv, ClosedMeansAcceptable
  <2>2. CASE issues[n].state # "closed by poller"
    <3>1. n = row.number /\ poll.got = "acceptable" BY <2>2, <1>2
    <3> QED BY <3>1, <1>2, <1>4 DEF ReviewInv, PollAgrees
  <2> QED BY <2>1, <2>2
<1> QED BY <1>5, <1>6 DEF ReviewInv

(* A new open issue, by a pull request's run or by a person.               *)
LEMMA NewIssueKeeps ==
  ASSUME ReviewInv, NEW package \in Packages \cup {NoPackage},
         Len(issues) < MaxIssues,
         issues' = Append(issues, newIssue(package)),
         UNCHANGED <<day, declared, poll, lastRun>>,
         job' \in [Jobs -> [pc : {"idle", "filing"},
                           package : Packages \cup {NoPackage},
                           existing : 0..MaxIssues]]
  PROVE  ReviewInv'
<1>1. newIssue(package) \in Issue
  <2>1. day \in 0..MaxDay /\ MaxDay \in Nat
    BY LicenseAssumption DEF ReviewInv, TypeOK, LicenseAssumption
  <2>2. -1 \in -1..MaxDay BY <2>1
  <2> QED BY <2>1, <2>2 DEF newIssue, Issue
<1>2. /\ issues' \in Seq(Issue) /\ Len(issues') = Len(issues) + 1
      /\ Len(issues) \in Nat
  BY <1>1, QueueType, LenProperties DEF ReviewInv, TypeOK
<1>3. /\ DOMAIN issues = 1..Len(issues)
      /\ DOMAIN issues' = 1..Len(issues) + 1
      /\ \A n \in DOMAIN issues : issues'[n] = issues[n]
      /\ issues'[Len(issues) + 1] = newIssue(package)
  BY <1>1, <1>2, AppendProperties DEF ReviewInv, TypeOK
<1>4. TypeOK'
  BY <1>2, LicenseAssumption DEF ReviewInv, TypeOK, LicenseAssumption
<1>5. PollAgrees'
  BY <1>2, <1>3 DEF ReviewInv, PollAgrees, row
<1>6. ClosedMeansAcceptable'
  <2>1. newIssue(package).state = "open" BY DEF newIssue
  <2>2. \A n \in DOMAIN issues' :
          issues'[n].state = "closed by poller" => n \in DOMAIN issues
    <3>1. issues'[Len(issues) + 1].state = "open" BY <1>3, <2>1
    <3>2. \A n \in DOMAIN issues' : n \in DOMAIN issues \/ n = Len(issues) + 1
      BY <1>2, <1>3
    <3> QED BY <3>1, <3>2
  <2> QED BY <1>3, <2>2 DEF ReviewInv, ClosedMeansAcceptable
<1> QED BY <1>4, <1>5, <1>6 DEF ReviewInv

(* An open issue that a person touches without closing it as the poller.   *)
LEMMA PersonKeeps ==
  ASSUME ReviewInv, NEW n \in DOMAIN issues, NEW issue \in Issue,
         issues' = [issues EXCEPT ![n] = issue],
         issue.package = issues[n].package,
         issue.created = issues[n].created,
         issue.state # "closed by poller",
         UNCHANGED <<day, declared, job, poll, lastRun>>
  PROVE  ReviewInv'
<1>1. /\ issues' \in Seq(Issue) /\ Len(issues') <= MaxIssues
      /\ DOMAIN issues' = DOMAIN issues
  BY QueueType DEF ReviewInv, TypeOK
<1>2. \A m \in DOMAIN issues : /\ issues'[m].package = issues[m].package
                               /\ issues'[m].created = issues[m].created
                               /\ m # n => issues'[m] = issues[m]
  OBVIOUS
<1>3. TypeOK' BY <1>1 DEF ReviewInv, TypeOK
<1>4. PollAgrees' BY <1>1, <1>2 DEF ReviewInv, PollAgrees, row
<1>5. ClosedMeansAcceptable'
  BY <1>1, <1>2 DEF ReviewInv, ClosedMeansAcceptable
<1> QED BY <1>3, <1>4, <1>5 DEF ReviewInv

--------------------------------------------------------------------------------
(* The queue's state is always well-typed, the poller's snapshot agrees    *)
(* with the issues it touches, and no issue is closed wrongly.             *)
LEMMA ReviewInvariant == Spec => []ReviewInv
<1>1. Init => ReviewInv
  BY LicenseAssumption
  DEF Init, ReviewInv, TypeOK, PollAgrees, ClosedMeansAcceptable, IdlePoll,
      IdleJob, Verdicts, LicenseAssumption
<1>2. ReviewInv /\ [Next]_vars => ReviewInv'
  <2> SUFFICES ASSUME ReviewInv, [Next]_vars PROVE ReviewInv' OBVIOUS
  <2>0. TypeOK BY DEF ReviewInv
  <2>1. ASSUME NEW j \in Jobs, NEW package \in Packages, Search(j, package)
        PROVE  ReviewInv'
    <3>1. existing(package) \in 0..MaxIssues /\ 0 \in 0..MaxIssues
      BY <2>0, ExistingType, LicenseAssumption DEF LicenseAssumption
    <3>2. TypeOK' BY <2>1, <2>0, <3>1 DEF Search, TypeOK
    <3> QED BY <2>1, <3>2
        DEF Search, ReviewInv, PollAgrees, ClosedMeansAcceptable, row
  <2>2. ASSUME NEW j \in Jobs, File(j) PROVE ReviewInv'
    <3>1. job[j].package \in Packages \cup {NoPackage} BY <2>0 DEF TypeOK
    <3>2. job' \in [Jobs -> [pc : {"idle", "filing"},
                            package : Packages \cup {NoPackage},
                            existing : 0..MaxIssues]]
      BY <2>2, <2>0, LicenseAssumption DEF File, IdleJob, TypeOK, LicenseAssumption
    <3>3. CASE job[j].existing # 0
      <4>1. TypeOK' BY <2>2, <2>0, <3>2, <3>3 DEF File, TypeOK
      <4> QED BY <2>2, <3>3, <4>1
          DEF File, ReviewInv, PollAgrees, ClosedMeansAcceptable, row
    <3>4. CASE job[j].existing = 0
      <4>1. /\ Len(issues) < MaxIssues
            /\ issues' = Append(issues, newIssue(job[j].package))
            /\ UNCHANGED <<day, declared, poll, lastRun>>
        BY <2>2, <3>4 DEF File
      <4> QED BY <3>1, <3>2, <4>1, NewIssueKeeps
    <3> QED BY <3>3, <3>4
  <2>3. ASSUME NEW j \in Jobs, FileFails(j) PROVE ReviewInv'
    <3>1. TypeOK'
      BY <2>3, <2>0, LicenseAssumption
      DEF FileFails, IdleJob, TypeOK, LicenseAssumption
    <3> QED BY <2>3, <3>1
        DEF FileFails, ReviewInv, PollAgrees, ClosedMeansAcceptable, row
  <2>4. CASE PollStart
    <3>1. CASE listed = {}
      BY <2>4, <3>1
      DEF PollStart, ReviewInv, TypeOK, PollAgrees, ClosedMeansAcceptable, row
    <3>2. CASE listed # {}
      <4> DEFINE rows == { [number |-> n, package |-> issues[n].package,
                            high |-> issues[n].high,
                            created |-> issues[n].created] : n \in listed }
      <4>1. poll' = [pc |-> "fetch", now |-> day, failed |-> FALSE,
                     got |-> "none", rows |-> rows]
        BY <2>4, <3>2 DEF PollStart
      <4>2. listed \subseteq DOMAIN issues BY DEF listed
      <4>3. rows \subseteq Row
        <5>1. ASSUME NEW n \in listed
              PROVE  [number |-> n, package |-> issues[n].package,
                      high |-> issues[n].high,
                      created |-> issues[n].created] \in Row
          <6>1. n \in 1..MaxIssues /\ issues[n] \in Issue
            BY <2>0, <4>2, QueueType
          <6> QED BY <6>1 DEF Row, Issue
        <5> QED BY <5>1
      <4>4. TypeOK' BY <2>4, <2>0, <3>2, <4>1, <4>3 DEF PollStart, TypeOK, Verdicts
      <4>5. day \in Nat /\ UNCHANGED <<day, issues>>
        BY <2>4, <2>0, LicenseAssumption DEF PollStart, TypeOK, LicenseAssumption
      <4>6. PollAgrees' BY <4>1, <4>2, <4>5 DEF PollAgrees
      <4> QED BY <2>4, <4>4, <4>6 DEF PollStart, ReviewInv, ClosedMeansAcceptable
    <3> QED BY <3>1, <3>2
  <2>5. CASE PollStartFails
    BY <2>5
    DEF PollStartFails, ReviewInv, TypeOK, PollAgrees, ClosedMeansAcceptable, row
  <2>6. CASE PollEnd
    <3>1. TypeOK' /\ PollAgrees'
      <4>1. \E colour \in {"green", "red"} : EndRun(colour) BY <2>6 DEF PollEnd
      <4>2. UNCHANGED <<day, declared, issues, job>> BY <2>6 DEF PollEnd
      <4> QED BY <4>1, <4>2, <2>0, SkipKeeps DEF ReviewInv, TypeOK
    <3> QED BY <2>6, <3>1 DEF PollEnd, ReviewInv, ClosedMeansAcceptable
  <2>7. CASE PassOver
    <3>1. TypeOK' /\ PollAgrees'
      <4>1. Skip(poll.failed) /\ poll.failed \in BOOLEAN
        BY <2>7, <2>0 DEF PassOver, TypeOK
      <4>2. UNCHANGED <<day, declared, issues, job>> BY <2>7 DEF PassOver
      <4> QED BY <4>1, <4>2, <2>0, SkipKeeps DEF ReviewInv, TypeOK
    <3> QED BY <2>7, <3>1 DEF PassOver, ReviewInv, ClosedMeansAcceptable
  <2>8. CASE Fetch
    <3>1. row \in poll.rows BY <2>8, <2>0, NextRow DEF Fetch
    <3>2. row.package \in Packages
      BY <2>8, <2>0, <3>1 DEF Fetch, TypeOK, Row
    <3>3. /\ poll'.rows = poll.rows /\ row' = row /\ poll'.pc = "act"
          /\ poll'.got = declared[row.package]
      BY <2>8, <2>0 DEF Fetch, TypeOK, row
    <3>4. TypeOK' BY <2>8, <2>0, <3>2 DEF Fetch, TypeOK
    <3>5. PollAgrees' BY <2>8, <3>2, <3>3 DEF Fetch, ReviewInv, PollAgrees
    <3> QED BY <2>8, <3>4, <3>5 DEF Fetch, ReviewInv, ClosedMeansAcceptable
  <2>9. ASSUME poll.pc = "act"
        PROVE  /\ row.number \in DOMAIN issues /\ issues[row.number] \in Issue
               /\ poll.failed \in BOOLEAN /\ day \in -1..MaxDay
               /\ labelled(issues[row.number]) \in Issue
               /\ labelled(issues[row.number]).package = issues[row.number].package
               /\ labelled(issues[row.number]).created = issues[row.number].created
               /\ labelled(issues[row.number]).state = issues[row.number].state
    <3>1. row \in poll.rows BY <2>9, <2>0, NextRow DEF ReviewInv, PollAgrees
    <3>2. row.number \in DOMAIN issues /\ issues[row.number] \in Issue
      BY <3>1, <2>0, QueueType DEF ReviewInv, PollAgrees
    <3>3. day \in -1..MaxDay
      BY <2>0, LicenseAssumption DEF TypeOK, LicenseAssumption
    <3> QED BY <3>2, <3>3, <2>0 DEF labelled, Issue, TypeOK
  <2>10. CASE Escalate
    <3> DEFINE issue == [labelled(issues[row.number]) EXCEPT !.marked = day]
    <3>1. poll.pc = "act" /\ Skip(poll.failed) /\ UNCHANGED <<day, declared, job>>
      BY <2>10 DEF Escalate
    <3>2. issues' = issues \/ issues' = [issues EXCEPT ![row.number] = issue]
      BY <2>10 DEF Escalate
    <3>3. /\ issue \in Issue /\ issue.package = issues[row.number].package
          /\ issue.created = issues[row.number].created
          /\ issue.state = issues[row.number].state
      BY <2>9, <3>1 DEF Issue
    <3> HIDE DEF issue
    <3> QED BY <3>1, <3>2, <3>3, <2>9, HandlerKeeps
  <2>11. CASE Heartbeat
    <3> DEFINE issue == [issues[row.number] EXCEPT !.marked = day]
    <3>1. poll.pc = "act" /\ Skip(poll.failed) /\ UNCHANGED <<day, declared, job>>
      BY <2>11 DEF Heartbeat
    <3>2. issues' = issues \/ issues' = [issues EXCEPT ![row.number] = issue]
      BY <2>11 DEF Heartbeat
    <3>3. /\ issue \in Issue /\ issue.package = issues[row.number].package
          /\ issue.created = issues[row.number].created
          /\ issue.state = issues[row.number].state
      BY <2>9, <3>1 DEF Issue
    <3> HIDE DEF issue
    <3> QED BY <3>1, <3>2, <3>3, <2>9, HandlerKeeps
  <2>12. CASE CloseAcceptable
    <3> DEFINE issue == [issues[row.number] EXCEPT
                           !.state = "closed by poller", !.marked = day]
    <3>1. /\ poll.pc = "act" /\ poll.got = "acceptable"
          /\ Skip(poll.failed) /\ UNCHANGED <<day, declared, job>>
      BY <2>12 DEF CloseAcceptable
    <3>2. issues' = issues \/ issues' = [issues EXCEPT ![row.number] = issue]
      BY <2>12, <2>9, <3>1 DEF CloseAcceptable
    <3>3. /\ issue \in Issue /\ issue.package = issues[row.number].package
          /\ issue.created = issues[row.number].created
      BY <2>9, <3>1 DEF Issue
    <3> HIDE DEF issue
    <3> QED BY <3>1, <3>2, <3>3, <2>9, HandlerKeeps
  <2>13. CASE FlagUnacceptable
    <3> DEFINE issue == [labelled(issues[row.number]) EXCEPT !.marked = day]
    <3>1. poll.pc = "act" /\ Skip(TRUE) /\ UNCHANGED <<day, declared, job>>
      BY <2>13 DEF FlagUnacceptable
    <3>2. issues' = issues \/ issues' = [issues EXCEPT ![row.number] = issue]
      BY <2>13 DEF FlagUnacceptable
    <3>3. /\ issue \in Issue /\ issue.package = issues[row.number].package
          /\ issue.created = issues[row.number].created
          /\ issue.state = issues[row.number].state
      BY <2>9, <3>1 DEF Issue
    <3> HIDE DEF issue
    <3> QED BY <3>1, <3>2, <3>3, <2>9, HandlerKeeps
  <2>14. CASE ActFails
    <3>1. /\ poll.pc = "act" /\ issues' \in partly
          /\ \E colour \in {"green", "red"} : EndRun(colour)
          /\ UNCHANGED <<day, declared, job>>
      BY <2>14 DEF ActFails
    <3>2. PICK issue \in { labelled(issues[row.number]),
                           [issues[row.number] EXCEPT !.marked = day] } :
            issues' = issues \/ issues' = [issues EXCEPT ![row.number] = issue]
      BY <3>1, <2>9 DEF partly
    <3>3. /\ issue \in Issue /\ issue.package = issues[row.number].package
          /\ issue.created = issues[row.number].created
          /\ issue.state = issues[row.number].state
      BY <2>9, <3>1, <3>2 DEF Issue
    <3> QED BY <3>1, <3>2, <3>3, <2>9, HandlerKeeps
  <2>15. CASE Timeout
    <3>1. TypeOK' /\ PollAgrees'
      <4>1. \E colour \in {"green", "red"} : EndRun(colour) BY <2>15 DEF Timeout
      <4>2. UNCHANGED <<day, declared, issues, job>> BY <2>15 DEF Timeout
      <4> QED BY <4>1, <4>2, <2>0, SkipKeeps DEF ReviewInv, TypeOK
    <3> QED BY <2>15, <3>1 DEF Timeout, ReviewInv, ClosedMeansAcceptable
  <2>16. ASSUME NEW n \in DOMAIN issues, PersonCloses(n) PROVE ReviewInv'
    <3> DEFINE issue == [issues[n] EXCEPT !.state = "closed by a person"]
    <3>1. issues[n] \in Issue BY <2>0, QueueType
    <3>2. /\ issue \in Issue /\ issue.package = issues[n].package
          /\ issue.created = issues[n].created
          /\ issue.state # "closed by poller"
      BY <3>1 DEF Issue
    <3>3. /\ issues' = [issues EXCEPT ![n] = issue]
          /\ UNCHANGED <<day, declared, job, poll, lastRun>>
      BY <2>16 DEF PersonCloses
    <3> HIDE DEF issue
    <3> QED BY <3>2, <3>3, PersonKeeps
  <2>17. ASSUME NEW n \in DOMAIN issues, PersonPrioritises(n) PROVE ReviewInv'
    <3> DEFINE issue == [issues[n] EXCEPT !.high = TRUE]
    <3>1. issues[n] \in Issue BY <2>0, QueueType
    <3>2. /\ issue \in Issue /\ issue.package = issues[n].package
          /\ issue.created = issues[n].created
          /\ issue.state # "closed by poller"
      BY <3>1, <2>17 DEF Issue, PersonPrioritises, isOpen
    <3>3. /\ issues' = [issues EXCEPT ![n] = issue]
          /\ UNCHANGED <<day, declared, job, poll, lastRun>>
      BY <2>17 DEF PersonPrioritises
    <3> HIDE DEF issue
    <3> QED BY <3>2, <3>3, PersonKeeps
  <2>18. CASE Mislabel
    BY <2>18, <2>0, NewIssueKeeps DEF Mislabel, TypeOK
  <2>19. ASSUME NEW package \in Packages, Harvest(package) PROVE ReviewInv'
    <3>1. PICK verdict \in {"acceptable", "unacceptable"} :
            declared' = [declared EXCEPT ![package] = verdict]
      BY <2>19 DEF Harvest
    <3>2. \A p \in Packages : declared[p] # "none" => declared'[p] = declared[p]
      BY <2>19, <2>0, <3>1 DEF Harvest, TypeOK
    <3>3. TypeOK' BY <2>19, <2>0, <3>1 DEF Harvest, TypeOK, Verdicts
    <3>4. UNCHANGED <<day, issues, poll, row>> BY <2>19 DEF Harvest, row
    <3>5. PollAgrees' BY <3>2, <3>4 DEF ReviewInv, PollAgrees
    <3>6. ClosedMeansAcceptable'
      BY <3>2, <3>4 DEF ReviewInv, ClosedMeansAcceptable
    <3> QED BY <3>3, <3>5, <3>6 DEF ReviewInv
  <2>20. CASE Tick
    <3>1. TypeOK' BY <2>20, <2>0, LicenseAssumption DEF Tick, TypeOK, LicenseAssumption
    <3>2. /\ day' = day + 1 /\ day \in Nat /\ poll.now \in Nat
          /\ UNCHANGED <<declared, issues, poll, row>>
      BY <2>20, <2>0, LicenseAssumption DEF Tick, TypeOK, LicenseAssumption, row
    <3>3. poll'.now <= day' BY <3>2 DEF ReviewInv, PollAgrees
    <3>4. PollAgrees' BY <3>2, <3>3 DEF ReviewInv, PollAgrees
    <3>5. ClosedMeansAcceptable' BY <3>2 DEF ReviewInv, ClosedMeansAcceptable
    <3> QED BY <3>1, <3>4, <3>5 DEF ReviewInv
  <2>21. CASE UNCHANGED vars
    BY <2>21 DEF vars, ReviewInv, TypeOK, PollAgrees, ClosedMeansAcceptable, row
  <2>22. CASE VerdictError
    <3>1. Skip(TRUE) /\ UNCHANGED <<day, declared, issues, job>>
      BY <2>22 DEF VerdictError
    <3>2. TypeOK' /\ PollAgrees'
      BY <3>1, <2>0, SkipKeeps DEF ReviewInv, TypeOK
    <3> QED BY <3>1, <3>2 DEF ReviewInv, ClosedMeansAcceptable
  <2> QED
    BY <2>1, <2>2, <2>3, <2>4, <2>5, <2>6, <2>7, <2>8, <2>10, <2>11, <2>12,
       <2>13, <2>14, <2>15, <2>16, <2>17, <2>18, <2>19, <2>20, <2>21, <2>22
    DEF Next
<1> QED BY <1>1, <1>2, PTL DEF Spec

--------------------------------------------------------------------------------
(* The queue as ReviewQueue sees it.                                       *)

Asked == [n \in DOMAIN issues |-> asked(issues[n])]

LEMMA NothingAsked ==
  ASSUME UNCHANGED <<day, declared>>, DOMAIN issues' = DOMAIN issues,
         \A n \in DOMAIN issues : asked(issues'[n]) = asked(issues[n])
  PROVE  UNCHANGED Queue!vars
<1>1. Asked' = Asked BY DEF Asked
<1> QED BY <1>1 DEF Asked, Queue!vars

LEMMA OneAsked ==
  ASSUME NEW n \in DOMAIN issues, NEW issue, issues' = [issues EXCEPT ![n] = issue]
  PROVE  Asked' = [Asked EXCEPT ![n] = asked(issue)]
<1>1. DOMAIN issues' = DOMAIN issues OBVIOUS
<1>2. \A m \in DOMAIN issues : issues'[m] = IF m = n THEN issue ELSE issues[m]
  OBVIOUS
<1> QED BY <1>1, <1>2 DEF Asked

LEMMA AskedFields ==
  ASSUME NEW issue
  PROVE  /\ asked(issue).package = issue.package
         /\ asked(issue).state = issue.state
         /\ asked(issue).high = issue.high
         /\ asked(issue).security = issue.security
         /\ asked(issue).created = issue.created
BY Zenon DEF asked

(* An issue in other words; the lemma need not know that its labels are    *)
(* Booleans.                                                               *)
IssueWith(Labels) ==
  [package : Packages \cup {NoPackage},
   state : {"open", "closed by poller", "closed by a person"},
   high : Labels, security : Labels, created : 0..MaxDay, marked : -1..MaxDay]

reads(issue, package, state, high, security, created) ==
  asked(issue) = [package |-> package, state |-> state, high |-> high,
                  security |-> security, created |-> created]

changesRead(i, yes, state, d) ==
  /\ reads([i EXCEPT !.high = yes, !.security = yes], i.package, i.state, yes, yes, i.created)
  /\ reads([[i EXCEPT !.high = yes, !.security = yes] EXCEPT !.marked = d],
           i.package, i.state, yes, yes, i.created)
  /\ reads([i EXCEPT !.high = yes], i.package, i.state, yes, i.security, i.created)
  /\ reads([i EXCEPT !.marked = d], i.package, i.state, i.high, i.security, i.created)
  /\ reads([i EXCEPT !.state = state], i.package, state, i.high, i.security, i.created)
  /\ reads([i EXCEPT !.state = state, !.marked = d],
           i.package, state, i.high, i.security, i.created)

LEMMA ChangesRead ==
  ASSUME NEW Labels, NEW i \in IssueWith(Labels), NEW yes, NEW d, NEW state
  PROVE  changesRead(i, yes, state, d)
<1>1. reads([i EXCEPT !.high = yes, !.security = yes], i.package, i.state, yes, yes, i.created)
  BY DEF reads, asked, IssueWith
<1>2. reads([[i EXCEPT !.high = yes, !.security = yes] EXCEPT !.marked = d],
            i.package, i.state, yes, yes, i.created)
  BY DEF reads, asked, IssueWith
<1>3. reads([i EXCEPT !.high = yes], i.package, i.state, yes, i.security, i.created)
  BY DEF reads, asked, IssueWith
<1>4. reads([i EXCEPT !.marked = d], i.package, i.state, i.high, i.security, i.created)
  BY DEF reads, asked, IssueWith
<1>5. reads([i EXCEPT !.state = state], i.package, state, i.high, i.security, i.created)
  BY DEF reads, asked, IssueWith
<1>6. reads([i EXCEPT !.state = state, !.marked = d],
            i.package, state, i.high, i.security, i.created)
  BY DEF reads, asked, IssueWith
<1> QED BY <1>1, <1>2, <1>3, <1>4, <1>5, <1>6 DEF changesRead

LEMMA AskedAfter ==
  ASSUME NEW i \in Issue, NEW d, NEW state
  PROVE  /\ reads(labelled(i), i.package, i.state, TRUE, TRUE, i.created)
         /\ reads([labelled(i) EXCEPT !.marked = d], i.package, i.state, TRUE, TRUE, i.created)
         /\ reads([i EXCEPT !.high = TRUE], i.package, i.state, TRUE, i.security, i.created)
         /\ reads([i EXCEPT !.marked = d], i.package, i.state, i.high, i.security, i.created)
         /\ reads([i EXCEPT !.state = state], i.package, state, i.high, i.security, i.created)
         /\ reads([i EXCEPT !.state = state, !.marked = d],
                  i.package, state, i.high, i.security, i.created)
<1>1. i \in IssueWith(BOOLEAN) BY Zenon DEF Issue, IssueWith
<1>2. changesRead(i, TRUE, state, d) BY <1>1, ChangesRead, Zenon
<1> QED BY <1>2, Zenon DEF changesRead, labelled

(* What the listing's age and the licence fetched say stands.              *)
LEMMA StillEscalating ==
  ASSUME ReviewInv, poll.pc = "act", escalating
  PROVE  \/ declared[issues[row.number].package] = "unacceptable"
         \/ day - issues[row.number].created >= EscalateAfter
<1>1. row \in poll.rows BY NextRow DEF ReviewInv, PollAgrees
<1>2. /\ issues[row.number] \in Issue /\ row.created = issues[row.number].created
      /\ row.package = issues[row.number].package
      /\ poll.got # "none" => poll.got = declared[row.package]
      /\ poll.now <= day
  BY <1>1, QueueType DEF ReviewInv, PollAgrees
<1>3. /\ day \in Int /\ poll.now \in Int /\ EscalateAfter \in Int
      /\ issues[row.number].created \in Int
  <2>1. EscalateAfter \in Int /\ MaxDay \in Int
    BY LicenseAssumption DEF LicenseAssumption
  <2>2. day \in 0..MaxDay /\ poll.now \in 0..MaxDay
    BY DEF ReviewInv, TypeOK
  <2>3. issues[row.number].created \in 0..MaxDay
    BY <1>2 DEF Issue
  <2> QED BY <2>1, <2>2, <2>3
<1>4. CASE poll.got = "unacceptable"
  BY <1>2, <1>4
<1>5. CASE aged
  BY <1>2, <1>3, <1>5 DEF aged
<1> QED BY <1>4, <1>5 DEF escalating

LEMMA OneBecomes ==
  ASSUME NEW n \in DOMAIN issues, NEW issue, issues' = [issues EXCEPT ![n] = issue],
         NEW state, NEW high, NEW security,
         reads(issue, issues[n].package, state, high, security, issues[n].created),
         UNCHANGED <<day, declared>>
  PROVE  Queue!Becomes(n, state, high, security)
<1>1. Asked[n].package = issues[n].package /\ Asked[n].created = issues[n].created
  BY AskedFields, Zenon DEF Asked
<1>2. asked(issue) = [package |-> Asked[n].package, state |-> state, high |-> high,
                      security |-> security, created |-> Asked[n].created]
  BY <1>1, Zenon DEF reads
<1>3. Asked' = [Asked EXCEPT ![n] = asked(issue)]
  BY OneAsked
<1>4. Asked' = [Asked EXCEPT ![n] =
                  [package |-> @.package, state |-> state, high |-> high,
                   security |-> security, created |-> @.created]]
  BY <1>2, <1>3, Zenon
<1> QED BY <1>4, Zenon DEF Queue!Becomes, Asked

(* A handler's whole effect, or what a failing call leaves of it.          *)
LEMMA HandlerIsAllowed ==
  ASSUME ReviewInv, poll.pc = "act", UNCHANGED <<day, declared>>, NEW issue,
         issues' = issues \/ issues' = [issues EXCEPT ![row.number] = issue],
         LET i == issues[row.number]
         IN  \/ asked(issue) = asked(i)
             \/ escalating /\ reads(issue, i.package, i.state, TRUE, TRUE, i.created)
             \/ /\ poll.got = "acceptable" /\ isOpen(row.number)
                /\ reads(issue, i.package, "closed by poller", i.high, i.security, i.created)
  PROVE  [Queue!Next]_(Queue!vars)
<1> DEFINE n == row.number
<1>1. row \in poll.rows BY NextRow DEF ReviewInv, PollAgrees
<1>2. /\ n \in DOMAIN issues /\ issues[n] \in Issue
      /\ row.package = issues[n].package /\ issues[n].package \in Packages
      /\ poll.got # "none" => poll.got = declared[issues[n].package]
  BY <1>1, QueueType DEF ReviewInv, PollAgrees
<1>3. /\ n \in DOMAIN Asked
      /\ Asked[n].package = issues[n].package /\ Asked[n].state = issues[n].state
      /\ Asked[n].high = issues[n].high /\ Asked[n].security = issues[n].security
      /\ Asked[n].created = issues[n].created
  BY <1>2, AskedFields, Zenon DEF Asked
<1>4. CASE issues' = issues
  BY <1>4, NothingAsked
<1>5. CASE issues' = [issues EXCEPT ![n] = issue] /\ asked(issue) = asked(issues[n])
  <2>1. /\ DOMAIN issues' = DOMAIN issues
        /\ \A m \in DOMAIN issues : asked(issues'[m]) = asked(issues[m])
    BY <1>5
  <2> QED BY <2>1, NothingAsked
<1>6. CASE /\ issues' = [issues EXCEPT ![n] = issue] /\ escalating
           /\ reads(issue, issues[n].package, issues[n].state, TRUE, TRUE, issues[n].created)
  <2>1. \/ declared[issues[n].package] = "unacceptable"
        \/ day - issues[n].created >= EscalateAfter
    BY <1>6, StillEscalating
  <2>2. Queue!Becomes(n, issues[n].state, TRUE, TRUE)
    BY <1>2, <1>6, OneBecomes, Zenon
  <2>3. Queue!Escalate(n)
    BY <1>2, <1>3, <2>1, <2>2, Zenon DEF Queue!Escalate, Queue!about, Asked
  <2> QED BY <1>3, <2>3, Zenon DEF Queue!Next, Asked
<1>7. CASE /\ issues' = [issues EXCEPT ![n] = issue]
           /\ poll.got = "acceptable" /\ isOpen(n)
           /\ reads(issue, issues[n].package, "closed by poller", issues[n].high,
                    issues[n].security, issues[n].created)
  <2>1. Queue!Becomes(n, "closed by poller", issues[n].high, issues[n].security)
    BY <1>2, <1>7, OneBecomes, Zenon
  <2>2. declared[issues[n].package] = "acceptable" BY <1>2, <1>7
  <2>3. Queue!Close(n)
    BY <1>2, <1>3, <1>7, <2>1, <2>2, Zenon
    DEF Queue!Close, Queue!about, Asked, isOpen
  <2> QED BY <1>3, <2>3, Zenon DEF Queue!Next, Asked
<1> QED BY <1>4, <1>5, <1>6, <1>7, Zenon

LEMMA NewIssueIsAllowed ==
  ASSUME ReviewInv, NEW package \in Packages \cup {NoPackage}, Len(issues) < MaxIssues,
         issues' = Append(issues, newIssue(package)),
         UNCHANGED <<day, declared>>
  PROVE  Queue!Next
<1> DEFINE n == Len(issues) + 1
<1>1. issues \in Seq(Issue) /\ Len(issues) \in Nat /\ MaxIssues \in Nat
  BY LenProperties, LicenseAssumption DEF ReviewInv, TypeOK, LicenseAssumption
<1>2. /\ DOMAIN issues = 1..Len(issues) /\ DOMAIN issues' = DOMAIN issues \cup {n}
      /\ \A m \in DOMAIN issues : issues'[m] = issues[m]
      /\ issues'[n] = newIssue(package) /\ n \in 1..MaxIssues \ DOMAIN issues
  BY <1>1
<1>3. asked(newIssue(package)) =
        [package |-> package, state |-> "open", high |-> FALSE, security |-> FALSE,
         created |-> day]
  BY DEF asked, newIssue
<1> HIDE DEF n
<1>4. Asked' = [m \in DOMAIN Asked \cup {n} |->
                  IF m = n THEN asked(newIssue(package)) ELSE Asked[m]]
  BY <1>2 DEF Asked
<1>5. Queue!Enter(n, package)
  BY <1>3, <1>4 DEF Queue!Enter, Asked
<1>6. n \in 1..MaxIssues \ DOMAIN Asked
  BY <1>2 DEF Asked
<1> QED BY <1>5, <1>6 DEF Queue!Next, Asked

LEMMA PersonIsAllowed ==
  ASSUME ReviewInv, NEW n \in DOMAIN issues, UNCHANGED <<day, declared>>, isOpen(n),
         \/ issues' = [issues EXCEPT ![n] = [issues[n] EXCEPT !.state = "closed by a person"]]
         \/ issues' = [issues EXCEPT ![n] = [issues[n] EXCEPT !.high = TRUE]]
  PROVE  Queue!Next
<1>1. issues[n] \in Issue /\ issues[n].state = "open" BY QueueType DEF ReviewInv, isOpen
<1>2. /\ n \in DOMAIN Asked /\ Asked[n].state = "open"
      /\ Asked[n].high = issues[n].high /\ Asked[n].security = issues[n].security
  BY <1>1, AskedFields, Zenon DEF Asked
<1>3. ASSUME issues' = [issues EXCEPT ![n] = [issues[n] EXCEPT !.state = "closed by a person"]]
      PROVE  Queue!Review(n)
  <2> DEFINE issue == [issues[n] EXCEPT !.state = "closed by a person"]
  <2>1. reads(issue, issues[n].package, "closed by a person", issues[n].high,
              issues[n].security, issues[n].created)
    BY <1>1, AskedAfter, Zenon
  <2>2. issues' = [issues EXCEPT ![n] = issue] BY <1>3
  <2> HIDE DEF issue
  <2>3. Queue!Becomes(n, "closed by a person", issues[n].high, issues[n].security)
    BY <2>1, <2>2, OneBecomes, Zenon
  <2> QED BY <1>2, <2>3, Zenon DEF Queue!Review, Asked
<1>4. ASSUME issues' = [issues EXCEPT ![n] = [issues[n] EXCEPT !.high = TRUE]]
      PROVE  Queue!Prioritise(n)
  <2> DEFINE issue == [issues[n] EXCEPT !.high = TRUE]
  <2>1. reads(issue, issues[n].package, "open", TRUE, issues[n].security, issues[n].created)
    BY <1>1, AskedAfter, Zenon
  <2>2. issues' = [issues EXCEPT ![n] = issue] BY <1>4
  <2> HIDE DEF issue
  <2>3. Queue!Becomes(n, "open", TRUE, issues[n].security)
    BY <2>1, <2>2, OneBecomes, Zenon
  <2> QED BY <1>2, <2>3, Zenon DEF Queue!Prioritise, Asked
<1> QED BY <1>2, <1>3, <1>4, Zenon DEF Queue!Next, Asked

(* The state of the queue is always well-typed.                            *)
THEOREM ReviewTypeCorrect == Spec => []TypeOK
<1>1. ReviewInv => TypeOK BY DEF ReviewInv
<1> QED BY <1>1, ReviewInvariant, PTL

(* The poller closes an issue only when the declared licence is on the     *)
(* allow-list, although it works from a snapshot.                          *)
THEOREM OnlyAcceptableIsClosed == Spec => []ClosedMeansAcceptable
<1>1. ReviewInv => ClosedMeansAcceptable BY DEF ReviewInv
<1> QED BY <1>1, ReviewInvariant, PTL

(* The queue, worked off from snapshots by runs that fail half-way, is     *)
(* still the one ReviewQueue describes.                                    *)
THEOREM QueueKeepsItsPromise == Spec => ImplementsReviewQueue
<1>1. Init => Queue!Init
  <2> SUFFICES ASSUME Init PROVE Queue!Init OBVIOUS
  <2>1. DOMAIN issues = {} BY DEF Init
  <2>2. Asked = [n \in {} |-> NoPackage] BY <2>1 DEF Asked
  <2> QED BY <2>2 DEF Init, Queue!Init, Asked
<1>2. ReviewInv /\ [Next]_vars => [Queue!Next]_(Queue!vars)
  <2> SUFFICES ASSUME ReviewInv, [Next]_vars PROVE [Queue!Next]_(Queue!vars) OBVIOUS
  <2>0. ASSUME UNCHANGED <<day, declared, issues>> PROVE UNCHANGED Queue!vars
    BY <2>0, NothingAsked
  <2>1. ASSUME NEW j \in Jobs, NEW package \in Packages, Search(j, package)
        PROVE  UNCHANGED Queue!vars
    BY <2>0, <2>1 DEF Search
  <2>2. ASSUME NEW j \in Jobs, File(j) PROVE [Queue!Next]_(Queue!vars)
    <3>1. CASE job[j].existing # 0
      BY <2>0, <2>2, <3>1 DEF File
    <3>2. CASE job[j].existing = 0
      <4>1. job[j].package \in Packages \cup {NoPackage} BY DEF ReviewInv, TypeOK
      <4>2. /\ Len(issues) < MaxIssues
            /\ issues' = Append(issues, newIssue(job[j].package))
            /\ UNCHANGED <<day, declared>>
        BY <2>2, <3>2 DEF File
      <4> QED BY <4>1, <4>2, NewIssueIsAllowed
    <3> QED BY <3>1, <3>2
  <2>3. ASSUME NEW j \in Jobs, FileFails(j) PROVE UNCHANGED Queue!vars
    BY <2>0, <2>3 DEF FileFails
  <2>4. CASE PollStart \/ PollStartFails \/ PollEnd \/ PassOver \/ Fetch \/ Timeout
    BY <2>0, <2>4 DEF PollStart, PollStartFails, PollEnd, PassOver, Fetch, Timeout
  <2>5. ASSUME poll.pc = "act"
        PROVE  row.number \in DOMAIN issues /\ issues[row.number] \in Issue
    <3>1. row \in poll.rows BY <2>5, NextRow DEF ReviewInv, PollAgrees
    <3> QED BY <3>1, QueueType DEF ReviewInv, PollAgrees
  <2> DEFINE i == issues[row.number]
  <2>6. CASE Escalate
    <3> DEFINE issue == [labelled(i) EXCEPT !.marked = day]
    <3>1. poll.pc = "act" /\ UNCHANGED <<day, declared>> BY <2>6 DEF Escalate
    <3>2. CASE row.high
      <4>1. UNCHANGED issues BY <2>6, <3>2 DEF Escalate
      <4> QED BY <2>0, <3>1, <4>1
    <3>3. CASE ~row.high
      <4>1. issues' = [issues EXCEPT ![row.number] = issue] BY <2>6, <3>3 DEF Escalate
      <4>2. escalating BY <2>6, <3>3 DEF Escalate, escalating
      <4>3. reads(issue, i.package, i.state, TRUE, TRUE, i.created)
        BY <2>5, <3>1, AskedAfter, Zenon
      <4> HIDE DEF issue
      <4> QED BY <3>1, <4>1, <4>2, <4>3, HandlerIsAllowed
    <3> QED BY <3>2, <3>3
  <2>7. CASE Heartbeat
    <3> DEFINE issue == [i EXCEPT !.marked = day]
    <3>1. poll.pc = "act" /\ UNCHANGED <<day, declared>> BY <2>7 DEF Heartbeat
    <3>2. issues' = issues \/ issues' = [issues EXCEPT ![row.number] = issue]
      BY <2>7 DEF Heartbeat
    <3>3. asked(issue) = asked(i)
      <4>1. reads(issue, i.package, i.state, i.high, i.security, i.created)
        BY <2>5, <3>1, AskedAfter, Zenon
      <4> HIDE DEF issue
      <4> QED BY <4>1 DEF reads, asked
    <3> HIDE DEF issue
    <3> QED BY <3>1, <3>2, <3>3, HandlerIsAllowed
  <2>8. CASE CloseAcceptable
    <3> DEFINE issue == [i EXCEPT !.state = "closed by poller", !.marked = day]
    <3>1. poll.pc = "act" /\ poll.got = "acceptable" /\ UNCHANGED <<day, declared>>
      BY <2>8 DEF CloseAcceptable
    <3>2. CASE ~isOpen(row.number)
      <4>1. UNCHANGED issues BY <2>8, <3>2 DEF CloseAcceptable
      <4> QED BY <2>0, <3>1, <4>1
    <3>3. CASE isOpen(row.number)
      <4>1. issues' = [issues EXCEPT ![row.number] = issue]
        BY <2>5, <2>8, <3>1, <3>3 DEF CloseAcceptable
      <4>2. reads(issue, i.package, "closed by poller", i.high, i.security, i.created)
        BY <2>5, <3>1, AskedAfter, Zenon
      <4> HIDE DEF issue
      <4> QED BY <3>1, <3>3, <4>1, <4>2, HandlerIsAllowed
    <3> QED BY <3>2, <3>3
  <2>9. CASE FlagUnacceptable
    <3> DEFINE issue == [labelled(i) EXCEPT !.marked = day]
    <3>1. poll.pc = "act" /\ UNCHANGED <<day, declared>> BY <2>9 DEF FlagUnacceptable
    <3>2. CASE row.high
      <4>1. UNCHANGED issues BY <2>9, <3>2 DEF FlagUnacceptable
      <4> QED BY <2>0, <3>1, <4>1
    <3>3. CASE ~row.high
      <4>1. issues' = [issues EXCEPT ![row.number] = issue]
        BY <2>9, <3>3 DEF FlagUnacceptable
      <4>2. escalating BY <2>9, <3>3 DEF FlagUnacceptable, escalating
      <4>3. reads(issue, i.package, i.state, TRUE, TRUE, i.created)
        BY <2>5, <3>1, AskedAfter, Zenon
      <4> HIDE DEF issue
      <4> QED BY <3>1, <4>1, <4>2, <4>3, HandlerIsAllowed
    <3> QED BY <3>2, <3>3
  <2>10. CASE ActFails
    <3>1. poll.pc = "act" /\ issues' \in partly /\ UNCHANGED <<day, declared>>
      BY <2>10 DEF ActFails
    <3>2. CASE issues' = issues
      BY <2>0, <3>1, <3>2
    <3>3. CASE escalating /\ issues' = [issues EXCEPT ![row.number] = labelled(i)]
      <4>1. reads(labelled(i), i.package, i.state, TRUE, TRUE, i.created)
        BY <2>5, <3>1, AskedAfter, Zenon
      <4> QED BY <3>1, <3>3, <4>1, HandlerIsAllowed
    <3>4. CASE issues' = [issues EXCEPT ![row.number].marked = day]
      <4> DEFINE issue == [i EXCEPT !.marked = day]
      <4>1. reads(issue, i.package, i.state, i.high, i.security, i.created)
        BY <2>5, <3>1, AskedAfter, Zenon
      <4>2. issues' = [issues EXCEPT ![row.number] = issue] BY <3>4
      <4> HIDE DEF issue
      <4>3. asked(issue) = asked(i) BY <4>1 DEF reads, asked
      <4> QED BY <3>1, <4>2, <4>3, HandlerIsAllowed
    <3> QED BY <3>1, <3>2, <3>3, <3>4 DEF partly
  <2>11. ASSUME NEW n \in DOMAIN issues, PersonCloses(n) \/ PersonPrioritises(n)
         PROVE  Queue!Next
    BY <2>11, PersonIsAllowed DEF PersonCloses, PersonPrioritises
  <2>12. CASE Mislabel
    BY <2>12, NewIssueIsAllowed DEF Mislabel
  <2>13. ASSUME NEW package \in Packages, Harvest(package) PROVE Queue!Next
    <3>1. Asked' = Asked BY <2>13 DEF Harvest, Asked
    <3>2. Queue!Declare(package) BY <2>13, <3>1 DEF Harvest, Queue!Declare, Asked
    <3> QED BY <3>2 DEF Queue!Next
  <2>14. CASE Tick
    <3>1. Asked' = Asked BY <2>14 DEF Tick, Asked
    <3>2. Queue!NextDay BY <2>14, <3>1 DEF Tick, Queue!NextDay, Asked
    <3> QED BY <3>2 DEF Queue!Next
  <2>15. CASE UNCHANGED vars
    BY <2>0, <2>15 DEF vars
  <2>16. CASE VerdictError
    BY <2>0, <2>16 DEF VerdictError
  <2> HIDE DEF i
  <2> QED
    BY <2>1, <2>2, <2>3, <2>4, <2>6, <2>7, <2>8, <2>9, <2>10, <2>11, <2>12, <2>13,
       <2>14, <2>15, <2>16
    DEF Next
<1> QED BY <1>1, <1>2, ReviewInvariant, PTL DEF Spec, Queue!Spec, ImplementsReviewQueue

================================================================================
