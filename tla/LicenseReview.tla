----------------------------- MODULE LicenseReview -----------------------------
(***************************************************************************)
(* The `review:license` queue: dependencies whose licence is unknown when  *)
(* they enter the tree.  Every pull-request run of security.yml files an   *)
(* issue per unknown package (job dependency-review, step "License-UNKNOWN *)
(* triage"); the scheduled poller of license-review-poller.yml resolves    *)
(* each open issue against ClearlyDefined.  Issues, labels and comments    *)
(* live on GitHub and are shared with people.                              *)
(*                                                                         *)
(* The poller's script runs under `bash -e`, one run at a time (workflow   *)
(* concurrency group): a failing `gh` call ends the run red where it is.   *)
(* Time is counted in units of the poller's own thresholds.                *)
(***************************************************************************)
EXTENDS Integers, Sequences, FiniteSets

CONSTANTS
  Packages,       \* pypi purls a pull request may bring in
  Jobs,           \* pull-request runs that may file at the same time
  ListLimit,      \* `gh issue list --limit`
  EscalateAfter,  \* age from which an unresolved issue is escalated
  HeartbeatGap,   \* least time between two heartbeat comments
  People,         \* what people do to issues: close, prioritise, mislabel
  Hiccups,        \* what may go wrong: search, view, fetch, verdict, act, timeout
  MaxIssues,      \* bound on the issues ever filed
  MaxDay          \* bound on the calendar

NoPackage == "a title that is not license-review: pkg:pypi/<name>@<version>"

LicenseAssumption ==
  /\ NoPackage \notin Packages
  /\ ListLimit \in Nat \ {0}
  /\ EscalateAfter \in Nat
  /\ HeartbeatGap \in Nat
  /\ People \subseteq {"close", "prioritise", "mislabel"}
  /\ Hiccups \subseteq {"search", "view", "fetch", "verdict", "act", "timeout"}
  /\ MaxIssues \in Nat
  /\ MaxDay \in Nat

ASSUME LicenseAssumption

VARIABLES
  day,       \* today
  declared,  \* ClearlyDefined's declared licence, judged by the allow-list
  issues,    \* the issues labelled review:license, by number
  job,       \* the triage step of each pull-request run
  poll,      \* the poller
  lastRun    \* how the last poller run ended

vars == <<day, declared, issues, job, poll, lastRun>>

(* "none" is an absent declaration or NOASSERTION; license-verdict.ts makes*)
(* any expression it cannot satisfy, or cannot parse, unacceptable.        *)
Verdicts == {"none", "acceptable", "unacceptable"}

Issue ==
  [package  : Packages \cup {NoPackage},
   state    : {"open", "closed by poller", "closed by a person"},
   high     : BOOLEAN,          \* label priority:high
   security : BOOLEAN,          \* label area:security
   created  : 0..MaxDay,
   marked   : -1..MaxDay]       \* day of the last poller comment, -1: none

(* What `gh issue list` returns of an issue.                               *)
Row == [number : 1..MaxIssues, package : Packages \cup {NoPackage},
        high : BOOLEAN, created : 0..MaxDay]

IdleJob == [pc |-> "idle", package |-> NoPackage, existing |-> 0]

IdlePoll ==
  [pc |-> "idle", rows |-> {}, now |-> 0, failed |-> FALSE, got |-> "none"]

--------------------------------------------------------------------------------
Init ==
  /\ day = 0
  /\ declared = [p \in Packages |-> "none"]
  /\ issues = <<>>
  /\ job = [j \in Jobs |-> IdleJob]
  /\ poll = IdlePoll
  /\ lastRun = "none"

isOpen(n) == issues[n].state = "open"

newerOpen(n) == { m \in DOMAIN issues : m > n /\ isOpen(m) }

(* `gh issue list --state open --limit`: the newest open issues.           *)
listed ==
  { n \in DOMAIN issues : isOpen(n) /\ Cardinality(newerOpen(n)) < ListLimit }

--------------------------------------------------------------------------------
(* Filing, in a pull request's run.                                        *)

newestOf(numbers) == CHOOSE n \in numbers : \A m \in numbers : m <= n

(* Nothing found is answered as if an issue had been.                      *)
MutExisting(package) ==
  LET same == { n \in listed : issues[n].package = package }
  IN  IF same = {} THEN -1 ELSE newestOf(same)

(* The newest open issue with exactly this title, 0 if there is none.      *)
existing(package) ==
  LET same == { n \in listed : issues[n].package = package }
  IN  IF same = {} THEN 0 ELSE newestOf(same)

(* A listing that fails counts as one that finds nothing.                  *)
Search(j, package) ==
  /\ job[j].pc = "idle"
  /\ \E found \in {existing(package)} \cup
                  (IF "search" \in Hiccups THEN {0} ELSE {}) :
       job' = [job EXCEPT ![j] = [pc |-> "filing", package |-> package,
                                  existing |-> found]]
  /\ UNCHANGED <<day, declared, issues, poll, lastRun>>

newIssue(package) ==
  [package |-> package, state |-> "open", high |-> FALSE, security |-> FALSE,
   created |-> day, marked |-> -1]

(* Comment on what the search found, or create.                            *)
File(j) ==
  /\ job[j].pc = "filing"
  /\ IF job[j].existing # 0 THEN UNCHANGED issues
     ELSE /\ Len(issues) < MaxIssues
          /\ issues' = Append(issues, newIssue(job[j].package))
  /\ job' = [job EXCEPT ![j] = IdleJob]
  /\ UNCHANGED <<day, declared, poll, lastRun>>

(* The comment or the creation fails (a fork's token is read-only): the    *)
(* step only warns.                                                        *)
FileFails(j) ==
  /\ job[j].pc = "filing"
  /\ job' = [job EXCEPT ![j] = IdleJob]
  /\ UNCHANGED <<day, declared, issues, poll, lastRun>>

--------------------------------------------------------------------------------
(* The poller.                                                             *)

(* Newest first, as listed.                                                *)
row == CHOOSE r \in poll.rows : \A s \in poll.rows : s.number <= r.number

restRows == poll.rows \ {row}

EndRun(colour) == poll' = IdlePoll /\ lastRun' = colour

(* On to the next row.                                                     *)
Skip(failed) ==
  /\ poll' = [poll EXCEPT !.pc = "fetch", !.rows = restRows, !.failed = failed,
                          !.got = "none"]
  /\ UNCHANGED lastRun

(* The listing is a snapshot: titles, labels and dates are read once.      *)
PollStart ==
  /\ poll.pc = "idle"
  /\ IF listed = {} THEN lastRun' = "green" /\ UNCHANGED poll
     ELSE /\ poll' = [pc |-> "fetch", now |-> day, failed |-> FALSE, got |-> "none",
                      rows |-> { [number |-> n, package |-> issues[n].package,
                                  high |-> issues[n].high,
                                  created |-> issues[n].created] : n \in listed }]
          /\ UNCHANGED lastRun
  /\ UNCHANGED <<day, declared, issues, job>>

PollStartFails ==
  /\ poll.pc = "idle"
  /\ lastRun' = "red"
  /\ UNCHANGED <<day, declared, issues, job, poll>>

PollEnd ==
  /\ poll.pc = "fetch"
  /\ poll.rows = {}
  /\ EndRun(IF poll.failed THEN "red" ELSE "green")
  /\ UNCHANGED <<day, declared, issues, job>>

(* A title without a valid purl, or a definition that cannot be fetched.   *)
PassOver ==
  /\ poll.pc = "fetch"
  /\ poll.rows # {}
  /\ row.package = NoPackage \/ "fetch" \in Hiccups
  /\ Skip(poll.failed)
  /\ UNCHANGED <<day, declared, issues, job>>

Fetch ==
  /\ poll.pc = "fetch"
  /\ poll.rows # {}
  /\ row.package # NoPackage
  /\ poll' = [poll EXCEPT !.pc = "act", !.got = declared[row.package]]
  /\ UNCHANGED <<day, declared, issues, job, lastRun>>

(* A creation date that cannot be read is the first of all days.           *)
MutAged == poll.now >= EscalateAfter

aged == poll.now - row.created >= EscalateAfter

(* Both labels in one edit, then a comment that carries the marker.        *)
labelled(issue) == [issue EXCEPT !.high = TRUE, !.security = TRUE]

(* Any comment of the poller's is taken for the escalation.                *)
MutEscalate ==
  /\ poll.pc = "act" /\ poll.got = "none" /\ aged
  /\ issues' = IF row.high \/ issues[row.number].marked # -1 THEN issues
               ELSE [issues EXCEPT ![row.number] =
                       [labelled(@) EXCEPT !.marked = day]]
  /\ Skip(poll.failed)
  /\ UNCHANGED <<day, declared, job>>

(* An issue without a declared licence: escalated once it is old, unless   *)
(* the listing showed it with priority:high.                               *)
Escalate ==
  /\ poll.pc = "act" /\ poll.got = "none" /\ aged
  /\ issues' = IF row.high THEN issues
               ELSE [issues EXCEPT ![row.number] =
                       [labelled(@) EXCEPT !.marked = day]]
  /\ Skip(poll.failed)
  /\ UNCHANGED <<day, declared, job>>

(* ... and reminded of while it is young, not more often than the gap; its *)
(* comments are read afresh, and unreadable ones count as none.            *)
Heartbeat ==
  /\ poll.pc = "act" /\ poll.got = "none" /\ ~aged
  /\ LET last == issues[row.number].marked
     IN  \/ /\ last = -1 \/ poll.now - last >= HeartbeatGap \/ "view" \in Hiccups
            /\ issues' = [issues EXCEPT ![row.number].marked = day]
         \/ /\ last # -1 /\ poll.now - last < HeartbeatGap
            /\ UNCHANGED issues
  /\ Skip(poll.failed)
  /\ UNCHANGED <<day, declared, job>>

MutCloseDeclared ==
  /\ poll.pc = "act" /\ poll.got # "none"
  /\ issues' = IF isOpen(row.number)
               THEN [issues EXCEPT ![row.number].state = "closed by poller",
                                   ![row.number].marked = day]
               ELSE issues
  /\ Skip(poll.failed)
  /\ UNCHANGED <<day, declared, job>>

MutCloseUnlessEscalated ==
  /\ poll.pc = "act" /\ poll.got = "acceptable"
  /\ issues' = IF isOpen(row.number) /\ ~row.high
               THEN [issues EXCEPT ![row.number].state = "closed by poller",
                                   ![row.number].marked = day]
               ELSE issues
  /\ Skip(poll.failed)
  /\ UNCHANGED <<day, declared, job>>

(* `gh issue close` leaves an issue alone that is already closed.          *)
CloseAcceptable ==
  /\ poll.pc = "act" /\ poll.got = "acceptable"
  /\ issues' = IF isOpen(row.number)
               THEN [issues EXCEPT ![row.number].state = "closed by poller",
                                   ![row.number].marked = day]
               ELSE issues
  /\ Skip(poll.failed)
  /\ UNCHANGED <<day, declared, job>>

MutFlagOnce ==
  /\ poll.pc = "act" /\ poll.got = "unacceptable"
  /\ issues' = IF row.high THEN issues
               ELSE [issues EXCEPT ![row.number] =
                       [labelled(@) EXCEPT !.marked = day]]
  /\ Skip(poll.failed \/ ~row.high)
  /\ UNCHANGED <<day, declared, job>>

(* An unacceptable licence: labels and comment unless the listing showed   *)
(* priority:high, and a red run in any case.                               *)
FlagUnacceptable ==
  /\ poll.pc = "act" /\ poll.got = "unacceptable"
  /\ issues' = IF row.high THEN issues
               ELSE [issues EXCEPT ![row.number] =
                       [labelled(@) EXCEPT !.marked = day]]
  /\ Skip(TRUE)
  /\ UNCHANGED <<day, declared, job>>

(* The verdict script ends neither with 0 nor with 1: the run will be red, *)
(* and the issue is left as it is.                                         *)
VerdictError ==
  /\ poll.pc = "act" /\ poll.got # "none"
  /\ "verdict" \in Hiccups
  /\ Skip(TRUE)
  /\ UNCHANGED <<day, declared, issues, job>>

escalating ==
  ~row.high /\ (poll.got = "unacceptable" \/ (poll.got = "none" /\ aged))

(* What a handler may leave behind when one of its calls fails: nothing;   *)
(* the labels without the comment; the closing comment on an open issue.   *)
partly ==
  { issues }
  \cup (IF escalating
        THEN { [issues EXCEPT ![row.number] = labelled(@)] } ELSE {})
  \cup (IF poll.got = "acceptable" /\ isOpen(row.number)
        THEN { [issues EXCEPT ![row.number].marked = day] } ELSE {})

(* `bash -e` ends the run there, and the rows left with it.                *)
ActFails ==
  /\ poll.pc = "act"
  /\ "act" \in Hiccups
  /\ issues' \in partly
  /\ EndRun("red")
  /\ UNCHANGED <<day, declared, job>>

(* The job's ten minutes are over.                                         *)
Timeout ==
  /\ poll.pc # "idle"
  /\ "timeout" \in Hiccups
  /\ EndRun("red")
  /\ UNCHANGED <<day, declared, issues, job>>

--------------------------------------------------------------------------------
(* Everybody else.                                                         *)

(* A person reviews the package's METADATA and closes the issue.           *)
PersonCloses(n) ==
  /\ "close" \in People
  /\ isOpen(n)
  /\ issues' = [issues EXCEPT ![n].state = "closed by a person"]
  /\ UNCHANGED <<day, declared, job, poll, lastRun>>

(* A person sets priority:high, as on any other issue.                     *)
PersonPrioritises(n) ==
  /\ "prioritise" \in People
  /\ isOpen(n) /\ ~issues[n].high
  /\ issues' = [issues EXCEPT ![n].high = TRUE]
  /\ UNCHANGED <<day, declared, job, poll, lastRun>>

(* Somebody puts the label on an issue of another kind.                    *)
Mislabel ==
  /\ "mislabel" \in People
  /\ Len(issues) < MaxIssues
  /\ issues' = Append(issues, newIssue(NoPackage))
  /\ UNCHANGED <<day, declared, job, poll, lastRun>>

(* ClearlyDefined harvests a package; a declaration, once there, stays.    *)
Harvest(package) ==
  /\ declared[package] = "none"
  /\ \E verdict \in {"acceptable", "unacceptable"} :
       declared' = [declared EXCEPT ![package] = verdict]
  /\ UNCHANGED <<day, issues, job, poll, lastRun>>

Tick ==
  /\ day < MaxDay
  /\ day' = day + 1
  /\ UNCHANGED <<declared, issues, job, poll, lastRun>>

Next ==
  \/ \E j \in Jobs, package \in Packages : Search(j, package)
  \/ \E j \in Jobs : File(j)
  \/ \E j \in Jobs : FileFails(j)
  \/ PollStart
  \/ PollStartFails
  \/ PollEnd
  \/ PassOver
  \/ Fetch
  \/ Escalate
  \/ Heartbeat
  \/ CloseAcceptable
  \/ FlagUnacceptable
  \/ VerdictError
  \/ ActFails
  \/ Timeout
  \/ \E n \in DOMAIN issues : PersonCloses(n)
  \/ \E n \in DOMAIN issues : PersonPrioritises(n)
  \/ Mislabel
  \/ \E package \in Packages : Harvest(package)
  \/ Tick

Spec == Init /\ [][Next]_vars

Act == Escalate \/ Heartbeat \/ CloseAcceptable \/ FlagUnacceptable

(* The schedule keeps starting runs.  Runs are cut short and services fail *)
(* to answer, but not always at the same row.                              *)
FairSpec ==
  /\ Spec
  /\ WF_vars(Tick) /\ WF_vars(PollStart) /\ SF_vars(PollEnd)
  /\ SF_vars(PassOver /\ row.package = NoPackage)
  /\ \A n \in 1..MaxIssues : /\ SF_vars(Fetch /\ row.number = n)
                             /\ SF_vars(Act /\ row.number = n)

--------------------------------------------------------------------------------
TypeOK ==
  /\ day \in 0..MaxDay
  /\ declared \in [Packages -> Verdicts]
  /\ issues \in Seq(Issue) /\ Len(issues) <= MaxIssues
  /\ job \in [Jobs -> [pc : {"idle", "filing"}, package : Packages \cup {NoPackage},
                       existing : 0..MaxIssues]]
  /\ poll \in [pc : {"idle", "fetch", "act"}, rows : SUBSET Row, now : 0..MaxDay,
               failed : BOOLEAN, got : Verdicts]
  /\ lastRun \in {"none", "green", "red"}

(* The poller closes an issue only for a package whose declared licence    *)
(* the allow-list satisfies, although it judges a snapshot while people,   *)
(* other runs and ClearlyDefined move on: no package that turned out       *)
(* unacceptable loses the one gate left for it (poller L14-25).            *)
ClosedMeansAcceptable ==
  \A n \in DOMAIN issues :
    issues[n].state = "closed by poller" =>
      issues[n].package \in Packages /\ declared[issues[n].package] = "acceptable"

(* Whatever the snapshots, the failing calls and the interrupted runs, an  *)
(* issue only goes where ReviewQueue lets it: what a handler does to it is *)
(* right by the licence and the age of the moment, not of the listing; no  *)
(* title changes, no label or verdict is lost, nothing reopens.            *)
asked(issue) ==
  [package |-> issue.package, state |-> issue.state, high |-> issue.high,
   security |-> issue.security, created |-> issue.created]

Queue == INSTANCE ReviewQueue
  WITH Numbers <- 1..MaxIssues, queue <- [n \in DOMAIN issues |-> asked(issues[n])]

ImplementsReviewQueue == Queue!Spec

open(n) == n \in DOMAIN issues /\ isOpen(n)

licence(n) ==
  IF n \in DOMAIN issues /\ issues[n].package \in Packages
  THEN declared[issues[n].package] ELSE "none"

(* An issue whose package gets an acceptable licence is closed without a   *)
(* human touch, however often calls fail and runs are cut short.           *)
AcceptableGetsClosed ==
  \A n \in 1..MaxIssues :
    (open(n) /\ licence(n) = "acceptable") ~> ~open(n)

(* As long as an issue with an unacceptable licence stays open, the        *)
(* scheduled run is red again and again: the gate replacing the PR gate    *)
(* that can no longer fire.                                                *)
UnacceptableKeepsRed ==
  \A n \in 1..MaxIssues :
    <>[](open(n) /\ licence(n) = "unacceptable") => []<>(lastRun = "red")

(* An old open issue without a licence does not stay unseen: it gets       *)
(* priority:high, by the poller or by somebody who was faster, however     *)
(* often listings, fetches and actions fail and runs are cut short.        *)
AgedUnresolved(n) ==
  /\ open(n) /\ issues[n].package \in Packages /\ licence(n) = "none"
  /\ day - issues[n].created >= EscalateAfter

AgedIsRaised ==
  \A n \in 1..MaxIssues :
    AgedUnresolved(n) ~> (~open(n) \/ licence(n) # "none" \/ issues[n].high)

================================================================================
