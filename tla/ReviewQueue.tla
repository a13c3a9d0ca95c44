------------------------------ MODULE ReviewQueue ------------------------------
(***************************************************************************)
(* What the `review:license` queue promises, however it is worked off: an  *)
(* issue is about one package for good, is closed by automation only when  *)
(* that package's licence is acceptable by then, is put to security only   *)
(* for an unacceptable licence or its own age, and loses neither a label   *)
(* nor its verdict.  No runs, no snapshots, no comments.                   *)
(***************************************************************************)
EXTENDS Integers

CONSTANTS
  Packages,       \* packages whose licence was unknown
  NoPackage,      \* a title that names none
  Numbers,        \* the numbers an issue may get
  EscalateAfter   \* age from which an unresolved issue is escalated

VARIABLES
  day,
  declared,  \* the licence of each package, judged
  queue      \* the issues, by number

vars == <<day, declared, queue>>

Init ==
  /\ day = 0
  /\ declared = [p \in Packages |-> "none"]
  /\ queue = [n \in {} |-> NoPackage]

Enter(n, package) ==
  /\ queue' = [ m \in DOMAIN queue \cup {n} |->
                  IF m = n
                  THEN [package |-> package, state |-> "open", high |-> FALSE,
                        security |-> FALSE, created |-> day]
                  ELSE queue[m] ]
  /\ UNCHANGED <<day, declared>>

(* All that may become of an issue.                                        *)
Becomes(n, state, high, security) ==
  /\ queue' = [queue EXCEPT ![n] =
                 [package |-> @.package, state |-> state, high |-> high,
                  security |-> security, created |-> @.created]]
  /\ UNCHANGED <<day, declared>>

about(n) == queue[n].package \in Packages

Close(n) ==
  /\ queue[n].state = "open"
  /\ about(n) /\ declared[queue[n].package] = "acceptable"
  /\ Becomes(n, "closed by poller", queue[n].high, queue[n].security)

Review(n) ==
  /\ queue[n].state = "open"
  /\ Becomes(n, "closed by a person", queue[n].high, queue[n].security)

Prioritise(n) ==
  /\ queue[n].state = "open"
  /\ Becomes(n, "open", TRUE, queue[n].security)

(* An issue that somebody closes meanwhile may still be labelled.          *)
Escalate(n) ==
  /\ about(n)
  /\ \/ declared[queue[n].package] = "unacceptable"
     \/ day - queue[n].created >= EscalateAfter
  /\ Becomes(n, queue[n].state, TRUE, TRUE)

Declare(package) ==
  /\ declared[package] = "none"
  /\ \E verdict \in {"acceptable", "unacceptable"} :
       declared' = [declared EXCEPT ![package] = verdict]
  /\ UNCHANGED <<day, queue>>

NextDay == day' = day + 1 /\ UNCHANGED <<declared, queue>>

Next ==
  \/ \E n \in Numbers \ DOMAIN queue, package \in Packages \cup {NoPackage} : Enter(n, package)
  \/ \E n \in DOMAIN queue : Close(n) \/ Review(n) \/ Prioritise(n) \/ Escalate(n)
  \/ \E package \in Packages : Declare(package)
  \/ NextDay

Spec == Init /\ [][Next]_vars

================================================================================
