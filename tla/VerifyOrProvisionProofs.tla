------------------------- MODULE VerifyOrProvisionProofs -------------------------
(***************************************************************************)
(* The adapters, for every set of verticals and every number of faults:    *)
(* a test waits for one child exactly while it provisions, and a vertical  *)
(* with a marker is green on its own stack's resource only.  The invariant *)
(* adds to the types that a test has at most one child, that a run that is *)
(* gone left orphans only, and that while its oracles run, a marked        *)
(* vertical's name is its stack's or free: a deploy takes it for the stack *)
(* or rolls it back, and nobody else takes it meanwhile.                   *)
(***************************************************************************)
EXTENDS VerifyOrProvision, TLAPS

Steps == {"todo", "provision", "prove", "sdk", "cli", "green", "red"}

Awaits(cs, st) ==
  \A v \in Verticals :
    st[v] = "provision" <=> \E c \in cs : c.vertical = v /\ c.held = "awaited"

OneChild(cs) ==
  \A c, d \in cs :
    c.vertical = d.vertical /\ c.held = "awaited" /\ d.held = "awaited" => c = d

TestedIsOurs ==
  \A v \in Marked : steps[v] \in {"sdk", "cli"} => resource[v].owner \in {"stack", "none"}

Types ==
  /\ resource \in [Verticals -> [owner : {"none", "stack", "other"}, state : States]]
  /\ calls \subseteq Child
  /\ steps \in [Verticals -> Steps]
  /\ running \in BOOLEAN /\ faults \in 0..Faults

AdapterInv ==
  /\ Types /\ Awaits(calls, steps) /\ OneChild(calls)
  /\ ~running => \A c \in calls : c.held = "orphaned"
  /\ TestedIsOurs

LEMMA InvIsTyped == AdapterInv => TypeOK
BY DEF AdapterInv, Types, Awaits, TypeOK, Steps

LEMMA FaultIsBounded == ASSUME faults \in 0..Faults, Fault PROVE faults' \in 0..Faults
BY VerifyOrProvisionAssumption DEF Fault, VerifyOrProvisionAssumption

LEMMA StatesAreStates == \A v \in Verticals : StatesOf[v] \subseteq States
BY VerifyOrProvisionAssumption DEF VerifyOrProvisionAssumption

LEMMA MarkedAreVerticals == Marked \subseteq Verticals
BY DEF Marked

LEMMA WentIsTyped ==
  ASSUME NEW v \in Verticals, NEW s \in Steps, steps \in [Verticals -> Steps], Went(v, s)
  PROVE  /\ steps' \in [Verticals -> Steps] /\ steps'[v] = s
         /\ \A w \in Verticals \ {v} : steps'[w] = steps[w]
BY DEF Went

(* A test that neither begins nor ends to wait leaves the children alone.  *)
LEMMA StepAside ==
  ASSUME AdapterInv, NEW v \in Verticals, NEW s \in Steps \ {"provision"},
         steps[v] # "provision", Went(v, s), calls' = calls
  PROVE  Awaits(calls', steps')
<1>1. steps \in [Verticals -> Steps] /\ Awaits(calls, steps)
  BY DEF AdapterInv, Types
<1>2. steps'[v] = s /\ \A w \in Verticals \ {v} : steps'[w] = steps[w]
  BY <1>1, WentIsTyped
<1>3. QED
  BY <1>1, <1>2 DEF Awaits

(* The child a test waited for is gone, and with it the wait.              *)
LEMMA ChildGone ==
  ASSUME AdapterInv, NEW c \in calls, NEW s \in Steps \ {"provision"},
         calls' = calls \ {c},
         IF c.held = "awaited" THEN Went(c.vertical, s) ELSE UNCHANGED steps
  PROVE  /\ Awaits(calls', steps') /\ OneChild(calls') /\ calls' \subseteq Child
         /\ steps' \in [Verticals -> Steps]
         /\ \A w \in Verticals : steps'[w] = steps[w] \/ (w = c.vertical /\ steps'[w] = s)
         /\ running' = running =>
              (~running' => \A d \in calls' : d.held = "orphaned")
<1>1. /\ steps \in [Verticals -> Steps] /\ Awaits(calls, steps) /\ OneChild(calls)
      /\ calls \subseteq Child /\ (~running => \A d \in calls : d.held = "orphaned")
  BY DEF AdapterInv, Types
<1>2. c.vertical \in Verticals
  BY <1>1 DEF Child
<1>3. OneChild(calls') /\ calls' \subseteq Child
  BY <1>1 DEF OneChild
<1>4. CASE c.held = "awaited"
  <2>1. /\ steps' \in [Verticals -> Steps] /\ steps'[c.vertical] = s
        /\ \A w \in Verticals \ {c.vertical} : steps'[w] = steps[w]
    BY <1>1, <1>2, <1>4, WentIsTyped
  <2>2. \A d \in calls' : ~(d.vertical = c.vertical /\ d.held = "awaited")
    BY <1>1, <1>4 DEF OneChild
  <2>3. Awaits(calls', steps')
    BY <1>1, <2>1, <2>2 DEF Awaits
  <2>4. QED
    BY <1>1, <1>3, <2>1, <2>3
<1>5. CASE c.held # "awaited"
  <2>1. Awaits(calls', steps')
    BY <1>1, <1>5 DEF Awaits
  <2>2. QED
    BY <1>1, <1>3, <1>5, <2>1
<1>6. QED
  BY <1>4, <1>5

LEMMA AdapterInit == Init => AdapterInv
<1> SUFFICES ASSUME Init PROVE AdapterInv
  OBVIOUS
<1>1. resource \in [Verticals -> [owner : {"none", "stack", "other"}, state : States]]
  BY DEF Init, NoResource, States, UsableStates
<1>2. faults \in 0..Faults
  BY VerifyOrProvisionAssumption DEF Init, VerifyOrProvisionAssumption
<1>3. steps \in [Verticals -> Steps] /\ calls = {} /\ running = FALSE
  BY DEF Init, Steps
<1>4. \A v \in Verticals : steps[v] = "todo"
  BY DEF Init
<1>5. QED
  BY <1>1, <1>2, <1>3, <1>4, MarkedAreVerticals
  DEF AdapterInv, Types, Awaits, OneChild, TestedIsOurs

LEMMA AdapterStep == AdapterInv /\ [Next]_vars => AdapterInv'
<1> SUFFICES ASSUME AdapterInv, [Next]_vars PROVE AdapterInv'
  OBVIOUS
<1>0. /\ Types /\ Awaits(calls, steps) /\ OneChild(calls)
      /\ ~running => \A c \in calls : c.held = "orphaned"
      /\ TestedIsOurs /\ Marked \subseteq Verticals
      /\ steps \in [Verticals -> Steps] /\ calls \subseteq Child /\ running \in BOOLEAN
      /\ resource \in [Verticals -> [owner : {"none", "stack", "other"}, state : States]]
      /\ faults \in 0..Faults
  BY MarkedAreVerticals DEF AdapterInv, Types
<1>1. CASE StartRun
  <2>1. /\ steps' \in [Verticals -> Steps] /\ \A v \in Verticals : steps'[v] = "todo"
        /\ calls' = calls /\ resource' = resource /\ faults' = faults /\ running' = TRUE
    BY <1>1 DEF StartRun, Steps
  <2>2. \A c \in calls : c.held = "orphaned"
    BY <1>0, <1>1 DEF StartRun
  <2>3. Awaits(calls', steps')
    BY <2>1, <2>2 DEF Awaits
  <2>4. QED
    BY <1>0, <2>1, <2>3 DEF AdapterInv, Types, TestedIsOurs
<1>2. CASE EndRun
  BY <1>0, <1>2 DEF EndRun, AdapterInv, Types, TestedIsOurs
<1>3. CASE Kill
  <2> DEFINE orphan(c) == [c EXCEPT !.held = "orphaned"]
  <2>1. PICK survivors \in SUBSET { c \in calls : c.phase = "deploy" } :
          calls' = { c \in calls : c.held = "orphaned" } \cup { orphan(c) : c \in survivors }
    BY <1>3 DEF Kill
  <2>2. \A c \in Child : orphan(c) \in Child /\ orphan(c).held = "orphaned"
    BY DEF Child
  <2>3. calls' \subseteq Child /\ \A c \in calls' : c.held = "orphaned"
    <3> HIDE DEF orphan
    <3>1. survivors \subseteq Child
      BY <1>0
    <3>2. QED
      BY <1>0, <2>1, <2>2, <3>1
  <2>4. /\ steps' \in [Verticals -> Steps]
        /\ \A v \in Verticals : steps'[v] \in {"green", "red", "todo"}
        /\ resource' = resource /\ running' = FALSE
    BY <1>0, <1>3 DEF Kill, Steps
  <2>5. faults' \in 0..Faults
    BY <1>0, <1>3, FaultIsBounded DEF Kill
  <2>6. Awaits(calls', steps') /\ OneChild(calls')
    BY <2>3, <2>4 DEF Awaits, OneChild
  <2>7. TestedIsOurs'
    BY <1>0, <2>4 DEF TestedIsOurs
  <2>8. QED
    BY <1>0, <2>3, <2>4, <2>5, <2>6, <2>7 DEF AdapterInv, Types
<1>4. CASE Reset
  <2>1. /\ resource' \in [Verticals -> [owner : {"none", "stack", "other"}, state : States]]
        /\ \A v \in Verticals : resource'[v].owner = "none"
    BY <1>4 DEF Reset, NoResource, States, UsableStates
  <2>2. UNCHANGED <<calls, steps, running, faults>>
    BY <1>4 DEF Reset
  <2>3. QED
    BY <1>0, <2>1, <2>2 DEF AdapterInv, Types, TestedIsOurs
<1>5. ASSUME NEW v \in Verticals, Verify(v) PROVE AdapterInv'
  <2>1. steps[v] = "todo" /\ running /\ running' = running /\ resource' = resource /\ faults' = faults
    BY <1>5 DEF Verify, Turn
  <2>2. \A c \in calls : ~(c.vertical = v /\ c.held = "awaited")
    BY <1>0, <2>1 DEF Awaits
  <2>3. CASE isPresent(v)
    <3> DEFINE s == IF v \in Marked THEN "prove" ELSE "sdk"
    <3>1. Went(v, s) /\ calls' = calls /\ s \in Steps \ {"provision"}
      BY <1>5, <2>3 DEF Verify, Steps
    <3>2. Awaits(calls', steps')
      BY <2>1, <3>1, StepAside
    <3>3. /\ steps' \in [Verticals -> Steps] /\ steps'[v] = s
          /\ \A w \in Verticals \ {v} : steps'[w] = steps[w]
      BY <1>0, <3>1, WentIsTyped
    <3>4. TestedIsOurs'
      BY <1>0, <2>1, <3>3 DEF TestedIsOurs
    <3>5. QED
      BY <1>0, <2>1, <3>1, <3>2, <3>3, <3>4 DEF AdapterInv, Types
  <2>4. CASE ~isPresent(v)
    <3> DEFINE child == [vertical |-> v, phase |-> "bootstrap", held |-> "awaited"]
    <3>1. Went(v, "provision") /\ calls' = calls \cup {child}
      BY <1>5, <2>4 DEF Verify
    <3>2. child \in Child /\ child.vertical = v /\ child.held = "awaited"
      BY DEF Child
    <3> HIDE DEF child
    <3>3. /\ steps' \in [Verticals -> Steps] /\ steps'[v] = "provision"
          /\ \A w \in Verticals \ {v} : steps'[w] = steps[w]
      BY <1>0, <3>1, WentIsTyped DEF Steps
    <3>4. Awaits(calls', steps')
      BY <1>0, <3>1, <3>2, <3>3 DEF Awaits
    <3>5. OneChild(calls')
      BY <1>0, <2>2, <3>1, <3>2 DEF OneChild
    <3>6. TestedIsOurs'
      BY <1>0, <2>1, <3>3 DEF TestedIsOurs
    <3>7. QED
      BY <1>0, <2>1, <3>1, <3>2, <3>3, <3>4, <3>5, <3>6 DEF AdapterInv, Types
  <2>5. QED
    BY <2>3, <2>4
<1>6. ASSUME NEW v \in Verticals, NEW s \in Steps \ {"provision"}, steps[v] # "provision",
             Went(v, s), UNCHANGED <<resource, calls, running>>, faults' \in 0..Faults,
             v \in Marked /\ s \in {"sdk", "cli"} => resource[v].owner \in {"stack", "none"}
      PROVE  AdapterInv'
  <2>1. Awaits(calls', steps')
    BY <1>6, StepAside
  <2>2. /\ steps' \in [Verticals -> Steps] /\ steps'[v] = s
        /\ \A w \in Verticals \ {v} : steps'[w] = steps[w]
    BY <1>0, <1>6, WentIsTyped
  <2>3. TestedIsOurs'
    BY <1>0, <1>6, <2>2 DEF TestedIsOurs
  <2>4. QED
    BY <1>0, <1>6, <2>1, <2>2, <2>3 DEF AdapterInv, Types
<1>7. ASSUME NEW v \in Verticals, RequestFails(v) PROVE AdapterInv'
  <2>1. steps[v] # "provision" /\ Went(v, "red") /\ UNCHANGED <<resource, calls, running>>
    BY <1>7 DEF RequestFails, Turn
  <2>2. faults' \in 0..Faults
    BY <1>0, <1>7, FaultIsBounded DEF RequestFails
  <2>3. QED
    BY <1>6, <2>1, <2>2 DEF Steps
<1>8. ASSUME NEW v \in Verticals, Prove(v) PROVE AdapterInv'
  <2>1. /\ steps[v] # "provision" /\ UNCHANGED <<resource, calls, running, faults>>
        /\ Went(v, IF hasProvenanceMarker(resource[v]) THEN "sdk" ELSE "red")
    BY <1>8 DEF Prove
  <2>2. QED
    BY <1>0, <1>6, <2>1 DEF Steps, hasProvenanceMarker
<1>9. ASSUME NEW v \in Verticals, OraclePasses(v) PROVE AdapterInv'
  <2>1. /\ steps[v] \in {"sdk", "cli"} /\ UNCHANGED <<resource, calls, running, faults>>
        /\ Went(v, IF steps[v] = "sdk" THEN "cli" ELSE "green")
    BY <1>9 DEF OraclePasses
  <2>2. v \in Marked => resource[v].owner \in {"stack", "none"}
    BY <1>0, <2>1 DEF TestedIsOurs
  <2>3. QED
    BY <1>0, <1>6, <2>1, <2>2 DEF Steps
<1>10. ASSUME NEW v \in Verticals, OracleFails(v) PROVE AdapterInv'
  <2>1. /\ steps[v] \in {"sdk", "cli"} /\ UNCHANGED <<resource, calls, running, faults>>
        /\ Went(v, "red")
    BY <1>10 DEF OracleFails
  <2>2. QED
    BY <1>0, <1>6, <2>1 DEF Steps
<1>11. ASSUME NEW v \in Verticals, TimeOut(v) PROVE AdapterInv'
  <2> DEFINE let(c) == IF c.vertical = v /\ c.held = "awaited"
                       THEN [c EXCEPT !.held = "adrift"] ELSE c
  <2>1. /\ running /\ running' = running /\ resource' = resource /\ Went(v, "red")
        /\ calls' = { let(c) : c \in calls }
    BY <1>11 DEF TimeOut
  <2>2. faults' \in 0..Faults
    BY <1>0, <1>11, FaultIsBounded DEF TimeOut
  <2>3. /\ steps' \in [Verticals -> Steps] /\ steps'[v] = "red"
        /\ \A w \in Verticals \ {v} : steps'[w] = steps[w]
    BY <1>0, <2>1, WentIsTyped DEF Steps
  <2>4. \A c \in Child : /\ let(c) \in Child /\ let(c).vertical = c.vertical
                         /\ let(c).held = "awaited" <=> c.held = "awaited" /\ c.vertical # v
                         /\ let(c).held = "awaited" => let(c) = c
    BY DEF Child
  <2> HIDE DEF let
  <2>5. calls' \subseteq Child /\ OneChild(calls')
    BY <1>0, <2>1, <2>4 DEF OneChild
  <2>6. Awaits(calls', steps')
    <3>1. \A w \in Verticals :
            (\E c \in calls' : c.vertical = w /\ c.held = "awaited") <=>
            (w # v /\ \E c \in calls : c.vertical = w /\ c.held = "awaited")
      BY <1>0, <2>1, <2>4
    <3>2. QED
      BY <1>0, <2>3, <3>1 DEF Awaits
  <2>7. TestedIsOurs'
    BY <1>0, <2>1, <2>3 DEF TestedIsOurs
  <2>8. QED
    BY <1>0, <2>1, <2>2, <2>3, <2>5, <2>6, <2>7 DEF AdapterInv, Types
<1>12. ASSUME NEW v \in Verticals, NEW r \in [owner : {"none", "stack", "other"}, state : States],
              resource' = [resource EXCEPT ![v] = r],
              UNCHANGED <<calls, steps, running>>, faults' \in 0..Faults,
              r.owner \in {"none", "stack"} \/ steps[v] \notin {"sdk", "cli"}
       PROVE  AdapterInv'
  <2>1. /\ resource' \in [Verticals -> [owner : {"none", "stack", "other"}, state : States]]
        /\ resource'[v] = r /\ \A w \in Verticals \ {v} : resource'[w] = resource[w]
    BY <1>0, <1>12
  <2>2. TestedIsOurs'
    BY <1>0, <1>12, <2>1 DEF TestedIsOurs
  <2>3. QED
    BY <1>0, <1>12, <2>1, <2>2 DEF AdapterInv, Types
<1>13. ASSUME NEW v \in Verticals, NEW s \in StatesOf[v], resource[v].owner = "stack",
              resource' = [resource EXCEPT ![v].state = s],
              UNCHANGED <<calls, steps, running, faults>>
       PROVE  AdapterInv'
  <2>1. s \in States
    BY <1>13, StatesAreStates
  <2>2. resource' = [resource EXCEPT ![v] = [owner |-> "stack", state |-> s]]
    <3>1. resource[v] \in [owner : {"none", "stack", "other"}, state : States]
      BY <1>0
    <3>2. [resource[v] EXCEPT !.state = s] = [owner |-> "stack", state |-> s]
      BY <1>13, <3>1
    <3>3. resource' = [resource EXCEPT ![v] = [resource[v] EXCEPT !.state = s]]
      BY <1>13
    <3>4. QED
      BY <3>2, <3>3
  <2>3. QED
    BY <1>0, <1>12, <1>13, <2>1, <2>2
<1>14. ASSUME NEW v \in Verticals, Settle(v) PROVE AdapterInv'
  BY <1>13, <1>14 DEF Settle
<1>15. ASSUME NEW v \in Verticals, Occupy(v) PROVE AdapterInv'
  <2>1. PICK s \in StatesOf[v] :
          resource' = [resource EXCEPT ![v] = [owner |-> "other", state |-> s]]
    BY <1>15 DEF Occupy
  <2>2. faults' \in 0..Faults
    BY <1>0, <1>15, FaultIsBounded DEF Occupy
  <2>3. [owner |-> "other", state |-> s] \in [owner : {"none", "stack", "other"}, state : States]
    BY <2>1, StatesAreStates
  <2>4. QED
    BY <1>12, <1>15, <2>1, <2>2, <2>3 DEF Occupy
<1>16. ASSUME NEW c \in Child, Bootstrapped(c) PROVE AdapterInv'
  <2> DEFINE d == [c EXCEPT !.phase = "deploy"]
  <2>1. /\ c \in calls /\ calls' = (calls \ {c}) \cup {d}
        /\ UNCHANGED <<resource, steps, running, faults>>
    BY <1>16 DEF Bootstrapped
  <2>2. d \in Child /\ d.vertical = c.vertical /\ d.held = c.held
    BY DEF Child
  <2> HIDE DEF d
  <2>3. Awaits(calls', steps') /\ OneChild(calls') /\ calls' \subseteq Child
    BY <1>0, <2>1, <2>2 DEF Awaits, OneChild
  <2>4. ~running' => \A e \in calls' : e.held = "orphaned"
    BY <1>0, <2>1, <2>2
  <2>5. QED
    BY <1>0, <2>1, <2>3, <2>4 DEF AdapterInv, Types, TestedIsOurs
<1>17. ASSUME NEW c \in Child, DeployActs(c) PROVE AdapterInv'
  <2>1. c.vertical \in Verticals /\ UNCHANGED <<calls, steps, running>>
    BY <1>17 DEF DeployActs, Child
  <2>2. CASE \E s \in StatesOf[c.vertical] :
               /\ resource' = [resource EXCEPT ![c.vertical] = [owner |-> "stack", state |-> s]]
               /\ UNCHANGED faults
    <3>1. PICK s \in StatesOf[c.vertical] :
            /\ resource' = [resource EXCEPT ![c.vertical] = [owner |-> "stack", state |-> s]]
            /\ UNCHANGED faults
      BY <2>2
    <3>2. [owner |-> "stack", state |-> s] \in [owner : {"none", "stack", "other"}, state : States]
      BY <2>1, <3>1, StatesAreStates
    <3>3. QED
      BY <1>0, <1>12, <2>1, <3>1, <3>2
  <2>3. CASE resource' = [resource EXCEPT ![c.vertical] = NoResource] /\ Fault
    <3>1. NoResource \in [owner : {"none", "stack", "other"}, state : States]
          /\ NoResource.owner = "none"
      BY DEF NoResource, States, UsableStates
    <3>2. faults' \in 0..Faults
      BY <1>0, <2>3, FaultIsBounded
    <3>3. QED
      BY <1>12, <2>1, <2>3, <3>1, <3>2
  <2>4. QED
    BY <1>17, <2>2, <2>3 DEF DeployActs
<1>18. ASSUME NEW c \in Child, DeployFinishes(c) PROVE AdapterInv'
  <2>1. c.vertical \in Verticals
    BY DEF Child
  <2>2. QED
    BY <1>13, <1>18, <2>1 DEF DeployFinishes
<1>19. ASSUME NEW c \in Child, CdkSucceeds(c) PROVE AdapterInv'
  <2> DEFINE v == c.vertical
             s == IF v \in Marked THEN "prove" ELSE "sdk"
  <2>1. /\ c \in calls /\ calls' = calls \ {c} /\ UNCHANGED <<resource, running, faults>>
        /\ IF c.held = "awaited" THEN Went(v, s) ELSE UNCHANGED steps
    BY <1>19 DEF CdkSucceeds
  <2>2. s \in Steps \ {"provision"}
    BY DEF Steps
  <2>3. v \in Marked => s \notin {"sdk", "cli"}
    OBVIOUS
  <2> HIDE DEF s
  <2>4. /\ Awaits(calls', steps') /\ OneChild(calls') /\ calls' \subseteq Child
        /\ steps' \in [Verticals -> Steps]
        /\ \A w \in Verticals : steps'[w] = steps[w] \/ (w = v /\ steps'[w] = s)
        /\ ~running' => \A d \in calls' : d.held = "orphaned"
    BY <2>1, <2>2, ChildGone
  <2>5. TestedIsOurs'
    BY <1>0, <2>1, <2>3, <2>4 DEF TestedIsOurs
  <2>6. QED
    BY <1>0, <2>1, <2>4, <2>5 DEF AdapterInv, Types
<1>20. ASSUME NEW c \in Child, CdkFails(c) PROVE AdapterInv'
  <2>1. /\ c \in calls /\ calls' = calls \ {c} /\ UNCHANGED <<resource, running>>
        /\ IF c.held = "awaited" THEN Went(c.vertical, "red") ELSE UNCHANGED steps
    BY <1>20 DEF CdkFails
  <2>2. faults' \in 0..Faults
    BY <1>0, <1>20, FaultIsBounded DEF CdkFails
  <2>3. "red" \in Steps \ {"provision"}
    BY DEF Steps
  <2>4. /\ Awaits(calls', steps') /\ OneChild(calls') /\ calls' \subseteq Child
        /\ steps' \in [Verticals -> Steps]
        /\ \A w \in Verticals : steps'[w] = steps[w] \/ (w = c.vertical /\ steps'[w] = "red")
        /\ ~running' => \A d \in calls' : d.held = "orphaned"
    BY <2>1, <2>3, ChildGone
  <2>5. TestedIsOurs'
    BY <1>0, <2>1, <2>4 DEF TestedIsOurs
  <2>6. QED
    BY <1>0, <2>1, <2>2, <2>4, <2>5 DEF AdapterInv, Types
<1>21. CASE UNCHANGED vars
  BY <1>0, <1>21 DEF vars, AdapterInv, Types, TestedIsOurs
<1>22. QED
  BY <1>1, <1>2, <1>3, <1>4, <1>5, <1>7, <1>8, <1>9, <1>10, <1>11, <1>14, <1>15,
     <1>16, <1>17, <1>18, <1>19, <1>20, <1>21 DEF Next

LEMMA AdapterAlways == Spec => []AdapterInv
BY AdapterInit, AdapterStep, PTL DEF Spec

(* The variables keep their types, and a test waits for a child exactly    *)
(* while it provisions.                                                    *)
THEOREM AdapterTypeCorrect == Spec => []TypeOK
BY AdapterAlways, InvIsTyped, PTL

(* A vertical with a marker turns green on its own stack's resource.       *)
THEOREM GreenIsOfItsStack == Spec => GreenIsOurs
<1>1. ASSUME AdapterInv, [Next]_vars,
             NEW v \in Marked, steps[v] # "green", steps'[v] = "green"
      PROVE  resource[v].owner = "stack"
  <2>1. steps \in [Verticals -> Steps] /\ calls \subseteq Child /\ v \in Verticals
    BY <1>1, MarkedAreVerticals DEF AdapterInv, Types
  <2>2. \A w \in Verticals : \A s : Went(w, s) => steps'[v] \in {steps[v], s}
    BY <2>1 DEF Went
  <2>3. steps'[v] # steps[v]
    BY <1>1
  <2>4. PICK w \in Verticals : OraclePasses(w)
    <3>1. CASE StartRun \/ EndRun \/ Kill \/ Reset
      BY <1>1, <2>1, <3>1 DEF StartRun, EndRun, Kill, Reset
    <3>2. ASSUME NEW w \in Verticals,
                 \/ Verify(w) \/ RequestFails(w) \/ TimeOut(w) \/ Prove(w)
                 \/ OracleFails(w) \/ Settle(w) \/ Occupy(w)
          PROVE  FALSE
      BY <1>1, <2>2, <3>2
      DEF Verify, RequestFails, TimeOut, Prove, OracleFails, Settle, Occupy
    <3>3. ASSUME NEW c \in Child,
                 \/ Bootstrapped(c) \/ DeployActs(c) \/ DeployFinishes(c)
                 \/ CdkSucceeds(c) \/ CdkFails(c)
          PROVE  FALSE
      <4>1. c.vertical \in Verticals
        BY DEF Child
      <4>2. QED
        BY <1>1, <2>2, <3>3, <4>1
        DEF Bootstrapped, DeployActs, DeployFinishes, CdkSucceeds, CdkFails
    <3>4. CASE UNCHANGED vars
      BY <2>3, <3>4 DEF vars
    <3>5. QED
      BY <1>1, <3>1, <3>2, <3>3, <3>4 DEF Next
  <2>5. v = w
    BY <2>1, <2>3, <2>4 DEF OraclePasses, Went
  <2>6. steps[v] \in {"sdk", "cli"} /\ resource[v].owner # "none"
    BY <2>4, <2>5 DEF OraclePasses
  <2>7. QED
    BY <1>1, <2>6 DEF AdapterInv, TestedIsOurs
<1>2. AdapterInv /\ [Next]_vars =>
        [\A v \in Marked :
           steps[v] # "green" /\ steps'[v] = "green" => resource[v].owner = "stack"]_vars
  BY <1>1
<1>3. QED
  BY <1>2, AdapterAlways, PTL DEF Spec, GreenIsOurs

================================================================================
