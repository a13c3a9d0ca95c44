---------------------------- MODULE VerifyOrProvision ----------------------------
(***************************************************************************)
(* The deploy adapters of the compatibility verticals, services/*/iac/cdk/ *)
(* deploy.ts, under the integration tests that call them: one test file    *)
(* after the other (`jest --runInBand`) verifies that its resource is up,  *)
(* provisions it with the cdk CLI if it is not, proves whose it is and     *)
(* runs its two oracles against it.  The emulator outlives the runs: it is *)
(* reset between them, or not; a test that gives up on its deploy does not *)
(* stop the cdk child, and a run that is killed may leave it behind.       *)
(*                                                                         *)
(* Of a resource the model keeps who made it and what the emulator says of *)
(* its state.  The requests of the oracles, the test data they put, read   *)
(* and delete, and the stacks' other resources are left out.               *)
(***************************************************************************)
EXTENDS Naturals

CONSTANTS
  Verticals,   \* of the three that exist
  StatesOf,    \* what the emulator may answer about each one's resource
  Faults       \* bound: kills, time-outs, failures, foreigners

BrokenStates == {"Failed", "Inactive", "DELETING", "5xx"}
TransientStates == {"Pending", "CREATING"}
UsableStates == {"Active", "ACTIVE", "2xx", ""}

(* A function whose last update failed may still answer.                   *)
States == BrokenStates \cup TransientStates \cup UsableStates \cup {"UpdateFailed"}

VerifyOrProvisionAssumption ==
  /\ Verticals \subseteq {"lambda", "dynamodb", "s3"}
  /\ StatesOf \in [Verticals -> SUBSET States]
  /\ Faults \in Nat

ASSUME VerifyOrProvisionAssumption

VARIABLES
  resource,   \* what the emulator has under the vertical's name
  calls,      \* cdk children: awaited by their test, adrift in a run whose
              \* test gave up, orphaned by a run that is gone
  steps,      \* how far each vertical's test came in the last run
  running,
  faults

vars == <<resource, calls, steps, running, faults>>

--------------------------------------------------------------------------------
(* What the emulator answers.                                              *)

NoResource == [owner |-> "none", state |-> ""]

isFunctionConfigHealthy(r) == r.state \notin {"Failed", "Inactive", "UpdateFailed"}
isTableHealthy(r) == r.state # "DELETING"
isBucketHeadHealthy(r) == r.state \in {"2xx", ""}

(* The description, the partition key only the vertical's construct gives. *)
hasProvenanceMarker(r) == r.owner = "stack"

isFunctionPresent(r) == isFunctionConfigHealthy(r) /\ hasProvenanceMarker(r)
isTablePresent(r) == isTableHealthy(r) /\ hasProvenanceMarker(r)
isBucketPresent(r) == r # NoResource /\ isBucketHeadHealthy(r)

(* Whatever carries the marker is taken.                                   *)
MutIsPresent(v) ==
  \/ v \in {"lambda", "dynamodb"} /\ hasProvenanceMarker(resource[v])
  \/ v = "s3" /\ isBucketPresent(resource[v])

isPresent(v) ==
  \/ v = "lambda" /\ isFunctionPresent(resource[v])
  \/ v = "dynamodb" /\ isTablePresent(resource[v])
  \/ v = "s3" /\ isBucketPresent(resource[v])

(* A bucket carries no marker.                                             *)
Marked == Verticals \ {"s3"}

--------------------------------------------------------------------------------
Init ==
  /\ resource = [v \in Verticals |-> NoResource]
  /\ calls = {}
  /\ steps = [v \in Verticals |-> "todo"]
  /\ running = FALSE
  /\ faults = 0

Fault == faults < Faults /\ faults' = faults + 1
Went(v, step) == steps' = [steps EXCEPT ![v] = step]

(* `npm run test:integration`.                                             *)
StartRun ==
  /\ ~running
  /\ running' = TRUE
  /\ steps' = [v \in Verticals |-> "todo"]
  /\ UNCHANGED <<resource, calls, faults>>

(* One test file at a time.                                                *)
Turn(v) ==
  /\ running /\ steps[v] = "todo"
  /\ \A w \in Verticals : steps[w] \in {"todo", "green", "red"}

Verify(v) ==
  /\ Turn(v)
  /\ IF isPresent(v)
     THEN /\ Went(v, IF v \in Marked THEN "prove" ELSE "sdk")
          /\ UNCHANGED calls
     ELSE /\ Went(v, "provision")
          /\ calls' = calls \cup {[vertical |-> v, phase |-> "bootstrap", held |-> "awaited"]}
  /\ UNCHANGED <<resource, running, faults>>

(* Only "not found" means absent, any other answer throws.                 *)
RequestFails(v) ==
  /\ Turn(v) \/ (running /\ steps[v] = "prove")
  /\ Went(v, "red")
  /\ Fault
  /\ UNCHANGED <<resource, calls, running>>

(* The adapter goes on to deploy, even when nobody waits for it any more.  *)
Bootstrapped(c) ==
  /\ c \in calls /\ c.phase = "bootstrap"
  /\ calls' = (calls \ {c}) \cup {[c EXCEPT !.phase = "deploy"]}
  /\ UNCHANGED <<resource, steps, running, faults>>

(* What a deploy does to the resource: it is created, in whatever state;   *)
(* brought into use; taken over from its owner; rolled back.               *)
DeployActs(c) ==
  /\ c \in calls /\ c.phase = "deploy"
  /\ LET v == c.vertical IN
     \/ /\ resource[v].owner \in {"none", "other"}
        /\ \E s \in StatesOf[v] :
             resource' = [resource EXCEPT ![v] = [owner |-> "stack", state |-> s]]
        /\ UNCHANGED faults
     \/ /\ resource[v].owner = "stack"
        /\ resource' = [resource EXCEPT ![v] = NoResource]
        /\ Fault
  /\ UNCHANGED <<calls, steps, running>>

DeployFinishes(c) ==
  /\ c \in calls /\ c.phase = "deploy"
  /\ LET v == c.vertical IN
     /\ resource[v].owner = "stack" /\ resource[v].state \notin UsableStates
     /\ \E s \in StatesOf[v] \cap UsableStates :
          resource' = [resource EXCEPT ![v].state = s]
  /\ UNCHANGED <<calls, steps, running, faults>>

(* A resource on its way becomes usable on its own.                        *)
Settle(v) ==
  /\ resource[v].owner = "stack" /\ resource[v].state \in TransientStates
  /\ \E s \in StatesOf[v] \cap UsableStates : resource' = [resource EXCEPT ![v].state = s]
  /\ UNCHANGED <<calls, steps, running, faults>>

(* The child exits with success: its own resource is usable, or it leaves  *)
(* somebody else's alone.                                                  *)
CdkSucceeds(c) ==
  /\ c \in calls /\ c.phase = "deploy"
  /\ resource[c.vertical].owner # "none"
  /\ resource[c.vertical].owner = "stack" => resource[c.vertical].state \in UsableStates
  /\ calls' = calls \ {c}
  /\ IF c.held = "awaited"
     THEN Went(c.vertical, IF c.vertical \in Marked THEN "prove" ELSE "sdk")
     ELSE UNCHANGED steps
  /\ UNCHANGED <<resource, running, faults>>

CdkFails(c) ==
  /\ c \in calls
  /\ calls' = calls \ {c}
  /\ IF c.held = "awaited" THEN Went(c.vertical, "red") ELSE UNCHANGED steps
  /\ Fault
  /\ UNCHANGED <<resource, running>>

(* The test is over, its child is not told.                                *)
MutTimeOut(v) ==
  /\ running /\ steps[v] = "provision"
  /\ Went(v, "red")
  /\ Fault
  /\ UNCHANGED <<resource, calls, running>>

(* `beforeAll` gives up after five minutes; the child is not stopped.      *)
TimeOut(v) ==
  /\ running /\ steps[v] = "provision"
  /\ Went(v, "red")
  /\ calls' = { IF c.vertical = v /\ c.held = "awaited" THEN [c EXCEPT !.held = "adrift"] ELSE c :
                c \in calls }
  /\ Fault
  /\ UNCHANGED <<resource, running>>

(* What was deployed is trusted.                                           *)
MutProve(v) ==
  /\ running /\ steps[v] = "prove"
  /\ Went(v, "sdk")
  /\ UNCHANGED <<resource, calls, running, faults>>

Prove(v) ==
  /\ running /\ steps[v] = "prove"
  /\ Went(v, IF hasProvenanceMarker(resource[v]) THEN "sdk" ELSE "red")
  /\ UNCHANGED <<resource, calls, running, faults>>

(* The oracles see the behaviour, not the owner.                           *)
OraclePasses(v) ==
  /\ running /\ steps[v] \in {"sdk", "cli"}
  /\ resource[v].owner # "none" /\ resource[v].state \notin BrokenStates
  /\ Went(v, IF steps[v] = "sdk" THEN "cli" ELSE "green")
  /\ UNCHANGED <<resource, calls, running, faults>>

OracleFails(v) ==
  /\ running /\ steps[v] \in {"sdk", "cli"}
  /\ resource[v].owner # "stack" \/ resource[v].state \notin UsableStates
  /\ Went(v, "red")
  /\ UNCHANGED <<resource, calls, running, faults>>

(* Jest does not exit before its children have.                            *)
EndRun ==
  /\ running /\ \A v \in Verticals : steps[v] \in {"green", "red"}
  /\ \A c \in calls : c.held = "orphaned"
  /\ running' = FALSE
  /\ UNCHANGED <<resource, calls, steps, faults>>

(* Children that are deploying may survive.                                *)
Kill ==
  /\ running
  /\ running' = FALSE
  /\ steps' = [v \in Verticals |-> IF steps[v] \in {"green", "red"} THEN steps[v] ELSE "todo"]
  /\ \E survivors \in SUBSET { c \in calls : c.phase = "deploy" } :
       calls' = { c \in calls : c.held = "orphaned" }
                \cup { [c EXCEPT !.held = "orphaned"] : c \in survivors }
  /\ Fault
  /\ UNCHANGED resource

(* `POST /_ministack/reset`, between runs.                                 *)
Reset ==
  /\ ~running
  /\ resource' = [v \in Verticals |-> NoResource]
  /\ UNCHANGED <<calls, steps, running, faults>>

(* Somebody else takes a name that is free -- though not while a vertical  *)
(* that was provisioned under it is being tested.                          *)
Occupy(v) ==
  /\ resource[v].owner = "none" /\ steps[v] \notin {"sdk", "cli"}
  /\ \E s \in StatesOf[v] : resource' = [resource EXCEPT ![v] = [owner |-> "other", state |-> s]]
  /\ Fault
  /\ UNCHANGED <<calls, steps, running>>

Child == [vertical : Verticals, phase : {"bootstrap", "deploy"},
          held : {"awaited", "adrift", "orphaned"}]

Next ==
  \/ StartRun \/ EndRun \/ Kill \/ Reset
  \/ \E v \in Verticals :
       \/ Verify(v) \/ RequestFails(v) \/ TimeOut(v) \/ Prove(v)
       \/ OraclePasses(v) \/ OracleFails(v) \/ Settle(v) \/ Occupy(v)
  \/ \E c \in Child :
       \/ Bootstrapped(c) \/ DeployActs(c) \/ DeployFinishes(c)
       \/ CdkSucceeds(c) \/ CdkFails(c)

Spec == Init /\ [][Next]_vars

(* Runs are started, what a process waits for comes; a deploy finishes     *)
(* some day, however often the emulator is reset under it.                 *)
Fairness ==
  /\ WF_vars(StartRun) /\ WF_vars(EndRun)
  /\ \A v \in Verticals :
       /\ WF_vars(Verify(v)) /\ WF_vars(Prove(v))
       /\ WF_vars(OraclePasses(v) \/ OracleFails(v))
       /\ WF_vars(\E c \in Child : c.vertical = v /\ Bootstrapped(c))
       /\ WF_vars(\E c \in Child : c.vertical = v /\ DeployActs(c))
       /\ SF_vars(Settle(v) \/ \E c \in Child : c.vertical = v /\ DeployFinishes(c))
       /\ SF_vars(\E c \in Child : c.vertical = v /\ CdkSucceeds(c))

FairSpec == Spec /\ Fairness

--------------------------------------------------------------------------------
(* A test waits for its child exactly while it provisions.                 *)
TypeOK ==
  /\ resource \in [Verticals -> [owner : {"none", "stack", "other"}, state : States]]
  /\ calls \subseteq Child
  /\ steps \in [Verticals -> {"todo", "provision", "prove", "sdk", "cli", "green", "red"}]
  /\ running \in BOOLEAN /\ faults \in 0..Faults
  /\ \A v \in Verticals :
       steps[v] = "provision" <=> \E c \in calls : c.vertical = v /\ c.held = "awaited"

(* "the oracle can no longer green against a resource the harness didn't   *)
(* create" (test/integration/services/dynamodb.test.ts:29-30): a marked    *)
(* vertical turns green on a resource of its own stack, whoever took the   *)
(* name before, during or after the deploy, and whatever an orphan does.   *)
GreenIsOurs ==
  [][\A v \in Marked :
       steps[v] # "green" /\ steps'[v] = "green" => resource[v].owner = "stack"]_vars

(* "A prior run killed mid-deploy ... can leave a half-created function    *)
(* ... A caller that sees `false` re-provisions" (services/lambda/         *)
(* health.ts:13-17): every vertical is green again and again unless        *)
(* somebody else holds its name, whatever was left behind.                 *)
LeftoversAreRepaired ==
  \A v \in Verticals : []<>(steps[v] = "green" \/ resource[v].owner = "other")

================================================================================
