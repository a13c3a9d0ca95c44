---------------------------- MODULE PinFanOutProofs ----------------------------
(***************************************************************************)
(* Theorems about PinFanOut, for any number of pin sites and digests, and  *)
(* whatever is bumped by hand or interrupted in between.                   *)
(***************************************************************************)
EXTENDS PinFanOut, PinSitesProofs

--------------------------------------------------------------------------------
planned(s) == substituteDigest(run.read[s], run.old, run.new)

(* How far a run has got: what it has passed is as planned, what lies      *)
(* ahead is as it was read, and the file in hand may be empty.             *)
Progress ==
  /\ run.pc = "resolve" => run.old \in sites[Registry]
  /\ run.pc \in {"write", "fill"} =>
       /\ run.read[Registry] = {run.old}
       /\ \A s \in Sites : s < run.next => sites[s] = planned(s)
       /\ \A s \in Sites : s > run.next => sites[s] = run.read[s]
  /\ run.pc = "write" =>
       \A s \in Sites : s = run.next => sites[s] = run.read[s]
  /\ run.pc = "fill" => run.next \in Sites

(* The registry file has one digest or none.                               *)
OneInRegistry ==
  \A tree \in {sites, committed} : \A d, e \in Digests :
    d \in tree[Registry] /\ e \in tree[Registry] => d = e

FanOutInv == TypeOK /\ OneInRegistry /\ Progress

LEMMA SubstitutionType ==
  ASSUME NEW content \in Content, NEW old, NEW new \in Digests
  PROVE  substituteDigest(content, old, new) \in Content
BY DEF substituteDigest, Content

LEMMA IdleType == Idle \in [pc : {"idle", "resolve", "write", "fill"},
                            old : Digests \cup {NoDigest},
                            new : Digests \cup {NoDigest},
                            read : [Sites -> Content], next : 1..(N + 1)]
BY RegistryIsASite DEF Idle, Blank, Content, Registry

LEMMA FanOutInvariant == Spec => []FanOutInv
<1>1. Init => FanOutInv
  <2> SUFFICES ASSUME Init PROVE FanOutInv OBVIOUS
  <2>1. {First} \in Content /\ First \in Digests
    BY FanOutAssumption DEF FanOutAssumption, PinSitesAssumption, Content
  <2>2. run.pc = "idle" /\ run = Idle BY DEF Init, Idle
  <2>3. TypeOK BY <2>1, <2>2, IdleType DEF Init, TypeOK
  <2>4. OneInRegistry
    BY RegistryIsASite DEF Init, OneInRegistry
  <2> QED BY <2>2, <2>3, <2>4 DEF FanOutInv, Progress
<1>2. FanOutInv /\ [Next]_vars => FanOutInv'
  <2> SUFFICES ASSUME FanOutInv, [Next]_vars PROVE FanOutInv' OBVIOUS
  <2> USE RegistryIsASite
  <2>0. TypeOK /\ OneInRegistry /\ Progress BY DEF FanOutInv
  <2>1. CASE ReadPin
    <3>1. PICK old \in sites[Registry] :
            run' = [run EXCEPT !.pc = "resolve", !.old = old]
      BY <2>1 DEF ReadPin
    <3>2. old \in Digests BY <2>0 DEF TypeOK, Content
    <3>3. TypeOK' BY <2>1, <2>0, <3>1, <3>2 DEF ReadPin, TypeOK
    <3>4. Progress' BY <2>1, <2>0, <3>1 DEF ReadPin, Progress, TypeOK
    <3> QED BY <2>1, <2>0, <3>3, <3>4
        DEF ReadPin, FanOutInv, OneInRegistry
  <2>2. CASE ReadPinFails
    BY <2>2, <2>0
    DEF ReadPinFails, FanOutInv, TypeOK, OneInRegistry, Progress,
        planned
  <2>3. CASE Resolve
    <3>1. run' = [run EXCEPT !.pc = "write", !.new = served, !.read = sites,
                             !.next = Registry]
      BY <2>3 DEF Resolve
    <3>2. TypeOK'
      <4>1. run.old \in Digests /\ served \in Digests /\ Registry \in 1..(N + 1)
        BY <2>3, <2>0 DEF Resolve, TypeOK, Registry
      <4>2. run' = [pc |-> "write", old |-> run.old, new |-> served,
                    read |-> sites, next |-> Registry]
        BY <2>0, <3>1 DEF TypeOK
      <4> QED BY <2>3, <2>0, <4>1, <4>2 DEF Resolve, TypeOK
    <3>3. sites[Registry] = {run.old}
      BY <2>3, <2>0 DEF Resolve, Progress, OneInRegistry, TypeOK, Content
    <3>4. Progress'
      BY <2>3, <2>0, <3>1, <3>3 DEF Resolve, Progress, TypeOK, Registry, Sites
    <3> QED BY <2>3, <2>0, <3>2, <3>4
        DEF Resolve, FanOutInv, OneInRegistry
  <2>4. CASE ResolveFails
    <3>1. TypeOK' BY <2>4, <2>0, IdleType DEF ResolveFails, TypeOK, Idle
    <3> QED BY <2>4, <2>0, <3>1
        DEF ResolveFails, Idle, FanOutInv, OneInRegistry, Progress
  <2>5. CASE PassSite
    <3>1. run' = [run EXCEPT !.next = @ + 1] /\ UNCHANGED sites
      BY <2>5 DEF PassSite
    <3>2. run.next \in Nat /\ run.next + 1 \in 1..(N + 1)
      BY <2>5, <2>0 DEF PassSite, TypeOK, Sites
    <3>3. TypeOK' BY <2>5, <2>0, <3>1, <3>2 DEF PassSite, TypeOK
    <3>4. sites[run.next] = planned(run.next)
      BY <2>5, <2>0 DEF PassSite, Progress, planned, substituteDigest
    <3>5. Progress'
      BY <2>5, <2>0, <3>1, <3>2, <3>4
      DEF PassSite, Progress, TypeOK, planned, Sites
    <3> QED BY <2>5, <2>0, <3>3, <3>5
        DEF PassSite, FanOutInv, OneInRegistry
  <2>6. CASE Truncate
    <3>1. /\ run' = [run EXCEPT !.pc = "fill"]
          /\ sites' = [sites EXCEPT ![run.next] = {}]
          /\ run.next \in Sites /\ run.pc = "write"
      BY <2>6 DEF Truncate
    <3>2. TypeOK' BY <2>6, <2>0, <3>1 DEF Truncate, TypeOK, Content
    <3>3. OneInRegistry' BY <2>6, <2>0, <3>1 DEF Truncate, OneInRegistry, TypeOK
    <3>4. Progress'
      BY <2>0, <3>1 DEF Progress, TypeOK, planned, Sites
    <3> QED BY <2>6, <2>0, <3>2, <3>3, <3>4
        DEF Truncate, FanOutInv
  <2>7. CASE Fill
    <3>1. /\ run' = [run EXCEPT !.pc = "write", !.next = @ + 1]
          /\ sites' = [sites EXCEPT ![run.next] = planned(run.next)]
          /\ run.next \in Sites /\ run.pc = "fill"
      BY <2>7, <2>0 DEF Fill, planned, Progress
    <3>2. planned(run.next) \in Content
      BY <2>0, <3>1, SubstitutionType DEF TypeOK, planned
    <3>3. run.next \in Nat /\ run.next + 1 \in 1..(N + 1)
      BY <3>1 DEF Sites
    <3>4. TypeOK'
      <4>1. sites' \in [Sites -> Content] BY <2>0, <3>1, <3>2 DEF TypeOK
      <4>2. run' = [pc |-> "write", old |-> run.old, new |-> run.new,
                    read |-> run.read, next |-> run.next + 1]
        BY <2>0, <3>1 DEF TypeOK
      <4>3. UNCHANGED <<committed, served, outcome>> BY <2>7 DEF Fill
      <4> QED BY <2>0, <3>1, <3>3, <4>1, <4>2, <4>3 DEF TypeOK
    <3>5. Progress'
      BY <2>0, <3>1, <3>3 DEF Progress, TypeOK, planned, Sites
    <3>6. OneInRegistry'
      <4>1. planned(Registry) = {run.new}
        BY <2>0, <3>1 DEF Progress, planned, substituteDigest
      <4>2. sites'[Registry] = {run.new} \/ sites'[Registry] = sites[Registry]
        BY <2>0, <3>1, <4>1 DEF TypeOK
      <4>3. \A d, e \in Digests :
              d \in sites'[Registry] /\ e \in sites'[Registry] => d = e
        BY <2>0, <4>2 DEF OneInRegistry
      <4>4. committed' = committed BY <2>7 DEF Fill
      <4> QED BY <2>0, <4>3, <4>4 DEF OneInRegistry
    <3> QED BY <2>7, <2>0, <3>4, <3>5, <3>6 DEF Fill, FanOutInv
  <2>8. CASE Verify
    <3>1. TypeOK' BY <2>8, <2>0, IdleType DEF Verify, TypeOK, Idle
    <3> QED BY <2>8, <2>0, <3>1
        DEF Verify, Idle, FanOutInv, OneInRegistry, Progress
  <2>9. CASE Crash
    <3>1. TypeOK' BY <2>9, <2>0, IdleType DEF Crash, TypeOK, Idle
    <3> QED BY <2>9, <2>0, <3>1
        DEF Crash, Idle, FanOutInv, OneInRegistry, Progress
  <2>10. ASSUME NEW site \in Sites, NEW digest \in Digests, HandBump(site, digest)
         PROVE  FanOutInv'
    <3>1. PICK kept \in {{}, sites[site]} :
            /\ site = Registry => kept = {}
            /\ sites' = [sites EXCEPT ![site] = kept \cup {digest}]
      BY <2>10 DEF HandBump
    <3>2. kept \cup {digest} \in Content BY <2>0 DEF TypeOK, Content
    <3>3. TypeOK' BY <2>10, <2>0, <3>1, <3>2 DEF HandBump, TypeOK
    <3>4. OneInRegistry' BY <2>10, <2>0, <3>1 DEF HandBump, OneInRegistry, TypeOK
    <3> QED BY <2>10, <2>0, <3>3, <3>4
        DEF HandBump, FanOutInv, Progress
  <2>11. CASE Restore
    <3>1. TypeOK' BY <2>11, <2>0 DEF Restore, TypeOK
    <3>2. OneInRegistry' 
      BY <2>11, <2>0 DEF Restore, OneInRegistry
    <3> QED BY <2>11, <2>0, <3>1, <3>2
        DEF Restore, FanOutInv, Progress
  <2>12. CASE Land
    <3>1. TypeOK' BY <2>12, <2>0 DEF Land, TypeOK
    <3> QED BY <2>12, <2>0, <3>1
        DEF Land, FanOutInv, OneInRegistry, Progress
  <2>13. CASE Republish
    BY <2>13, <2>0
    DEF Republish, FanOutInv, TypeOK, OneInRegistry, Progress,
        planned
  <2>14. CASE UNCHANGED vars
    BY <2>14, <2>0
    DEF vars, FanOutInv, TypeOK, OneInRegistry, Progress, planned
  <2> QED
    BY <2>1, <2>2, <2>3, <2>4, <2>5, <2>6, <2>7, <2>8, <2>9, <2>10, <2>11,
       <2>12, <2>13, <2>14
    DEF Next
<1> QED BY <1>1, <1>2, PTL DEF Spec

--------------------------------------------------------------------------------
(* The updater's state is always well-typed.                               *)
THEOREM FanOutTypeCorrect == Spec => []TypeOK
<1>1. FanOutInv => TypeOK BY DEF FanOutInv
<1> QED BY <1>1, FanOutInvariant, PTL

(* At the end of the writes every site is as planned.                      *)
LEMMA AllWritten ==
  ASSUME FanOutInv, Verify
  PROVE  /\ \A s \in Sites : sites[s] = planned(s)
         /\ run.read[Registry] = {run.old} /\ sites[Registry] = {run.new}
         /\ run.old \in Digests /\ run.new \in Digests
<1>1. run.pc = "write" /\ run.next = N + 1 BY DEF Verify
<1>2. \A s \in Sites : s < run.next
  BY <1>1, FanOutAssumption DEF Sites, FanOutAssumption, PinSitesAssumption
<1>3. \A s \in Sites : sites[s] = planned(s)
  BY <1>1, <1>2 DEF FanOutInv, Progress
<1>4. run.read[Registry] = {run.old} BY <1>1 DEF FanOutInv, Progress
<1>5. planned(Registry) = {run.new} BY <1>4 DEF planned, substituteDigest
<1> QED BY <1>1, <1>3, <1>4, <1>5, RegistryIsASite DEF FanOutInv, TypeOK

(* Success is reported by Verify alone.                                    *)
LEMMA OnlyVerifySucceeds ==
  ASSUME [Next]_vars, outcome # "ok", outcome' = "ok"
  PROVE  Verify /\ driftGuard(sites)
BY DEF Next, ReadPin, ReadPinFails, Resolve, ResolveFails, PassSite, Truncate,
       Fill, Verify, Crash, HandBump, Restore, Land, Republish, vars

(* A run that reports success has moved every pin it read to what it       *)
(* resolved, and lost none.                                                *)
THEOREM SuccessMeansLanded == Spec => OkMeansLanded
<1>1. FanOutInv /\ [Next]_vars =>
        (outcome # "ok" /\ outcome' = "ok" =>
           /\ sites[Registry] = {run.new}
           /\ \A s \in Sites :
                /\ sites[s] \subseteq {run.new}
                /\ run.read[s] # {} => sites[s] = {run.new})
  <2> SUFFICES ASSUME FanOutInv, [Next]_vars, outcome # "ok", outcome' = "ok"
               PROVE  /\ sites[Registry] = {run.new}
                      /\ \A s \in Sites :
                           /\ sites[s] \subseteq {run.new}
                           /\ run.read[s] # {} => sites[s] = {run.new}
    OBVIOUS
  <2>1. Verify /\ driftGuard(sites) BY OnlyVerifySucceeds
  <2>2. sites[Registry] = {run.new} BY <2>1, AllWritten
  <2>3. \A s \in Sites : sites[s] \subseteq sites[Registry]
    BY <2>1, GuardMeansAgreement DEF FanOutInv, TypeOK, Trees
  <2>4. ASSUME NEW s \in Sites, run.read[s] # {}
        PROVE  sites[s] # {}
    BY <2>1, <2>4, AllWritten DEF planned, substituteDigest
  <2> QED BY <2>2, <2>3, <2>4
<1> QED BY <1>1, FanOutInvariant, PTL DEF Spec, OkMeansLanded

(* A run that starts from an agreeing tree and is not killed succeeds.     *)
THEOREM AgreeingTreeSucceeds == Spec => AgreeingTreeBumps
<1>1. FanOutInv /\ [Next]_vars =>
        (run.pc = "write" /\ run'.pc = "idle" /\ driftGuard(run.read) =>
           outcome' \in {"ok", "crashed"})
  <2> SUFFICES ASSUME FanOutInv, [Next]_vars, run.pc = "write",
                      run'.pc = "idle", driftGuard(run.read)
               PROVE  outcome' \in {"ok", "crashed"}
    OBVIOUS
  <2>0. TypeOK BY DEF FanOutInv
  <2>1. CASE Crash BY <2>1 DEF Crash
  <2>2. CASE Verify
    <3>1. \A s \in Sites : run.read[s] \subseteq {run.old}
      BY <2>0, <2>2, AllWritten, GuardMeansAgreement DEF TypeOK, Trees
    <3>2. \A s \in Sites : sites[s] \subseteq {run.new}
      BY <2>2, <3>1, AllWritten DEF planned, substituteDigest
    <3>3. driftGuard(sites)
      BY <2>0, <2>2, <3>2, AllWritten, AgreementMeansGuard DEF TypeOK, Trees
    <3> QED BY <2>2, <3>3 DEF Verify
  <2>3. CASE PassSite \/ Truncate \/ (UNCHANGED run)
    BY <2>0, <2>3 DEF PassSite, Truncate, TypeOK
  <2> QED
    BY <2>1, <2>2, <2>3
    DEF Next, ReadPin, ReadPinFails, Resolve, ResolveFails, Fill, HandBump,
        Restore, Land, Republish, vars
<1> QED BY <1>1, FanOutInvariant, PTL DEF Spec, AgreeingTreeBumps

================================================================================
