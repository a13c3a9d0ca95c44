------------------------------- MODULE PinFanOut -------------------------------
(***************************************************************************)
(* `mise run update:ministack`: the digest of the MiniStack image is moved *)
(* to what the registry serves now, in every file that pins it             *)
(* (scripts/update-ministack.mjs).  Files are written one after the other, *)
(* not atomically, and the tool may be killed at any point and run again.  *)
(* Its trees are merged when the drift guard of ci.yml passes them, which  *)
(* is practice: the ruleset of main does not require that job.             *)
(***************************************************************************)
EXTENDS PinSites

CONSTANT First \* the digest pinned to begin with

FanOutAssumption == PinSitesAssumption /\ First \in Digests

ASSUME FanOutAssumption

VARIABLES
  sites,      \* the pins in the working tree
  committed,  \* the pins on main
  served,     \* the digest the image registry serves for the tag
  run,        \* the updater
  outcome     \* how its last run ended

vars == <<sites, committed, served, run, outcome>>

Idle ==
  [pc |-> "idle", old |-> NoDigest, new |-> NoDigest,
   read |-> Blank, next |-> Registry]

--------------------------------------------------------------------------------
(* The first occurrence only.                                              *)
MutSubstituteDigest(content, old, new) ==
  IF old \in content THEN content \cup {new} ELSE content

(* Every occurrence of the old digest.                                     *)
substituteDigest(content, old, new) ==
  IF old \in content THEN (content \ {old}) \cup {new} ELSE content

--------------------------------------------------------------------------------
Init ==
  /\ sites = [s \in Sites |-> {First}]
  /\ committed = sites
  /\ served = First
  /\ run = Idle
  /\ outcome = "none"

(* What is read is not validated.                                          *)
MutReadPin ==
  /\ run.pc = "idle"
  /\ \E old \in sites[Registry] \cup {NoDigest} :
       run' = [run EXCEPT !.pc = "resolve", !.old = old]
  /\ outcome' = "running"
  /\ UNCHANGED <<sites, committed, served>>

(* The old digest is the registry file's.                                  *)
ReadPin ==
  /\ run.pc = "idle"
  /\ \E old \in sites[Registry] :
       run' = [run EXCEPT !.pc = "resolve", !.old = old]
  /\ outcome' = "running"
  /\ UNCHANGED <<sites, committed, served>>

(* ... and a file without one, or that is not JSON, ends the run.          *)
ReadPinFails ==
  /\ run.pc = "idle"
  /\ sites[Registry] = {}
  /\ outcome' = "failed"
  /\ UNCHANGED <<sites, committed, served, run>>

(* The new digest, and then what every file holds at this moment.          *)
Resolve ==
  /\ run.pc = "resolve"
  /\ run' = [run EXCEPT !.pc = "write", !.new = served, !.read = sites,
                        !.next = Registry]
  /\ UNCHANGED <<sites, committed, served, outcome>>

ResolveFails ==
  /\ run.pc = "resolve"
  /\ run' = Idle
  /\ outcome' = "failed"
  /\ UNCHANGED <<sites, committed, served>>

(* A file without the old digest is not written.                           *)
PassSite ==
  /\ run.pc = "write"
  /\ run.next \in Sites
  /\ run.old \notin run.read[run.next]
  /\ run' = [run EXCEPT !.next = @ + 1]
  /\ UNCHANGED <<sites, committed, served, outcome>>

(* writeFileSync truncates ...                                             *)
Truncate ==
  /\ run.pc = "write"
  /\ run.next \in Sites
  /\ run.old \in run.read[run.next]
  /\ sites' = [sites EXCEPT ![run.next] = {}]
  /\ run' = [run EXCEPT !.pc = "fill"]
  /\ UNCHANGED <<committed, served, outcome>>

(* ... and then writes.                                                    *)
Fill ==
  /\ run.pc = "fill"
  /\ sites' = [sites EXCEPT ![run.next] =
                 substituteDigest(run.read[run.next], run.old, run.new)]
  /\ run' = [run EXCEPT !.pc = "write", !.next = @ + 1]
  /\ UNCHANGED <<committed, served, outcome>>

Verify ==
  /\ run.pc = "write"
  /\ run.next = N + 1
  /\ outcome' = IF driftGuard(sites) THEN "ok" ELSE "failed"
  /\ run' = Idle
  /\ UNCHANGED <<sites, committed, served>>

Crash ==
  /\ run.pc # "idle"
  /\ run' = Idle
  /\ outcome' = "crashed"
  /\ UNCHANGED <<sites, committed, served>>

--------------------------------------------------------------------------------
(* The maintainer, while the tool does not run, and upstream.              *)

(* A site is bumped by hand: all of its pins, or only some of them; the    *)
(* registry file has one.                                                  *)
HandBump(site, digest) ==
  /\ run.pc = "idle"
  /\ \E kept \in {{}, sites[site]} :
       /\ site = Registry => kept = {}
       /\ sites' = [sites EXCEPT ![site] = kept \cup {digest}]
  /\ outcome' = "none"
  /\ UNCHANGED <<committed, served, run>>

(* `git restore`.                                                          *)
Restore ==
  /\ run.pc = "idle"
  /\ sites' = committed
  /\ outcome' = "none"
  /\ UNCHANGED <<committed, served, run>>

(* A pull request whose guard job is green is merged.                      *)
Land ==
  /\ run.pc = "idle"
  /\ driftGuard(sites)
  /\ committed' = sites
  /\ UNCHANGED <<sites, served, run, outcome>>

Republish ==
  /\ \E digest \in Digests : served' = digest
  /\ UNCHANGED <<sites, committed, run, outcome>>

Next ==
  \/ ReadPin \/ ReadPinFails \/ Resolve \/ ResolveFails
  \/ PassSite \/ Truncate \/ Fill \/ Verify
  \/ Crash
  \/ \E site \in Sites, digest \in Digests : HandBump(site, digest)
  \/ Restore \/ Land \/ Republish

Spec == Init /\ [][Next]_vars

--------------------------------------------------------------------------------
TypeOK ==
  /\ sites \in [Sites -> Content]
  /\ committed \in [Sites -> Content]
  /\ served \in Digests
  /\ run \in [pc : {"idle", "resolve", "write", "fill"},
             old : Digests \cup {NoDigest}, new : Digests \cup {NoDigest},
             read : [Sites -> Content], next : 1..(N + 1)]
  /\ run.pc # "idle" => run.old \in Digests
  /\ run.pc \in {"write", "fill"} => run.new \in Digests
  /\ outcome \in {"none", "running", "ok", "failed", "crashed"}

(* A run ends with success only on a tree whose registry file, and every   *)
(* pin left anywhere, is the digest it resolved -- also when it was started*)
(* on a half-bumped tree or after a run that was killed -- and no file that*)
(* pinned something when it was read has lost its pin on the way           *)
(* (update-ministack.mjs, applyAndVerify; the guard itself does not notice *)
(* a file without a pin).                                                  *)
OkMeansLanded ==
  [][ outcome # "ok" /\ outcome' = "ok" =>
        /\ sites[Registry] = {run.new}
        /\ \A s \in Sites :
             /\ sites[s] \subseteq {run.new}
             /\ run.read[s] # {} => sites[s] = {run.new} ]_vars

(* On a tree whose pins agreed when they were read, a run that gets to its *)
(* end passes the guard: "after update:ministack runs, check-ministack-    *)
(* digest-drift.sh MUST pass" (update-ministack.ts).                       *)
AgreeingTreeBumps ==
  [][ run.pc = "write" /\ run'.pc = "idle" /\ driftGuard(run.read) =>
        outcome' \in {"ok", "crashed"} ]_vars

================================================================================
