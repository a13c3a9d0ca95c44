------------------------------- MODULE PinSites -------------------------------
(***************************************************************************)
(* The files that pin the MiniStack image, and the drift guard that        *)
(* decides whether they agree (.github/scripts/check-ministack-digest-     *)
(* drift.sh).                                                              *)
(*                                                                         *)
(* A pin site is the set of the digests it carries: {} is a file without a *)
(* pin, such as one truncated and not yet written.  No line carries two.   *)
(***************************************************************************)
EXTENDS Naturals

CONSTANTS
  N,       \* pin sites, in the order of PIN_SITE_FILES
  Digests, \* legal image digests
  NoDigest \* what is read from a registry file without one

Sites == 1..N

(* services/_registry/ministack-pin.json, the source of the old digest.    *)
Registry == 1

PinSitesAssumption ==
  /\ N \in Nat \ {0}
  /\ NoDigest \notin Digests

ASSUME PinSitesAssumption

Content == SUBSET Digests

Trees == [Sites -> Content]

(* A tree with nothing left in its files.                                  *)
Blank == [s \in Sites |-> {}]

(* The digests the guard finds; a registry it cannot read a digest from    *)
(* counts as one that no other site has.                                   *)
pinsFound(tree) ==
  (UNION { tree[s] : s \in Sites })
    \cup (IF tree[Registry] = {} THEN {NoDigest} ELSE {})

(* Only the pins of the image reference, not the registry's field.         *)
MutDriftGuard(tree) ==
  \E digest \in Digests :
    UNION { tree[s] : s \in Sites \ {Registry} } \subseteq {digest}

(* Exactly one distinct digest.                                            *)
driftGuard(tree) ==
  \E digest \in Digests \cup {NoDigest} : pinsFound(tree) = {digest}

(* The trees the guard passes.                                             *)
Agreeing == {tree \in Trees : driftGuard(tree)}

================================================================================
