---------------------------- MODULE PinSitesProofs ----------------------------
(***************************************************************************)
(* What the drift guard guarantees of a tree, for any number of sites and  *)
(* digests.                                                                *)
(***************************************************************************)
EXTENDS PinSites, TLAPS

LEMMA RegistryIsASite == Registry \in Sites /\ N + 1 \in 1..(N + 1) /\ N \in Nat
BY PinSitesAssumption DEF PinSitesAssumption, Registry, Sites

(* A tree the guard passes carries the registry's digest and no other.     *)
LEMMA GuardMeansAgreement ==
  ASSUME NEW tree \in Trees, driftGuard(tree)
  PROVE  /\ \A s \in Sites : tree[s] \subseteq tree[Registry]
         /\ \A digest \in tree[Registry] : tree[Registry] = {digest}
<1>1. PICK digest \in Digests \cup {NoDigest} : pinsFound(tree) = {digest}
  BY DEF driftGuard
<1>2. \A s \in Sites : tree[s] \subseteq {digest} /\ tree[s] \subseteq Digests
  BY <1>1 DEF pinsFound, Content, Trees
<1>3. CASE tree[Registry] = {}
  <2>1. digest = NoDigest BY <1>1, <1>3 DEF pinsFound
  <2>2. \A s \in Sites : tree[s] = {}
    BY <1>2, <2>1, PinSitesAssumption DEF PinSitesAssumption
  <2> QED BY <2>2, RegistryIsASite
<1>4. CASE tree[Registry] # {}
  <2>1. tree[Registry] = {digest} BY <1>2, <1>4, RegistryIsASite
  <2> QED BY <1>2, <2>1
<1> QED BY <1>3, <1>4

(* The guard passes a tree all of whose pins are the registry's.           *)
LEMMA AgreementMeansGuard ==
  ASSUME NEW tree \in Trees, NEW digest \in Digests,
         tree[Registry] = {digest}, \A s \in Sites : tree[s] \subseteq {digest}
  PROVE  driftGuard(tree)
<1>1. UNION { tree[s] : s \in Sites } = {digest} BY RegistryIsASite
<1>2. pinsFound(tree) = {digest} BY <1>1 DEF pinsFound
<1> QED BY <1>2 DEF driftGuard

(* A tree the guard passes has one digest, or none, in its registry file,  *)
(* and no other pin anywhere.                                              *)
THEOREM AgreeingTrees ==
  \A tree \in Agreeing :
    /\ tree \in Trees
    /\ \A s \in Sites : tree[s] \subseteq tree[Registry]
    /\ \A digest \in tree[Registry] : tree[Registry] = {digest}
BY GuardMeansAgreement DEF Agreeing

================================================================================
