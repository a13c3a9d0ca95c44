----------------------------- MODULE MCCompatDrift -----------------------------
(* Small instances of CompatDrift for TLC.                                 *)
EXTENDS CompatDrift

(* A branch that is bumped by half, and one whose registry file lost its   *)
(* digest.                                                                 *)
MCHalfBumped == {[s \in Sites |-> IF s = Registry THEN {"d2"} ELSE {"d1"}]}
MCLostDigest == {[s \in Sites |-> IF s = Registry THEN {} ELSE {"d1"}]}
================================================================================
