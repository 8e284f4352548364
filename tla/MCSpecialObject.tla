-------------------------- MODULE MCSpecialObject --------------------------
(* Small instances of SpecialObject for TLC.                               *)
EXTENDS SpecialObject, TLC

CONSTANTS o1, o2, s1, s2, p1, p2

MCSymmetry == Permutations({o1, o2}) \cup Permutations({s1, s2}) \cup Permutations({p1, p2})
=============================================================================
