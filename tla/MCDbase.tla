------------------------------ MODULE MCDbase ------------------------------
(* Small instances of Dbase for TLC.                                       *)
EXTENDS Dbase, TLC

CONSTANTS i1, i2, a, b

MCSymmetry == Permutations({a, b})

(* A path with no digit in it.                                             *)
MCPlainPath == [k \in 0 .. 5 |-> <<>>]

(* A path like "g7.testdb": after one character comes a digit.             *)
MCDigitPath == [k \in 0 .. 5 |-> IF k = 1 THEN <<7>> ELSE <<>>]
=============================================================================
