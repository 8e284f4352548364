---------------------------- MODULE MCBlockGraph ----------------------------
(* BlockGraph for all functions of some instructions, and some longer ones. *)
EXTENDS BlockGraph, FiniteSets

CONSTANTS
    Tried,      \* bound: the instructions of which all functions are tried,
    Longest     \* bound: and how many instructions those functions have

MCOps == {"plain", "jump", "branch", "switch", "catch", "operand", "rlimits", "return"}
MCArgs == {"none"}

Shapes(n) ==
    [op : Tried \cap {"jump", "branch", "catch"}, to : {<<i>> : i \in 1 .. n}, arg : MCArgs]
       \cup [op : Tried \cap {"plain", "operand", "rlimits", "return"}, to : {<<>>}, arg : MCArgs]
       \cup [op : Tried \cap {"switch"}, to : {<<i, n>> : i \in 1 .. n}, arg : MCArgs]

goesTo(o, t) == [op |-> o, to |-> t, arg |-> "none"]
op(o) == goesTo(o, <<>>)
goes(o, i) == goesTo(o, <<i>>)

(* A loop with a catch in it, that is left from within; catches in one     *)
(* another; a switch with cases in common.                                 *)
Chosen == {
    <<op("plain"), goes("branch", 10), goes("catch", 9), op("operand"), goes("branch", 8),
      op("return"), op("return"), op("return"), goes("jump", 1), op("return")>>,
    <<goes("catch", 9), op("operand"), goes("catch", 8), op("operand"), op("rlimits"), op("return"),
      op("return"), op("return"), op("return")>>,
    <<goes("catch", 10), op("operand"), goes("branch", 9), goes("catch", 3), op("operand"),
      goes("branch", 6), op("return"), goes("jump", 3), op("return"), op("return")>>,
    <<goesTo("switch", <<5, 2, 3, 2>>), op("plain"), goes("jump", 5), op("plain"),
      goes("branch", 1), goes("jump", 7), goes("jump", 2)>>}

MCPrograms ==
    {p \in UNION {[1 .. n -> Shapes(n)] : n \in 1 .. Longest} : WellFormed(p) /\ Balanced(WithCaught(p))} \cup Chosen
=============================================================================
