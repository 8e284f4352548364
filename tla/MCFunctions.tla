----------------------------- MODULE MCFunctions -----------------------------
(* Functions for the analyses, as the host's compiler makes them of small  *)
(* statements; a jump has the distance to its target until all are put     *)
(* together.                                                               *)
EXTENDS Integers, Sequences

MCVars == {"x", "y", "p"}
MCOps == {"push", "load", "store", "assign", "index", "index2", "rangeto", "spread", "call", "rlimits",
          "stores", "storesvar", "storesitem",
          "jump", "branch", "switch", "catch", "operand", "return"}
MCTypes == {"nil", "int", "float", "string", "array", "mixed"}
MCArgs == [ins : STRING, v : MCVars \cup {"none"}, type : MCTypes, n : Nat, pop : BOOLEAN, size : Nat, line : Nat]
MCParams == {"p"}
MCDeclared == [v \in MCVars |-> IF v \in MCParams THEN "int" ELSE "nil"]

I(op, ins, size) ==
    [op |-> op, to |-> <<>>,
     arg |-> [ins |-> ins, v |-> "none", type |-> "nil", n |-> 0, pop |-> FALSE, size |-> size, line |-> 0]]
typed(ins, t) == [ins EXCEPT !.arg.type = t]
var(ins, v) == [ins EXCEPT !.arg.v = v]
many(ins, n) == [ins EXCEPT !.arg.n = n]
pop(ins) == [ins EXCEPT !.arg.pop = TRUE]
by(ins, d) == [ins EXCEPT !.to = <<d>>]

Pushes == [nil |-> "NIL", int |-> "INT", float |-> "FLOAT", string |-> "STRING", array |-> "AGGREGATE", mixed |-> "GLOBAL"]
Push(t) == typed(I("push", Pushes[t], 2), t)
Load(v) == var(I("load", "LOCAL", 2), v)
Store(v) == var(I("store", "STORE_LOCAL", 2), v)
Jump(d) == by(I("jump", "JUMP", 3), d)
Branch(d) == by(I("branch", "JUMP_ZERO", 3), d)
BranchIf(d) == by(I("branch", "JUMP_NONZERO", 3), d)
Return == I("return", "RETURN", 1)
Kfun(f, n, t) == typed(many(I("call", f, 2), n), t)
Calling(n, t) == typed(many(I("call", "KFUNC", 3), n), t)

Set(v, t) == <<Push(t), pop(Store(v))>>
Copy(v, w) == <<Load(w), pop(Store(v))>>
Call == <<pop(Calling(0, "mixed"))>>
Ret(depth) == <<Push("nil")>> \o [i \in 1 .. depth + 1 |-> Return]
If(s) == <<Push("mixed"), Branch(Len(s) + 1)>> \o s
IfElse(s, t) == <<Push("mixed"), Branch(Len(s) + 2)>> \o s \o <<Jump(Len(t) + 1)>> \o t
IfVar(v, s) == <<Load(v), Branch(Len(s) + 1)>> \o s
While(s) == <<Push("mixed"), Branch(Len(s) + 2)>> \o s \o <<Jump(- Len(s) - 2)>>
DoWhile(s) == s \o <<Push("mixed"), BranchIf(- Len(s) - 1)>>
Forever(s) == s \o <<Jump(- Len(s))>>
Catch(s) == <<by(I("catch", "CATCH", 3), Len(s) + 3), pop(I("operand", "CAUGHT", 0))>> \o s \o <<Return>>

(* Conditional values, on the stack or not.                                *)
Choice(a, b) == <<Push("mixed"), Branch(3), a, Jump(2), b>>

Linked(s) ==
    [i \in 1 .. Len(s) |-> [s[i] EXCEPT !.to = [j \in 1 .. Len(@) |-> i + @[j]], !.arg.line = 1 + i \div 4]]

(* A switch, with the distances to the default and to the cases.           *)
Cases(ins, value, to) == <<value, [I("switch", ins, 9) EXCEPT !.to = to]>>

Simple(depth) == {Set("x", "int"), Set("x", "string"), Copy("y", "x"), Call, Ret(depth)}

(* Statements of so many levels, in so many catches of at most most; the   *)
(* compiler leaves out what follows a return.                              *)
RECURSIVE Statements(_, _, _)
Statements(level, depth, most) ==
    IF level = 0 THEN Simple(depth)
    ELSE LET inner == Statements(level - 1, depth, most)
         IN  Simple(depth) \cup {If(s) : s \in inner} \cup {While(s) : s \in inner}
               \cup {s \o t : s \in Simple(depth) \ {Ret(depth)}, t \in inner}
               \cup (IF depth < most THEN {Catch(s) : s \in Statements(level - 1, depth + 1, most)} ELSE {})

Function(s) == Linked(Set("x", "int") \o s \o Copy("y", "x") \o Ret(0))
=============================================================================
