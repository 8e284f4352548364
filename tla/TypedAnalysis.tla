---------------------------- MODULE TypedAnalysis ----------------------------
(* The types of variables and of what is on the stack, by typed.cpp: the   *)
(* blocks of a function are evaluated, with the types at the end of one    *)
(* that leads to them, until nothing changes.                              *)
(*                                                                         *)
(* arg of an instruction: its name ins, a variable v, a type, a number n   *)
(* of operands or stores, whether its result is popped, and its size in    *)
(* bytes.                                                                  *)
EXTENDS BlockGraph

CONSTANTS
    Vars,        \* parameters and local variables
    Declared     \* the types of the parameters; "nil" for a local variable

Types == {"nil", "int", "float", "string", "array", "mixed"}

ASSUME DeclaredAssumption == Declared \in [Vars -> Types]

VARIABLES
    ctx,         \* the TypedContext, with its stack and what is known of instructions and catches
    start, end,  \* of each block: the stack pointer at its start and its end,
    ends,        \* the types of variables at its end,
    fromVisit    \* and the edges that lead to it and bring something new

typedVars == <<ctx, start, end, ends, fromVisit>>
allVars == <<blockVars, typedVars>>

Unset == 65535        \* STACK_INVALID
Empty == 0            \* STACK_EMPTY

-----------------------------------------------------------------------------
(* nil is a value of the types from string on.                             *)
MergeType(s, t) ==
    CASE s = t -> s
      [] s = "nil" /\ t \in {"string", "array", "mixed"} -> t
      [] t = "nil" /\ s \in {"string", "array", "mixed"} -> s
      [] OTHER -> "mixed"

(* The stacks of all blocks are in one array, linked; a block that is      *)
(* evaluated again has its new types in alt, to be merged with the old.  A *)
(* value is popped by an instruction, or it has a copy in another stack.   *)
PushType(c, t) ==
    IF c.merging THEN [c EXCEPT !.alt = Append(@, t)]
    ELSE [c EXCEPT !.stack = Append(@, [type |-> t, next |-> c.sp, by |-> 0, ref |-> Empty]), !.sp = Len(c.stack) + 1]

TopType(c) == IF c.alt # <<>> THEN Top(c.alt) ELSE c.stack[c.sp].type
PopType(c, i) ==
    IF c.alt # <<>> THEN [c EXCEPT !.alt = Pop(@)]
    ELSE [c EXCEPT !.stack[c.sp].by = i, !.sp = c.stack[@].next]
PopTypes(c, n, i) ==
    LET P[j \in 0 .. n] == IF j = 0 THEN c ELSE PopType(P[j - 1], i)
    IN  P[n]
Indexed(c) == c.stack[c.stack[c.sp].next].type

(* The i-th element from a stack pointer on.                               *)
Nth(c, p, i) ==
    LET E[j \in 0 .. i] == IF j = 0 THEN p ELSE c.stack[E[j - 1]].next
    IN  E[i]
Depth(c, p) == CHOOSE d \in 0 .. Len(c.stack) : Nth(c, p, d) = Empty

(* types, the last one first, are merged into the stack from p on.         *)
MergeInto(c, p, types) ==
    LET M[j \in 0 .. Len(types)] ==
          IF j = 0 THEN c.stack
          ELSE [M[j - 1] EXCEPT ![Nth(c, p, j - 1)].type = MergeType(@, types[Len(types) - j + 1])]
    IN  [c EXCEPT !.stack = M[Len(types)]]

(* The stack as it is from p on, its last element first.                   *)
TypesFrom(c, p) ==
    LET d == Depth(c, p) IN [i \in 1 .. d |-> c.stack[Nth(c, p, d - i)].type]

Referred(c, p, q, d) ==
    [i \in DOMAIN c.stack |->
       IF \E j \in 0 .. d - 1 : Nth(c, p, j) = i
         THEN [c.stack[i] EXCEPT !.ref = Nth(c, q, CHOOSE j \in 0 .. d - 1 : Nth(c, p, j) = i)]
         ELSE c.stack[i]]

CopyStack(c, p) ==
    LET d == Depth(c, p)
        new == [i \in 1 .. d |-> [c.stack[Nth(c, p, d - i)] EXCEPT
                                     !.next = IF i = 1 THEN Empty ELSE Len(c.stack) + i - 1, !.ref = Empty]]
        copied == [c EXCEPT !.stack = @ \o new]
    IN  [copied EXCEPT !.stack = Referred(copied, p, Len(c.stack) + d, d)]

(* The types of another stack q, which p is a copy of.                     *)
MergeStack(c, p, q) ==
    LET merged == MergeInto(c, p, TypesFrom(c, q)) IN [merged EXCEPT !.stack = Referred(merged, q, p, Depth(c, p))]

(* What pops a value, in the end; and the type that it is kept off the     *)
(* stack with, if it is one of those that can be in a register.            *)
Consumer(p) ==
    LET C[q \in DOMAIN ctx.stack] ==
          IF ctx.stack[q].by # 0 \/ ctx.stack[q].ref = Empty THEN q ELSE C[ctx.stack[q].ref]
    IN  C[p]

Number == {"int", "float"}
IntKfuns == {"ADD_INT", "ADD1_INT", "AND_INT", "DIV_INT", "EQ_INT", "GE_INT", "GT_INT", "LE_INT", "LSHIFT_INT",
             "LT_INT", "MOD_INT", "MULT_INT", "NE_INT", "NEG_INT", "NOT_INT", "OR_INT", "RSHIFT_INT", "SUB_INT",
             "SUB1_INT", "TST_INT", "UMIN_INT", "XOR_INT"}
FloatKfuns == {"ADD_FLT", "ADD1_FLT", "DIV_FLT", "EQ_FLT", "GE_FLT", "GT_FLT", "LE_FLT", "LT_FLT", "MULT_FLT",
               "NE_FLT", "NOT_FLT", "SUB_FLT", "SUB1_FLT", "TST_FLT", "UMIN_FLT", "FABS", "FLOOR", "CEIL", "FMOD",
               "EXP", "LOG", "LOG10", "POW", "SQRT", "COS", "SIN", "TAN", "ACOS", "ASIN", "ATAN", "ATAN2",
               "COSH", "SINH", "TANH"}

OffStack(p) ==
    LET q == ctx.stack[Consumer(p)]
        i == q.by
        only(types) == IF q.type \in types THEN q.type ELSE "nil"
    IN  CASE i = 0 -> "nil"
          [] i # 0 /\ (code[i].op = "store" \/ code[i].arg.ins \in {"STORE_GLOBAL", "TOFLOAT", "TOINT", "LDEXP"}) -> only(Number)
          [] i # 0 /\ (code[i].op = "branch" \/ code[i].arg.ins \in {"SWITCH_INT", "SWITCH_RANGE"}) -> only({"int"})
          [] i # 0 /\ code[i].arg.ins \in IntKfuns -> "int"
          [] i # 0 /\ code[i].arg.ins \in FloatKfuns -> "float"
          [] OTHER -> "nil"

-----------------------------------------------------------------------------
(* A catch gets to know what is stored in it.                              *)
StoreVar_Unknown(c, v, t) == [c EXCEPT !.types[v] = t]
StoreVar(c, v, t) ==
    [c EXCEPT !.types[v] = t,
              !.mod = IF c.caught # 0 THEN [@ EXCEPT ![c.caught] = @ \cup {v}] ELSE @,
              !.list = IF c.caught # 0 /\ v \notin c.mod[c.caught] THEN Listed(c.caught, @) ELSE @]

StartCatch(c) == [c EXCEPT !.flags = @ \cup {next[cur]}]
ModCaught(c, b) == [c EXCEPT !.types = [v \in Vars |-> IF v \in c.mod[b] THEN "mixed" ELSE @[v]]]

LeaveCatch(c) ==
    LET outer == caught[c.caught]
    IN  [c EXCEPT !.mod = IF outer # 0 THEN [@ EXCEPT ![outer] = @ \cup c.mod[c.caught]] ELSE @,
                  !.list = IF outer # 0 /\ ~(c.mod[c.caught] \subseteq c.mod[outer]) THEN Listed(outer, @) ELSE @,
                  !.caught = outer]

EndStores(c) ==
    LET d == [c EXCEPT !.stores = @ - 1]
    IN  IF d.stores = 0 /\ ~d.discard THEN PushType(d, "array") ELSE d

(* TypedContext::merge(): where the stack is after an instruction is known *)
(* once it was evaluated.                                                  *)
Merge(c, i) ==
    IF c.top[i] = Unset THEN [c EXCEPT !.top[i] = c.sp]
    ELSE [MergeInto(c, c.top[i], c.alt) EXCEPT !.sp = c.top[i], !.alt = <<>>]

(* What an instruction does, but for those that branch or store many.      *)
Effect(c, i) ==
    LET op == code[i].op  a == code[i].arg
    IN  CASE op = "push" -> PushType(c, a.type)
          [] op = "load" -> PushType(c, c.types[a.v])
          [] op = "store" -> PushType(StoreVar(PopType(c, i), a.v, TopType(c)), TopType(c))
          [] op = "assign" -> PushType(PopTypes(c, a.n, i), TopType(c))
          [] op = "index" -> PushType(PopTypes(c, 2, i), IF Indexed(c) = "string" THEN "int" ELSE "mixed")
          [] op = "index2" -> PushType(c, IF Indexed(c) = "string" THEN "int" ELSE "mixed")
          [] op = "rangeto" -> PushType(PushType(PopType(c, i), "int"), TopType(c))
          [] op = "spread" -> [PopType(c, i) EXCEPT !.spread = 1]
          [] op = "call" -> PushType([PopTypes(c, a.n - c.spread, i) EXCEPT !.spread = 0], a.type)
          [] op = "catch" -> StartCatch(c)
          [] op = "caught" -> PushType(ModCaught(c, i), "string")
          [] op = "endcatch" -> LeaveCatch(c)
          [] op = "rlimits" -> PopTypes(c, 2, i)
          [] op = "return" -> PopType(c, i)
          [] OTHER -> c

EvaluateCode(c, i) ==
    LET op == code[i].op  a == code[i].arg
    IN  CASE op \in {"branch", "switch"} -> PopType(Merge(c, i), i)
          [] op = "stores" ->
               LET d == [Merge(PopType(c, i), i) EXCEPT !.stores = a.n, !.discard = a.pop]
               IN  IF a.n = 0 /\ ~a.pop THEN PushType(d, "array") ELSE d
          [] op = "storesvar" -> EndStores(Merge(StoreVar(c, a.v, a.type), i))
          [] op = "storesitem" -> EndStores(Merge(PopTypes(c, a.n, i), i))
          [] OTHER -> IF a.pop THEN PopType(Merge(Effect(c, i), i), 0) ELSE Merge(Effect(c, i), i)

-----------------------------------------------------------------------------
(* A block that several others lead to has a copy of the stack.            *)
Joins(b) == nFrom[b] > 1

(* prologue(): the types at the end of a block that leads to b.            *)
Prologue(b, f) ==
    LET c == [ctx EXCEPT !.types = ends[f], !.caught = caught[b]]
        p == CopyStack(c, end[f])
    IN  CASE start[b] = Unset /\ Joins(b) ->
               [p EXCEPT !.sp = IF end[f] = Empty THEN Empty ELSE Len(p.stack), !.merging = FALSE]
          [] start[b] = Unset /\ ~Joins(b) -> [c EXCEPT !.sp = end[f], !.merging = FALSE]
          [] start[b] # Unset /\ Joins(b) ->
               [MergeStack(c, start[b], end[f]) EXCEPT !.sp = start[b], !.merging = TRUE]
          [] OTHER -> [c EXCEPT !.sp = start[b]]

(* The blocks that follow b are told that something changed.               *)
EdgeOf(t, b) == CHOOSE j \in 1 .. nFrom[t] : from[t][j] = b /\ \A l \in 1 .. j - 1 : from[t][l] # b
Told(b, n) == {<<to[b][i], EdgeOf(to[b][i], b)>> : i \in 1 .. n}
ToldList(b, l) ==
    LET L[i \in 0 .. Len(to[b])] ==
          IF i = 0 THEN l
          ELSE IF to[b][i] = b \/ <<to[b][i], EdgeOf(to[b][i], b)>> \in fromVisit \cup Told(b, i - 1) THEN L[i - 1]
          ELSE Listed(to[b][i], L[i - 1])
    IN  L[Len(to[b])]

TypedInit ==
    /\ Init
    /\ ctx = [types |-> Declared, sp |-> Empty, stack |-> <<>>, alt |-> <<>>, merging |-> FALSE,
              caught |-> 0, flags |-> {}, mod |-> [b \in Addr |-> {}], top |-> [i \in Addr |-> Unset],
              stores |-> 0, discard |-> FALSE, spread |-> 0, list |-> <<>>]
    /\ start = [b \in Addr |-> IF b = 1 THEN Empty ELSE Unset]
    /\ end = [b \in Addr |-> Unset] /\ ends = [b \in Addr |-> Declared]
    /\ fromVisit = {}

(* evaluate(): the first block, and for what is on the list the edges that *)
(* bring something new.                                                    *)
EvaluateFirst ==
    /\ phase = "graph"
    /\ phase' = "types" /\ cur' = 1 /\ at' = 1
    /\ UNCHANGED <<graph, typedVars, list, k, here, handler>>

Scanned == at > last[cur]
News(b) == {j \in 1 .. nFrom[b] : <<b, j>> \in fromVisit}

EvaluateNext ==
    /\ phase = "types" /\ Scanned /\ News(cur) # {}
    /\ LET j == CHOOSE j \in News(cur) : \A l \in News(cur) : j <= l
       IN  /\ ctx' = Prologue(cur, from[cur][j])
           /\ fromVisit' = fromVisit \ {<<cur, j>>}
    /\ start' = [start EXCEPT ![cur] = ctx'.sp]
    /\ at' = cur
    /\ UNCHANGED <<graph, end, ends, phase, list, cur, k, here, handler>>

VisitTyped ==
    /\ phase = "types" /\ Scanned /\ News(cur) = {}
    /\ NextVisit("typed") /\ at' = N + 1
    /\ UNCHANGED <<graph, typedVars, here, handler>>

Changed(c, types) == end[cur] = Unset \/ c.sp # Empty \/ types # ends[cur]

(* evaluateTypes() of the block, one instruction at a time; the types at   *)
(* its end are merged with those of before.                                *)
EvaluateInstruction ==
    /\ phase = "types" /\ ~Scanned
    /\ LET c == EvaluateCode([ctx EXCEPT !.list = list], at)
           types == IF end[cur] = Unset THEN c.types ELSE [v \in Vars |-> MergeType(ends[cur][v], c.types[v])]
           changed == Changed(c, types)
       IN  IF at < last[cur]
             THEN /\ ctx' = [c EXCEPT !.list = <<>>] /\ list' = c.list
                  /\ UNCHANGED <<end, ends, fromVisit>>
             ELSE /\ ctx' = [c EXCEPT !.list = <<>>, !.types = types]
                  /\ end' = IF changed THEN [end EXCEPT ![cur] = c.sp] ELSE end
                  /\ ends' = IF changed THEN [ends EXCEPT ![cur] = types] ELSE ends
                  /\ fromVisit' = IF changed THEN fromVisit \cup Told(cur, Len(to[cur])) ELSE fromVisit
                  /\ list' = IF changed THEN ToldList(cur, c.list) ELSE c.list
    /\ at' = at + 1
    /\ UNCHANGED <<graph, start, phase, cur, k, here, handler>>

TypedNext ==
    \/ Next /\ UNCHANGED typedVars
    \/ EvaluateFirst \/ EvaluateNext \/ EvaluateInstruction \/ VisitTyped

TypedSpec == TypedInit /\ [][TypedNext]_allVars /\ WF_allVars(TypedNext)

-----------------------------------------------------------------------------
(* What the interpreter does: the instruction that is next, the catches    *)
(* (with their handlers and the depth of the stack) and rlimits that it is *)
(* in, and the values in variables and on the stack: of some kind, and     *)
(* from some instruction.  An array that is spread or stored from is held. *)
Kinds(t) ==
    CASE t \in {"nil", "int", "float"} -> {t}
      [] t \in {"string", "array"} -> {t, "nil"}
      [] OTHER -> {"nil", "int", "float", "string", "array"}

(* The kinds that are tried for values of a type.                          *)
Tries(t) == IF t = "mixed" THEN {"nil", "int", "string"} ELSE Kinds(t)
Values(kinds, i) == {<<kind, i>> : kind \in kinds}

Starts == {[i |-> 1, contexts |-> <<>>, vars |-> [v \in Vars |-> <<kinds[v], 0>>], stack |-> <<>>,
            stores |-> 0, discard |-> FALSE, spread |-> 0, held |-> <<"nil", 0>>] :
             kinds \in {f \in [Vars -> UNION {Tries(Declared[v]) : v \in Vars}] :
                          \A v \in Vars : f[v] \in Tries(Declared[v])}}

Rest(s, n) == SubSeq(s, 1, Len(s) - n)

(* Only strings and arrays can be indexed.                                 *)
Elements(value) ==
    CASE value[1] = "string" -> {"int"}
      [] value[1] = "array" -> Tries("mixed")
      [] OTHER -> {}

(* After an instruction, before its result is popped or it goes on.        *)
Results(e) ==
    LET op == code[e.i].op  a == code[e.i].arg
        then(stacks) == {[e EXCEPT !.stack = st] : st \in stacks}
        pushed(n, kinds) == then({Append(Rest(e.stack, n), value) : value \in Values(kinds, e.i)})
        holding == [e EXCEPT !.stack = Pop(@), !.held = Top(e.stack)]
    IN  CASE op = "push" -> pushed(0, Tries(a.type))
          [] op = "load" -> then({Append(e.stack, e.vars[a.v])})
          [] op = "store" -> {[e EXCEPT !.vars[a.v] = Top(e.stack)]}
          [] op = "assign" -> then({Append(Rest(e.stack, a.n), Top(e.stack))})
          [] op = "index" -> pushed(2, Elements(Top(Pop(e.stack))))
          [] op = "index2" -> pushed(0, Elements(Top(Pop(e.stack))))
          [] op = "rangeto" -> then({Pop(e.stack) \o <<<<"int", e.i>>, Top(e.stack)>>})
          [] op = "spread" -> {[holding EXCEPT !.spread = 1]}
          [] op = "call" -> {[f EXCEPT !.spread = 0] : f \in pushed(a.n - e.spread, Tries(a.type))}
          [] op = "caught" -> pushed(0, {"string"})
          [] op = "rlimits" -> then({Rest(e.stack, 2)})
          [] op = "return" -> then({Pop(e.stack)})
          [] op = "stores" -> {[holding EXCEPT !.stores = a.n, !.discard = a.pop]}
          [] op = "storesvar" -> {[e EXCEPT !.vars[a.v] = value, !.stores = @ - 1] : value \in Values(Tries(a.type), e.i)}
          [] op = "storesitem" -> {[e EXCEPT !.stack = Rest(@, a.n), !.stores = @ - 1]}
          [] OTHER -> {e}

Storing == {"stores", "storesvar", "storesitem"}

GoesOn(f) ==
    LET op == code[f.i].op  a == code[f.i].arg
        left == IF op \in Storing THEN (IF f.stores = 0 /\ ~f.discard THEN Append(f.stack, f.held) ELSE f.stack)
                ELSE IF a.pop THEN Pop(f.stack) ELSE f.stack
        at_(i) == [f EXCEPT !.i = i, !.stack = left]
        popped(i) == [f EXCEPT !.i = i, !.stack = Pop(@)]
    IN  CASE op = "catch" -> {[f EXCEPT !.i = @ + 2, !.contexts = Append(@, <<f.i + 1, Len(f.stack)>>)]}
          [] op \in {"jump", "caught"} -> {at_(code[f.i].to[1])}
          [] op = "switch" -> {popped(i) : i \in Targets(code, f.i)}
          [] op = "branch" -> {popped(f.i + 1), popped(code[f.i].to[1])}
          [] op = "rlimits" -> {[at_(f.i + 1) EXCEPT !.contexts = Append(@, <<0, 0>>)]}
          [] op \in {"endcatch", "endrlimits"} -> {[at_(f.i + 1) EXCEPT !.contexts = Pop(@)]}
          [] op = "return" -> {}
          [] OTHER -> {at_(f.i + 1)}

(* Calls and the like may fail: the innermost catch takes over.            *)
Fails(e) ==
    LET catches == {j \in 1 .. Len(e.contexts) : e.contexts[j][1] # 0}
        j == CHOOSE j \in catches : \A l \in catches : l <= j
    IN  IF code[e.i].op \in {"call", "index", "index2"} /\ catches # {}
          THEN {[e EXCEPT !.i = e.contexts[j][1], !.stack = SubSeq(@, 1, e.contexts[j][2]), !.spread = 0,
                          !.contexts = SubSeq(@, 1, j - 1)]}
          ELSE {}

Advance(e) == UNION {GoesOn(f) : f \in Results(e)} \cup Fails(e)

RECURSIVE ReachFrom(_, _)
ReachFrom(done, new) ==
    IF new = {} THEN done
    ELSE LET more == UNION {Advance(e) : e \in new}
         IN  ReachFrom(done \cup new, more \ (done \cup new))
Runs == ReachFrom({}, Starts)

-----------------------------------------------------------------------------
TypedTypeOK ==
    /\ \A i \in DOMAIN ctx.stack : ctx.stack[i].type \in Types /\ ctx.stack[i].next \in 0 .. i - 1
    /\ Len(ctx.alt) <= 3 /\ (Scanned => ctx.alt = <<>>) /\ ctx.sp \in 0 .. Len(ctx.stack) /\ ctx.types \in [Vars -> Types]
    /\ ctx.mod \in [Addr -> SUBSET Vars] /\ ctx.top \in [Addr -> 0 .. Len(ctx.stack) \cup {Unset}]
    /\ start \in [Addr -> 0 .. Len(ctx.stack) \cup {Unset}] /\ end \in [Addr -> 0 .. Len(ctx.stack) \cup {Unset}]
    /\ ends \in [Addr -> [Vars -> Types]] /\ \A e \in fromVisit : e[1] \in Addr /\ e[2] \in 1 .. nFrom[e[1]]

(* A catch has flags for what is stored in it before they are set or read. *)
FlagsMade ==
    phase = "types" /\ ~Scanned =>
      /\ ctx.caught # 0 => ctx.caught \in ctx.flags
      /\ code[at].op = "endcatch" /\ caught[ctx.caught] # 0 => caught[ctx.caught] \in ctx.flags
      /\ code[at].op = "caught" => at \in ctx.flags

Covered(values, types) == Len(values) = Len(types) /\ \A i \in 1 .. Len(values) : values[i][1] \in Kinds(types[i])

(* Whatever the interpreter executes, values have the types that were      *)
(* found: on the stack after every instruction, and in variables at the    *)
(* end of blocks.                                                          *)
TypesSound ==
    phase = "typed" =>
      \A e \in Runs : \A f \in Results(e) :
        /\ code[e.i].op # "jump" => ctx.top[e.i] # Unset /\ Covered(f.stack, TypesFrom(ctx, ctx.top[e.i]))
        /\ last[Find(e.i)] = e.i /\ code[e.i].op # "jump" =>
             \A v \in Vars : f.vars[v][1] \in Kinds(ends[Find(e.i)][v])

(* Nothing is on the list of edges that would still change something.      *)
Stable ==
    phase = "typed" =>
      /\ fromVisit = {}
      /\ \A b \in Blocks : end[b] # Unset => \A i \in 1 .. Len(to[b]) : end[to[b][i]] # Unset

(* The stack has room for three values for two bytes of code.              *)
Bytes == LET S[i \in 0 .. N] == IF i = 0 THEN 0 ELSE S[i - 1] + code[i].arg.size IN S[N]
StackFits == Len(ctx.stack) < (Bytes * 3) \div 2

(* The analysis ends.                                                      *)
TypesFound == <>(phase = "typed")
=============================================================================
