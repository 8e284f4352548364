------------------------------- MODULE Decode -------------------------------
(* code.cpp and Block::function(): the prototypes of the kfuns and the     *)
(* functions of a program are read from bytes; a function becomes a list   *)
(* of instructions, in which calls with spread arguments, assignments to   *)
(* several lvalues and the two ends of a catch get instructions of their   *)
(* own.  Where an instruction, a list of line numbers or a function ends   *)
(* follows from what was read.                                             *)
EXTENDS Integers, Sequences
LOCAL INSTANCE SequencesExt

CONSTANTS
    Protos,        \* the bytes of the prototypes, for each size of an inherit
    NBuiltins, NKfuns, KfBuiltins,   \* KF_BUILTINS is 128
    NInherits,     \* of the program
    VarTypes, FuncTypes              \* for each inherit, types by index

VARIABLES
    bytes, inhSize, checks,    \* the functions, the size of an inherit, and typechecking
    functions,                 \* how many are still to be read
    program, lines, at, lc,    \* code and line numbers of this one, and where it is
    line,                      \* the line
    list, stores, lval, spread,\* Block::function(): its list, and what it expects
    proto,                     \* of this function
    phase

decodeVars == <<bytes, inhSize, checks, functions, program, lines, at, lc, line, list, stores, lval, spread, proto, phase>>

(* A value that the code does not set.                                     *)
Unset == -1000

-----------------------------------------------------------------------------
(* FETCH macros: k bytes from p, unsigned or with the sign of the first.   *)
Unsigned(b, p, k) == FoldLeft(LAMBDA x, y : 256 * x + y, 0, SubSeq(b, p, p + k - 1))
Signed(b, p, k) ==
    FoldLeft(LAMBDA x, y : 256 * x + y, IF b[p] < 128 THEN b[p] ELSE b[p] - 256, SubSeq(b, p + 1, p + k - 1))

LpcTypeClass == 7
LpcTypeLvalue == 10
LpcTypeMixed == 8
IsClass(t) == t % 16 = LpcTypeClass

(* FETCHI: the inherit of a constant, a variable or a function.            *)
InheritAt(b, p, w) == IF w > 1 THEN Unsigned(b, p, 2) ELSE b[p]
InheritWidth(w) == IF w > 1 THEN 2 ELSE 1

(* CodeContext::type(): one with a class has a string constant as well.    *)
TypeAt(b, p, w) ==
    IF IsClass(b[p])
      THEN [type |-> <<b[p], InheritAt(b, p + 1, w), Unsigned(b, p + 1 + InheritWidth(w), 2)>>,
            next |-> p + 3 + InheritWidth(w)]
      ELSE [type |-> <<b[p]>>, next |-> p + 1]

(* A return type and argument types, and what follows them.                *)
TypesAt(b, p, w, count) ==
    LET More(read, t) == [types |-> Append(read.types, t.type), next |-> t.next]
        T[k \in 0 .. count] ==
          IF k = 0 THEN [types |-> <<>>, next |-> p] ELSE More(T[k - 1], TypeAt(b, T[k - 1].next, w))
    IN  T[count]

PrototypeAt(b, p, w) ==
    [class |-> b[p], nargs |-> b[p + 1], vargs |-> b[p + 2]]
      @@ TypesAt(b, p + 5, w, b[p + 1] + b[p + 2] + 1)

(* CodeContext::CodeContext(): the table has the builtin kfuns, then none, *)
(* and from KF_BUILTINS the others.                                        *)
KfunTable ==
    [w \in {1, 2} |->
       LET P[k \in 0 .. NBuiltins + NKfuns] ==
             IF k = 0 THEN [next |-> 1] ELSE PrototypeAt(Protos[w], P[k - 1].next, w)
           Kf(pt) == [nargs |-> pt.nargs, vargs |-> pt.vargs, type |-> pt.types[1][1],
                      lval |-> \E t \in DOMAIN pt.types : pt.types[t][1] = LpcTypeLvalue]
       IN  [f \in 0 .. NBuiltins - 1 |-> Kf(P[f + 1])]
           @@ [f \in KfBuiltins .. KfBuiltins + NKfuns - 1 |-> Kf(P[f - KfBuiltins + NBuiltins + 1])]]

-----------------------------------------------------------------------------
(* Operation codes; those that may have the pop bit.                       *)
OpCode ==
    [I_INT1 |-> 0, I_INT2 |-> 32, I_INT4 |-> 1, I_INT8 |-> 33, I_FLOAT6 |-> 3, I_FLOAT12 |-> 35,
     I_STRING |-> 4, I_NEAR_STRING |-> 36, I_FAR_STRING |-> 5, I_LOCAL |-> 37, I_GLOBAL |-> 6,
     I_FAR_GLOBAL |-> 38, I_INDEX |-> 7, I_INDEX2 |-> 8, I_SPREAD |-> 40, I_AGGREGATE |-> 9,
     I_CAST |-> 10, I_INSTANCEOF |-> 11, I_STORES |-> 12, I_STORE_GLOBAL_INDEX |-> 13,
     I_CALL_EFUNC |-> 14, I_CALL_CEFUNC |-> 15, I_CALL_CKFUNC |-> 16, I_STORE_LOCAL |-> 17,
     I_STORE_GLOBAL |-> 18, I_STORE_FAR_GLOBAL |-> 19, I_STORE_INDEX |-> 20,
     I_STORE_LOCAL_INDEX |-> 21, I_STORE_FAR_GLOBAL_INDEX |-> 22, I_STORE_INDEX_INDEX |-> 23,
     I_JUMP_ZERO |-> 24, I_JUMP_NONZERO |-> 56, I_JUMP |-> 25, I_SWITCH |-> 57,
     I_CALL_KFUNC |-> 26, I_CALL_AFUNC |-> 27, I_CALL_DFUNC |-> 28, I_CALL_FUNC |-> 29,
     I_CATCH |-> 30, I_RLIMITS |-> 31, I_RETURN |-> 63]
Poppable ==
    {"I_INDEX", "I_AGGREGATE", "I_CAST", "I_INSTANCEOF", "I_STORES", "I_STORE_LOCAL", "I_STORE_GLOBAL",
     "I_STORE_FAR_GLOBAL", "I_STORE_INDEX", "I_STORE_LOCAL_INDEX", "I_STORE_GLOBAL_INDEX",
     "I_STORE_FAR_GLOBAL_INDEX", "I_STORE_INDEX_INDEX", "I_CALL_KFUNC", "I_CALL_EFUNC",
     "I_CALL_CKFUNC", "I_CALL_CEFUNC", "I_CALL_AFUNC", "I_CALL_DFUNC", "I_CALL_FUNC", "I_CATCH"}
AlwaysPops == {"I_JUMP_ZERO", "I_JUMP_NONZERO", "I_SWITCH"}
Operations ==
    {[code |-> OpCode[op], op |-> op, pop |-> op \in AlwaysPops] : op \in DOMAIN OpCode}
    \cup {[code |-> OpCode[op] + 32, op |-> op, pop |-> TRUE] : op \in Poppable}
Operation == [c \in 0 .. 63 |-> IF \E o \in Operations : o.code = c
                                THEN CHOOSE o \in Operations : o.code = c
                                ELSE [code |-> c, op |-> "unknown", pop |-> FALSE]]

(* The operands of an instruction: U unsigned, S signed, with the number   *)
(* of bytes; I an inherit, T a type.                                       *)
Operands ==
    [I_INT1 |-> <<"S1">>, I_INT2 |-> <<"S2">>, I_INT4 |-> <<"S4">>, I_INT8 |-> <<"S8">>,
     I_FLOAT6 |-> <<"U2", "U4">>, I_FLOAT12 |-> <<"U4", "U8">>,
     I_STRING |-> <<"U1">>, I_NEAR_STRING |-> <<"U1", "U1">>, I_FAR_STRING |-> <<"I", "U2">>,
     I_LOCAL |-> <<"S1">>, I_GLOBAL |-> <<"U1">>, I_FAR_GLOBAL |-> <<"I", "U1">>,
     I_INDEX |-> <<>>, I_INDEX2 |-> <<>>, I_SPREAD |-> <<"S1">>, I_AGGREGATE |-> <<"U1", "U2">>,
     I_CAST |-> <<"T">>, I_INSTANCEOF |-> <<"I", "U2">>, I_STORES |-> <<"U2">>,
     I_STORE_LOCAL |-> <<"S1">>, I_STORE_GLOBAL |-> <<"U1">>, I_STORE_FAR_GLOBAL |-> <<"I", "U1">>,
     I_STORE_INDEX |-> <<>>, I_STORE_LOCAL_INDEX |-> <<"S1">>, I_STORE_GLOBAL_INDEX |-> <<"U1">>,
     I_STORE_FAR_GLOBAL_INDEX |-> <<"I", "U1">>, I_STORE_INDEX_INDEX |-> <<>>,
     I_JUMP_ZERO |-> <<"U2">>, I_JUMP_NONZERO |-> <<"U2">>, I_JUMP |-> <<"U2">>, I_SWITCH |-> <<"U1">>,
     I_CALL_KFUNC |-> <<"U1">>, I_CALL_EFUNC |-> <<"U2">>, I_CALL_CKFUNC |-> <<"U1", "U1">>,
     I_CALL_CEFUNC |-> <<"U2", "U1">>, I_CALL_AFUNC |-> <<"U1", "U1">>,
     I_CALL_DFUNC |-> <<"I", "U1", "U1">>, I_CALL_FUNC |-> <<"U2", "U1">>,
     I_CATCH |-> <<"U2">>, I_RLIMITS |-> <<"U1">>, I_RETURN |-> <<>>]

SignedKind == <<"S1", "S2", "S3", "S4", "S5", "S6", "S7", "S8">>
Width == [U1 |-> 1, U2 |-> 2, U4 |-> 4, U8 |-> 8,
          S1 |-> 1, S2 |-> 2, S3 |-> 3, S4 |-> 4, S5 |-> 5, S6 |-> 6, S7 |-> 7, S8 |-> 8]
Fetch(b, p, w, kind) ==
    CASE kind = "I" -> [v |-> InheritAt(b, p, w), next |-> p + InheritWidth(w)]
      [] kind = "T" -> LET t == TypeAt(b, p, w) IN [v |-> t.type, next |-> t.next]
      [] \E k \in 1 .. 8 : kind = SignedKind[k] -> [v |-> Signed(b, p, Width[kind]), next |-> p + Width[kind]]
      [] OTHER -> [v |-> Unsigned(b, p, Width[kind]), next |-> p + Width[kind]]
Then(read, more) == [v |-> Append(read.v, more.v), next |-> more.next]
FetchAll(b, p, w, kinds) ==
    FoldLeft(LAMBDA x, kind : Then(x, Fetch(b, x.next, w, kind)), [v |-> <<>>, next |-> p], kinds)

-----------------------------------------------------------------------------
(* Code::switchInt(), switchRange(), switchStr(): the first case is the    *)
(* default, without a label.  Labels of ints have the same number of       *)
(* bytes; among strings nil is first if there is no mark.                  *)
Cases(b, p, w, count, kinds) ==
    LET C[k \in 0 .. count] ==
          IF k = 0 THEN [v |-> <<>>, next |-> p] ELSE Then(C[k - 1], FetchAll(b, C[k - 1].next, w, kinds))
    IN  C[count]
Behind(default, cases) == [cases EXCEPT !.v = default \o @]
SwitchNumbers(b, p, w, labels) ==
    LET width == SignedKind[b[p + 2]]
    IN  Behind(<<<<Unsigned(b, p + 3, 2)>>>>,
               Cases(b, p + 5, w, Unsigned(b, p, 2) - 1, [k \in 1 .. labels |-> width] \o <<"U2">>))
SwitchInt(b, p, w) == SwitchNumbers(b, p, w, 1)
SwitchRange(b, p, w) == SwitchNumbers(b, p, w, 2)

SwitchStr(b, p, w) ==
    LET count == Unsigned(b, p, 2)
        nil == IF b[p + 4] = 0 THEN <<<<0, 65535, Unsigned(b, p + 5, 2)>>>> ELSE <<>>
    IN  Behind(<<<<Unsigned(b, p + 2, 2)>>>> \o nil,
               Cases(b, p + 5 + 2 * Len(nil), w, count - 1 - Len(nil), <<"I", "U2", "U2">>))

(* A kfun is called with as many arguments as it has, unless the number is *)
(* not fixed; ranges are checked by instructions of their own.             *)
KfCkrange == [CHECK_RANGE |-> 51, CHECK_RANGE_FROM |-> 52, CHECK_RANGE_TO |-> 53]
KfunCall(b, p, f, kf) ==
    [i |-> IF kf.lval THEN "KFUNC_LVAL" ELSE "KFUNC",
     x |-> <<f, IF kf.vargs # 0 THEN b[p] ELSE kf.nargs, IF kf.lval THEN kf.nargs ELSE 0, kf.type>>,
     next |-> IF kf.vargs # 0 THEN p + 1 ELSE p]
Kfunc(b, p, w, f) == KfunCall(b, p, f, KfunTable[w][f])
CallKfunc(b, p, w, f) ==
    IF \E i \in DOMAIN KfCkrange : KfCkrange[i] = f
      THEN [i |-> CHOOSE i \in DOMAIN KfCkrange : KfCkrange[i] = f, x |-> <<>>, next |-> p]
      ELSE Kfunc(b, p, w, f)

(* A lvalue has a negative number, after -1 for an array that is spread.   *)
Spread(b, p, w, v) ==
    IF v >= 0 THEN LET t == TypeAt(b, p, w) IN [i |-> "SPREAD", x |-> <<v, t.type>>, next |-> t.next]
    ELSE [i |-> IF -(v + 2) >= 0 THEN "SPREAD_LVAL" ELSE "SPREAD", x |-> <<-(v + 2)>>, next |-> p]

(* A float of 6 bytes as one of 12: another bias of the exponent, and the  *)
(* mantissa of 4 + 32 bits at the left of 16 + 80.                         *)
Float6(high, low) ==
    LET sign == high \div 32768
        exponent == (high % 32768) \div 16
    IN  IF exponent = 0 THEN <<0, 0, 0, 0>>
        ELSE <<sign, exponent + 15360, (high % 16) * 4096 + low \div 1048576, low % 1048576>>

Switch == [I_SWITCH_INT |-> 0, I_SWITCH_RANGE |-> 1, I_SWITCH_STRING |-> 2]

(* Code::Code(): the instruction with operation op and operands v that are *)
(* followed by p.                                                          *)
Local(kind, v) ==
    IF v[1] < 0 THEN [i |-> kind[1], x |-> <<-(v[1] + 1)>>] ELSE [i |-> kind[2], x |-> v]
Plain(op, v) ==
    CASE op \in {"I_INT1", "I_INT2", "I_INT4", "I_INT8"} -> [i |-> "INT", x |-> v]
      [] op = "I_FLOAT6" -> [i |-> "FLOAT", x |-> Float6(v[1], v[2])]
      [] op = "I_FLOAT12" -> [i |-> "FLOAT", x |-> v]
      [] op = "I_STRING" -> [i |-> "STRING", x |-> <<NInherits - 1>> \o v]
      [] op \in {"I_NEAR_STRING", "I_FAR_STRING"} -> [i |-> "STRING", x |-> v]
      [] op = "I_LOCAL" -> Local(<<"LOCAL", "PARAM">>, v)
      [] op = "I_GLOBAL" ->
           [i |-> "GLOBAL", x |-> <<NInherits - 1, v[1], VarTypes[NInherits - 1][v[1]]>>]
      [] op = "I_FAR_GLOBAL" -> [i |-> "GLOBAL", x |-> v \o <<VarTypes[v[1]][v[2]]>>]
      [] op = "I_INDEX" -> [i |-> "INDEX", x |-> v]
      [] op = "I_INDEX2" -> [i |-> "INDEX2", x |-> v]
      [] op = "I_AGGREGATE" -> [i |-> IF v[1] = 0 THEN "AGGREGATE" ELSE "MAP_AGGREGATE", x |-> <<v[2]>>]
      [] op = "I_CAST" -> [i |-> "CAST", x |-> v]
      [] op = "I_INSTANCEOF" -> [i |-> "INSTANCEOF", x |-> v]
      [] op = "I_STORES" -> [i |-> "STORES", x |-> v]
      [] op = "I_STORE_LOCAL" -> Local(<<"STORE_LOCAL", "STORE_PARAM">>, v)
      [] op = "I_STORE_GLOBAL" -> [i |-> "STORE_GLOBAL", x |-> <<NInherits - 1>> \o v]
      [] op = "I_STORE_FAR_GLOBAL" -> [i |-> "STORE_GLOBAL", x |-> v]
      [] op = "I_STORE_INDEX" -> [i |-> "STORE_INDEX", x |-> v]
      [] op = "I_STORE_LOCAL_INDEX" -> Local(<<"STORE_LOCAL_INDEX", "STORE_PARAM_INDEX">>, v)
      [] op = "I_STORE_GLOBAL_INDEX" -> [i |-> "STORE_GLOBAL_INDEX", x |-> <<NInherits - 1>> \o v]
      [] op = "I_STORE_FAR_GLOBAL_INDEX" -> [i |-> "STORE_GLOBAL_INDEX", x |-> v]
      [] op = "I_STORE_INDEX_INDEX" -> [i |-> "STORE_INDEX_INDEX", x |-> v]
      [] op = "I_JUMP" -> [i |-> "JUMP", x |-> v]
      [] op = "I_JUMP_ZERO" -> [i |-> "JUMP_ZERO", x |-> v]
      [] op = "I_JUMP_NONZERO" -> [i |-> "JUMP_NONZERO", x |-> v]
      [] op = "I_CALL_AFUNC" -> [i |-> "DFUNC", x |-> <<0>> \o v \o <<FuncTypes[0][v[1]]>>]
      [] op = "I_CALL_DFUNC" -> [i |-> "DFUNC", x |-> v \o <<FuncTypes[v[1]][v[2]]>>]
      [] op = "I_CALL_FUNC" -> [i |-> "FUNC", x |-> v]
      [] op = "I_CATCH" -> [i |-> "CATCH", x |-> v]
      [] op = "I_RLIMITS" -> [i |-> IF v[1] # 0 THEN "RLIMITS" ELSE "RLIMITS_CHECK", x |-> <<>>]
      [] op = "I_RETURN" -> [i |-> "RETURN", x |-> v]
      [] OTHER -> [i |-> "unknown", x |-> v]
Checked(w, v) == [i |-> "KFUNC", x |-> <<v[1], v[2], Unset, KfunTable[w][v[1]].type>>]
CodeWith(b, w, op, f) ==
    LET more(s, name) == [i |-> name, x |-> s.v, next |-> s.next]
    IN  CASE op = "I_SWITCH" /\ f.v[1] = Switch.I_SWITCH_INT -> more(SwitchInt(b, f.next, w), "SWITCH_INT")
          [] op = "I_SWITCH" /\ f.v[1] = Switch.I_SWITCH_RANGE -> more(SwitchRange(b, f.next, w), "SWITCH_RANGE")
          [] op = "I_SWITCH" /\ f.v[1] = Switch.I_SWITCH_STRING -> more(SwitchStr(b, f.next, w), "SWITCH_STRING")
          [] op = "I_SPREAD" -> Spread(b, f.next, w, f.v[1])
          [] op = "I_CALL_KFUNC" -> CallKfunc(b, f.next, w, f.v[1])
          [] op = "I_CALL_EFUNC" -> Kfunc(b, f.next, w, f.v[1])
          [] op \in {"I_CALL_CKFUNC", "I_CALL_CEFUNC"} -> Checked(w, f.v) @@ [next |-> f.next]
          [] OTHER -> Plain(op, f.v) @@ [next |-> f.next]
Code(b, p, w, op) == CodeWith(b, w, op, FetchAll(b, p, w, IF op = "unknown" THEN <<>> ELSE Operands[op]))

-----------------------------------------------------------------------------
(* CodeFunction::getLine(): the line after an instruction byte; lines have *)
(* 16 bits.                                                                *)
LineMod(k) == (k + 65536) % 65536

GetLine(byte, p) ==
    LET few == byte \div 64
    IN  IF few <= 2 THEN [line |-> LineMod(line + few), lc |-> lc]
        ELSE IF bytes[p] >= 128 THEN [line |-> LineMod(line + bytes[p] - 128 - 64), lc |-> lc + 1]
        ELSE [line |-> LineMod(line + Unsigned(bytes, p, 2) - 16384), lc |-> lc + 2]

(* CodeFunction::CodeFunction(): without code if it is undefined.          *)
Undefined(class) == class \div 128 = 1
StartFunction ==
    /\ phase = "function" /\ functions > 0
    /\ LET pt == PrototypeAt(bytes, program, inhSize)
           p == pt.next
       IN  /\ proto' = [k \in DOMAIN pt.types |->
                          IF checks THEN pt.types[k] ELSE [pt.types[k] EXCEPT ![1] = LpcTypeMixed]]
           /\ IF Undefined(pt.class)
                THEN program' = p /\ lines' = p
                ELSE program' = p + 7 /\ lines' = p + 7 + Unsigned(bytes, p + 5, 2)
    /\ at' = 0 /\ lc' = 0 /\ line' = 0
    /\ list' = <<>> /\ stores' = 0 /\ lval' = FALSE /\ spread' = FALSE
    /\ phase' = "code"
    /\ UNCHANGED <<bytes, inhSize, checks, functions>>

(* CodeFunction::endProg(): all of the code is read, and the next function *)
(* follows the line numbers that were used.                                *)
AtEnd == phase = "code" /\ program + at = lines
EndFunction ==
    /\ AtEnd
    /\ program' = lines + lc
    /\ functions' = functions - 1
    /\ phase' = IF functions = 1 THEN "done" ELSE "function"
    /\ UNCHANGED <<bytes, inhSize, checks, lines, at, lc, line, list, stores, lval, spread, proto>>

(* Block::function(): an instruction is added to the list.                 *)
Instr(d, addr, pop, ln) == [i |-> d.i, x |-> d.x, addr |-> addr, pop |-> pop, line |-> ln]

Stored ==
    [SPREAD |-> "STORES_SPREAD", STORE_PARAM |-> "STORES_PARAM", STORE_LOCAL |-> "STORES_LOCAL",
     STORE_GLOBAL |-> "STORES_GLOBAL", STORE_INDEX |-> "STORES_INDEX",
     STORE_PARAM_INDEX |-> "STORES_PARAM_INDEX", STORE_LOCAL_INDEX |-> "STORES_LOCAL_INDEX",
     STORE_GLOBAL_INDEX |-> "STORES_GLOBAL_INDEX", STORE_INDEX_INDEX |-> "STORES_INDEX_INDEX"]
SpreadCall ==
    [KFUNC |-> "KFUNC_SPREAD", KFUNC_LVAL |-> "KFUNC_SPREAD_LVAL", DFUNC |-> "DFUNC_SPREAD", FUNC |-> "FUNC_SPREAD"]

(* A mutant: a cast is one of the stores that are counted.                 *)
AddStore_CastCounts(code) ==
    /\ stores # 0
    /\ list' = Append(list, [code EXCEPT !.i = IF @ \in DOMAIN Stored THEN Stored[@] ELSE "STORES_CAST"])
    /\ stores' = stores - 1
    /\ UNCHANGED <<lval, spread, phase>>

(* In an assignment to several lvalues: a cast comes before its store.     *)
AddStore(code) ==
    /\ stores # 0
    /\ IF code.i = "CAST"
         THEN /\ list' = Append(list, [code EXCEPT !.i = "STORES_CAST"])
              /\ UNCHANGED <<stores, phase>>
         ELSE IF code.i \in DOMAIN Stored
         THEN /\ list' = Append(list, [code EXCEPT !.i = Stored[@]])
              /\ stores' = stores - 1
              /\ UNCHANGED phase
         ELSE phase' = "fatal" /\ UNCHANGED <<list, stores>>
    /\ UNCHANGED <<lval, spread>>

(* A call takes the spread arguments before it; one with lvalues leaves    *)
(* them for the next assignment.                                           *)
AddCall(code) ==
    /\ stores = 0 /\ code.i \in DOMAIN SpreadCall
    /\ list' = Append(list, IF spread THEN [code EXCEPT !.i = SpreadCall[@]] ELSE code)
    /\ spread' = FALSE
    /\ lval' = (lval \/ code.i = "KFUNC_LVAL")
    /\ UNCHANGED <<stores, phase>>

AddSpread(code) ==
    /\ stores = 0 /\ code.i \in {"SPREAD", "SPREAD_LVAL"}
    /\ list' = Append(list, code)
    /\ spread' = TRUE
    /\ UNCHANGED <<stores, lval, phase>>

AddStores(code) ==
    /\ stores = 0 /\ code.i = "STORES"
    /\ list' = Append(list, IF lval THEN [code EXCEPT !.i = "STORES_LVAL"] ELSE code)
    /\ stores' = code.x[1]
    /\ lval' = FALSE
    /\ UNCHANGED <<spread, phase>>

(* After a catch that goes on behind itself there is one for the error,    *)
(* which has the target and pops the result.                               *)
AddCatch(code) ==
    /\ stores = 0 /\ code.i = "CATCH"
    /\ list' = list \o <<[code EXCEPT !.pop = FALSE, !.x = <<code.addr + 3>>],
                         [code EXCEPT !.i = "CAUGHT", !.addr = @ + 1]>>
    /\ UNCHANGED <<stores, lval, spread, phase>>

AddOther(code) ==
    /\ stores = 0
    /\ code.i \notin DOMAIN SpreadCall \cup {"SPREAD", "SPREAD_LVAL", "STORES", "CATCH"}
    /\ list' = Append(list, code)
    /\ phase' = IF code.i = "unknown" THEN "fatal" ELSE phase
    /\ UNCHANGED <<stores, lval, spread>>

(* The loop of Block::function(): an instruction and its line are read.    *)
Retrieve ==
    /\ phase = "code" /\ program + at < lines
    /\ LET byte == bytes[program + at]
           o == Operation[byte % 64]
       IN  \E g \in {GetLine(byte, lines + lc)}, d \in {Code(bytes, program + at + 1, inhSize, o.op)} :
           \E code \in {Instr(d, at, o.pop, g.line)} :
           /\ line' = g.line /\ lc' = g.lc
           /\ at' = d.next - program
           /\ \/ AddStore(code) \/ AddCall(code) \/ AddSpread(code) \/ AddStores(code)
              \/ AddCatch(code) \/ AddOther(code)
    /\ UNCHANGED <<bytes, inhSize, checks, functions, program, lines, proto>>

DecodeInit ==
    /\ program = 1 /\ lines = 1 /\ at = 0 /\ lc = 0 /\ line = 0
    /\ list = <<>> /\ stores = 0 /\ lval = FALSE /\ spread = FALSE
    /\ proto = <<>> /\ phase = "function"
DecodeNext == StartFunction \/ Retrieve \/ EndFunction
=============================================================================
