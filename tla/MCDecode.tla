------------------------------ MODULE MCDecode ------------------------------
(* Programs as the host's compiler writes them: every instruction with     *)
(* operands at the limits of its encodings, alone, after one another, and  *)
(* in the groups that Block::function() looks for; between a function      *)
(* without code and another one, so that each has to end where it does.    *)
(* After the program "InTree" is read its blocks are searched and split.   *)
EXTENDS Decode, BlockTree

CONSTANT CheckedCalls       \* whether there are I_CALL_CKFUNC and I_CALL_CEFUNC

VARIABLE source             \* the functions, as they should be read

mcVars == <<decodeVars, treeVars, source>>

-----------------------------------------------------------------------------
(* The bytes of a number, with its sign or without, and of the number of a *)
(* program.                                                                *)
E1(v) == <<v % 256>>
E2(v) == <<(v \div 256) % 256>> \o E1(v)
E4(v) == <<(v \div 16777216) % 256, (v \div 65536) % 256>> \o E2(v)
E8(v) == [k \in 1 .. 4 |-> IF v < 0 THEN 255 ELSE 0] \o E4(v)
E(k, v) == SubSeq(E8(v), 9 - k, 8)
EInherit(w, v) == IF w = 2 THEN E2(v) ELSE E1(v)
EType(w, t) == IF Len(t) = 1 THEN t ELSE <<t[1]>> \o EInherit(w, t[2]) \o E2(t[3])
Concat(s) ==
    LET C[k \in 0 .. Len(s)] == IF k = 0 THEN <<>> ELSE C[k - 1] \o s[k]
    IN  C[Len(s)]

ClassType == <<7, 1, 513>>

(* Kfuns 0 to 2 are built in: (int, int), (mixed; optional mixed) which    *)
(* gives an object of a class, and (string; lvalues); 128 and 129 are not. *)
MCProtos ==
    [w \in {1, 2} |->
       <<0, 2, 0, 0, 0, 1, 1, 1>>
       \o <<0, 1, 1, 0, 0>> \o EType(w, ClassType) \o <<8, 8>>
       \o <<0, 1, 1, 0, 0, 1, 3, 10>>
       \o <<0, 0, 1, 0, 0, 3, 19>>
       \o <<0, 1, 0, 0, 0, 19>> \o EType(w, ClassType)]
MCVarTypes == [h \in 0 .. 1 |-> [v \in {0, 255} |-> 1 + 2 * h]]
MCFuncTypes == [h \in 0 .. 1 |-> [k \in {0, 255} |-> 2 + 3 * h]]

-----------------------------------------------------------------------------
(* An instruction: what is written, and what it should be read as.         *)
I(op, b, i, x) == [op |-> op, pop |-> FALSE, b |-> b, i |-> i, x |-> x, d |-> 1]
Popped(c) == [c EXCEPT !.pop = TRUE]

Bytes1 == {0, 128, 255}
Small == {-128, -1, 0, 127}
Numbers ==
    {I("I_INT1", E1(v), "INT", <<v>>) : v \in Small}
    \cup {I("I_INT2", E2(v), "INT", <<v>>) : v \in {-32768, -129, 128, 32767}}
    \cup {I("I_INT4", E4(v), "INT", <<v>>) : v \in {-2147483647, 32768, 2147483647}}
    \cup {I("I_INT8", E8(v), "INT", <<v>>) : v \in {-2147483647, -1, 2147483647}}
    \cup {I("I_FLOAT6", <<0, 0>> \o E4(0), "FLOAT", <<0, 0, 0, 0>>),
          I("I_FLOAT6", <<63, 240>> \o E4(0), "FLOAT", <<0, 16383, 0, 0>>),
          I("I_FLOAT6", <<192, 8>> \o E4(2097153), "FLOAT", <<1, 16384, 32770, 1>>),
          I("I_FLOAT12", E4(1073676288) \o E8(1), "FLOAT", <<1073676288, 1>>)}
Constants(w) ==
    {I("I_STRING", E1(v), "STRING", <<1, v>>) : v \in Bytes1}
    \cup {I("I_NEAR_STRING", <<200, v>>, "STRING", <<200, v>>) : v \in Bytes1}
    \cup {I("I_FAR_STRING", EInherit(w, h) \o E2(v), "STRING", <<h, v>>) : h \in {0, 200}, v \in {255, 65535}}
    \cup {I("I_INSTANCEOF", EInherit(w, 1) \o E2(v), "INSTANCEOF", <<1, v>>) : v \in {2, 513}}
    \cup {I("I_CAST", EType(w, t), "CAST", <<t>>) : t \in {<<1>>, <<19>>, ClassType}}
Variables(w) ==
    {I("I_LOCAL", E1(-1 - v), "LOCAL", <<v>>) : v \in {0, 127}}
    \cup {I("I_LOCAL", E1(v), "PARAM", <<v>>) : v \in {0, 127}}
    \cup {I("I_GLOBAL", E1(v), "GLOBAL", <<1, v, 3>>) : v \in {0, 255}}
    \cup {I("I_FAR_GLOBAL", EInherit(w, 0) \o E1(v), "GLOBAL", <<0, v, 1>>) : v \in {0, 255}}
Assigns(w) ==
    {I("I_STORE_LOCAL", E1(-1 - v), "STORE_LOCAL", <<v>>) : v \in {0, 127}}
    \cup {I("I_STORE_LOCAL", E1(3), "STORE_PARAM", <<3>>), I("I_STORE_GLOBAL", E1(255), "STORE_GLOBAL", <<1, 255>>),
          I("I_STORE_FAR_GLOBAL", EInherit(w, 0) \o E1(4), "STORE_GLOBAL", <<0, 4>>),
          I("I_STORE_INDEX", <<>>, "STORE_INDEX", <<>>),
          I("I_STORE_LOCAL_INDEX", E1(-2), "STORE_LOCAL_INDEX", <<1>>),
          I("I_STORE_LOCAL_INDEX", E1(1), "STORE_PARAM_INDEX", <<1>>),
          I("I_STORE_GLOBAL_INDEX", E1(9), "STORE_GLOBAL_INDEX", <<1, 9>>),
          I("I_STORE_FAR_GLOBAL_INDEX", EInherit(w, 0) \o E1(9), "STORE_GLOBAL_INDEX", <<0, 9>>),
          I("I_STORE_INDEX_INDEX", <<>>, "STORE_INDEX_INDEX", <<>>)}
Calls(w) ==
    {I("I_CALL_KFUNC", <<0>>, "KFUNC", <<0, 2, 0, 1>>), I("I_CALL_KFUNC", <<1, 2>>, "KFUNC", <<1, 2, 0, 7>>),
     I("I_CALL_EFUNC", <<0, 128, 255>>, "KFUNC", <<128, 255, 0, 3>>),
     I("I_CALL_EFUNC", <<0, 129>>, "KFUNC", <<129, 1, 0, 19>>),
     I("I_CALL_AFUNC", <<255, 3>>, "DFUNC", <<0, 255, 3, 2>>),
     I("I_CALL_DFUNC", EInherit(w, 1) \o <<0, 3>>, "DFUNC", <<1, 0, 3, 5>>),
     I("I_CALL_FUNC", <<1, 2, 3>>, "FUNC", <<258, 3>>)}
    \cup IF CheckedCalls
           THEN {I("I_CALL_CKFUNC", <<0, 2>>, "KFUNC", <<0, 2, 0, 1>>),
                 I("I_CALL_CEFUNC", <<0, 129, 1>>, "KFUNC", <<129, 1, 0, 19>>)}
           ELSE {}
LvalueCall == I("I_CALL_KFUNC", <<2, 3>>, "KFUNC_LVAL", <<2, 3, 1, 1>>)
Expressions ==
    {I("I_INDEX", <<>>, "INDEX", <<>>), I("I_INDEX2", <<>>, "INDEX2", <<>>),
     I("I_AGGREGATE", <<0>> \o E2(300), "AGGREGATE", <<300>>),
     I("I_AGGREGATE", <<1>> \o E2(2), "MAP_AGGREGATE", <<2>>),
     I("I_CALL_KFUNC", <<51>>, "CHECK_RANGE", <<>>), I("I_CALL_KFUNC", <<52>>, "CHECK_RANGE_FROM", <<>>),
     I("I_CALL_KFUNC", <<53>>, "CHECK_RANGE_TO", <<>>)}
Control ==
    {Popped(I("I_JUMP_ZERO", E2(258), "JUMP_ZERO", <<258>>)), Popped(I("I_JUMP_NONZERO", E2(3), "JUMP_NONZERO", <<3>>)),
     I("I_JUMP", E2(65535), "JUMP", <<65535>>), I("I_CATCH", E2(777), "CATCH", <<777>>),
     I("I_RLIMITS", <<1>>, "RLIMITS", <<>>), I("I_RLIMITS", <<0>>, "RLIMITS_CHECK", <<>>),
     I("I_RETURN", <<>>, "RETURN", <<>>)}

(* A switch: the number of cases with the default, the bytes of a label.   *)
Labels(k) == CASE k = 1 -> <<-128, 127>> [] k = 2 -> <<-300, 32767>> [] k = 3 -> <<-8388608, 65536>> [] OTHER -> <<-2147483647, 70000>>
IntSwitch(k) ==
    I("I_SWITCH", <<0>> \o E2(3) \o <<k>> \o E2(9) \o E(k, Labels(k)[1]) \o E2(20) \o E(k, Labels(k)[2]) \o E2(300),
      "SWITCH_INT", <<<<9>>, <<Labels(k)[1], 20>>, <<Labels(k)[2], 300>>>>)
RangeSwitch(k) ==
    I("I_SWITCH", <<1>> \o E2(2) \o <<k>> \o E2(9) \o E(k, Labels(k)[1]) \o E(k, Labels(k)[2]) \o E2(20),
      "SWITCH_RANGE", <<<<9>>, <<Labels(k)[1], Labels(k)[2], 20>>>>)
StringSwitch(w, nil, labels) ==
    I("I_SWITCH", <<2>> \o E2(1 + Len(nil) + Len(labels)) \o E2(9)
                  \o (IF nil = <<>> THEN <<1>> ELSE <<0>> \o E2(nil[1]))
                  \o Concat([k \in DOMAIN labels |-> EInherit(w, 1) \o E2(labels[k]) \o E2(40 + k)]),
      "SWITCH_STRING", <<<<9>>>> \o [k \in DOMAIN nil |-> <<0, 65535, nil[k]>>]
                       \o [k \in DOMAIN labels |-> <<1, labels[k], 40 + k>>])
Switches(w) ==
    {Popped(c) : c \in {IntSwitch(k) : k \in 1 .. 8} \cup {RangeSwitch(k) : k \in 1 .. 8}
                       \cup {StringSwitch(w, nil, labels) : nil \in {<<>>, <<33>>}, labels \in {<<>>, <<2>>, <<2, 3>>}}}

-----------------------------------------------------------------------------
(* Groups of instructions that belong together.                            *)
MayPop(w) == Assigns(w) \cup Calls(w) \cup Expressions \cup {c \in Control : c.op = "I_CATCH"}
             \cup {c \in Constants(w) : c.op \in {"I_CAST", "I_INSTANCEOF"}}
Single(w) ==
    Numbers \cup Constants(w) \cup Variables(w) \cup Expressions \cup Control \cup Switches(w)
    \cup Assigns(w) \cup Calls(w)
    \cup {Popped(c) : c \in {d \in MayPop(w) : d.op # "I_INDEX2"}}

Spreads(w) ==
    {I("I_SPREAD", E1(-1), "SPREAD", <<-1>>), I("I_SPREAD", E1(-2), "SPREAD_LVAL", <<0>>),
     I("I_SPREAD", E1(-5), "SPREAD_LVAL", <<3>>)}
SpreadOf == [KFUNC |-> "KFUNC_SPREAD", DFUNC |-> "DFUNC_SPREAD", FUNC |-> "FUNC_SPREAD"]
SpreadCalls(w) ==
    {<<s, [c EXCEPT !.i = SpreadOf[@]], c>> : s \in Spreads(w), c \in Calls(w)}
    \cup {<<s, [LvalueCall EXCEPT !.i = "KFUNC_SPREAD_LVAL"], I("I_STORES", E2(0), "STORES_LVAL", <<0>>)>> :
            s \in Spreads(w)}

StoresName ==
    [STORE_PARAM |-> "STORES_PARAM", STORE_LOCAL |-> "STORES_LOCAL", STORE_GLOBAL |-> "STORES_GLOBAL",
     STORE_INDEX |-> "STORES_INDEX", STORE_PARAM_INDEX |-> "STORES_PARAM_INDEX",
     STORE_LOCAL_INDEX |-> "STORES_LOCAL_INDEX", STORE_GLOBAL_INDEX |-> "STORES_GLOBAL_INDEX",
     STORE_INDEX_INDEX |-> "STORES_INDEX_INDEX"]
StoreOf(c) == [c EXCEPT !.i = StoresName[@]]
Cast == I("I_CAST", <<3>>, "STORES_CAST", <<<<3>>>>)
SpreadStore(w) == I("I_SPREAD", E1(2) \o EType(w, ClassType), "STORES_SPREAD", <<2, ClassType>>)
Assignments(w) ==
    {<<I("I_STORES", E2(2), "STORES", <<2>>), Cast, StoreOf(c), StoreOf(d), d>> :
       c \in Assigns(w), d \in {I("I_STORE_INDEX", <<>>, "STORE_INDEX", <<>>)}}
    \cup {<<I("I_STORES", E2(2), "STORES", <<2>>), StoreOf(c), SpreadStore(w)>> : c \in Assigns(w)}
    \cup {<<LvalueCall, I("I_STORES", E2(1), "STORES_LVAL", <<1>>), Cast, StoreOf(c),
            Popped(I("I_STORES", E2(0), "STORES", <<0>>))>> : c \in Assigns(w)}

Structured(w) == SpreadCalls(w) \cup Assignments(w)
Groups(w) == {<<c>> : c \in Single(w)} \cup Structured(w)

-----------------------------------------------------------------------------
(* Functions: d is by how much the line of an instruction differs from     *)
(* that of the one before it.                                              *)
OnLine(c, d) == [c EXCEPT !.d = d]
OnLines(g, first, later) == [k \in DOMAIN g |-> OnLine(g[k], IF k = 1 THEN first ELSE later)]
Leave == OnLine(I("I_RETURN", <<>>, "RETURN", <<>>), 1)

Function(class, types, nargs, code) ==
    [class |-> class, types |-> types, nargs |-> nargs, vargs |-> Len(types) - 1 - nargs, code |-> code]
NoCode == Function(128, <<ClassType, <<1>>, <<19>>>>, 1, <<>>)
Main(code) == Function(16, <<<<1>>, ClassType, <<8>>>>, 2, code \o <<Leave>>)
After == Function(0, <<<<9>>>>, 0, <<OnLine(I("I_INT1", <<5>>, "INT", <<5>>), 70), Leave>>)

Differences == {0, 2, 3, -1, 63, 64, -64, -65, 16383}
Followers(w) == {<<c>> : c \in Calls(w)} \cup {<<I("I_STORES", E2(0), "STORES", <<0>>)>>}
Codes(w) ==
    {OnLines(g, d, 1) : g \in Groups(w), d \in IF w = 2 THEN Differences ELSE {1}}
    \cup {OnLines(g, 3, -2) \o OnLines(h, 100, 0) : g \in Structured(w), h \in Followers(w)}
InTree == <<Function(0, <<<<1>>>>, 0,
                     <<OnLine(I("I_JUMP", E2(4), "JUMP", <<4>>), 1), Leave, OnLine(I("I_JUMP", E2(0), "JUMP", <<0>>), 1)>>)>>
Sources(w) == {<<NoCode, Main(code), After>> : code \in Codes(w)} \cup {InTree}

(* The bytes of an instruction, and of the line if it has some.            *)
Bits(c) == IF c.d \in 0 .. 2 THEN c.d ELSE 3
EOp(c) == OpCode[c.op] + (IF c.pop /\ c.op \notin {"I_JUMP_ZERO", "I_JUMP_NONZERO", "I_SWITCH"} THEN 32 ELSE 0)
          + 64 * Bits(c)
EInstr(c) == <<EOp(c)>> \o c.b
ELine(c) == CASE c.d \in 0 .. 2 -> <<>>
              [] c.d \in -64 .. 63 /\ c.d \notin 0 .. 2 -> <<128 + 64 + c.d>>
              [] OTHER -> E2(16384 + c.d)
ECode(code) == Concat([k \in DOMAIN code |-> EInstr(code[k])])
EFunction(w, f) ==
    <<f.class, f.nargs, f.vargs, 0, 0>> \o Concat([k \in DOMAIN f.types |-> EType(w, f.types[k])])
    \o IF f.class = 128 THEN <<>>
       ELSE <<0, 9, 0, 0, 3>> \o E2(Len(ECode(f.code))) \o ECode(f.code)
            \o Concat([k \in DOMAIN f.code |-> ELine(f.code[k])])
EProgram(w, s) == Concat([k \in DOMAIN s |-> EFunction(w, s[k])])
Padding == [k \in 1 .. 40 |-> 0]

-----------------------------------------------------------------------------
(* What should be read: with its address and line, and two for a catch.    *)
Wanted(code) ==
    LET W[k \in 0 .. Len(code)] ==
          IF k = 0 THEN [list |-> <<>>, at |-> 0, line |-> 0]
          ELSE LET c == code[k]
                   was == W[k - 1]
                   now == (was.line + c.d + 65536) % 65536
                   read == [i |-> c.i, x |-> c.x, addr |-> was.at, pop |-> c.pop, line |-> now]
               IN  [list |-> was.list \o IF c.op = "I_CATCH"
                               THEN <<[read EXCEPT !.x = <<was.at + 3>>, !.pop = FALSE],
                                      [read EXCEPT !.i = "CAUGHT", !.addr = was.at + 1]>>
                               ELSE <<read>>,
                    at |-> was.at + 1 + Len(c.b), line |-> now]
    IN  W[Len(code)]
ThisFunction == source[Len(source) - functions + 1]

(* The instructions of a function are read one after the other as they     *)
(* were written: with their operands, all of which are set, addresses and  *)
(* lines, and under the names that Block::function() has for what they     *)
(* belong to.                                                              *)
InstructionsRight ==
    phase \in {"code", "fatal"} =>
      LET wanted == Wanted(ThisFunction.code).list
      IN  /\ phase # "fatal"
          /\ Len(list) <= Len(wanted)
          /\ list = SubSeq(wanted, 1, Len(list))
          /\ AtEnd => Len(list) = Len(wanted) /\ stores = 0 /\ ~spread

(* Every function is found where the line numbers of the one before it     *)
(* end: it has its prototype, its code ends where an instruction ends, and *)
(* the last one ends the program.                                          *)
FunctionsFound ==
    /\ phase = "code" =>
         /\ program + at <= lines
         /\ lines - program = Len(ECode(ThisFunction.code))
         /\ proto = [k \in DOMAIN ThisFunction.types |->
                       IF checks THEN ThisFunction.types[k] ELSE [ThisFunction.types[k] EXCEPT ![1] = 8]]
    /\ phase = "done" => program = Len(bytes) - Len(Padding) + 1

(* What jitcomp reads is the program that the host's compiler has written: *)
(* the same functions, with the same instructions.                         *)
ReadAsWritten == FunctionsFound /\ InstructionsRight

-----------------------------------------------------------------------------
MCInit ==
    /\ inhSize \in {1, 2} /\ checks = (inhSize = 2)
    /\ source \in Sources(inhSize)
    /\ bytes = EProgram(inhSize, source) \o Padding
    /\ functions = Len(source)
    /\ DecodeInit /\ Init
Read == DecodeNext /\ UNCHANGED <<treeVars, source>>
Tree == source = InTree /\ phase = "done" /\ at = Size /\ Next /\ UNCHANGED <<decodeVars, source>>
MCNext == Read \/ Tree
MCSpec == MCInit /\ [][MCNext]_mcVars
=============================================================================
