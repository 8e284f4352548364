------------------------------- MODULE GenCode -------------------------------
(* The LLVM code that genclang.cpp writes for a function: one instruction  *)
(* after another, block by block, from the types and the values that the   *)
(* analyses found.  An int or a float is kept in a register if it is       *)
(* popped by an instruction that can use it there, and if it is a variable *)
(* that was stored with that type; all else is on the stack and in the     *)
(* frame of the virtual machine, which its functions (VM_...) work on.     *)
EXTENDS FlowAnalysis

CONSTANT Params      \* the variables that are parameters

ASSUME ParamsAssumption ==
    Params \subseteq Vars /\ \A v \in Vars \ Params : Declared[v] = "nil"

VARIABLES
    text,        \* what was written for each instruction, and, at 0, before the first
    heads,       \* and at the start of each block
    gen          \* the GenContext, and which blocks have a relay

genVars == <<text, heads, gen>>
wholeState == <<everything, genVars>>

S == INSTANCE SequencesExt

-----------------------------------------------------------------------------
(* What is written: an operation that defines a register (nil for none), a *)
(* call, a branch, a label.  An argument has a type and a register, or it  *)
(* is a constant.                                                          *)
Nowhere == <<"none", 0>>
Constant == <<"constant", 0>>
Variable(v) == <<"i8", <<"variable", v>>>>
Tmp(p) == <<"t", p>>
VarReg(v, r) == <<v, IF r = Initial THEN 0 ELSE r>>
Temp(i, n) == <<"c", 10 * i + n>>

Item(kind, fn, reg, type, args, labels) ==
    [kind |-> kind, fn |-> fn, reg |-> reg, type |-> type, args |-> args, labels |-> labels]
Operation(reg, type, args) == Item("op", "", reg, type, args, <<>>)
Convert(reg, type, of, source) == Item("copy", "", reg, type, <<<<of, source>>>>, <<>>)
Copy(reg, type, source) == Convert(reg, type, type, source)
Immediates(types) == [i \in 1 .. Len(types) |-> <<types[i], Constant>>]

(* The functions of the virtual machine, as they are declared.             *)
Returns_(type, args) == [type |-> type, args |-> args]
Computing(f) ==
    CASE f \in {"VM_DIV_INT", "VM_LSHIFT_INT", "VM_MOD_INT", "VM_RSHIFT_INT"} -> Returns_("Int", <<"Int", "Int">>)
      [] f \in {"VM_ADD_FLOAT", "VM_DIV_FLOAT", "VM_MULT_FLOAT", "VM_SUB_FLOAT", "VM_FMOD", "VM_POW", "VM_ATAN2"} ->
           Returns_("Double", <<"Double", "Double">>)
      [] f \in {"VM_FABS", "VM_FLOOR", "VM_CEIL", "VM_EXP", "VM_LOG", "VM_LOG10", "VM_SQRT", "VM_COS", "VM_SIN", "VM_TAN",
                "VM_ACOS", "VM_ASIN", "VM_ATAN", "VM_COSH", "VM_SINH", "VM_TANH"} -> Returns_("Double", <<"Double">>)
      [] f = "VM_LDEXP" -> Returns_("Double", <<"Double", "Int">>)
      [] f = "VM_TOINT_FLOAT" -> Returns_("Int", <<"Double">>)
      [] f \in {"VM_KFUNC", "VM_KFUNC_SPREAD", "VM_FUNC", "VM_FUNC_SPREAD"} -> Returns_("void", <<"i16", "i32">>)
      [] f \in {"VM_KFUNC_INT", "VM_KFUNC_SPREAD_INT"} -> Returns_("Int", <<"i16", "i32">>)
      [] f \in {"VM_KFUNC_FLOAT", "VM_KFUNC_SPREAD_FLOAT"} -> Returns_("Double", <<"i16", "i32">>)
      [] f \in {"VM_DFUNC", "VM_DFUNC_SPREAD"} -> Returns_("void", <<"i16", "i8", "i32">>)
      [] f \in {"VM_DFUNC_INT", "VM_DFUNC_SPREAD_INT"} -> Returns_("Int", <<"i16", "i8", "i32">>)
      [] f \in {"VM_DFUNC_FLOAT", "VM_DFUNC_SPREAD_FLOAT"} -> Returns_("Double", <<"i16", "i8", "i32">>)
      [] f \in {"VM_POP", "VM_NIL", "VM_RLIMITS_END", "VM_CATCH_END", "VM_LOOP_TICKS"} -> Returns_("void", <<>>)
      [] f \in {"VM_POP_BOOL", "VM_SWITCH_INT"} -> Returns_("i1", <<>>)
      [] f = "VM_POP_INT" -> Returns_("Int", <<>>)
      [] f = "VM_POP_FLOAT" -> Returns_("Double", <<>>)
      [] f = "VM_SWITCH_RANGE" -> Returns_("i32", <<"Int*", "i32", "Int">>)
      [] f = "VM_SWITCH_STRING" -> Returns_("i32", <<"i16*", "i32">>)
      [] f \in {"VM_RLIMITS", "VM_CAUGHT"} -> Returns_("void", <<"i1">>)
      [] f = "VM_CATCH" -> Returns_("i8*", <<>>)
      [] f = "VM_LINE" -> Returns_("void", <<"i16">>)

Declaration(f) ==
    CASE f = "VM_INT" -> Returns_("void", <<"Int">>)
      [] f = "VM_FLOAT" -> Returns_("void", <<"Double">>)
      [] f = "VM_STRING" -> Returns_("void", <<"i16", "i16">>)
      [] f \in {"VM_PARAM", "VM_LOCAL", "VM_STORE_PARAM", "VM_STORE_LOCAL", "VM_STORE_PARAM_INDEX", "VM_STORE_LOCAL_INDEX",
                "VM_STORES_PARAM", "VM_STORES_LOCAL", "VM_STORES_PARAM_INDEX", "VM_STORES_LOCAL_INDEX"} -> Returns_("void", <<"i8">>)
      [] f \in {"VM_PARAM_INT", "VM_LOCAL_INT", "VM_STORES_PARAM_INT"} -> Returns_("Int", <<"i8">>)
      [] f \in {"VM_PARAM_FLOAT", "VM_LOCAL_FLOAT", "VM_STORES_PARAM_FLOAT"} -> Returns_("Double", <<"i8">>)
      [] f \in {"VM_GLOBAL", "VM_STORE_GLOBAL", "VM_STORE_GLOBAL_INDEX", "VM_STORES_GLOBAL", "VM_STORES_GLOBAL_INDEX"} ->
           Returns_("void", <<"i16", "i8">>)
      [] f = "VM_GLOBAL_INT" -> Returns_("Int", <<"i16", "i8">>)
      [] f = "VM_GLOBAL_FLOAT" -> Returns_("Double", <<"i16", "i8">>)
      [] f \in {"VM_STORE_PARAM_INT", "VM_STORE_LOCAL_INT"} -> Returns_("void", <<"i8", "Int">>)
      [] f \in {"VM_STORE_PARAM_FLOAT", "VM_STORE_LOCAL_FLOAT"} -> Returns_("void", <<"i8", "Double">>)
      [] f = "VM_STORE_GLOBAL_INT" -> Returns_("void", <<"i16", "i8", "Int">>)
      [] f = "VM_STORE_GLOBAL_FLOAT" -> Returns_("void", <<"i16", "i8", "Double">>)
      [] f = "VM_STORES_LOCAL_INT" -> Returns_("Int", <<"i8", "Int">>)
      [] f = "VM_STORES_LOCAL_FLOAT" -> Returns_("Double", <<"i8", "Double">>)
      [] f \in {"VM_INDEX", "VM_INDEX2", "VM_RANGE", "VM_RANGE_FROM", "VM_RANGE_TO", "VM_STORE_INDEX", "VM_STORE_INDEX_INDEX",
                "VM_STORES_INDEX", "VM_STORES_INDEX_INDEX"} -> Returns_("void", <<>>)
      [] f \in {"VM_INDEX_INT", "VM_INDEX2_INT", "VM_CAST_INT", "VM_TOINT"} -> Returns_("Int", <<>>)
      [] f \in {"VM_CAST_FLOAT", "VM_TOFLOAT"} -> Returns_("Double", <<>>)
      [] f \in {"VM_AGGREGATE", "VM_MAP_AGGREGATE", "VM_STORES"} -> Returns_("void", <<"i16">>)
      [] f \in {"VM_CAST", "VM_STORES_CAST"} -> Returns_("void", <<"i8", "i16", "i16">>)
      [] f = "VM_INSTANCEOF" -> Returns_("Int", <<"i16", "i16">>)
      [] OTHER -> Computing(f)

Call(f, reg, args) == Item("call", f, reg, Declaration(f).type, args, <<>>)
VoidCall(f, args) == Call(f, Nowhere, args)
LabelHere(l) == Item("label", "", Nowhere, "void", <<>>, <<l>>)
Branch(reg, labels) ==
    Item("branch", "", Nowhere, "void", IF reg = Nowhere THEN <<>> ELSE <<<<"i1", reg>>>>, labels)
Switch(type, reg, labels) == Item("branch", "", Nowhere, "void", <<<<type, reg>>>>, labels)

-----------------------------------------------------------------------------
Word(t) == IF t = "int" THEN "Int" ELSE "Double"
Kinded(f, t) == CASE t = "int" -> f \o "_INT" [] t = "float" -> f \o "_FLOAT" [] OTHER -> f

Type(p) == ctx.stack[p].type
Below(p) == ctx.stack[p].next
Sp(i) == ctx.top[i]                \* stackPointer() of an instruction; before it, context->sp is gen.sp

UpdateLine(i, line) ==
    IF line = code[i].arg.line THEN <<>> ELSE <<VoidCall("VM_LINE", Immediates(<<"i16">>))>>
Line(i) == UpdateLine(i, gen.line)

PushResult(i) ==
    IF code[i].arg.pop \/ OffStack(Sp(i)) # "nil" THEN <<>>
    ELSE IF Type(Sp(i)) = "int" THEN <<VoidCall("VM_INT", <<<<"Int", Tmp(Sp(i))>>>>)>>
    ELSE <<VoidCall("VM_FLOAT", <<<<"Double", Tmp(Sp(i))>>>>)>>

PopIf(i) == IF code[i].arg.pop THEN <<VoidCall("VM_POP", <<>>)>> ELSE <<>>
PopResult(i) ==
    IF code[i].arg.pop \/ OffStack(Sp(i)) = "nil" THEN PopIf(i)
    ELSE <<Call(Kinded("VM_POP", OffStack(Sp(i))), Tmp(Sp(i)), <<>>)>>

(* A function that pushes its result, or returns it.                       *)
Fetch(i, f, kinds, args) ==
    IF OffStack(Sp(i)) \in kinds THEN <<Call(Kinded(f, OffStack(Sp(i))), Tmp(Sp(i)), args)>>
    ELSE <<VoidCall(f, args)>> \o PopIf(i)

EmitPush(i) ==
    LET ins == code[i].arg.ins
    IN  CASE ins \in {"INT", "FLOAT"} -> <<Operation(Tmp(Sp(i)), Word(code[i].arg.type), <<>>)>> \o PushResult(i)
          [] ins = "STRING" -> <<VoidCall("VM_STRING", Immediates(<<"i16", "i16">>))>> \o PopIf(i)
          [] ins = "GLOBAL" -> Fetch(i, "VM_GLOBAL", Number, Immediates(<<"i16", "i8">>))
          [] ins = "CHECK_RANGE_FROM" -> Line(i) \o <<VoidCall("VM_RANGE_FROM", <<>>)>> \o PopIf(i)

EmitLoad(i) ==
    LET v == code[i].arg.v  t == Type(Sp(i))
    IN  IF t \in Number THEN <<Copy(Tmp(Sp(i)), Word(t), VarReg(v, Ref(cur, i, v)))>> \o PushResult(i)
        ELSE Fetch(i, IF v \in Params THEN "VM_PARAM" ELSE "VM_LOCAL", Number, <<Variable(v)>>)

(* Strings and arrays: always on the stack, but for what a string has.     *)
EmitIndex(i) ==
    Line(i) \o
    CASE code[i].arg.ins = "INDEX" -> Fetch(i, "VM_INDEX", {"int"}, <<>>)
      [] code[i].arg.ins = "INDEX2" -> Fetch(i, "VM_INDEX2", {"int"}, <<>>)
      [] code[i].arg.ins = "CHECK_RANGE" -> <<VoidCall("VM_RANGE", <<>>)>> \o PopIf(i)
      [] code[i].arg.ins = "CHECK_RANGE_TO" -> <<VoidCall("VM_RANGE_TO", <<>>)>> \o PopIf(i)
      [] code[i].arg.ins = "STORES_CAST" -> <<VoidCall("VM_STORES_CAST", Immediates(<<"i8", "i16", "i16">>))>> \o PopIf(i)

(* A parameter is always stored in the frame; a local variable that is in  *)
(* a register is not, but in a catch.                                      *)
StoreFn(v) == IF v \in Params THEN "VM_STORE_PARAM" ELSE "VM_STORE_LOCAL"
ToFrame(v, t, reg) == VoidCall(Kinded(StoreFn(v), t), <<Variable(v), <<Word(t), reg>>>>)
Kept(i, t) == IF code[i].arg.pop THEN <<>> ELSE <<Copy(Tmp(Sp(i)), Word(t), Tmp(gen.sp))>>

EmitStore(i) ==
    LET v == code[i].arg.v  t == Type(gen.sp)
    IN  IF t \in Number
          THEN <<Copy(VarReg(v, i), Word(t), Tmp(gen.sp))>>
                 \o (IF v \in Params \/ gen.caught # 0 THEN <<ToFrame(v, t, Tmp(gen.sp))>> ELSE <<>>)
                 \o Kept(i, t) \o PushResult(i)
          ELSE <<VoidCall(StoreFn(v), <<Variable(v)>>)>> \o PopResult(i)

EmitAssign(i) ==
    LET ins == code[i].arg.ins  t == Type(gen.sp)
        global == Immediates(<<"i16", "i8">>)
    IN  CASE ins = "STORE_GLOBAL" /\ t \in Number ->
               <<VoidCall(Kinded("VM_STORE_GLOBAL", t), Append(global, <<Word(t), Tmp(gen.sp)>>))>>
                 \o Kept(i, t) \o PushResult(i)
          [] ins = "STORE_GLOBAL" /\ t \notin Number -> <<VoidCall("VM_STORE_GLOBAL", global)>> \o PopResult(i)
          [] ins = "STORE_GLOBAL_INDEX" -> Line(i) \o <<VoidCall("VM_STORE_GLOBAL_INDEX", global)>> \o PopResult(i)
          [] ins \in {"STORE_PARAM_INDEX", "STORE_LOCAL_INDEX"} ->
               Line(i) \o <<VoidCall("VM_" \o ins, <<Variable(code[i].arg.v)>>)>> \o PopResult(i)
          [] ins \in {"STORE_INDEX", "STORE_INDEX_INDEX"} -> Line(i) \o <<VoidCall("VM_" \o ins, <<>>)>> \o PopResult(i)

(* The array that others were stored from stays on the stack meanwhile.    *)
PopStores(left, pop) == IF left = 0 /\ pop THEN <<VoidCall("VM_POP", <<>>)>> ELSE <<>>

EmitStores(i) ==
    LET a == code[i].arg
        stored ==
          CASE a.ins = "STORES_GLOBAL" -> <<VoidCall("VM_STORES_GLOBAL", Immediates(<<"i16", "i8">>))>>
            [] a.ins = "STORES_GLOBAL_INDEX" -> Line(i) \o <<VoidCall("VM_STORES_GLOBAL_INDEX", Immediates(<<"i16", "i8">>))>>
            [] a.ins \in {"STORES_PARAM_INDEX", "STORES_LOCAL_INDEX"} -> Line(i) \o <<VoidCall("VM_" \o a.ins, <<Variable(a.v)>>)>>
            [] a.ins \in {"STORES_INDEX", "STORES_INDEX_INDEX"} -> Line(i) \o <<VoidCall("VM_" \o a.ins, <<>>)>>
            [] a.ins \in {"STORES_PARAM", "STORES_LOCAL"} /\ a.type \notin Number -> <<VoidCall("VM_" \o a.ins, <<Variable(a.v)>>)>>
            [] a.ins = "STORES_PARAM" /\ a.type \in Number -> <<Call(Kinded("VM_STORES_PARAM", a.type), VarReg(a.v, i), <<Variable(a.v)>>)>>
            [] a.ins = "STORES_LOCAL" /\ a.type \in Number ->
                 <<Call(Kinded("VM_STORES_LOCAL", a.type), VarReg(a.v, i), <<Variable(a.v), <<Word(a.type), Constant>>>>)>>
    IN  IF a.ins = "STORES"
          THEN IF a.n > 0 THEN Line(i) \o <<VoidCall("VM_STORES", Immediates(<<"i16">>))>> ELSE PopStores(0, a.pop)
          ELSE stored \o PopStores(gen.stores - 1, gen.pop)

-----------------------------------------------------------------------------
(* The block whose edge goes back, or to the default of a switch that has  *)
(* two ways there, is left by way of a relay, with a label of its own.     *)
Relay_Back(relays, f, t) == f >= t
Relay(relays, f, t) == f >= t \/ (f \in relays /\ t \in dflt)
Label(relays, f, t) ==
    IF Relay(relays, f, t) THEN <<f, t>> ELSE IF f \in relays THEN <<f, -1>> ELSE <<f, 0>>
Target(relays, t) == IF Relay(relays, cur, t) THEN <<cur, t>> ELSE <<t, 0>>

Updated(items) == \E n \in 1 .. Len(items) : items[n].fn = "VM_LINE"

(* jumpRelay(): a jump back takes a tick.                                  *)
JumpRelay_Untold(relays, i, line, t) ==
    IF ~Relay(relays, cur, t) THEN <<>>
    ELSE <<LabelHere(<<cur, t>>)>>
           \o (IF cur > t THEN UpdateLine(i, line) \o <<VoidCall("VM_LOOP_TICKS", <<>>)>> ELSE <<>>)
           \o <<Branch(Nowhere, <<<<t, 0>>>>)>>
JumpRelay(relays, i, line, t) ==
    IF ~Relay(relays, cur, t) THEN <<>>
    ELSE <<LabelHere(<<cur, t>>)>>
           \o (IF cur >= t THEN UpdateLine(i, line) \o <<VoidCall("VM_LOOP_TICKS", <<>>)>> ELSE <<>>)
           \o <<Branch(Nowhere, <<<<t, 0>>>>)>>
JumpRelays(relays, i, line) ==
    LET R[n \in 0 .. Len(to[cur])] ==
          IF n = 0 THEN <<>>
          ELSE R[n - 1] \o JumpRelay(relays, i, IF Updated(R[n - 1]) THEN code[i].arg.line ELSE line, to[cur][n])
    IN  R[Len(to[cur])]

EmitBranch(i) ==
    LET test == IF Type(gen.sp) = "int" THEN Operation(Temp(i, 1), "i1", <<<<"Int", Tmp(gen.sp)>>>>)
                ELSE Call("VM_POP_BOOL", Temp(i, 1), <<>>)
        on == <<to[cur][1], 0>>
        away == Target(gen.relays, to[cur][2])
    IN  <<test, Branch(Temp(i, 1), IF code[i].arg.ins = "JUMP_ZERO" THEN <<on, away>> ELSE <<away, on>>)>>
          \o JumpRelay(gen.relays, i, gen.line, to[cur][2])

(* switchInt(): a value that may be no int is tested first.                *)
MayDiffer(i) == code[i].arg.ins \in {"SWITCH_INT", "SWITCH_RANGE"} /\ Type(gen.sp) # "int"
RelaysAfter(i) == IF MayDiffer(i) THEN gen.relays \cup {cur} ELSE gen.relays

EmitSwitch(i) ==
    LET ins == code[i].arg.ins
        relays == RelaysAfter(i)
        labels == [j \in 1 .. Len(to[cur]) |-> Target(relays, to[cur][j])]
        tested == IF ~MayDiffer(i) THEN <<>>
                  ELSE <<Call("VM_SWITCH_INT", Temp(i, 9), <<>>), Branch(Temp(i, 9), <<<<cur, -1>>, labels[1]>>),
                         LabelHere(<<cur, -1>>), Call("VM_POP_INT", Tmp(gen.sp), <<>>)>>
        table(type) == <<type, Constant>>
        chosen ==
          CASE Len(labels) = 1 -> (IF ins = "SWITCH_STRING" THEN <<VoidCall("VM_POP", <<>>)>> ELSE <<>>)
                                    \o <<Branch(Nowhere, labels)>>
            [] Len(labels) > 1 /\ ins = "SWITCH_INT" -> <<Switch("Int", Tmp(gen.sp), labels)>>
            [] Len(labels) > 1 /\ ins = "SWITCH_RANGE" ->
                 <<Call("VM_SWITCH_RANGE", Temp(i, 1), <<table("Int*"), table("i32"), <<"Int", Tmp(gen.sp)>>>>),
                   Switch("i32", Temp(i, 1), labels)>>
            [] Len(labels) > 1 /\ ins = "SWITCH_STRING" ->
                 <<Call("VM_SWITCH_STRING", Temp(i, 1), <<table("i16*"), table("i32")>>), Switch("i32", Temp(i, 1), labels)>>
    IN  tested \o chosen \o JumpRelays(relays, i, gen.line)

-----------------------------------------------------------------------------
(* Kfuns that work on registers: the types they take and return, whether a *)
(* function of the virtual machine is called, and whether it may fail.     *)
Comparing == {"EQ_INT", "GE_INT", "GT_INT", "LE_INT", "LT_INT", "NE_INT", "NOT_INT", "TST_INT",
              "EQ_FLT", "GE_FLT", "GT_FLT", "LE_FLT", "LT_FLT", "NE_FLT", "NOT_FLT", "TST_FLT"}
IntKfun(f) ==
    [args |-> IF f \in {"ADD1_INT", "NEG_INT", "NOT_INT", "SUB1_INT", "TST_INT", "UMIN_INT"} THEN <<"Int">> ELSE <<"Int", "Int">>,
     type |-> "Int",
     fn |-> IF f \in {"DIV_INT", "LSHIFT_INT", "MOD_INT", "RSHIFT_INT"} THEN "VM_" \o f ELSE "",
     fails |-> f \in {"DIV_INT", "LSHIFT_INT", "MOD_INT", "RSHIFT_INT"}, one |-> FALSE]

FloatFn(f) ==
    CASE f \in {"ADD_FLT", "ADD1_FLT"} -> "VM_ADD_FLOAT"
      [] f \in {"SUB_FLT", "SUB1_FLT"} -> "VM_SUB_FLOAT"
      [] f = "DIV_FLT" -> "VM_DIV_FLOAT"
      [] f = "MULT_FLT" -> "VM_MULT_FLOAT"
      [] f \in Comparing \cup {"UMIN_FLT"} -> ""
      [] OTHER -> "VM_" \o f
FloatKfun(f) ==
    [args |-> IF f \in (Comparing \ {"NOT_FLT", "TST_FLT"}) \cup {"ADD_FLT", "SUB_FLT", "DIV_FLT", "MULT_FLT", "FMOD", "POW", "ATAN2"}
                THEN <<"Double", "Double">> ELSE <<"Double">>,
     type |-> IF f \in Comparing THEN "Int" ELSE "Double",
     fn |-> FloatFn(f),
     fails |-> FloatFn(f) \notin {"", "VM_FABS", "VM_FLOOR", "VM_CEIL"}, one |-> f \in {"ADD1_FLT", "SUB1_FLT"}]

EmitKfun(i, d) ==
    LET args == [j \in 1 .. Len(d.args) |-> <<d.args[j], Tmp(Nth(ctx, gen.sp, Len(d.args) - j))>>]
        t == Tmp(Sp(i))
    IN  (IF d.fails THEN Line(i) ELSE <<>>) \o
        (CASE code[i].arg.ins \in Comparing -> <<Operation(Temp(i, 1), "i1", args), Convert(t, "Int", "i1", Temp(i, 1))>>
           [] d.fn # "" -> <<Call(d.fn, t, IF d.one THEN Append(args, <<d.type, Constant>>) ELSE args)>>
           [] OTHER -> <<Operation(t, d.type, args)>>)
        \o PushResult(i)

(* Conversions, of what is in a register or on the stack.                  *)
EmitConversion(i) ==
    LET ins == code[i].arg.ins  from_ == Type(gen.sp)
        t == Tmp(Sp(i))  source == Tmp(gen.sp)
        popped(p, type, f) == IF Type(p) = type THEN <<>> ELSE <<Call(f, Tmp(p), <<>>)>>
    IN  (CASE ins = "TOFLOAT" /\ from_ \in Number -> <<Operation(t, "Double", <<<<Word(from_), source>>>>)>>
           [] ins = "TOFLOAT" /\ from_ \notin Number -> Line(i) \o <<Call("VM_TOFLOAT", t, <<>>)>>
           [] ins = "TOINT" /\ from_ = "int" -> <<Operation(t, "Int", <<<<"Int", source>>>>)>>
           [] ins = "TOINT" /\ from_ = "float" -> Line(i) \o <<Call("VM_TOINT_FLOAT", t, <<<<"Double", source>>>>)>>
           [] ins = "TOINT" /\ from_ \notin Number -> Line(i) \o <<Call("VM_TOINT", t, <<>>)>>
           [] ins = "LDEXP" ->
                Line(i) \o popped(gen.sp, "int", "VM_POP_INT") \o popped(Below(gen.sp), "float", "VM_POP_FLOAT")
                  \o <<Call("VM_LDEXP", t, <<<<"Double", Tmp(Below(gen.sp))>>, <<"Int", source>>>>)>>)
        \o PushResult(i)

(* All other calls, and what is made of values on the stack.               *)
EmitCall(i) ==
    LET a == code[i].arg
    IN  CASE a.ins \in IntKfuns -> EmitKfun(i, IntKfun(a.ins))
          [] a.ins \in FloatKfuns -> EmitKfun(i, FloatKfun(a.ins))
          [] a.ins \in {"TOFLOAT", "TOINT", "LDEXP"} -> EmitConversion(i)
          [] a.ins = "NIL" -> <<VoidCall("VM_NIL", <<>>)>> \o PopIf(i)
          [] a.ins = "AGGREGATE" -> <<VoidCall("VM_AGGREGATE", Immediates(<<"i16">>))>> \o PopIf(i)
          [] a.ins = "MAP_AGGREGATE" -> Line(i) \o <<VoidCall("VM_MAP_AGGREGATE", Immediates(<<"i16">>))>> \o PopIf(i)
          [] a.ins = "CAST" /\ a.type \in Number -> Line(i) \o <<Call(Kinded("VM_CAST", a.type), Tmp(Sp(i)), <<>>)>> \o PushResult(i)
          [] a.ins = "CAST" /\ a.type \notin Number -> Line(i) \o <<VoidCall("VM_CAST", Immediates(<<"i8", "i16", "i16">>))>> \o PopIf(i)
          [] a.ins = "INSTANCEOF" -> Line(i) \o <<Call("VM_INSTANCEOF", Tmp(Sp(i)), Immediates(<<"i16", "i16">>))>> \o PushResult(i)
          [] a.ins \in {"KFUNC", "KFUNC_SPREAD"} -> Line(i) \o Fetch(i, "VM_" \o a.ins, Number, Immediates(<<"i16", "i32">>))
          [] a.ins \in {"DFUNC", "DFUNC_SPREAD"} -> Line(i) \o Fetch(i, "VM_" \o a.ins, Number, Immediates(<<"i16", "i8", "i32">>))
          [] a.ins \in {"FUNC", "FUNC_SPREAD"} -> Line(i) \o <<VoidCall("VM_" \o a.ins, Immediates(<<"i16", "i32">>))>> \o PopIf(i)

-----------------------------------------------------------------------------
(* The type of a variable where several values of it are merged.           *)
MergedType(b, v) ==
    LET known == SelectSeq(SubSeq(from[b], 1, nFrom[b]), LAMBDA f : Out(f, v) # 0)
        types == (IF b = 1 /\ v \in Params THEN <<Declared[v]>> ELSE <<>>) \o [j \in 1 .. Len(known) |-> ends[known[j]][v]]
    IN  CASE in[b][v] # - b -> "void"
          [] in[b][v] = - b /\ Len(types) > 0 /\ (\A j \in 1 .. Len(types) : types[j] = types[1]) -> types[1]
          [] OTHER -> "mixed"

(* Local variables are put in the frame for a catch that stores them, and  *)
(* where they will be merged with something of another type.               *)
Saved(b, vars) ==
    LET number == {v \in vars \ Params : Out(b, v) # 0 /\ ends[b][v] \in Number}
        s == S!SetToSeq(number)
    IN  [j \in 1 .. Len(s) |-> ToFrame(s[j], ends[b][s[j]], VarReg(s[j], Out(b, s[j])))]
SaveLocals == Saved(cur, ctx.mod[next[cur]])
SaveBeforeMerge_None(b) == <<>>
SaveBeforeMerge(b) == Saved(b, {v \in Vars : \E j \in 1 .. Len(to[b]) : MergedType(to[b][j], v) = "mixed"})

EmitCatch(i) ==
    (IF gen.caught = 0 THEN SaveLocals ELSE <<>>)
      \o <<Call("VM_CATCH", Temp(i, 1), <<>>), Convert(Temp(i, 2), "i32", "i8*", Temp(i, 1)),
           Convert(Temp(i, 3), "i1", "i32", Temp(i, 2)),
           Branch(Temp(i, 3), <<<<to[cur][1], 0>>, Target(gen.relays, to[cur][2])>>)>>
      \o JumpRelay(gen.relays, i, gen.line, to[cur][2])

(* ClangCode::emit() of an instruction.                                    *)
Emit(i) ==
    LET op == code[i].op  ins == code[i].arg.ins
    IN  CASE op = "push" /\ ins \in {"INT", "FLOAT", "STRING", "GLOBAL", "CHECK_RANGE_FROM"} -> EmitPush(i)
          [] op = "load" -> EmitLoad(i)
          [] op \in {"index", "index2", "rangeto"} \/ (op = "push" /\ ins = "CHECK_RANGE") -> EmitIndex(i)
          [] op = "store" -> EmitStore(i)
          [] op = "assign" -> EmitAssign(i)
          [] op \in Storing -> EmitStores(i)
          [] op = "branch" -> EmitBranch(i)
          [] op = "switch" -> EmitSwitch(i)
          [] op = "call" \/ (op = "push" /\ ins \in {"NIL", "AGGREGATE"}) -> EmitCall(i)
          [] op = "catch" -> EmitCatch(i)
          [] op = "caught" -> <<VoidCall("VM_CAUGHT", Immediates(<<"i1">>))>>
          [] op = "endcatch" -> <<VoidCall("VM_CATCH_END", <<>>)>> \o PopIf(i)
          [] op = "rlimits" -> Line(i) \o <<VoidCall("VM_RLIMITS", Immediates(<<"i1">>))>>
          [] op = "endrlimits" -> <<VoidCall("VM_RLIMITS_END", <<>>)>> \o PopIf(i)
          [] op = "return" -> <<Item("return", "", Nowhere, "void", <<>>, <<>>)>>
          [] OTHER -> PopIf(i)

-----------------------------------------------------------------------------
(* ClangBlock::emit(): what is merged at the start of a block, from what   *)
(* is in registers at the end of those before it.                          *)
Phi(reg, type, sources, labels) ==
    Item("phi", "", reg, type, [j \in 1 .. Len(sources) |-> <<type, sources[j]>>], labels)
Entrances(b) == [j \in 1 .. nFrom[b] |-> Label(gen.relays, from[b][j], b)]

StackPhis(b) ==
    LET p(n) == Nth(ctx, start[b], n)
        ns == SelectSeq([n \in 1 .. Depth(ctx, start[b]) |-> n - 1], LAMBDA n : OffStack(p(n)) \in Number)
    IN  [j \in 1 .. Len(ns) |-> Phi(Tmp(p(ns[j])), Word(OffStack(p(ns[j]))),
                                    [l \in 1 .. nFrom[b] |-> Tmp(Nth(ctx, end[from[b][l]], ns[j]))], Entrances(b))]
VarPhis(b, vars, sources(_), labels) ==
    LET s == S!SetToSeq({v \in vars : MergedType(b, v) \in Number})
    IN  [j \in 1 .. Len(s) |-> Phi(VarReg(s[j], in[b][s[j]]), Word(MergedType(b, s[j])),
                                   sources(s[j]) \o [l \in 1 .. nFrom[b] |-> VarReg(s[j], Out(from[b][l], s[j]))], labels)]

Phis(b) ==
    (IF nFrom[b] > 1
       THEN StackPhis(b) \o VarPhis(b, Vars \ Params, LAMBDA v : <<>>, Entrances(b)) ELSE <<>>)
      \o (IF b = 1 /\ nFrom[b] > 0
            THEN VarPhis(b, Params, LAMBDA v : <<VarReg(v, 0)>>, <<<<0, 0>>>> \o Entrances(b))
          ELSE IF nFrom[b] > 1 THEN VarPhis(b, Params, LAMBDA v : <<>>, Entrances(b)) ELSE <<>>)

Fetched == S!SetToSeq({v \in Params : Declared[v] \in Number})
GenStart ==
    /\ phase = "flow"
    /\ text' = [text EXCEPT ![0] =
                  [j \in 1 .. Len(Fetched) |-> Call(Kinded("VM_PARAM", Declared[Fetched[j]]), VarReg(Fetched[j], 0),
                                                    <<Variable(Fetched[j])>>)]
                    \o <<Branch(Nowhere, <<<<1, 0>>>>)>>]
    /\ phase' = "gen" /\ cur' = 1 /\ at' = 0
    /\ UNCHANGED <<graph, typedVars, flowVars, heads, gen, list, k, here, handler>>

Onward ==
    IF next[cur] # 0 THEN cur' = next[cur] /\ at' = 0 /\ phase' = phase
    ELSE phase' = "code" /\ UNCHANGED <<cur, at>>

(* A block that nothing leads to is left out.                              *)
SkipBlock ==
    /\ phase = "gen" /\ at = 0 /\ cur # 1 /\ nFrom[cur] = 0
    /\ Onward
    /\ UNCHANGED <<graph, typedVars, flowVars, genVars, list, k, here, handler>>

BeginBlock ==
    /\ phase = "gen" /\ at = 0 /\ (cur = 1 \/ nFrom[cur] # 0)
    /\ heads' = [heads EXCEPT ![cur] = Phis(cur)]
    /\ gen' = [gen EXCEPT !.sp = start[cur], !.caught = caught[cur]]
    /\ at' = cur
    /\ UNCHANGED <<graph, typedVars, flowVars, text, phase, list, cur, k, here, handler>>

Leaving == {"branch", "switch", "catch"}
EmitInstruction ==
    /\ phase = "gen" /\ at # 0
    /\ LET op == code[at].op
           final == at = last[cur]
           before == IF final /\ gen.caught = 0 /\ op \in Leaving THEN SaveBeforeMerge(cur) ELSE <<>>
           line(items) == IF Updated(items) THEN code[at].arg.line ELSE gen.line
           written == before \o Emit(at)
           after == IF ~final \/ op \in Leaving \cup {"return"} THEN <<>>
                    ELSE (IF gen.caught = 0 /\ op # "endcatch" THEN SaveBeforeMerge(cur) ELSE <<>>)
                           \o <<Branch(Nowhere, <<Target(gen.relays, to[cur][1])>>)>>
                           \o JumpRelay(gen.relays, at, line(written), to[cur][1])
       IN  /\ text' = [text EXCEPT ![at] = written \o after]
           /\ gen' = [sp |-> Sp(at), line |-> line(written \o after),
                      caught |-> IF op = "endcatch" THEN caught[gen.caught] ELSE gen.caught,
                      relays |-> IF op = "switch" THEN RelaysAfter(at) ELSE gen.relays,
                      stores |-> IF op = "stores" THEN code[at].arg.n ELSE IF op \in Storing THEN gen.stores - 1 ELSE gen.stores,
                      pop |-> IF op = "stores" THEN code[at].arg.pop ELSE gen.pop]
           /\ IF final THEN Onward ELSE at' = at + 1 /\ UNCHANGED <<cur, phase>>
    /\ UNCHANGED <<graph, typedVars, flowVars, heads, list, k, here, handler>>

GenInit ==
    /\ FlowInit
    /\ text = [i \in 0 .. N |-> <<>>] /\ heads = [b \in Addr |-> <<>>]
    /\ gen = [sp |-> Empty, line |-> 0, caught |-> 0, relays |-> {}, stores |-> 0, pop |-> FALSE]

GenNext ==
    \/ FlowNext /\ UNCHANGED genVars
    \/ GenStart \/ SkipBlock \/ BeginBlock \/ EmitInstruction

GenSpec == GenInit /\ [][GenNext]_wholeState /\ WF_wholeState(GenNext)

-----------------------------------------------------------------------------
(* Execution of what was written, next to the interpreter: the stack and   *)
(* the frame of the virtual machine, the registers, the catches with what  *)
(* was in registers and on the stack, the last label that was passed, and  *)
(* what went wrong.                                                        *)
Starting(e) ==
    [i |-> 1, stack |-> <<>>, frame |-> e.vars, handlers |-> <<>>, label |-> <<1, 0>>, line |-> 0, ticked |-> FALSE,
     regs |-> [r \in {VarReg(Fetched[j], 0) : j \in 1 .. Len(Fetched)} |-> e.vars[r[1]]], wrong |-> {}]

IsReg(a) == a[2] # Constant /\ a[2][1] # "variable"
Regs(item) == SelectSeq(item.args, IsReg)
Assigned(m, reg, value) ==
    [m EXCEPT !.regs = [r \in DOMAIN m.regs \cup {reg} |-> IF r = reg THEN value ELSE m.regs[r]]]
Went(m, what) == [m EXCEPT !.wrong = @ \cup {what}]
Checked(m, right) == IF right THEN m ELSE Went(m, "value")
Suffix(s, n) == SubSeq(s, Len(s) - n + 1, Len(s))
Fits(type, value) ==
    CASE type = "Int" -> value[1] = "int" [] type = "Double" -> value[1] = "float" [] OTHER -> TRUE

(* The values that an instruction takes, and what it leaves instead.       *)
Takes(e) ==
    LET op == code[e.i].op
    IN  CASE op \in {"call", "assign"} -> code[e.i].arg.n - e.spread
          [] op \in {"index", "index2", "rlimits"} -> 2
          [] op \in {"rangeto", "store", "branch", "switch"} -> 1
          [] OTHER -> 0
Operands(e) == Suffix(e.stack, Takes(e)) \o (IF e.spread = 1 THEN <<e.held>> ELSE <<>>)
Left(e, f) == SubSeq(f.stack, Len(e.stack) - Takes(e) + 1, Len(f.stack))

Value(m, a) == m.regs[a[2]]
OnStack(m, values) == Len(m.stack) >= Len(values) /\ Suffix(m.stack, Len(values)) = values

(* What is called works on the stack, or on registers.                     *)
Apply(m, item, e, f) ==
    LET regs == Regs(item)
        values == [j \in 1 .. Len(regs) |-> Value(m, regs[j])]
        result == IF item.reg = Nowhere THEN m ELSE Assigned(m, item.reg, Top(f.stack))
    IN  IF regs # <<>> \/ item.kind = "op"
          THEN Checked(result, values = Suffix(Operands(e), Len(values)))
          ELSE Checked([result EXCEPT !.stack = Rest(@, Len(Operands(e)))
                                                  \o (IF item.reg = Nowhere THEN Left(e, f) ELSE Pop(Left(e, f)))],
                       OnStack(m, Operands(e)))

Testing == {"VM_POP_BOOL", "VM_SWITCH_STRING"}
Popping == Testing \cup {"VM_POP", "VM_POP_INT", "VM_POP_FLOAT"}
Perform(m, item, e, f) ==
    LET fn == item.fn
        v == item.args[1][2][2]
        assign(n, value) == IF item.reg = Nowhere THEN n ELSE Assigned(n, item.reg, value)
    IN  CASE fn \in {"VM_INT", "VM_FLOAT"} -> [m EXCEPT !.stack = Append(@, Value(m, item.args[1]))]
          [] fn \in Popping -> (IF m.stack = <<>> \/ (fn \in Testing /\ Top(m.stack) # Top(e.stack)) THEN Went(m, "value")
                                ELSE Checked(assign([m EXCEPT !.stack = Pop(@)], Top(m.stack)), Fits(item.type, Top(m.stack))))
          [] fn = "VM_SWITCH_INT" -> (IF m.stack = <<>> \/ Top(m.stack) # Top(e.stack) THEN Went(m, "value")
                                      ELSE IF Top(m.stack)[1] = "int" THEN assign(m, Top(m.stack))
                                      ELSE assign([m EXCEPT !.stack = Pop(@)], Top(m.stack)))
          [] fn \in {"VM_PARAM", "VM_LOCAL"} -> [m EXCEPT !.stack = Append(@, m.frame[v])]
          [] fn \in {"VM_PARAM_INT", "VM_LOCAL_INT", "VM_PARAM_FLOAT", "VM_LOCAL_FLOAT"} ->
               Checked(Assigned(m, item.reg, m.frame[v]), Fits(item.type, m.frame[v]))
          [] fn \in {"VM_STORE_PARAM", "VM_STORE_LOCAL"} ->
               (IF m.stack = <<>> THEN Went(m, "value")
                ELSE Checked([m EXCEPT !.frame[v] = Top(m.stack)], Top(m.stack) = Top(e.stack)))
          [] fn \in {Kinded(g, t) : g \in {"VM_STORE_PARAM", "VM_STORE_LOCAL"}, t \in Number} ->
               [m EXCEPT !.frame[v] = Value(m, item.args[2])]
          [] fn = "VM_CAUGHT" -> (IF code[e.i].arg.pop THEN m ELSE [m EXCEPT !.stack = Append(@, Top(f.stack))])
          [] fn = "VM_CATCH" -> [Assigned(m, item.reg, <<"nil", 0>>) EXCEPT
                                   !.handlers = Append(@, [regs |-> m.regs, depth |-> Len(m.stack)])]
          [] fn = "VM_CATCH_END" -> [m EXCEPT !.handlers = Pop(@)]
          [] fn = "VM_LINE" -> [m EXCEPT !.line = code[e.i].arg.line]
          [] fn = "VM_LOOP_TICKS" -> [m EXCEPT !.ticked = TRUE]
          [] fn = "VM_RLIMITS_END" -> m
          [] code[e.i].op = "storesvar" -> [assign(m, f.vars[v]) EXCEPT !.frame[v] = f.vars[v]]
          [] code[e.i].op = "storesitem" ->      \* the array stays on top of what is taken
               (LET n == code[e.i].arg.n
                IN  Checked([m EXCEPT !.stack = Append(Rest(@, n + 1), Top(@))],
                            OnStack(m, Append(Suffix(e.stack, n), e.held))))
          [] code[e.i].op = "stores" -> Checked(m, OnStack(m, <<f.held>>))
          [] OTHER -> Apply(m, item, e, f)

(* The registers that are used in block b: those of its stack, and of the  *)
(* variables that it needs.                                                *)
Within(b) ==
    {Tmp(Nth(ctx, start[b], n)) : n \in 0 .. Depth(ctx, start[b]) - 1} \cup {VarReg(v, in[b][v]) : v \in Vars}

Arrive(m, b) ==
    LET entry(phi) == {phi.args[j][2] : j \in {j \in 1 .. Len(phi.args) : phi.labels[j] = m.label}} \cap DOMAIN m.regs
        merged == {heads[b][j].reg : j \in 1 .. Len(heads[b])}
        phiOf(r) == CHOOSE phi \in S!Range(heads[b]) : phi.reg = r
        old == Within(b) \cap DOMAIN m.regs
        n == [m EXCEPT !.i = b, !.label = <<b, 0>>, !.ticked = FALSE]
    IN  IF m.label[1] >= b /\ ~m.ticked THEN Went(n, "tick")
        ELSE IF \E r \in merged : Cardinality(entry(phiOf(r))) # 1 THEN Went(n, "value")
        ELSE [n EXCEPT !.regs = [r \in merged \cup old |->
                IF r \in merged THEN m.regs[CHOOSE source \in entry(phiOf(r)) : TRUE] ELSE m.regs[r]]]

(* The items of an instruction, from the n-th on; way is the label that is *)
(* chosen, by the value that the interpreter has.                          *)
RECURSIVE Execute(_, _, _, _, _)
Execute(m, n, e, f, way) ==
    LET item == text[e.i][n]
        go == item.labels[CASE Len(item.labels) = 1 -> 1
                            [] item.args[1][2] = Temp(e.i, 9) -> IF Top(e.stack)[1] = "int" THEN 1 ELSE 2
                            [] OTHER -> way]
        used == Regs(item)
    IN  IF m.wrong # {} THEN m
        ELSE IF n > Len(text[e.i]) THEN [m EXCEPT !.i = e.i + 1]
        ELSE CASE \E j \in 1 .. Len(used) : used[j][2] \notin DOMAIN m.regs -> Went(m, "value")
               [] item.kind = "return" -> Checked(m, m.stack # <<>> /\ Top(m.stack) = Top(e.stack) /\ Len(m.stack) <= Len(e.stack))
               [] item.kind = "branch" ->
                    IF item.args # <<>> /\ item.args[1][1] = "Int" /\ Value(m, item.args[1]) # Top(e.stack) THEN Went(m, "value")
                    ELSE IF go[2] = 0 THEN Arrive(m, go[1])
                    ELSE Execute([m EXCEPT !.label = go],
                                 1 + (CHOOSE l \in 1 .. Len(text[e.i]) : text[e.i][l] = LabelHere(go)), e, f, way)
               [] item.kind = "copy" -> Execute(Assigned(m, item.reg, Value(m, item.args[1])), n + 1, e, f, way)
               [] item.kind = "op" -> Execute(Apply(m, item, e, f), n + 1, e, f, way)
               [] item.kind = "call" -> Execute(Perform(m, item, e, f), n + 1, e, f, way)

(* Which label the interpreter's next instruction stands for.              *)
Ways(e, g) ==
    LET op == code[e.i].op
    IN  CASE op = "branch" -> {IF (g.i = e.i + 1) = (code[e.i].arg.ins = "JUMP_ZERO") THEN 1 ELSE 2}
          [] op = "switch" -> {j \in 1 .. Len(code[e.i].to) : code[e.i].to[j] = g.i
                                 /\ (Top(e.stack)[1] = "int" \/ code[e.i].arg.ins = "SWITCH_STRING" \/ j = 1)}
          [] op = "catch" -> {2}
          [] OTHER -> {1}

(* A call fails after the line was set, and the outcome of the setjmp() is *)
(* another, with the registers that it had.                                *)
Thrown_(m, g) ==
    LET b == Find(g.i - 1)
        h == Top(m.handlers)
        line == IF Updated(text[m.i]) THEN code[m.i].arg.line ELSE m.line
    IN  IF m.handlers = <<>> THEN Went(m, "value")
        ELSE [Arrive([m EXCEPT !.regs = h.regs, !.stack = SubSeq(@, 1, h.depth), !.label = <<b, 0>>], g.i) EXCEPT
                !.handlers = Pop(m.handlers), !.line = line]
Blamed(m) == IF Updated(text[m.i]) THEN code[m.i].arg.line ELSE m.line

(* Both go on; a jump that was left out takes the interpreter to where the *)
(* code already is.                                                        *)
Together(p) ==
    LET e == p.e  m == p.m
    IN  IF m.wrong # {} THEN {}
        ELSE IF m.i # e.i
          THEN IF code[e.i].op = "jump" THEN {[e |-> g, m |-> m] : g \in Advance(e)}
               ELSE {[e |-> e, m |-> Went(m, "value")]}
        ELSE UNION {{[e |-> g, m |-> Execute(m, 1, e, f, way)] : way \in Ways(e, g)} :
                     <<f, g>> \in {<<f, g>> \in Results(e) \X UNION {GoesOn(f) : f \in Results(e)} : g \in GoesOn(f)}}
             \cup {[e |-> e, m |-> Execute(m, 1, e, f, 1)] : f \in {f \in Results(e) : GoesOn(f) = {}}}
             \cup {[e |-> g, m |-> Thrown_(m, g)] : g \in Fails(e)}

RECURSIVE TogetherFrom(_, _)
TogetherFrom(done, new) ==
    IF new = {} THEN done
    ELSE LET more == UNION {Together(p) : p \in new}
         IN  TogetherFrom(done \cup new, more \ (done \cup new))

Lockstep == TogetherFrom({}, {[e |-> e, m |-> Starting(e)] : e \in Starts})

-----------------------------------------------------------------------------
(* All that was written, with where: block or instruction, and number.     *)
Emitted == {b \in Blocks : b = 1 \/ nFrom[b] # 0}
Written ==
    UNION {{<<"i", i, n, text[i][n]>> : n \in 1 .. Len(text[i])} : i \in 0 .. N}
      \cup UNION {{<<"b", b, n, heads[b][n]>> : n \in 1 .. Len(heads[b])} : b \in Emitted}
Of(kind) == {w \in Written : w[4].kind = kind}

(* The label that an item is behind.                                       *)
Behind(w) ==
    LET labels == {n \in 1 .. w[3] - 1 : text[w[2]][n].kind = "label"}
    IN  CASE w[2] = 0 -> <<0, 0>>
          [] w[2] # 0 /\ labels = {} -> <<Find(w[2]), 0>>
          [] OTHER -> text[w[2]][CHOOSE n \in labels : \A l \in labels : l <= n].labels[1]
Edges == UNION {{<<Behind(w), w[4].labels[j], w[2], w[3], j>> : j \in 1 .. Len(w[4].labels)} : w \in Of("branch")}

(* What clang requires: a register is defined once, and has one type, that *)
(* of what it is used for; functions are called as they are declared; a    *)
(* label is there once; what is merged has a value for each way there.     *)
Accepted ==
    phase = "code" =>
      LET written == Written
          defs == {w \in written : w[4].reg # Nowhere}
          regs == {<<w[4].reg, w[4].type>> : w \in defs}
          labels == {<<w[4].labels[1], w[2], w[3]>> : w \in Of("label")}
          edges == Edges
      IN  /\ Cardinality({r[1] : r \in regs}) = Cardinality(defs)
          /\ \A w \in written : \A a \in S!Range(w[4].args) : IsReg(a) => <<a[2], a[1]>> \in regs
          /\ \A w \in written : w[4].kind = "call" =>
                /\ [j \in 1 .. Len(w[4].args) |-> w[4].args[j][1]] = Declaration(w[4].fn).args
                /\ (w[4].reg = Nowhere <=> w[4].type = "void")
          /\ Cardinality({l[1] : l \in labels}) = Cardinality(labels)
          /\ \A x \in edges : IF x[2][2] = 0 THEN x[2][1] \in Emitted ELSE \E l \in labels : l[1] = x[2] /\ l[2] = x[3]
          /\ \A w \in written : w[4].kind = "phi" =>
                \A l \in S!Range(w[4].labels) \cup {x[1] : x \in {x \in edges : x[2] = <<w[2], 0>>}} :
                   Cardinality({j \in 1 .. Len(w[4].labels) : w[4].labels[j] = l})
                     = Cardinality({x \in edges : x[1] = l /\ x[2] = <<w[2], 0>>})

(* The code does what the interpreter does: whatever it takes from the     *)
(* stack, from the frame or from a register is the interpreter's value.    *)
CodeRight == phase = "code" => \A p \in Lockstep : "value" \notin p.m.wrong

(* Every way back takes a tick, so that no loop goes on for ever.          *)
TicksCounted == phase = "code" => \A p \in Lockstep : "tick" \notin p.m.wrong

(* "store local variables that will be modified" (saveLocals(), line 502): *)
(* when an error is caught, the frame has the local variables that the     *)
(* catch may have stored.                                                  *)
LocalsSaved ==
    phase = "code" => \A p \in Lockstep :
      p.m.i = p.e.i /\ code[p.e.i].op = "caught" => \A v \in ctx.mod[p.e.i] \ Params : p.m.frame[v] = p.e.vars[v]

(* What is called is known by its line.                                       *)
LinesRight ==
    phase = "code" => \A p \in Lockstep :
      p.m.i = p.e.i /\ code[p.e.i].arg.ins \in {"KFUNC", "DFUNC", "FUNC"} => Blamed(p.m) = code[p.e.i].arg.line

(* All is written, in the end.                                             *)
CodeWritten == <>(phase = "code")
=============================================================================
