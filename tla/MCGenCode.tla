--------------------------- MODULE MCGenCode ---------------------------
(* TypedAnalysis, FlowAnalysis and GenCode for functions made of small statements.                   *)
EXTENDS GenCode

CONSTANTS
    Levels,      \* bound: how deep statements are nested
    Bodies       \* or the name of a function of a special kind

F == INSTANCE MCFunctions

MCVars == F!MCVars
MCOps == F!MCOps
MCArgs == F!MCArgs
MCDeclared == F!MCDeclared
MCParams == F!MCParams

(* ({ a ? b : c, ... }) with so many elements.                             *)
RECURSIVE Choices(_)
Choices(n) ==
    IF n = 0 THEN <<>>
    ELSE Choices(n - 1) \o <<F!Load("x"), F!Branch(3), F!Push("int"), F!Jump(2), F!Push("string")>>
Wide(n) == F!Linked(Choices(n) \o <<F!Calling(n, "array"), F!Return>>)

(* All instructions, with values on the stack where branches meet.         *)
Chosen == <<
    F!Function(F!DoWhile(F!IfElse(F!Set("x", "string"), F!Set("y", "int")))),
    F!Function(F!Choice(F!Push("int"), F!Load("x")) \o <<F!pop(F!Store("y"))>>),
    F!Function(F!While(F!Choice(F!Load("y"), F!Load("x")) \o <<F!Store("y"), F!Push("string")>>
                         \o F!Choice(F!Push("int"), F!Load("y")) \o <<F!Calling(3, "int"), F!pop(F!Store("x"))>>)),
    F!Function(<<F!Load("x"), F!Load("y"), F!I("index", "INDEX", 1), F!Push("string"), F!Push("int"), F!I("index2", "INDEX2", 1),
                 F!I("rangeto", "CHECK_RANGE_TO", 1), F!many(F!I("assign", "STORE_INDEX", 2), 3), F!pop(F!Calling(3, "array")),
                 F!Push("array"), F!I("spread", "SPREAD", 2), F!pop(F!Kfun("KFUNC_SPREAD", 1, "string"))>>),
    F!Function(F!While(<<F!Push("mixed"), F!Push("int"), F!Push("array"), F!many(F!I("stores", "STORES", 2), 2),
                         F!typed(F!var(F!I("storesvar", "STORES_LOCAL", 2), "x"), "string"),
                         F!many(F!I("storesitem", "STORES_INDEX", 1), 2), F!pop(F!Calling(1, "mixed"))>>)),
    F!Function(<<F!Push("int"), F!Push("int"), F!I("rlimits", "RLIMITS", 1)>> \o F!Catch(F!Set("x", "string") \o F!Call)
                 \o <<F!Return>> \o F!While(F!Catch(F!Copy("y", "x") \o F!Call))),
    F!Function(F!Catch(F!Catch(F!Set("x", "string") \o F!Call) \o F!Call)),
    F!Linked(F!DoWhile(F!Copy("y", "x") \o F!Set("x", "nil")) \o F!Ret(0)),
    F!Function(F!While(<<F!Load("p"), F!Push("int"), F!Kfun("ADD_INT", 2, "int"), F!pop(F!Store("p")), F!Load("p"),
                         F!Kfun("KFUNC", 0, "int"), F!Kfun("DIV_INT", 2, "int"), F!Load("x"), F!Kfun("LT_INT", 2, "int"),
                         F!Branch(2), F!pop(F!Kfun("KFUNC", 0, "int")), F!Load("p"), F!Kfun("NOT_INT", 1, "int"),
                         F!pop(F!Store("x"))>>)),
    F!Function(<<F!Push("float"), F!Kfun("DFUNC", 0, "float"), F!Kfun("SUB_FLT", 2, "float"), F!Load("p"),
                 F!Kfun("LDEXP", 2, "float"), F!Kfun("SQRT", 1, "float"), F!Store("y"), F!Kfun("ADD1_FLT", 1, "float"),
                 F!Load("y"), F!Kfun("GE_FLT", 2, "int"), F!Kfun("TOFLOAT", 1, "float"), F!Kfun("TOINT", 1, "int"),
                 F!pop(F!Store("x")), F!Push("mixed"), F!Kfun("TOINT", 1, "int"), F!Kfun("TOFLOAT", 1, "float"),
                 F!pop(F!Store("y"))>>),
    F!Function(F!While(F!Cases("SWITCH_INT", F!Load("p"), <<5, 1, 3>>) \o F!Set("x", "int") \o F!Set("y", "string"))
                 \o F!Cases("SWITCH_INT", F!Push("mixed"), <<5, 1, 3>>) \o F!Set("x", "string") \o F!Set("x", "int")),
    F!Function(F!DoWhile(F!Cases("SWITCH_STRING", F!Load("x"), <<3, 1>>) \o F!Copy("y", "x"))
                 \o F!Cases("SWITCH_RANGE", F!Load("y"), <<1, 3>>) \o F!Copy("y", "p")
                 \o F!Cases("SWITCH_STRING", F!Load("y"), <<1>>)),
    F!Function(<<F!Push("int"), F!many(F!I("assign", "STORE_GLOBAL", 2), 1), F!Push("string"),
                 F!pop(F!many(F!I("assign", "STORE_GLOBAL", 2), 1)), F!Push("int"),
                 F!many(F!var(F!I("assign", "STORE_LOCAL_INDEX", 2), "y"), 2), F!Kfun("CAST", 1, "int"),
                 F!Kfun("INSTANCEOF", 1, "int"), F!pop(F!Store("x")), F!Push("array"), F!pop(F!many(F!I("stores", "STORES", 2), 3)),
                 F!typed(F!var(F!I("storesvar", "STORES_LOCAL", 2), "x"), "int"), F!I("storesitem", "STORES_GLOBAL", 2),
                 F!typed(F!var(F!I("storesvar", "STORES_PARAM", 2), "p"), "int"), F!Load("x"), F!Load("p"),
                 F!pop(F!Kfun("MULT_INT", 2, "int"))>>),
    F!Function(F!Catch(F!If(<<F!Load("p"), F!Push("int"), F!Kfun("ADD_INT", 2, "int"), F!pop(F!Store("p"))>>) \o F!Call
                         \o F!Catch(F!Copy("x", "p") \o F!Call)) \o F!Copy("x", "p"))>>

(* What has been stored in a catch that is only left by an error.          *)
Inner == F!Function(F!Catch(F!Catch(F!Forever(F!Set("x", "string") \o F!Call)) \o F!Call))

(* What an inner catch leaves in a variable, after an error in the outer.  *)
Outer == F!Function(F!Catch(F!Catch(F!If(F!Set("x", "int")) \o F!If(F!Call)) \o F!Call))

(* The function begins with a loop.                                        *)
LoopFirst == F!Linked(F!Forever(F!IfVar("x", F!Ret(0)) \o F!Set("x", "int") \o F!Call))

(* A variable that only what follows the catch needs, if it fails.         *)
Unsaved == F!Function(F!If(F!Call) \o F!Catch(F!Call \o F!Set("x", "string")))

(* while (...) { if (...) continue; x = 1; }                               *)
Continue == F!Function(F!While(F!If(<<F!Jump(-4)>>) \o F!Set("x", "int")))

(* case 1: default: ...                                                    *)
Shared == F!Function(F!Cases("SWITCH_INT", F!Push("mixed"), <<3, 3, 1>>) \o F!Set("x", "int") \o F!Call)

(* if (...) f(); g(); in a line                                            *)
OneLine == F!Function(F!If(F!Call) \o F!Call)

MCPrograms ==
    CASE Bodies = "inner" -> {Inner}
      [] Bodies = "unsaved" -> {Unsaved}
      [] Bodies = "continue" -> {Continue}
      [] Bodies = "shared" -> {Shared}
      [] Bodies = "line" -> {OneLine}
      [] Bodies = "outer" -> {Outer}
      [] Bodies = "loop" -> {LoopFirst}
      [] Bodies = "row" -> {Wide(11)}
      [] Bodies = "wide" -> {Wide(32)}
      [] OTHER -> {Chosen[j] : j \in 1 .. Len(Chosen)} \cup {F!Function(s) : s \in F!Statements(Levels, 0, 1)}
=============================================================================
