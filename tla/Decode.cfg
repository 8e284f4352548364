SPECIFICATION MCSpec
CONSTANTS
    Protos <- MCProtos
    NBuiltins = 3
    NKfuns = 2
    KfBuiltins = 128
    NInherits = 2
    VarTypes <- MCVarTypes
    FuncTypes <- MCFuncTypes
    CheckedCalls = FALSE
    Size = 7
INVARIANTS ReadAsWritten FindsBlock
CHECK_DEADLOCK FALSE
