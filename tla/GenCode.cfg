SPECIFICATION GenSpec
CONSTANTS
    Ops <- MCOps
    Args <- MCArgs
    Programs <- MCPrograms
    Vars <- MCVars
    Params <- MCParams
    Declared <- MCDeclared
    Levels = 2
    Bodies = "all"
INVARIANTS
    TypesSound
    RefsRight
    Accepted
    CodeRight
    TicksCounted
PROPERTY CodeWritten
CHECK_DEADLOCK FALSE
