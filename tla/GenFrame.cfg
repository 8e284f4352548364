SPECIFICATION GenSpec
CONSTANTS
    Ops <- MCOps
    Args <- MCArgs
    Programs <- MCPrograms
    Vars <- MCVars
    Params <- MCParams
    Declared <- MCDeclared
    Levels = 2
    Bodies = "unsaved"
CHECK_DEADLOCK FALSE
INVARIANT LocalsSaved
