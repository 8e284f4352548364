SPECIFICATION Spec
CONSTANTS
    Ops <- MCOps
    Args <- MCArgs
    Programs <- MCPrograms
    Tried = {"plain", "jump", "branch", "catch", "operand", "return"}
    Longest = 4
INVARIANTS Partition ContextsRight EdgesRight
CHECK_DEADLOCK FALSE
