SPECIFICATION Spec
CONSTANTS
    i1 = i1
    i2 = i2
    a = a
    b = b
    Index = {i1}
    Data = {a, b}
    Absent = Absent
    Blank = Blank
    NoTable = NoTable
    MaxGen = 3
    Wrap = TRUE
    Trailing <- MCPlainPath
    Host = {}
    Faults = {}
PROPERTY SnapshotFrozen
CHECK_DEADLOCK FALSE
