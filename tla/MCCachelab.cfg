SPECIFICATION Spec
CONSTANTS
    AddrBits = 24
    Jobs <- MCJobs
    FreeConfs <- MCFreeConfs
    FreeLines <- MCFreeLines
    MaxLines = 5
    Static <- MCStatic
    Operands <- MCOperands
INVARIANTS
    LinesFit
    Transposed
    MissTarget
    OnlyTransposeCounted
PROPERTIES
    ImplementsLru
CHECK_DEADLOCK FALSE
