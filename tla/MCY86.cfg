SPECIFICATION Spec
CONSTANTS
    WordBytes = 2
    HalfWord = 32768
    MemLen = 64
    InstrLimit = 60
    Programs <- MCPrograms
INVARIANTS
    NoConflict
    RunsAgree
    CodeRoundTrips
PROPERTIES
    SeqImplementsIsa
    PipeImplementsIsa
CHECK_DEADLOCK FALSE
