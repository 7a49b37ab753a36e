SPECIFICATION Spec
CONSTANTS
    Clients = {1, 2}
    Polite = {1}
    Scenarios <- MCScenarios
    Disk <- MCDisk
    CgiUris <- MCCgiUris
    MAXLINE = 5
    RIO_BUFSIZE = 2
    SEGMENT = 3
    SNDBUF = 2
    MaxFaults = 1
    None = None
INVARIANTS
    StopsAtBlankLine
    Delivered
PROPERTIES
    Answered
CHECK_DEADLOCK FALSE
