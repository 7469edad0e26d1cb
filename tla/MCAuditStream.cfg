SPECIFICATION AuditSpec
CONSTANTS
    Emitters = 2
    NetSize = 1
    MaxEvents = 2
    MaxStreams = 2
    MaxFaults = 2
    Completers = 1
    NoRecording = NoRecording
    NoPart = NoPart
INVARIANTS
     SkipProtects SessionEnds

    
CHECK_DEADLOCK FALSE
