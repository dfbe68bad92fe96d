\* Two slaves that send their words one and two at a time.
CONSTANTS
    N = 2
    Top = 1
    Chunk <- Chunks
    Fields = 2
    RETRIES = 1
    NACKS = 2
    MaxFaults = 3
    MaxBytes = 2
    MaxCalls = 2
SPECIFICATION Spec
INVARIANTS  ControlIsKnown
\* The master may have nothing more to read.
CHECK_DEADLOCK FALSE
