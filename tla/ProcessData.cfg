CONSTANTS
    MAXBUF = 2
    InputsWKC = 2
    OutputsWKC = 1
    MaxRetries = 2
    MaxWrites = 2
    MaxOps = 3
    MaxFails = 3
SPECIFICATION FairSpec
INVARIANTS TypeOK  NoFalseAlarm
PROPERTY BusRecovers
