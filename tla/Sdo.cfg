\* Objects of one frame and of up to three segments, a frame lost or late up to
\* twice, one emergency, the slave unplugged at any time.
CONSTANTS
    FIRST = 2
    Lengths = {1, 2, 4, 5}
    MayVanish = TRUE
    MaxCalls = 2
    MaxLosses = 2
    MaxEmergencies = 1
SPECIFICATION FairSpec
INVARIANTS TypeOK ReadIsWhole WriteIsStored
PROPERTY CallsReturn
CHECK_DEADLOCK FALSE
