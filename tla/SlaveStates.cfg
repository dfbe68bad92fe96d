CONSTANTS
    N = 2
    FPRD_MULTI = 1
    States <- Running
    LogCounters = {TRUE, FALSE}
    MaxChanges = 1
SPECIFICATION Spec
INVARIANTS TypeOK LowestIsLowest LogIsComplete
PROPERTIES FineMeansOperational 
