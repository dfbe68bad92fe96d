CONSTANTS
    MAXELIST = 2
    Entry <- Entries
    NoEntry = NoEntry
    Callers = {a}
    Elsewhere = Elsewhere
    MaxErrors = 6
    MaxLogSize = 2
    None = None
SPECIFICATION FairSpec
PROPERTIES ReportsOwnError  LogImplementsRecent DrainEnds
