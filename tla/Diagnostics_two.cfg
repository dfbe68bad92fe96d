CONSTANTS
    MAXELIST = 2
    Entry <- Entries
    NoEntry = NoEntry
    Callers = {a, b}
    Elsewhere = Elsewhere
    MaxErrors = 3
    MaxLogSize = 2
    None = None
SPECIFICATION Spec
PROPERTIES ReportsOwnError
