\* Two buses, three descriptors, used as CarefulUse says.
CONSTANTS
    Buses = {b1, b2}
    Fds = {3, 4, 5}
    Can = can
    Careful = TRUE
    MaxStarts = 4
    MaxCans = 2
SPECIFICATION Spec
INVARIANTS
    TypeOK
    SocketsAgree
    NoCallOnNothing

    
\* The process may do nothing more.
CHECK_DEADLOCK FALSE
