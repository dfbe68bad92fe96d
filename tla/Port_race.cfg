CONSTANTS
    Clients = {p, a, b}
    Cyclic = {p}
    Exempt = {a}
    MAXBUF = 2
    SendErrors = TRUE
    MaxReq = 2
    MaxTries = 2
    Wkcs = {1}
    None = None
SPECIFICATION FairSpec
PROPERTIES CallsReturn
