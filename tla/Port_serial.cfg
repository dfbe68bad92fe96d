CONSTANTS
    Clients = {p, a, b}
    Cyclic = {p}
    Exempt = {}
    MAXBUF = 4
    SendErrors = FALSE
    MaxReq = 6
    MaxTries = 2
    Wkcs = {1}
    None = None
SPECIFICATION Spec
INVARIANTS TypeOK IndexExclusive NoLeak StaleGap
PROPERTIES StoredAnswerIsUsed
SYMMETRY Symm
