SPECIFICATION Spec
CONSTANTS
    r1 = r1
    r2 = r2
    Req <- TwoReqs
    B = 2
    MaxNew = 4
    ForceInterval = 50
    ReplayReqs <- NoReq
INVARIANTS
    ValueForEveryRequest
