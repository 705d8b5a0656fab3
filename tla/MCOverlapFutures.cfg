CONSTANTS
    r1 = r1
    r2 = r2
    r3 = r3
    Req <- ThreeReqs
    PromptLen = 1
    MaxNew = 2
    B = 3
    P = 1
    NPages = 13
    MaxRunning = 2
    MaxChunks = 0
    ForceInterval = 2
    SerialPrefill = TRUE
    Abortable <- NoReq
SPECIFICATION Spec
SYMMETRY Symmetry
INVARIANT NoFault
PROPERTY UsesFutureMap
