CONSTANTS
    r1 = r1
    r2 = r2
    r3 = r3
    Req <- TwoReqs
    PromptLen = 1
    MaxNew = 3
    B = 2
    P = 2
    NPages = 9
    MaxRunning = 2
    MaxChunks = 0
    ForceInterval = 2
    SerialPrefill = FALSE
    Abortable <- OneReq
SPECIFICATION FairSpec
INVARIANTS OutputsExact LagExact PoolExact NoFault  MetadataExact
PROPERTIES FinalIsLast Served
