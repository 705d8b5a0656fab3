SPECIFICATION Spec
CONSTANTS
    r1 = r1
    r2 = r2
    Req <- TwoReqs
    B = 3
    MaxNew = 5
    ForceInterval = 1
    ReplayReqs <- OneReq
    PromptLen = 1
    Strides = {1, 2}
    Limits = {1, 2, 100}
INVARIANTS
    RowsScatteredOnce
    RejectedCountExact
    TVAccepts
    TVCountExact
    TVBlocksExact
    
