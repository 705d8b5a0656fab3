SPECIFICATION Spec
CONSTANTS
    Req <- ThreeReqs
    Text <- Texts
    PromptLen = 3
    MaxNew = 4
    B = 3
    P = 2
    NPages = 9
    RetractSteps = 1
INVARIANTS
    TypeOK
    PagesPartitioned
    KVFaithful
    LocksExact
    AllocationsFit
    BatchAligned
