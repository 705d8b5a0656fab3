SPECIFICATION FairSpec
CONSTANTS
    Req <- TwoReqs
    Text <- DistinctTexts
    PromptLen = 3
    MaxNew = 4
    B = 3
    P = 1
    NPages = 10
    RetractSteps = 1
INVARIANT
    PagesPartitioned
PROPERTY
    Drains
