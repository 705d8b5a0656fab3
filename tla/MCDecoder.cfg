SPECIFICATION Spec
CONSTANTS
    Req <- TwoReqs
    Token <- Tokens
    Prompt <- Prompts
    Stop <- StopTokens
    MaxNew = 6
    B = 3
    ContextLen = 10
    Target <- Model
INVARIANTS
    TypeOK
    Lossless
    CurrentIsLast
PROPERTY
    ImplementsTarget
