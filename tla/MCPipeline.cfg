SPECIFICATION FairSpec
CONSTANTS
    r1 = r1
    r2 = r2
    Req <- TwoReqs
    B = 3
    MaxNew = 5
    ForceInterval = 3
    ReplayReqs <- OneReq
INVARIANTS
    TypeOK
    QueuedOnce
    MaskAligned
    RejectedAtItsBlock
    DeliveredRejected
    DeliveredMarks
    ReplayTiles
PROPERTY
    Answered
