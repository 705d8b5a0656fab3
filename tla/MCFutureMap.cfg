SPECIFICATION MCSpec
CONSTANTS
    MaxRunning = 2
    MaxChunks = 0
    MaxLaunched = 18
INVARIANT
    SlotsDistinct
