CONSTANTS
    think = think
    say = say
    callA = callA
    callB = callB
    Items <- MixedItems
    ItemType <- MixedTypes
    Keys <- MixedItems
    Key <- OwnKey
    Sequential = FALSE
    Lossy = TRUE
    ReasoningMode = "thinking"
    MaxDeltas = 2
    UpstreamCodes = {""}
    Usages <- OneUsage
    EstimatedInput = 2
SPECIFICATION Spec
INVARIANTS
    NothingLost
    MapTracksOpenBlocks
    AllClosedAtEnd
