CONSTANTS
    think = think
    say = say
    callA = callA
    callB = callB
    Items <- ParallelItems
    ItemType <- ParallelTypes
    Keys <- ParallelItems
    Key <- OwnKey
    Sequential = FALSE
    Lossy = FALSE
    ReasoningMode = "thinking"
    MaxDeltas = 2
    UpstreamCodes = {""}
    Usages <- MCUsages
    EstimatedInput = 2
SPECIFICATION FairSpec
INVARIANTS
    FragmentsInOwnBlock
    ReportIsTrue
PROPERTIES
    ImplementsContract
    EveryResponseEnds
