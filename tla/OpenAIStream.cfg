CONSTANTS
    Reasoning = Reasoning
    Content = Content
    callA = callA
    callB = callB
    Tools = {callA, callB}
    ReasoningMode = "thinking"
    FinishReasons = {"stop", "length", "tool_calls", "eos"}
    ErrorTypes = {}
    Usages <- MCUsages
    EstimatedInput = 2
    MaxFragments <- MCFragments
    MaxParts = 2
SPECIFICATION FairSpec
INVARIANTS
    TypeOK
    FragmentsInOwnBlock
    OneBlockPerToolCall
    NothingLost
    ReportIsTrue
PROPERTIES
    ImplementsContract
    EveryResponseEnds
