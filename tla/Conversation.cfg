SPECIFICATION Spec
CONSTANTS
    Shapes <- MCShapes
    Answers <- MCAnswers
    Tools <- MCTools
    DropPlanTools = TRUE
    AskedTokens = {32}
    ModelMaxTokens = 16
    MaxTokensCap = 8
    OAuth = TRUE
    AddBetas = {}
    Failures <- MCFailures
    MaxTurns = 4
INVARIANTS
    TypeOK
    CleanForAnthropic
    ContentKept
    CallsAnswered
    ErrorsUnderstood
PROPERTY
    ImplementsSessionStore
