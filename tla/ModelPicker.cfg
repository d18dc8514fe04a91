SPECIFICATION Spec
CONSTANTS
    Configs <- MCConfigs
    MaxModels = 2
    MaxEdits = 1
    MaxStreams = 1
    Deadline = 2
INVARIANTS
    TypeOK
    SilentMeansCurrent
    RowsReachTheirModel
    WindowFits
PROPERTY
    ServeExits
