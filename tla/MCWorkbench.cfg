SPECIFICATION Spec
CONSTANTS
    MaxDepth = 2
    MaxFields = 2
    MaxCount = 8
    None = None
    MaxBytes = 4
    DefaultBytes = 2
    MaxSafeInteger = 300
    MaxPort = 2
    MaxChannel = 3
    AutoscaleModels = {"S1"}
    MaxSamples = 5
    MaxDrain = 4
    Unlimited = None
    MaxSavedCharts = 2
    MaxInterval = 2
    DefaultConnect = 2
    DefaultTimeout = 3
    DefaultSamples = 3
    Executables <- MCExecutables
    PowersModels <- MCPowersModels
    ScopesModels <- MCScopesModels
    Resources <- MCResources
    Models <- MCModels
    InstanceIds <- MCInstanceIds
    Readies <- MCReadies
    Scenes <- MCScenes
    MaxReal = 3500
    Channels = {1, 2}
    Protections <- MCProtections
    Files <- MCFiles
    Names = {n1, n2, n3}
    Sessions <- MCSessions
    MaxWritten = 2
    MaxAsked = 1
    Outputs = {"a", "t"}
    Stamped = {"t"}
    Executions <- MCExecutions
    MaxBins = 3
    MaxWindow = 3
    MaxRecords = 2
    Chunk = 2
    Height = 1
    Overscan = 1
    MonitorPoints = 3
    MonitorBytes = 4
    EventBatch = 2
    ScanBatch = 3
    ChartPoints = 6
    RawLimit = 6
    Startup = 2
    ActionTimeout = 1
INVARIANTS
    CheckersAgree
    SavedIsLoaded
    AcceptedCanRun
    StartedAsPrepared
    ShownIsReal
    OnlyOwnIsBelieved
    FiguresAreExact
    PanesAreReal
    TimerIsPaced
PROPERTIES
    ClearIsSafe
CHECK_DEADLOCK FALSE
