\* Two executions, two jobs of one key, three sessions, every kind of fault.
SPECIFICATION Spec
CONSTANTS
    Execution = {e1, e2}
    Key = {k1}
    NoKey = NoKey
    MaxJobs = 2
    MaxKeyless = 0
    MaxSessions = 3
    TotalBytes = 2
    MaxChunks = 2
    TriggerBatch = 2
    MaxKills = 1
    MaxLockTimeouts = 2
    MaxFailures = 1
    None = None
INVARIANTS TypeOK SecondJobNeedsLoss OneVideoPerJob CompletionIsReal ChunksAreContiguous
PROPERTIES ImplementsLifecycle
SYMMETRY Symmetry
CHECK_DEADLOCK FALSE
