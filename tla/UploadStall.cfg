\* One execution is stopped by the time limit.
SPECIFICATION FairSpec
CONSTANTS
    Execution = {e1, e2}
    Key = {k1}
    NoKey = NoKey
    MaxJobs = 1
    MaxKeyless = 0
    MaxSessions = 1
    TotalBytes = 2
    MaxChunks = 2
    TriggerBatch = 2
    MaxKills = 1
    MaxLockTimeouts = 0
    MaxFailures = 0
    None = None
PROPERTIES QueuedIsCompleted
CHECK_DEADLOCK FALSE
