\* With and without a key; no execution is stopped: failing calls, busy locks and expired sessions only.
SPECIFICATION FairSpec
CONSTANTS
    Execution = {e1, e2}
    Key = {k1}
    NoKey = NoKey
    MaxJobs = 1
    MaxKeyless = 1
    MaxSessions = 2
    TotalBytes = 2
    MaxChunks = 2
    TriggerBatch = 2
    MaxKills = 0
    MaxLockTimeouts = 2
    MaxFailures = 1
    None = None
PROPERTIES QueuedIsCompleted
CHECK_DEADLOCK FALSE
