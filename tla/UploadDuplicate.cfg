\* waitLock gives up twice; nothing fails and nothing is stopped.
SPECIFICATION Spec
CONSTANTS
    Execution = {e1, e2}
    Key = {k1}
    NoKey = NoKey
    MaxJobs = 2
    MaxKeyless = 0
    MaxSessions = 2
    TotalBytes = 2
    MaxChunks = 2
    TriggerBatch = 2
    MaxKills = 0
    MaxLockTimeouts = 2
    MaxFailures = 0
    None = None
INVARIANTS OneJobPerKey
CHECK_DEADLOCK FALSE
