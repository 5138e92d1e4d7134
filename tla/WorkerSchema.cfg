\* The committed migration, no fault of any kind.
SPECIFICATION FairSpec
CONSTANTS
    m1 = m1
    m2 = m2
    Operation = {"op1"}
    Subject = {"alice", "bob"}
    Request = {"first"}
    Reply = {"ok", "invalid"}
    OperationOf <- MCOperationOf
    SubjectOf <- MCSubjectOf
    NoRequest = NoRequest
    NoSubject = NoSubject
    NoReply = NoReply
    SubjectNotNull = TRUE
    Message = {m1}
    RequestOf <- MCRequestOf
    Malformed = {}
    Handler = {h1, h2}
    NoMessage = NoMessage
    InvalidRequest = "invalid"
    InitialLeft = {2}
    MaxDeadlineAhead = 1
    AckWait = 1
    MaxDeliver = 2
    MaxCrashes = 0
    MaxIoErrors = 0
    MaxPullErrors = 0
PROPERTIES ClaimedReachesOutbox
CHECK_DEADLOCK FALSE
