\* One stop of the process, a tolerant schema, no other fault.
SPECIFICATION FairSpec
CONSTANTS
    m1 = m1
    m2 = m2
    Operation = {"op1"}
    Subject = {"alice", "bob"}
    Request = {"first"}
    Reply = {"ok", "invalid"}
    OperationOf <- MCOperationOf
    SubjectOf <- MCSubjectOf
    NoRequest = NoRequest
    NoSubject = NoSubject
    NoReply = NoReply
    SubjectNotNull = FALSE
    Message = {m1}
    RequestOf <- MCRequestOf
    Malformed = {}
    Handler = {h1, h2}
    NoMessage = NoMessage
    InvalidRequest = "invalid"
    InitialLeft = {1}
    MaxDeadlineAhead = 1
    AckWait = 1
    MaxDeliver = 3
    MaxCrashes = 1
    MaxIoErrors = 0
    MaxPullErrors = 0
PROPERTIES UnpublishedResultsResume
CHECK_DEADLOCK FALSE
