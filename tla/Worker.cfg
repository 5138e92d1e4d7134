\* One operation id: a request and a conflicting one of another subject, with
\* redelivery, a stop of the process, a failing call and a failing pull.
SPECIFICATION FairSpec
CONSTANTS
    m1 = m1
    m2 = m2
    Operation = {"op1"}
    Subject = {"alice", "bob"}
    Request = {"first", "other"}
    Reply = {"ok", "invalid"}
    OperationOf <- MCOperationOf
    SubjectOf <- MCSubjectOf
    NoRequest = NoRequest
    NoSubject = NoSubject
    NoReply = NoReply
    SubjectNotNull = FALSE
    Message = {m1, m2}
    RequestOf <- MCRequestOf
    Malformed = {}
    Handler = {h1, h2}
    NoMessage = NoMessage
    InvalidRequest = "invalid"
    InitialLeft = {2}
    MaxDeadlineAhead = 1
    AckWait = 1
    MaxDeliver = 2
    MaxCrashes = 1
    MaxIoErrors = 1
    MaxPullErrors = 1
INVARIANTS TypeOK AtMostOneExecution ResultsAreJournaled AckedIsDelivered StatusAgreesWithInbox
PROPERTIES JournalIsWriteOnce OrphanedClaimStays ImplementsLifecycle BacklogDrains ClaimedIsDelivered
CHECK_DEADLOCK FALSE
