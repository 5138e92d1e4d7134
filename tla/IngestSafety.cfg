\* Two executions, one request id with two names and two contents, one
\* attachment, one stop and one failing call.
SPECIFICATION Spec
CONSTANTS
    Execution = {e1, e2}
    RequestId = {r1}
    Name = {n1, n2}
    Content = {x, y}
    Attachment = {a1}
    MaxFiles = 3
    MaxKills = 1
    MaxFailures = 1
    None = None
INVARIANTS TypeOK SecondFileNeedsLoss ExactRetryMakesNoCopy AnswersAreFaithful SecondImportNeedsRace
CHECK_DEADLOCK FALSE
