\* One execution is stopped; its request is sent again.
SPECIFICATION Spec
CONSTANTS
    Execution = {e1}
    RequestId = {r1}
    Name = {n1, n2}
    Content = {x, y}
    Attachment = {}
    MaxFiles = 2
    MaxKills = 1
    MaxFailures = 0
    None = None
PROPERTIES ExactReplayReturnsFile
CHECK_DEADLOCK FALSE
