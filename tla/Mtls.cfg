\* Two connections for one permit, two frames each, one bearer and a subject
\* it does not belong to.
SPECIFICATION FairSpec
CONSTANTS
    Connection = {c1, c2}
    Subject = {s1, s2}
    Bearer = {s1}
    MaxConnections = 1
    MaxFrames = 2
INVARIANTS TypeOK PermitsAreAccounted RepliesMatchFrames ServedIsAuthenticated
PROPERTIES PermitComesBack FramesAreAnswered
CHECK_DEADLOCK FALSE
