\* Two calls at a time, of every kind, from the server and around it; the
\* bridge may never answer.
SPECIFICATION FairSpec
CONSTANTS
    v1 = v1
    Call = {c1, c2}
    Video = {v1}
    Visible = {"public"}
    Request <- Requests
INVARIANTS TypeOK VisibleWasConfirmed AnswersAreTrue
PROPERTIES ImplementsVisibility AnnouncedIsReported
CHECK_DEADLOCK FALSE
