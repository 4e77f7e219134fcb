SPECIFICATION Spec
CONSTANTS
    Requests = {q1}
    MaxEvents = 3
    MaxDials = 3
    CliCap = 3
    HubCap = 2
    RemoteCap = 1
    LocalCap = 2
INVARIANTS
    TypeOK
    UpdatesComplete
    AnswersTell
    StatusFollows
    FirstWriterStays
CHECK_DEADLOCK FALSE
