SPECIFICATION FairSpec
CONSTANTS
    Clients = {c1}
    Callers = {q1}
    MsgCap = 2
    InputCap = 1
    ConnCap = 2
INVARIANTS
    TypeOK
    SignoffLast
    ConnsKnown
    NilAfterSignoff
    LateReplyFits
PROPERTIES
    MessagesFlow
    RequestsReturn
CHECK_DEADLOCK FALSE
