SPECIFICATION Spec
CONSTANTS
    Requests = {q1}
    MaxEvents = 2
    MaxDials = 2
    CliCap = 2
    HubCap = 1
    RemoteCap = 1
    LocalCap = 1
INVARIANT ReplicatesEvents
