CONSTANTS
    s1 = s1
    s2 = s2
    s3 = s3
    Streams = {s1, s2, s3}
    Initial = s1
    NoStream = NoStream
    Capacity = 1
    None = None
    Parts = {"recovery", "guard", "connection"}
    MaxConns = 2
    MaxLate = 1
    Environments <- MCEnvironments
    Endpoints <- MCEndpoints
    Defaults <- MCDefaults
    Configs <- MCConfigs
SPECIFICATION LifecyclesSpec
INVARIANTS
    LossStaysVisible
    OpensAsAnnounced
    NoStrayStream
PROPERTIES
    QueuedForCurrentStream
    CallsReturn
    StreamsReleased
    KeepsTrying
    OutputSpec
    NoConnectionLeaks
CHECK_DEADLOCK FALSE
