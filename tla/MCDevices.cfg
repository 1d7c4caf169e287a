CONSTANTS
    Devices = {d1, d2}
    Capacity = 2
    MaxChanges = 2
    MaxFailures = 1
    None = None
    Models <- MCModels
    Configs <- MCConfigs
    MaxUnplugs = 2
    Catalogue <- MCCatalogue
    Containing <- MCContaining
    Monitor = "monitor"
    Platforms <- MCPlatforms
    MaxComings = 4
    Callers = {c1, c2}
    Categories = {"playback", "record"}
    Builds <- MCBuilds
    MaxRequests = 2
    MaxFrames = 3
SPECIFICATION DevicesSpec
INVARIANTS
    EventsTellSnapshot
    ReadersCatchUp
    AllOrNothing
    OpensAsAsked
    OpensNamed
    AnswerIsTheUsers
    AtMostOnceMore
PROPERTIES
    ConvergesToPresent
CHECK_DEADLOCK FALSE
