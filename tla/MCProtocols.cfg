CONSTANTS
    Parts = {"smf", "osc", "midi", "cable", "audio", "wiring"}
    Files <- PlainFiles
    None = None
    DamageBytes = {0, 3, 47, 127, 128, 144, 240, 255}
    DefaultTempo = 2
    Resolution = 2
    DamagedTo = {0, 1, 4, 44, 47, 91, 93, 105, 115, 255}
    MaxNestingDepth = 2
    Systems <- MCSystems
    MidiMessages <- MCMidiMessages
    CableMessages <- SmallMessages
    Foreign <- AnyEvents
    Intervals = {1, 2}
    Window = 3
    MaxMessages = 5
    EntryMax = 2
    RingSize = 3
    MaxSends = 3
    MaxForeign = 1
    Backends = {TRUE, FALSE}
    SampleRate = 1
    BlockSizes = {1, 2}
    WriteSizes = {1, 3}
    ReadSizes = {2}
    MaxSamples = 4
    MaxFrames = 3
    MaxXruns = 1
    SystemPorts <- OnePort
    Requested = "app"
    Numbered = "app-01"
    Playback <- ThreePlayback
    Capture <- OneCapture
    Clients = {k1, k2}
SPECIFICATION ProtocolsSpec
INVARIANTS
    RoundTrip
    DamageIsContained
    PlaysOnTime
    PacketsStayWhole
    ArrivesWhereListed
    TempoIsOfLatestTicks
    NothingInvented
    WholeSysExIsReturned
    AudioIsAccounted
    AutoWiresOwn
CHECK_DEADLOCK FALSE
