CONSTANTS
    Parts = {"duplex"}
    Q = 2
    Steps = {2}
    InCapacity = 3
    OutCapacity = 2
    Silence = Silence
    Channels = 2
    Capacity = 4
    Capacities = {3, 4}
    Routings <- MCRoutings
    WriteFrames = {1, 2}
    CallbackFrames = {1, 2}
    ReadSizes = {2, 4}
    Requests = {1, 2, 9}
    MinSize = 2
    MaxSize = 8
    Threshold = 3
    MaxSamples = 8
    MaxCaptured = 10
    MaxQueued = 2
    MaxUnderruns = 3
    MaxTicks = 4
    SampleSize = 2
    CapacityFrames = 2
    ChunkSizes = {1, 4, 6}
    SampleCounts = {0, 1, 2, 4}
    MaxOverruns = 1
    MaxPending = 2
    Kinds = {"cpal_output", "cpal_input", "jack_output", "jack_input", "pulse_output", "pulse_input"}
    Blocks = {1, 2}
    MaxBlocks = 2
    MaxMoved = 4
    None = None
    NaN = NaN
    Played <- MCPlayed
    Layouts <- MCLayouts
    Relayed = {"U8", "I16", "I24", "F32", "F64"}
    MaxHops = 3
    ToneConfigs <- MCToneConfigs
    Durations = {3, 25, 31}
    Tempos = {0, 7000, 13000, 31000, 130000, 186001}
    Endless = 1000000
SPECIFICATION StreamsSpec
INVARIANT Continuous
CHECK_DEADLOCK FALSE
