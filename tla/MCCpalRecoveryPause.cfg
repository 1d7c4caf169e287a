CONSTANTS
    s1 = s1
    s2 = s2
    s3 = s3
    Streams = {s1, s2, s3}
    Initial = s1
    NoStream = NoStream
    Capacity = 1
SPECIFICATION Safety
PROPERTY PausedRendersNothing
CHECK_DEADLOCK FALSE
