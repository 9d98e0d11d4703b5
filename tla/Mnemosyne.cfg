CONSTANTS
    Files = {f1, f2}
    Articles = {n1}
    QueueSize = 2
    MaxFailures = 2
    Folders = 1
    LeftCursors = {TRUE}
    MaxChanges = 3
    MaxRestarts = 1
    MaxBeats = 1
SPECIFICATION LiveSpec
INVARIANTS RingOK Told
PROPERTIES Recovers Converges
CHECK_DEADLOCK FALSE
