SPECIFICATION Spec
CONSTANTS
    Threads = {main, engine}
    Streams = {f1}
    NoStream = NoStream
    Never = Never
    SlotCount = 1
    MaxSaves = 1
    AgeCap = 3
    Main = main
    Worker = worker
    Nobody = nobody
    Quiet = 1
    MinInterval = 1
    MaxDirty = 2
    Retry = 1
    MaxStall = 1
    Word = 16
PROPERTIES
    WatchdogAfterCommit
