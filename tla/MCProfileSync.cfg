SPECIFICATION Spec
CONSTANTS
    Threads = {main, engine}
    Streams = {f1}
    NoStream = NoStream
    Never = Never
    SlotCount = 1
    MaxSaves = 2
    AgeCap = 2
    Main = main
    Worker = worker
    Nobody = nobody
    Quiet = 1
    MinInterval = 1
    MaxDirty = 1
    Retry = 1
    MaxStall = 1
    Word = 16
INVARIANTS
    CommittedIsDurable
    ForcedCommitDelivers
PROPERTIES
    CommittedAdvances
    ImplementsDurableSave
