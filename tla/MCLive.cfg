SPECIFICATION LiveSpec
CONSTANTS
    Threads = {main}
    Streams = {f1}
    NoStream = NoStream
    Never = Never
    SlotCount = 1
    MaxSaves = 1
    AgeCap = 2
    Main = main
    Worker = worker
    Nobody = nobody
    Quiet = 1
    MinInterval = 1
    MaxDirty = 1
    Retry = 1
    MaxStall = 1
    Word = 16
    Commanders = {game, other}
    Handles = {h1, h2}
    NoPlayer = NoPlayer
    MaxCommands = 4
    MainThread = frame
    Workers = {w1, w2}
    MaxThreads = 1
    Party = {frame, w1}
    MaxRounds = 2
    MaxTokens = 1
    Others = {w1}
    Hang = 2
    Poll = 5
    MaxTicks = 2
INVARIANTS
    AtMostOneLateGrain
    SlotFieldsOwned
    NobodyPassesEarly
PROPERTIES
    EverySaveCommitted
    PlayIsHeard
    BarrierPassed
    HangIsReported
