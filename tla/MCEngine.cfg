SPECIFICATION EngineSpec
CONSTANTS
    Images <- TheImages
    ImportTable <- TheTable
    Exports = {"nativeTick", "own"}
    MaxDataSeg = 2
    Deltas <- TheDeltas
    OneFrame = 2
    OneSecond = 5
    Periodic = 3
    Cooldown = 2
    SlowTick = 1
    CallTargets = {"update", "other"}
    NoTarget = "none"
    MaxTick = 4
    MaxNow = 4
    Callers = {c1, c2}
    Strings = {s1}
    Maker = Maker
    LogThreads = {main, worker}
    LogMain = main
    NoThread = NoThread
    Word = 64
    FirstAddress = 4
    ExecSegment <- TheExec
    DataSegments <- TheData
    SegmentCount = 4
    MaxSegments = 3
    HeapBase = 34
    HeapLimit = 48
    OtherBlocks <- TheOthers
    NameOffset = 3
    StringSize = 12
    LongestName = 14
    OutputSize = 10
    ByteValues = {0, 1, 2, 20, 22, 24, 31}
    Threads = {t1, t2, t3}
    Mutexes = {m1, m2}
    Conds = {c}
    Reals = {r1, r2, r3}
    Slots = 2
    Zero = Zero
    Recursive = Recursive
    Garbage = Garbage
    None = None
    Forgetful = FALSE
SYMMETRY Symmetric
INVARIANTS
    OnlyWholeImagesRun
    BridgesAreTransparent
    NestedTimesFit
    CharactersComeWhole
    OneLineAtATime
    ReadsStayInside
    MutualExclusion
    NoMisuse
    RegistryExact
    NothingLeaks
CHECK_DEADLOCK FALSE
