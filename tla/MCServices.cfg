SPECIFICATION ServicesSpec
CONSTANTS
    Threads = {t1, t2, t3}
    Streams = {f1, f2, f3}
    NoStream = NoStream
    Never = Never
    SlotCount = 2
    MaxSaves = 3
    AgeCap = 0
    NoVersion = NoVersion
    MaxPicks = 2
    MaxToggles = 2
    MaxLosses = 1
    Writers = {w1, w2}
    Keys = {"a", "b"}
    LongKeys = {"long"}
    Values = {1, 2}
    Fallback = 0
    MaxEntries = 2
    MaxStores = 3
    MaxCuts = 1
    Assets = {a1, a2}
    MaxSize = 2
    MaxSeek = 3
    MaxCount = 3
    Natives = {n1, n2}
    Texts <- TheTexts
    PathBytes = 9
    MaxFiles = 2
    Readers = {"a", "b"}
    Instants <- TheInstants
    HoldFrames = 2
    MaxHeld = 2
    Manager = manager
    Addresses = {a, b}
    NoScreen = NoScreen
    Classes = {"ScreenManager", "Screen", "Game", "GameHudPhone", "Popup", "Alert",
               "Confirmation", "GenericConfirmation", "Pause", "Settings", "Main",
               "MainPhone", "none"}
    Bases <- TheBases
    Looks <- TheLooks
    Fragments <- TheFragments
    MaxDepth = 3
    MaxPath = 3
    MaxOpens = 3
    TextureUnits = {0, 1, 16}
    CachedUnits = {0, 1}
    Names = {0, 1}
    Zero = 0
    Attribs = {0, 16}
    CachedAttribs = {0}
    Caps = {"scissor", "unlisted"}
    CachedCaps = {"scissor"}
    FixedState = {"colorMask", "depthFunc"}
    Unknown = Unknown
    MaxCalls = 4
INVARIANTS
    ServicesTypeOK
    TableHoldsOpenSaves
    RoomMeansTracked
    ChoiceUsedOnce
    LowGraphicsKept
    PreferencesKept
    NeverBeyondEnd
    MkdirsMakesItsFile
    DatesComeBack
    PadPointerSound
    OldDownStaysOut
    StartDecidesOnce
PROPERTIES
    ImplementsPlainGL
CHECK_DEADLOCK FALSE
