SPECIFICATION Spec
CONSTANTS
    map = map
    beside = beside
    strip = strip
    Fingers = {f1, f2}
    Places = {map, strip}
    Strip = {strip}
    Tile = {map}
    Near = {}
    Capacity = 2
    PhaseLimit = 2
    PickupRetries = 1
    QuickRetries = 2
    None = None
    MaxSamples = 4
    MaxChanges = 2
SYMMETRY Symmetric
INVARIANTS
    PointersFit
    NoStuckPointer
    NoTapLost
PROPERTIES
    ReleaseWaitsAFrame
