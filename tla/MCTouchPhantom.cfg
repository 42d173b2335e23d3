SPECIFICATION Spec
CONSTANTS
    map = map
    beside = beside
    strip = strip
    Fingers = {f1}
    Places = {map, beside, strip}
    Strip = {strip}
    Tile = {beside}
    Near <- NearPlaces
    Capacity = 2
    PhaseLimit = 2
    PickupRetries = 1
    QuickRetries = 2
    None = None
    MaxSamples = 5
    MaxChanges = 3
INVARIANTS
    SuppressionEnds
