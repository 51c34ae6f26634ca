SPECIFICATION Spec
CONSTANTS
    Year = 10
    LeapStamp = 3
    LeapYears = {3}
    SummerFrom = 5
    SummerTo = 8
    NoTime = NoTime
    CapLeast = 1
    CapMost = 2
    MaxFullLimit = 2
    NoFilter = NoFilter
    CharBudget = 6
    NoLine = NoLine
    MaxFrames = 4
    MinScore = 1
    MinDistance = 2
    MaxColumns = 3
    MinEchoLength = 2
    GroupBudget = 2
    NoDecoded = NoDecoded
    NoRole = NoRole
    NoBound = NoBound
    MaxItems = 3
    MaxRawLines = 5
    MaxFramesRecorded = 5
    MaxRequests = 3
    MaxFiles = 2
    MaxViews = 4
    Null = Null
    DefaultLimit = 2
    None = None
INVARIANTS TimelineIsHonest WindowHoldsMarker SheetSpansRecording DiffIsExact SnapshotIsRedacted
           BundleIsRedacted TapFindsTheView ElementsAreHonest
CHECK_DEADLOCK FALSE
