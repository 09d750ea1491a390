SPECIFICATION Spec
CONSTANTS
    Types <- MCTypes
    Lengths <- MCLengths
    Counts <- MCCounts
    Claims <- MCClaims
    Frames = {1, 2}
INVARIANTS
    TypeOK
    OwnSlices
    WorkBounded
    PacketsStayIntact
    FoundByType
