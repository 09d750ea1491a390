SPECIFICATION Spec
CONSTANTS
    Base = 4
    Words <- MCWords
    Sizes <- MCSizes
    BigEndian = TRUE
INVARIANTS
    CountAsSent
