SPECIFICATION Spec
CONSTANTS
    Base = 4
    Words <- MCWords
    Sizes <- MCSizes
    BigEndian = FALSE
INVARIANTS
    TypeOK
    ParsesWhatIsDeclared
    AllocationBacked
