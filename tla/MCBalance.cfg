CONSTANTS
    Placers = {p1, p2}
    Dates = {1, 2}
    EntryAmounts = {1}
    HoldAmounts = {1}
    HoldDuration = 1
    ClientKinds = {"captured"}
    MaxEntries = 2
    MaxRows = 3
    MaxClock = 1
SPECIFICATION Spec
INVARIANTS
    TypeOK
    BalanceIsSumIfSeparated
    OvercommitIsBounded
PROPERTIES
    ReleasedOnce
SYMMETRY Symmetry
