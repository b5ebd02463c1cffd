CONSTANTS
    Placers = {p1}
    Dates = {1, 2}
    EntryAmounts = {1}
    HoldAmounts = {1}
    HoldDuration = 1
    ClientKinds = {"captured"}
    MaxEntries = 2
    MaxRows = 2
    MaxClock = 0
SPECIFICATION Spec
INVARIANTS
    BalanceIsSum
