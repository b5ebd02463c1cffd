CONSTANTS
    Years <- MCYears
    Suspense = "sus"
    Accounts <- MCAccounts
    ProductOf <- MCProductOf
    Opening <- MCOpening
    PostAmounts <- MCPostAmounts
    HoldAmounts = {60000}
    Offsets <- MCOffsets
    Lags = {0, 5}
    HoldDays = 3
    OpenedBefore = 45
    MaxMinor = 33554431
    Windows <- MCWindows
SPECIFICATION Spec
INVARIANTS
    TypeOK
    EodOnBusinessDays
    ChargesAreExact
    FinishedIsComplete
CHECK_DEADLOCK FALSE
