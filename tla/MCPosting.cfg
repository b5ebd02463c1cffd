CONSTANTS
    MaxMinor = 7
    Callers = {c1, c2}
    Keys <- MCKeys
    Bodies <- MCBodies
    Accounts <- MCAccounts
    Legs <- MCLegs
    PostingIDFor <- MCPostingIDFor
    MaxCalls = 3
    MaxAttempts = 2
    NoRow = NoRow
SPECIFICATION FairSpec
INVARIANTS
    TypeOK
    OneEffectPerKey
    AnswerIsDurable
    MismatchIsReal
    OutboxCoCommit
    GlobalInvariant
    PostingsAreWhole
    ValidateForesees
    ReplayFindsResponse
PROPERTIES
    CallsReturn
    KeepsPromise
