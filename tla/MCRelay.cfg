CONSTANTS
    Handlers = {h1, h2}
    Accounts = {a1, a2}
    BatchSize = 2
    MaxRows = 3
    MaxFaults = 1
    MaxStops = 1
SPECIFICATION FairSpec
INVARIANTS
    TypeOK
    SentIsProduced
    NoPhantomEvent
    DuplicatesAreRetries
PROPERTIES
    EventuallyProduced
