CONSTANTS
    Handlers = {h1, h2}
    Accounts = {a1}
    BatchSize = 2
    MaxRows = 2
    MaxFaults = 0
    MaxStops = 0
SPECIFICATION Spec
INVARIANTS
    PerAccountOrder
