CONSTANTS
    Processes = {"p1"}
    Clients = {"c1"}
    Versions <- MCVersions
    Currencies = {"USD"}
    Buses = {"fake"}
    Flaws = {"none"}
    Room = 1
    PoolSize = 1
    MaxStarts = 1
    MaxTries = 1
    MaxFaults = 0
SPECIFICATION Spec
INVARIANTS
    ConsumerReadsMovements
CHECK_DEADLOCK FALSE
