CONSTANTS
    Processes = {"p1", "p2"}
    Clients = {"c1", "c2"}
    Versions <- MCVersions
    Currencies = {"USD"}
    Buses = {"fake", "kafka"}
    Flaws = {"none", "notFound"}
    Room = 1
    PoolSize = 1
    MaxStarts = 2
    MaxTries = 2
    MaxFaults = 2
SPECIFICATION MCSpec
INVARIANTS
    TypeOK
    ServesWholeSchema
    AnswersAreTrue
PROPERTIES
    ConnectionsComeBack
CHECK_DEADLOCK FALSE
