CONSTANTS
    Procs = {p1, p2}
    Messages = {m1, m2, bad}
    Undecodable = {bad}
    Modes = {"A", "B", "C", "D"}
    MaxLog = 3
    MaxBatch = 2
    MaxFaults = 2
    NoProc = NoProc
SPECIFICATION FairSpec
INVARIANTS
    TypeOK
    ExactlyOnce
    NoLoss
    CommitAfterEffect
    AtMostOnceWhileSettled
PROPERTIES
    EventuallyApplied
