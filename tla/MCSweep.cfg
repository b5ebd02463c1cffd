CONSTANTS
    MinRuns = 1
    Specs <- MCSpecs
    Total = 2
    Batch = 1
    MaxRuns = 2
    MaxFaults = 1
SPECIFICATION Spec
INVARIANTS
    TypeOK
    QuorumKept
    DrainedMeansDone
    FindingIsOneSweep
CHECK_DEADLOCK FALSE
