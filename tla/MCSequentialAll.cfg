\* Every choice of checkers, and a second run of the manager.
SPECIFICATION LifeSpec
CONSTANTS
    Requests <- AllRequests
    CircuitPairs <- AllPairs
    MaxRuns = 2
    Selections = {{}, {"simulation", "alternating"}}
INVARIANTS
    TypeOK
    VerdictFollowsResults
    PromiseKept
    StimuliSuffice
    PerformedAreFinished
    EveryCheckerSignalled
PROPERTIES
    RunEnds
    TimeoutEndsRun
