\* All checkers, with and without an interruption; a checker that has returned stops.
SPECIFICATION FairSpec
CONSTANTS
    Qubits <- TwoQubits
    CircuitPairs <- SomePairs
    Configurations <- SomeConfigurations
    Stimuli <- SomeStimuli
    Costs <- SomeCosts
INVARIANTS
    TypeOK
    RemainderDecides
    CachedIsCurrent
    VerdictRight
PROPERTIES
    SimulationJudgesStimulus
    RunReturns
CHECK_DEADLOCK FALSE
