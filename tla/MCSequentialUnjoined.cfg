\* The default checkers, with a timeout.
SPECIFICATION LifeSpec
CONSTANTS
    Requests <- TimedRequest
    CircuitPairs <- Pairs
    MaxRuns = 1
    Selections = {}
INVARIANTS
    TimerJoined
