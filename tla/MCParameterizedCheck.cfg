\* With and without a timeout, up to two additional instantiations, and checks that stay
\* within the timeout or exceed it.
SPECIFICATION Spec
CONSTANTS
    Requests <- AllRequests
    CircuitPairs <- AllPairs
    Limits = {0, 3, 4}
    MaxInstantiations = 2
    CheckTimes = {1, 5}
    JoinTimes = {0, 1}
    InstantiationTimes = {0, 3}
INVARIANTS
    TotalsCoverChecks
    VerdictFollowsChecks
    TimeBounded
