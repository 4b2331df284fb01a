\* Two workers push while the main thread pops, with and without a deadline.
SPECIFICATION FairSpec
CONSTANTS
    Producers = {p1, p2}
    Consumers = {main}
    Values = {v1, v2}
    Nodes = {n1, n2, n3}
    Null = Null
    TimedCalls = {TRUE, FALSE}
INVARIANTS
    TypeOK
    ListIntact
    EveryCellOwnedOnce
    NoDataRace
PROPERTIES
    ImplementsResultQueue
    TimedCallReturns
