\* Alternating, construction and ZX checker on two threads.
SPECIFICATION Spec
CONSTANTS
    Requests <- MoreCheckersThanThreads
    CircuitPairs <- Pairs
    WordModulus = 8
    Main = main
    Null = Null
INVARIANTS
    EveryWorkerHasSlot
