\* ZX and simulations, without a timeout.
SPECIFICATION Spec
CONSTANTS
    Requests <- NothingDecides
    CircuitPairs <- Pairs
    WordModulus = 8
    Main = main
    Null = Null
INVARIANTS
    NotStranded
