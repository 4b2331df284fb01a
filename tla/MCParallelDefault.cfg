\* The default configuration, without the ZX checker too, and simulations alone.
SPECIFICATION FairSpec
CONSTANTS
    Requests <- DefaultRequests
    CircuitPairs <- DefaultPairs
    WordModulus = 8
    Main = main
    Null = Null
INVARIANTS
    TypeOK
    VerdictIsOrderIndependent
    SimulationsAccounted
    ThreadsWithinLimit
    PromiseKept
    ExceptionSurfaces
PROPERTIES
    SlotHandedOver
    RunEnds
    TimeoutEndsRun
