\* Pairs of circuits of different sizes, either of them first, with any layouts.
SPECIFICATION Spec
CONSTANTS
    CircuitPairs <- SomePairs
INVARIANTS
    TypeOK
    QubitsPaired
    OutputsKept
    ExactlySuperfluousStripped
    AncillariesAgree
