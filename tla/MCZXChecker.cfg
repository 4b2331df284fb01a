\* Pairs of circuits with partial outputs, ancillary qubits and gaps, and one pair that needs
\* up to two rewrites.
SPECIFICATION Spec
CONSTANTS
    Inputs <- SomeInputs
INVARIANTS
    NothingLeftToReduce
    VerdictRight
PROPERTIES
    RunReturns
