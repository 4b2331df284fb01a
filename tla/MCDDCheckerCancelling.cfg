\* Circuits whose permutations have not been elided, and a scheme that lets gates cancel.
SPECIFICATION Spec
CONSTANTS
    Qubits <- TwoQubits
    CircuitPairs <- SomePairs
    Configurations <- NaiveAlternating
    Stimuli <- SomeStimuli
    Costs <- SomeCosts
INVARIANTS
    AlternatingShowsEquivalence
CHECK_DEADLOCK FALSE
