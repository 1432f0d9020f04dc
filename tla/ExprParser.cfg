CONSTANTS
    MaxTokens = 8
    MaxBroken = 6
    Operators = {"+", "*", "<"}
    Sources <- SmallSources
    MaxFaults = 1
SPECIFICATION Spec
INVARIANTS
    ParsesGrammar
    OwnedOnce
    SpanEndsRight
