CONSTANTS
    MaxPieces = 4
    Sources <- SmallSources
SPECIFICATION Spec
INVARIANTS
    TypeOK
    ActiveIsNesting
    RendersMeaning
PROPERTIES
    SilentBranches
    Terminates
