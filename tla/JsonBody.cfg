CONSTANTS
    JsonValues <- Values
    Schemas <- AllSchemas
    Inputs <- AllInputs
    NoLabel = NoLabel
    MaxFaults = 1
SPECIFICATION Spec
INVARIANTS
    OwnedOnce
    DecodesWhatFits
    LabelsArePath
