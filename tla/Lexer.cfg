CONSTANTS
    MaxDelimiter = 2
    MaxFailures = 1
    Texts <- SmallTexts
SPECIFICATION Spec
INVARIANTS
    LexesGrammar
    ScannersAgree
PROPERTY Terminating
