\* Nested loops over two names; any allocation may fail.
CONSTANTS
    x = x
    y = y
    Names = {x, y}
    NoVar = NoVar
    NoCell = NoCell
    Cells = {c1, c2, c3, c4, c5, c6}
    Headers <- DistinctHeaders
    MaxDepth = 2
    MaxCount = 2
SPECIFICATION Spec
SYMMETRY CellSymmetry
INVARIANTS
    TypeOK
    BodyScope
    ScopeRestored
    OwnedOnce
PROPERTY
    LexicallyScoped
