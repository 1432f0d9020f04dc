\* A loop that names one variable twice.
CONSTANTS
    x = x
    y = y
    Names = {x, y}
    NoVar = NoVar
    NoCell = NoCell
    Cells = {c1, c2, c3, c4}
    Headers <- TwinHeaders
    MaxDepth = 1
    MaxCount = 1
SPECIFICATION Spec
INVARIANT ScopeRestored
