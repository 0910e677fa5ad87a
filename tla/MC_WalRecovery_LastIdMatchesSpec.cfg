\* Expected violation: LastIdMatchesSpec.
CONSTANTS
    Labels = {x, y}
    Layers = {l1, l2}
    NoValue = NoValue
    MaxId = 3
    MaxRecords = 4
SPECIFICATION Spec
CHECK_DEADLOCK FALSE
INVARIANT LastIdMatchesSpec
