\* Recovery queries against the spec on every bounded log.
CONSTANTS
    Labels = {x, y}
    Layers = {l1, l2}
    NoValue = NoValue
    MaxId = 4
    MaxRecords = 5
SPECIFICATION Spec
\* A writer may stop appending at any point.
CHECK_DEADLOCK FALSE
INVARIANTS
    VisitedMatchesSpecWhenNamed
    CheckpointReported
    WantedIsRestriction
