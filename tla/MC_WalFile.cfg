\* Stream engine and writer at byte level, torn writes included.
CONSTANTS
    Labels <- MCLabels
    Layers <- MCLayers
    NoValue = NoValue
    MaxId = 2
    MaxWrites = 2
SPECIFICATION Spec
INVARIANTS
    TypeOK
