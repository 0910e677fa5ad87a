\* Expected violation: WrittenFramesDecode.
CONSTANTS
    LabelMaps <- NonEmptyLabelMaps
    Labels <- MCLabels
    Layers <- MCLayers
    NoValue = NoValue
    MaxId = 2
    MaxWrites = 2
SPECIFICATION Spec
INVARIANT
    WrittenFramesDecode
