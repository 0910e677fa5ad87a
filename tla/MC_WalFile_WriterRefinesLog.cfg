\* Expected violation: WriterRefinesLog.
CONSTANTS
    Labels <- MCLabels
    Layers <- MCLayers
    NoValue = NoValue
    MaxId = 2
    MaxWrites = 2
    LabelMaps <- NonEmptyLabelMaps
SPECIFICATION AppendsSpec
PROPERTIES
    WriterRefinesLog
