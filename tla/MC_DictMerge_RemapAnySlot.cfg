\* Expected violation: RefinesDictStack.
CONSTANTS
    Strings <- MCStrings
    MaxDicts = 4
    NoValue = NoValue
    RemapAnySlot = TRUE
    AllowShared = FALSE
SPECIFICATION Spec
PROPERTIES
    RefinesDictStack
