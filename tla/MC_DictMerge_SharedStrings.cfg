\* Expected violation: DictSorted.
CONSTANTS
    Strings <- MCStrings
    MaxDicts = 4
    NoValue = NoValue
    RemapAnySlot = FALSE
    AllowShared = TRUE
SPECIFICATION Spec
INVARIANTS
    DictSorted
