\* Pushes of disjoint dictionaries and merges of whole stacks.
CONSTANTS
    Strings <- MCStrings
    MaxDicts = 4
    NoValue = NoValue
    RemapAnySlot = FALSE
    AllowShared = FALSE
SPECIFICATION Spec
INVARIANTS
    DictSorted
    RemapDecodesBuiltIds
PROPERTIES
    RefinesDictStack
