CONSTANTS
    a = a
    b = b
    c = c
    Blank = Blank
    Surfaces <- MCSurfaces
    Specs <- MCSpecs
    Patches <- MCPatches
    MaxGroup = 2
SPECIFICATION PatchSpec
INVARIANTS
    UndoStepExact
    MergedEditsSurvive
PROPERTY UndoNeverRefused
CHECK_DEADLOCK FALSE
