\* The unconditional FreeLibrary of unpin_module.
CONSTANTS
    h1 = h1
    h2 = h2
    h3 = h3
    Handles = {h1, h2, h3}
    Platform = "windows"
    PinMayFail = FALSE
    MaxRefs = 4
SYMMETRY Symmetry
SPECIFICATION Spec
INVARIANTS
    LoaderReferenceKept
\* The module may have been unloaded and every handle emptied for good.
CHECK_DEADLOCK FALSE
