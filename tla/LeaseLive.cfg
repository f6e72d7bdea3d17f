\* An unload that has begun ends, whether pins succeed or fail (Windows).
CONSTANTS
    h1 = h1
    h2 = h2
    h3 = h3
    Handles = {h1, h2, h3}
    Platform = "windows"
    PinMayFail = TRUE
    MaxRefs = 3
SPECIFICATION FairSpec
PROPERTIES
    UnloadCompletes
\* The module may have been unloaded and every handle emptied for good.
CHECK_DEADLOCK FALSE
