\* Does closing the viewer always end?
CONSTANTS
    NumImages = 1
    MaxSwapchains = 1
    MaxTextures = 1
SPECIFICATION FairSpec
PROPERTIES CloseEnds
CHECK_DEADLOCK FALSE
