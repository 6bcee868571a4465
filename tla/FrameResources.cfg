\* A ring of two frames, one new swapchain, two textures.
CONSTANTS
    NumImages = 2
    MaxSwapchains = 2
    MaxTextures = 2
SPECIFICATION FairSpec
INVARIANTS NothingFreedInUse FencesAreFree DeviceIdleWhenGone
PROPERTIES GarbageIsCollected
CHECK_DEADLOCK FALSE
