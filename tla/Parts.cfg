\* The components of the viewer that do not need one another, each on a small
\* instance.  vv ends, and the others may come to rest.
SPECIFICATION PartsSpec
CONSTANTS
    Files = {1, 2, 3, 4}
    Images = {1, 3, 4}
    InRoot = {4}
    MaxCpus = 3
    MaxUris = 2
    ImageSizes = {1, 2}
    Borders = {1, 3}
    Offers <- OffersOfPrograms
    MaxNesting = 2
    WindowSizes <- SmallWindows
    Pictures <- SmallPictures
    Bounds <- LargestWindow
    LeastWindow = 4
    Levels = {2}
    LeastZoom = 8
    MostZoom = 32
    Points = {64}
    Deltas <- Steps
    PictureSizes <- DrawnPictures
    ScreenSizes <- Screens
    MaxChanges = 3
    BitmapSizes <- SmallBitmaps
    MaxSteps = 2
    PlaneSizes <- PlanePictures
    Gaps = {0, 3}
    ChunkSizes = {2, 4, 7}
    BlockPictures <- PicturesInBlocks
    NumTypes = 2
    CursorSizes = {32, 48}
    WantedSizes = {24, 40, 41, 64}
    Themes = {1, 2}
    Delays = {1, 2}
    MaxImages = 2
    NumPaths = 2
    MaxPause = 4
INVARIANTS
    ListNamesRequest
    SelectionIsSound
    ClipboardIsCurrent
    FrameIsPlaced
    PipelinesMatch
    ShownAsTerminalCan
    OutputFollows
    DataIsPicture
    IntactIsShown
    
    PixelsAreInPlace
    CursorIsShown
PROPERTIES
    DirectoryIsScanned
CHECK_DEADLOCK FALSE
