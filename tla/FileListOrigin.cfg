\* Is an opened file always found in its directory?
CONSTANTS
    Files = {1, 2}
    Images = {1}
    InRoot = {}
    MaxCpus = 1
    MaxUris = 1
SPECIFICATION FileListSpec
INVARIANTS OriginFound
CHECK_DEADLOCK FALSE
