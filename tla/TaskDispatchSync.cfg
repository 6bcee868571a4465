\* One client, as in vv and in the tests: Sync is a barrier and returns, the destructor returns.
CONSTANTS
    Clients = {main}
    Workers = {w1, w2}
    Tasks = {t1, t2, t3}
    NoTask = NoTask
    Nobody = Nobody
    Nesting = TRUE
    Spurious = FALSE
SPECIFICATION FairSpec
PROPERTIES SyncIsBarrier SyncReturns DestructorReturns
CHECK_DEADLOCK FALSE
