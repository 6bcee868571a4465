\* Two clients share the pool: is Sync still a barrier for each of them?
CONSTANTS
    Clients = {main, provider}
    Workers = {w1}
    Tasks = {t1, t2}
    NoTask = NoTask
    Nobody = Nobody
    Nesting = FALSE
    Spurious = FALSE
SPECIFICATION Spec
PROPERTIES SyncWaitsForOwnTasks
CHECK_DEADLOCK FALSE
