\* Two clients share the pool, as in iv, with spurious wake-ups.
CONSTANTS
    Clients = {main, provider}
    Workers = {w1, w2}
    Tasks = {t1, t2, t3}
    NoTask = NoTask
    Nobody = Nobody
    Nesting = TRUE
    Spurious = TRUE
SPECIFICATION Spec
INVARIANTS TasksRunOnce GoneMeansQuiet
SYMMETRY Symmetry
CHECK_DEADLOCK FALSE
