SPECIFICATION Spec
CONSTANT MaxFamilies = 3
INVARIANTS
    ChoicesAreSound
    ExternallySynchronized
    DrawnWhenReady
    NoCircularWait
