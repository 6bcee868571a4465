\* Can an edited image be put back over an image of another size?
CONSTANT MaxJobs = 2
SPECIFICATION Spec
INVARIANTS NoPanic
CHECK_DEADLOCK FALSE
