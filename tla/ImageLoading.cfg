\* Every interleaving of up to MaxJobs requests with the provider's thread.
CONSTANT MaxJobs = 3
SPECIFICATION FairSpec
INVARIANTS OneAnswer BusyMeansOutstanding CancelledWasSuperseded TitleMatchesImage FdDiscipline
PROPERTIES NewestImageStays WaitsEnd
CHECK_DEADLOCK FALSE
