\* Three drags, each of which may be nested in an earlier one, and any drops.
CONSTANT MaxOffers = 3
SPECIFICATION FairSpec
INVARIANTS PendingHasReader FinishedOnce AcceptedWasOffered
PROPERTIES DropsAreFinished
CHECK_DEADLOCK FALSE
