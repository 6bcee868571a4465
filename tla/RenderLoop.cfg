\* Every interleaving of input, window events and the provider's thread.
SPECIFICATION FairSpec
INVARIANTS OneFrameCallback IdleIsUpToDate
PROPERTIES ChangesAreDrawn
