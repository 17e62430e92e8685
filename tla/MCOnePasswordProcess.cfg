CONSTANTS
    MaxOutputBytes = 2
    ConsumerFailures = {"CANCELLED", "ORIGIN_MISMATCH"}
SPECIFICATION FairSpec
INVARIANTS
    ProcessTypeOK
    OnlyCleanReadsAreDelivered
    TerminationIsReported
    NoOutputIsKept
    TimersAreReleased
    NoProcessIsLeft
PROPERTY KeepsContract
