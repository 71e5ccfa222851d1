CONSTANTS
    Builds = {"puya", "tsingteng", "none"}
    WakeOps = {}
SPECIFICATION FairSpec
INVARIANTS
    CommandsHeard
    FetchServed
    NoEarlySuspend
    FlashInv
PROPERTIES
    OperationEnds
