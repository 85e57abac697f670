SPECIFICATION FairCleanSpec
CONSTANTS
    BufferEnd = 20
    Slack = 1
    Sizes = {1, 4}
    Words <- TextOrZero
CHECK_DEADLOCK FALSE
INVARIANTS TypeOK NeverAborts FreeListIsTheGaps UsedListIsHeld WalksAreExact StatsAddUp EveryStoreIsSafe
PROPERTIES HeldDataIsIntact FailsOnlyWhenFull IsFirstFit OperationsFinish
