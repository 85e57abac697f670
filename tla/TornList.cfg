SPECIFICATION TornSpec
CONSTANTS
    BufferEnd = 20
    Slack = 1
    Sizes = {1, 4}
    Words = {0}
CHECK_DEADLOCK FALSE
INVARIANTS LoadsWhatIsHeld
