SPECIFICATION LadderSpec
CONSTANTS
    BreakerEnabled = TRUE
    LadderCalls <- MCCalls
    MaxSteps = 2
    MaxRetries = 3
    BackoffBase = 1
CHECK_DEADLOCK FALSE
INVARIANTS DeniedRedEndsLadder
