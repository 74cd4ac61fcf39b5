SPECIFICATION AgentSpec
CONSTANTS
    override = override
    compact = compact
    ask1 = ask1
    ask2 = ask2
    Utterances <- TwoUtterances
    Kind <- TwoKinds
    CloudFails = TRUE
    Crashes = FALSE
    PrefWrites = TRUE
    MaxFrames = 1
INVARIANTS NobodyLost
