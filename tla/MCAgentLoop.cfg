SPECIFICATION AgentFairSpec
CONSTANTS
    override = override
    compact = compact
    ask1 = ask1
    ask2 = ask2
    Utterances <- MCUtterances
    Kind <- MCKinds
    CloudFails = TRUE
    Crashes = TRUE
    PrefWrites = TRUE
    MaxFrames = 1
INVARIANTS AnswersInOrder AnswersAreLogged ChoiceInForce
PROPERTIES EveryUtteranceServed SerialQueue PickIsApplied
