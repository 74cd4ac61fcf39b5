CONSTANTS
    greeting = greeting
    calendar = calendar
    triage = triage
    skipped = skipped
    chat = chat
    events = events
    mail = mail
    accounts = accounts
    d1 = d1
    d2 = d2
    torn = torn
    a = a
    b = b
    c = c
    Previews = {p1, p2, p3}
    Window = 3
    Steps <- MCSteps
    Enabled <- MCSteps
    Preset <- MCPreset
    Order <- MCOrder
    Chats = {chat}
    Plan <- MCPlan
    Text <- MCText
    BreakerEnabled = TRUE
    LadderCalls <- MCCalls
    MaxSteps = 2
    MaxRetries = 3
    BackoffBase = 1
    Txns = {t1, t2, t3}
    PageSize = 1
    MaxPages = 2
    MaxKeys = 2
    Scripts <- MCScripts
    Entries = {d1, d2, torn}
    Malformed = {torn}
    Denied <- MCDenied
    MaxSessions = 2
    Notes = {n1, n2}
    Docs <- MCDocs
    Cap = 5
    IdentitySize = 2
    RecentTurns = 1
    MaxEdits = 2
    MaxTurns = 2
    MaxCommits = 2
    PrefWrites = TRUE
    MaxFrames = 3

SPECIFICATION PartsSpec

INVARIANTS
    OwnWindowShown
    SilenceIsFinished
    LastWidgetDissolves
    RedEndsLadder
    SuccessIsReal
    StoreOpens
    SyncIsComplete
    NoSeenSecretTyped
    DenialsRegated
    InjectedIsVerified
    BriefingIsSound
    RemoteTipIsClean
    MirrorsFace

PROPERTIES
    CardGoesAway
    CuesFireAlone
    LadderAnswers
    NotesKept
