SPECIFICATION FrameFairSpec
CONSTANTS
    f1 = f1
    t1 = t1
    NoConn = NoConn
    FaceConns <- MCFaceConns
    ChatConns <- MCChatConns
    FaceSends <- MCFaceSends
    ChatSends <- MCChatSends
    Replies <- MCReplies
    Cap = 3
    ChunkMax = 3
    MaxOpen = 1
    MaxTasks = 2
    MaxFrames = 2
    MaxSends = 1
    LocalBrain = TRUE
INVARIANTS CodecsAgree
PROPERTIES LinkIsFifo FramesArrive
CHECK_DEADLOCK FALSE
