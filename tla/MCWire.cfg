SPECIFICATION WireSpec
CONSTANTS
    NoType = NoType
    CompactAt = 2
    MaxCuts = 2
    MaxLexemes = 4
    Conversations <- MCConversations
    Replies <- MCReplies
    copyAggregateCapBytes <- MCCap
INVARIANTS WireTypeOK FramesIntact AnswersFaithful CopyWhole AnsweredOnce
CHECK_DEADLOCK FALSE
