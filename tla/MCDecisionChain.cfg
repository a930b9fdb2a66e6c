SPECIFICATION RpcSpec
CONSTANTS
    TextWords = 8
    ExactFloat = 8
    MaxDepth = 3
    Outputs <- MCOutputs
    Requests <- MCRequests
    Judged <- MCJudged
    Sites <- MCSites
    Calls <- MCCalls
    Chats <- MCChats
INVARIANTS
    ProposalSpeaksForChain
    PlanningKnowsWhatWasSaid
    ReplayGivenOrder
    ChecksAreAnnounced
    RemoteIsLikeLocal
    CompleteCallsAreFound
CHECK_DEADLOCK FALSE
