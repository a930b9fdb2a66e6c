SPECIFICATION AppSpec
CONSTANTS
    Agent <- MCAgent
    Kind <- MCKind
    Name <- MCName
    Target <- MCTarget
    Needs <- MCNeeds
    Prefix <- MCPrefix
    Parser <- MCParser
    Role <- MCRole
    Backends = {"FastAnalysis"}
    HasDefault = FALSE
    Usable <- MCUsable
    MaxCalls = 3
    Packs = {"growth-strategy", "ask-converge"}
    Typeable = {"growth-strategy"}
    Fixtures <- MCFixtures
    MaxJobs = 2
INVARIANTS
    EachAnswersOnce
    ContextIsOfDetail
CHECK_DEADLOCK FALSE
