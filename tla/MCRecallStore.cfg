SPECIFICATION Spec
CONSTANTS
    Thread = {w1, w2}
    Record = {1, 2}
    Embedders = {"wide", "narrow", "meaning"}
    Attr <- MCAttr
    Family <- MCFamily
    Vector <- MCVector
    Query <- MCQuery
    Filter <- MCFilter
    Policy <- MCPolicy
    TopK = {1, 2}
    None = None
    NL = NL
    Torn = Torn
    MaxPieces = 4
INVARIANTS
    CorpusSurvives
    AnswersAreBest
    AuditableRecall
    ProvenanceFixesAnswer
    VerifiedEmbeddingsFixAnswers
SYMMETRY Threads
