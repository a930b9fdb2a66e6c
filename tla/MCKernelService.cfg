CONSTANTS
  Client = {c1, c2}
  Adapter = {a, blocked, broken, refused}
  Rejected = {refused}
  Unmatched = {blocked}
  Malformed = {broken}
  Chunks = 1
  Buffer = 1
  MaxFailures = 1
  None = None
SPECIFICATION FairSpec
INVARIANTS
    WeightsMatchAdapter
    ChainUsesOneModel
PROPERTIES
    EveryCallAnswered
