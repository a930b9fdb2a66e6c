SPECIFICATION FairHubSpec
CONSTANTS
  e1 = e1
  e2 = e2
  e3 = e3
  a1 = a1
  Event = {e1, e2, e3, a1}
  Approval = {a1}
  SeqOf <- MCSeqOf
  Publisher = {p1, p2}
  Subscriber = {s1}
  Filter <- MCFilter
  Capacity = 2
  Ring = 2
  None = None
INVARIANTS NoMiss CatchUpComplete
PROPERTY EventuallyGiven
