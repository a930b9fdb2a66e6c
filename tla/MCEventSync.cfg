SPECIFICATION FairSpec
CONSTANTS
  e1 = e1
  e2 = e2
  c1 = c1
  DeviceId = {e1, e2}
  CloudId = {c1}
  Body = {b1, b2}
  Cycle = {k1, k2}
  OccurredAt <- MCOccurredAt
  NoBody = NoBody
  MaxCrashes = 2
INVARIANTS
    SyncedIsRemote
    TablesAgree
PROPERTIES
    ImplementsReliableLog
    EventuallySynced
