SPECIFICATION PullFairSpec
CONSTANTS
  d1 = d1
  d2 = d2
  Doc = {d1, d2}
  Collections <- MCCollections
  CollectionOf <- MCCollectionOf
  Caller = {"connect", "periodic"}
  Periodic = {"periodic"}
  Backend = "redb"
  Edited = Edited
  Never = Never
  MaxWrites = 2
INVARIANTS
    MissedOnlyIfRaced
PROPERTIES
    NeverRegresses
    UpdatesArrive
