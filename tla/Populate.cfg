SPECIFICATION FairSpec
CONSTANTS
  Certs = {"a", "b"}
  Locations = {11, 12, 21, 31}
  Listings <- MCListings
  Secrets <- MCSecrets
  NumCPU = 4
INVARIANTS
  TypeOK
  StatsAddUp
  ListsInOrder
PROPERTIES
  ImplementsAtomicFetch
  PopulateEnds
