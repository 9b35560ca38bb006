SPECIFICATION FairSpec
CONSTANTS
  items = items  stats = stats
  Requests = {r1, r2, r3}
  Readers = {r3}
  Paths = {items, stats}
  PathOf <- PathsOf
  Service = Service
  Free = Free
  NotShown = NotShown
INVARIANTS
  TypeOK
  IInv
  NoLostUpdate
  SnapshotIsConsistent
PROPERTIES
  EventuallyRecorded
  ImplementsAtomicStats
