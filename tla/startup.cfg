SPECIFICATION FairSpec
CONSTANTS
  sqlite = sqlite  postgres = postgres
  Urls = {sqlite, postgres}
  DefaultUrl = sqlite
  Absent = Absent
  Null = Null
  Workers = {w1, w2}
  Configured <- DistinctSources
  Transactional = {postgres}
  MaxFaults = 2
INVARIANTS
  TypeOK
  IInv
  SchemaBeforeService
  StoppedIsClosed
  SettingsFollowPriority
PROPERTIES
  SomeWorkerServes
