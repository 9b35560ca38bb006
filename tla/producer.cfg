SPECIFICATION FairSpec
CONSTANTS
  Requests = {r1, r2}
  Probes = {probe}
  Startup = Startup
  None = None
  PoolSize = 2
  MaxAttempts = 2
  MaxOutages = 2
INVARIANTS
  TypeOK
  IInv
  ExchangeIsOpen
  LeakOnlyAfterFailure
PROPERTIES
  StartupCompletes
  RequestsComplete
  ProbesAnswered
