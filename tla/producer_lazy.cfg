SPECIFICATION Spec
CONSTANTS
  Requests = {r1, r2}
  Probes = {probe}
  Startup = Startup
  None = None
  PoolSize = 2
  MaxAttempts = 2
  MaxOutages = 1
INVARIANTS
  ConnectsLazily
