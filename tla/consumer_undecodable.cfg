SPECIFICATION Spec
CONSTANTS
  m1 = m1  m2 = m2  m3 = m3
  h1 = h1  h2 = h2
  Handlers = {h1, h2}
  NoHandler = NoHandler
  Own <- OwnHandlers
  Registry <- RegistryHandlers
  Claims <- PatternClaims
  Msgs = {m1, m2}
  Workers = {w1}
  Nobody = Nobody
  BodyOf <- OneBinary
  Prefetch = 1
  MaxAttempts = 2
  DlxDeclared = FALSE
  MaxFaults = 1
CHECK_DEADLOCK FALSE
INVARIANTS
  HeldIsBeingHandled
