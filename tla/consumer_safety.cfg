SPECIFICATION Spec
CONSTANTS
  m1 = m1  m2 = m2  m3 = m3
  h1 = h1  h2 = h2
  Handlers = {h1, h2}
  NoHandler = NoHandler
  Own <- OwnHandlers
  Registry <- RegistryHandlers
  Claims <- PatternClaims
  Msgs = {m1, m2}
  Workers = {w1, w2}
  Nobody = Nobody
  BodyOf <- OneBroken
  Prefetch = 2
  MaxAttempts = 2
  DlxDeclared = TRUE
  MaxFaults = 2
CHECK_DEADLOCK FALSE
SYMMETRY Symmetry
INVARIANTS
  TypeOK
  IInv
  AckedWasHandled
  RejectedHasFailed
  RunsBounded
  HeldIsBeingHandled
PROPERTIES
  ImplementsDelivery
