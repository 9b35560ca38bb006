SPECIFICATION FairSpec
CONSTANTS
  r1 = r1  r2 = r2
  i1 = i1  i2 = i2
  a = a
  c1 = c1  c2 = c2
  Ids = {i1, i2}
  Stored = {i1}
  Names = {a}
  Null = Null
  Unset = Unset
  NoRow = NoRow
  NoWrite = NoWrite
  NoAnswer = NoAnswer
  Requests = {r1, r2}
  Conns = {c1, c2}
  ConnOf <- OwnConn
  Offered <- AllSorts
  CommitBeforeResponse = TRUE
INVARIANTS
  TypeOK
  IInv
  AckedIsDurable
  FailedLeavesNoTrace
  CommittedIsAnnounced
PROPERTIES
  DeletedStaysDeleted
  EventuallySettled
  ImplementsAtomicItems
