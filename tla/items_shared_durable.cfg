SPECIFICATION Spec
CONSTANTS
  r1 = r1  r2 = r2
  i1 = i1  i2 = i2
  a = a
  c1 = c1  c2 = c2
  Ids = {i1, i2}
  Stored = {i1}
  Names = {a}
  Null = Null
  Unset = Unset
  NoRow = NoRow
  NoWrite = NoWrite
  NoAnswer = NoAnswer
  Requests = {r1, r2}
  Conns = {c1}
  ConnOf <- OneConn
  Offered <- SharingOps
  CommitBeforeResponse = TRUE
INVARIANTS
  AckedIsDurable
