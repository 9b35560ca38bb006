SPECIFICATION Spec
CONSTANTS
  sqlite = sqlite  postgres = postgres
  Urls = {sqlite, postgres}
  DefaultUrl = sqlite
  Absent = Absent
  Null = Null
  Workers = {w1, w2}
  Configured <- Compose
  Transactional = {postgres}
  MaxFaults = 0
INVARIANTS
  CreateAllIsIdempotent
