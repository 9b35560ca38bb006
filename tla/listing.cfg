SPECIFICATION Spec
CONSTANTS
  Ids = {i1, i2, i3}
  Times = {1, 2, 3}
  Matching = {i1, i2}
  Limit = 1
INVARIANTS
  TypeOK
  IInv
  NoRepeats
  NoOmissions
  TotalFitsPage
