\* Two accounts, two registrations, two photos, two runs of the sweep.
CONSTANTS
  NULL = NULL
  env = env
  spare = spare
  Accounts <- TwoAccounts
  MaxReg = 2
  MaxPhoto = 2
  Handler = {h1}
  Run = {s1, s2}
  Batch = 1
SPECIFICATION Spec
INVARIANTS TypeOK PhotoIsThere
PROPERTIES SweepOrphansNothing DuePhotosGo
CHECK_DEADLOCK FALSE
