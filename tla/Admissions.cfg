\* Two students, two form numbers, two requests at a time; two admins, two imports.
CONSTANTS
  NULL = NULL
  u1 = u1
  u2 = u2
  p1 = p1
  p2 = p2
  f1 = f1
  f2 = f2
  h1 = h1
  h2 = h2
  User = {u1, u2}
  Phone = {p1, p2}
  Form = {f1, f2}
  MaxReg = 2
  MaxIssue = 2
  Handler = {h1, h2}
  MaxOps = 4
  Absent = NULL
  v1 = v1
  v2 = v2
  x1 = x1
  x2 = x2
  FormNumber = {f1, f2}
  Value = {v1, v2}
  File = {x1, x2}
  Content <- TwoFiles
  Admin = {a1, a2}
  MaxImport = 2
  MaxSnapshot = 1
SPECIFICATION AdmissionsSpec
SYMMETRY Alike
INVARIANTS OneSeatEach ApprovedHasPass AsIfNeverImported NoFileTwice
PROPERTIES OnlyTheOwner ArrivalsSurvive SeatsAreKept ClaimsSurviveTheList
CHECK_DEADLOCK FALSE
