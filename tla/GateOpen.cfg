\* One phone and one pass: two manifests, or a desk, or from the empty database.
CONSTANTS
  NULL = NULL
  c1 = c1
  d1 = d1
  d2 = d2
  r1 = r1
  r2 = r2
  k1 = k1
  k2 = k2
  Device = {d1}
  Code = {c1}
  MultiUse = {}
  MaxEvent = 1
  MaxLimit = 1
  MaxGuests = 0
  Request = {r1}
  Claim <- Claims
  Time <- Clock
  OpensAt = NULL
  ClosesAt = NULL
  MaxAge = 2
  ClockSkewTolerance = 1
  BatchSize = 1
  MaxAttempts = 1
  Slot = {k1, k2}
  Raw <- OneQR
  MaxVersion = 2
  MaxNow = 2
SPECIFICATION OpenSpec
SYMMETRY Symmetry
INVARIANTS TypeOK NoScanLost NoRepeatBetweenManifests UsedHasGrounds
