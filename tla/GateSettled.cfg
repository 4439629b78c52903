\* Two scans and a desk, or one scan over a connection that comes and goes, until they
\* are on record or set aside.
CONSTANTS
  NULL = NULL
  c1 = c1
  d1 = d1
  d2 = d2
  r1 = r1
  r2 = r2
  k1 = k1
  k2 = k2
  Device = {d1}
  Code = {c1}
  MultiUse = {}
  MaxEvent = 2
  MaxLimit = 1
  MaxGuests = 0
  Request = {r1}
  Claim <- Claims
  Time <- Clock
  OpensAt = NULL
  ClosesAt = NULL
  MaxAge = 2
  ClockSkewTolerance = 1
  BatchSize = 1
  MaxAttempts = 2
  Slot = {k1}
  Raw <- OneQR
  MaxVersion = 1
  MaxNow = 0
SPECIFICATION SettleSpec
PROPERTIES EveryScanIsSettled RequestsAreAnswered
CHECK_DEADLOCK FALSE
