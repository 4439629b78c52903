\* A reversed check-in and the next scan of the pass.
CONSTANTS
  NULL = NULL
  c1 = c1
  c2 = c2
  d1 = d1
  d2 = d2
  r1 = r1
  r2 = r2
  Device = {d1}
  Code = {c1}
  MultiUse = {}
  MaxEvent = 2
  MaxLimit = 1
  MaxGuests = 0
  Request = {r1}
  Claim <- OnePass
  Time = {0}
  OpensAt = NULL
  ClosesAt = NULL
  MaxAge = 2
  ClockSkewTolerance = 1
SPECIFICATION RaceSpec
CHECK_DEADLOCK FALSE
INVARIANT ReversedPassCanEnter
