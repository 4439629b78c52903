\* Two overlapping requests for a pass, or one request and every write of the desk; or
\* every input of decideScan over a clock of five ticks.
CONSTANTS
  NULL = NULL
  c1 = c1
  c2 = c2
  d1 = d1
  d2 = d2
  r1 = r1
  r2 = r2
  Device = {d1}
  Code = {c1, c2}
  MultiUse = {c2}
  MaxEvent = 2
  MaxLimit = 2
  MaxGuests = 0
  Request = {r1, r2}
  Claim <- Attempts
  Time = {0}
  OpensAt = NULL
  ClosesAt = NULL
  MaxAge = 2
  ClockSkewTolerance = 1
  Raw <- AllRaws
  Known <- Rows
  Window <- Schedules
  MaxTime = 4
  MaxManifestAge = 2
SPECIFICATION ScansSpec
SYMMETRY Symmetry
INVARIANTS TypeOK ArrivalHasAttempt SingleUseAdmitsOnce AnswersAreOnRecord NoScanCountedTwice
           AdmitsExactlyWhen OverridesAreSoft
PROPERTIES KeepsThePromise ExpiryIsFinal SecondScanIsDuplicate
CHECK_DEADLOCK FALSE
