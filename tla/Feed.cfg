\* One pass and one phone with two refreshes at a time, and two version bumps.
CONSTANTS
  NULL = NULL
  c1 = c1
  d1 = d1
  h1 = h1
  k1 = k1
  k2 = k2
  Device = {d1}
  Code = {c1}
  Slot = {k1, k2}
  Handler = {h1}
  MaxVersion = 2
  MaxClock = 2
SPECIFICATION PlanSpec
INVARIANTS TypeOK CurrentVersionKnowsStatus ManifestTellsUpToItsDate
PROPERTY RevocationsArrive
