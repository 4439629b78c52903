\* Two accounts and two decisions; or two streams that share a channel.
CONSTANTS
  NULL = NULL
  u1 = u1
  u2 = u2
  d1 = d1
  d2 = d2
  User = {u1, u2}
  Slot = {d1, d2}
  MaxDecision = 2
  Nobody = Nobody
  s1 = s1
  s2 = s2
  everybody = everybody
  staff = staff
  Stream = {s1, s2}
  Channel = {everybody, staff}
  Channels <- TwoStreams
  Threshold = 2
SPECIFICATION PlanSpec
INVARIANTS SessionsTypeOK AnAdminRemains DecisionStands ListenersAreReached
CHECK_DEADLOCK FALSE
PROPERTIES CacheOfVisitorsSettles EveryConnectionGoes
