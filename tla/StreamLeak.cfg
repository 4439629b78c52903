\* A client that goes while its stream is subscribing.
CONSTANTS
  Nobody = Nobody
  s1 = s1
  s2 = s2
  everybody = everybody
  staff = staff
  Stream = {s1, s2}
  Channel = {everybody, staff}
  Channels <- TwoStreams
  Threshold = 2
SPECIFICATION StreamSpec
INVARIANT ClosedStreamsLetGo
