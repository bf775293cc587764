SPECIFICATION Spec
CONSTANTS
  People = {p1, p2, p3}
  SystemKeys = {s1, s2}
  ChannelIds = {c1}
  MessageIds = {m1, m2}
  MaxEpoch = 2
SYMMETRY Symmetry
CONSTRAINT Followed
INVARIANTS KeysCoverMembers
PROPERTIES PostReachesEveryInbox
CHECK_DEADLOCK FALSE
