CONSTANTS
  Users = {u1, u2}
  Vehicles = {v1}
  Sessions = {s1, s2}
  Streamed = {s1}
  Requests = {r1, r2}
  None = None
  MaxChanges = 3
SPECIFICATION FairSpec
INVARIANTS FrameIsHeld SessionsKnowPassword GrantsAsListed
PROPERTIES StreamsEnd ShowsCurrent
CHECK_DEADLOCK FALSE
