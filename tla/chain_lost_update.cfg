SPECIFICATION Spec
CONSTANTS
  r1 = r1
  r2 = r2
  s1 = s1
  s2 = s2
  k1 = k1
  c1 = c1
  c2 = c2
  None = None
  Rooms = {r1}
  Chains = {c1}
  Senders = {s1}
  Keepers = {k1}
  Block = 2
  MaxSends = 2
  MaxLoads = 2
  MaxUnreadable = 0
INVARIANTS
  NoPositionReused
CHECK_DEADLOCK FALSE
