SPECIFICATION CalmSpec
CONSTANTS
  d1 = d1
  d2 = d2
  d3 = d3
  None = None
  Devices = {d1, d2}
  Upsets = {"crash", "drop", "signoff", "lost", "error"}
  MaxKeys = 3
  MaxRemovals = 2
  MaxUpsets = 1
INVARIANTS
  BackupOpensTheAccount
  RemovedStayOut
PROPERTIES
  DevicesGetIn
CHECK_DEADLOCK FALSE
