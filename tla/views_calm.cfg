SPECIFICATION Spec
CONSTANTS
  ann = ann
  ben = ben
  cat = cat
  None = None
  People = {ann, ben, cat}
  Owner = ann
  Founders = {ann, ben}
  Retention = 1
  Block = 2
  Upsets = {"unsent", "readmit", "outdated", "again"}
  MaxChains = 2
  MaxSends = 2
  MaxMoves = 2
  MaxUpsets = 1
INVARIANTS
  NewcomersReadForward
  RemovedReadNothing
  MembersCanRead
CHECK_DEADLOCK FALSE
