SPECIFICATION Spec
CONSTANTS
  ann = ann
  ben = ben
  cat = cat
  None = None
  People = {ann, ben, cat}
  Founders = {ann, ben}
  Upsets = {"again"}
  Limit = 1
  MaxSaid = 2
  MaxMoves = 2
  MaxUpsets = 1
INVARIANTS
  RowsAreWhatWasSaid
PROPERTIES
  MissedIsRecovered
CHECK_DEADLOCK FALSE
