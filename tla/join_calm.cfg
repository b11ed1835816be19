SPECIFICATION Spec
CONSTANTS
  den = den
  attic = attic
  Nav = Nav
  None = None
  Rooms = {den, attic}
  Upsets = {"slow", "error", "refused", "closed", "drop"}
  MaxConns = 4
  MaxSessions = 2
  MaxMoves = 2
  MaxUpsets = 2
INVARIANTS
  RepliesAreTheirOwn
  RoomsAgree
PROPERTIES
  OkMeansThere
  JoinsReturn
CHECK_DEADLOCK FALSE
