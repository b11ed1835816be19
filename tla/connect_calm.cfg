CONSTANTS
  a1 = a1
  a2 = a2
  b1 = b1
  b2 = b2
  None = None
  Accounts = {a1}
  People = {b1, b2}
  Upsets = {"paced"}
  MaxCalls = 3
  MaxSessions = 2
  MaxAnswers = 2
  MaxUpsets = 1
SPECIFICATION FairSpec
INVARIANTS
  PendingIsTrue
  AnswersAreTold
PROPERTIES
  AcceptanceShows
CHECK_DEADLOCK FALSE
