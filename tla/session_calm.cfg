SPECIFICATION PausingSpec
CONSTANTS
  alice = alice
  bob = bob
  Accounts = {alice, bob}
  Chats <- MCChats
  Rooms <- MCRooms
  None = None
  Upsets = {"refused", "locked", "drop", "crash", "disk"}
  MaxSignOns = 2
  MaxKeys = 2
  MaxUpsets = 1
INVARIANTS
  AccountsStayApart
  RemovedStaysRemoved
PROPERTIES
  HistoryIsNotLost
  StatusSettles
  MessagesAreSaved
CHECK_DEADLOCK FALSE
