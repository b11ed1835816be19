SPECIFICATION Spec
CONSTANTS
  ann = ann
  cat = cat
  desk = desk
  phone = phone
  None = None
  Peers = {ann}
  Stranger = cat
  Devices = {desk, phone}
  First = desk
  Upsets = {"again"}
  MaxMail = 2
  MaxSignOns = 2
  MaxUpsets = 1
INVARIANTS
  EachInItsPlace
PROPERTIES
  EveryMessageGetsThrough
  BadgesSettle
CHECK_DEADLOCK FALSE
