SPECIFICATION Spec
CONSTANTS
  desk = desk
  phone = phone
  ann = ann
  ben = ben
  Buddies = Buddies
  Work = Work
  None = None
  Devices = {desk, phone}
  Names = {ann, ben}
  Groups = {Buddies, Work}
  Default = Buddies
  Upsets = {"drop", "refused"}
  MaxEdits = 3
  MaxSignOns = 2
  MaxUpsets = 1
INVARIANTS ListsAgree BlocksAreEnforced
PROPERTY MovesDontSever
SYMMETRY EitherDevice
CHECK_DEADLOCK FALSE
