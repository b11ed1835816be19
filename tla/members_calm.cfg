SPECIFICATION CalmSpec
CONSTANTS
  o = o
  a = a
  b = b
  None = None
  Devices = {o, a, b}
  Owner = o
  MaxCalls = 3
  MaxChains = 2
  MaxUpsets = 1
INVARIANTS
  RemovalsStick
  RetiredChainsStayRetired
  OwnersWordIsOne
PROPERTIES
  SavedMarksOnlyRatchet
CONSTRAINT FewTogether
SYMMETRY Symmetry
CHECK_DEADLOCK FALSE
