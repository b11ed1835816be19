SPECIFICATION Spec
CONSTANTS
  hello = hello
  bye = bye
  None = None
  Texts = {hello, bye}
  Upsets = {"signoff", "drop", "unanswered", "absent", "rollback"}
  MaxSends = 2
  MaxManifests = 2
  MaxUpsets = 1
INVARIANTS
  NotSentIsNotDelivered
PROPERTIES
  SealsNeverStepBack
  SendsSettle
CHECK_DEADLOCK FALSE
