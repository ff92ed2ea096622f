SPECIFICATION Spec
CONSTANTS
  c1 = c1
  c2 = c2
  c3 = c3
  Calls = {c1, c2}
  Actions = {"a"}
  Subjects = {"s"}
  Raised = {"plain", "question", "reply", "tool"}
  MaxCards = 2
  MaxFaults = 1
SYMMETRY CallSymmetry
CHECK_DEADLOCK FALSE
INVARIANTS
  OneYesOneAction
  OnlyWhatWasAllowed
  ApprovedReplyIsPosted
PROPERTIES
  DecisionIsFinal
