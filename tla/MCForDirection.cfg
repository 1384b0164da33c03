CONSTANTS
  nil = nil
  NIL = nil
  One = 2
  Initials <- MCInitials
  Limits <- MCLimits
  Steps <- MCHalfSteps
  Assigned <- MCAssigned
  MaxEntries = 2
  MaxIterations = 8
SPECIFICATION Spec
INVARIANT PositiveStepCountsUp
