CONSTANTS
  nil = nil
  NIL = nil
  One = 2
  Initials <- MCInitials
  Limits <- MCLimits
  Steps <- MCSteps
  Assigned <- MCAssigned
  MaxEntries = 2
  MaxIterations = 8
SPECIFICATION Spec
INVARIANT TypeOK
INVARIANT OnlyNilStops
INVARIANT LeftOnStack
PROPERTY CountingLoopSpec
PROPERTY EntriesEnd
