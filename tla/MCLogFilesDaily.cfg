SPECIFICATION Spec
CONSTANTS
  MaxBytes = 3
  History = 2
  MaxAge = {3}
  Day = 2
  MaxLines = 8
  MaxNow = 8
INVARIANT RotatesDaily
