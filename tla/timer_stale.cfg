CONSTANTS
  Period = 3
  Grace = 6
  Wrap = 16
  MaxPass = 1
  MaxTime = 30
SPECIFICATION Spec
PROPERTIES
  FakeAfterGrace
