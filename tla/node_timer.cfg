\* One tick is a third of the broadcast period; millis() wraps twice.
CONSTANTS
  Period = 3
  Grace = 6
  Wrap = 16
  MaxPass = 1
  MaxTime = 45
SPECIFICATION Spec
INVARIANTS
  Punctual
  NeverSilentForLong
PROPERTIES
  Spaced
  FakeOnlyWithoutFix
