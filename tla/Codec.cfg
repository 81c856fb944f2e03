CONSTANTS
  Choices <- MCChoices
  MaxLen = 16
SPECIFICATION Spec
CHECK_DEADLOCK FALSE
INVARIANTS
  TypeOK
  RoundTrip
  OnlyShortAttachPanics
PROPERTY ToleratesMore
