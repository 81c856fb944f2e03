CONSTANTS
  Choices <- MCChoices
  MaxLen = 16
SPECIFICATION Spec
CHECK_DEADLOCK FALSE
INVARIANT TooShortIsAnError
