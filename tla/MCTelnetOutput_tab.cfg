CONSTANTS
  Width = 8
  MaxEscape = 4
  NumCTypes = 16
  MaxSteps = 3
  Texts <- MCTabTexts
  PromptText <- MCPrompt
  ColorOfType <- MCColorOfType
SPECIFICATION Spec
INVARIANT
  NoDivisionByZero
CHECK_DEADLOCK FALSE
