CONSTANTS
  Width = 8
  MaxEscape = 4
  NumCTypes = 16
  MaxSteps = 5
  Texts <- MCTabTexts
  PromptText <- MCPrompt
  ColorOfType <- MCColorOfType
SPECIFICATION Spec
INVARIANTS
  TypeOK
  WrapWithinWidth
  ColorStackMatchesTerminal
CHECK_DEADLOCK FALSE
