CONSTANTS
  Width = 8
  MaxEscape = 4
  NumCTypes = 16
  MaxSteps = 4
  Texts <- MCTexts
  PromptText <- MCPrompt
  ColorOfType <- MCColorOfType
SPECIFICATION Spec
INVARIANT
  PromptInNormalColor
CHECK_DEADLOCK FALSE
