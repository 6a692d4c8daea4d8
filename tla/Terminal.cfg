SPECIFICATION Spec
CONSTANTS
  WIDTH = 6
  HEIGHT = 2
  NB_SCREENS = 1
  LINE_MAX = 4
  PROMPT <- MCPrompt
  Outputs <- OneOutputs
  Reports <- OneOutputs
  Codes <- OneCodes
INVARIANTS
  LineIsShown
  ShiftIsReleased
