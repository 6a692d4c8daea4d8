SPECIFICATION Spec
CONSTANTS
  WIDTH = 3
  HEIGHT = 2
  NB_SCREENS = 2
  LINE_MAX = 1
  PROMPT <- MCPrompt
  Outputs <- TwoOutputs
  Reports = {}
  Codes <- TwoCodes
INVARIANTS
  BufferAndScreenAgree
