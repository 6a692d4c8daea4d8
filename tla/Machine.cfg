\* Every exception at the shell and inside a handler, interrupts anywhere,
\* and a controller that drains.
SPECIFICATION Spec
CONSTANTS
  U32_MAX = 155
  DIGITS = 3
  TOP = 100
  BOTTOM = 64
  WINDOW = 3
  PER_ROW = 2
  DUMP_MAX = 7
  SHELL_DEPTH = 5
  TRIES = 2
  Nested = {0, 8, 13}
  MAX_OOPS = 2
  Controllers = {"works", "ignores"}
  Lines <- MCLines
INVARIANTS
  FrameIsTrue
  ReportsAreTrue
  LinesAreRead
PROPERTIES
  ResumesUnharmed
  OnlyRebootResets
  EndsForGood
  RebootRestarts
