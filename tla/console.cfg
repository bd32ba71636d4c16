\* Keys on the line, messages of tasks and a command that gives the CPU away,
\* interleaved.
CONSTANTS
  Keys = {a, b}
  m = m
  NUL = NUL
  KEY_ENTER = KEY_ENTER
  KEY_BACKSPACE = KEY_BACKSPACE
  BLANK = BLANK
  PROMPT = PROMPT
  Message <- TwoCharacters
  VGA_WIDTH = 3
  VGA_HEIGHT = 25
  PROMPT_LEN = 1
  INPUT_SIZE = 2
  MAX_STRING_LEN = 4
  MaxLine = 3
  MaxPending = 1
  MaxAway = 1
SYMMETRY KeySymmetry
SPECIFICATION Spec
INVARIANT TypeOK
PROPERTIES LineEditorImplemented EchoMatchesLine
