SPECIFICATION Spec
CONSTANTS
  Groups = {0, 1}
  TERM_BUFFER_SIZE = 3
  TAB_SIZE = 2
  NUM_COLS = 2
  NUM_ROWS = 2
  MaxWrite = 1
INVARIANTS TerminalsApart
