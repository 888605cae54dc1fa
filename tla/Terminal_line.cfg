SPECIFICATION FairSpec
CONSTANTS
  Groups = {0, 1}
  TERM_BUFFER_SIZE = 4
  TAB_SIZE = 2
  NUM_COLS = 1
  NUM_ROWS = 1
  MaxWrite = 0
INVARIANTS LineComplete BufferSound
PROPERTIES ReadCompletes
