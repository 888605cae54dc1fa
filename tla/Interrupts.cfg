CONSTANTS
    NUM_OF_PROCESS_GROUPS = 2
    MAX_PID = 4
    LOCALS = 1
    IretWords = {3}
    MAX_FRAMES = 3
    MAX_DEVICES = 1
    MAX_TICKS = 1
    MAX_RACES = 1
SPECIFICATION Spec
CHECK_DEADLOCK FALSE
INVARIANTS StacksSound LinesHeld
