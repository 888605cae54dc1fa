CONSTANTS
    BLOCK_DIM = 3
    MAX_LEVEL = 1
    MAX_TICKS = 2
    MAX_SPURIOUS = 1
    Open <- OpenValue
    FruitAt <- FruitAtValue
    ExitAt <- ExitAtValue
    Buttons = {"none", "down", "right", "several"}
    Keys = {"up", "quit", "plain"}
SPECIFICATION Spec
INVARIANTS PlayerKept WakeupNotLost
PROPERTIES GameEnds
CHECK_DEADLOCK FALSE
