CONSTANTS
    SCROLL_X_WIDTH = 2
    SCROLL_ROWS = 7
    FONT_WIDTH = 4
    FONT_HEIGHT = 1
    EXTRA = 5
    MEM_FENCE_WIDTH = 2
    PAGE = 20
    BLOCK_DIM = 2
    PAN_BORDER = 1
    SHOW_MIN = 1
    maze_x_dim = 4
    maze_y_dim = 3
    MAX_LEVEL = 2
    MAX_TICKS = 2
    MAX_MOVES = 26
    Open <- OpenValue
    FruitAt <- FruitAtValue
    ExitAt <- ExitAtValue
SPECIFICATION Spec
INVARIANTS ViewKept ScreenShown
CHECK_DEADLOCK FALSE
