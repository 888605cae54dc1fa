CONSTANTS
    maze_x_dim = 3
    maze_y_dim = 2
    start_fruits = 2
    SCAN_BELOW = 2
    MAX_TRIALS = 2
SPECIFICATION MazeSpec
INVARIANTS BookkeepingExact MazeMade
PROPERTIES ConnectEnds
CHECK_DEADLOCK FALSE
