CONSTANTS
    N = 2
    WORD = 3
    Args <- MC_Args
    MAX_CALLS = 5
SPECIFICATION Spec
INVARIANTS ListKept ScreenFollows InStep
PROPERTIES Blinks
CHECK_DEADLOCK FALSE
