CONSTANTS
    FILENAME_LEN = 3
    BLOCK_SIZE = 2
    FD_ARRAY_SIZE = 4
    TERM_BUFFER_SIZE = 10
    MAX_NUM_ARGS = 3
    EXEC_MAGIC_STR <- MC_EXEC_MAGIC_STR
    dir_entries <- MC_dir_entries
    inodes <- MC_inodes
    data_blocks <- MC_data_blocks
    Names <- MC_Names
    Commands <- MC_Commands
    Busy <- MC_Busy
    Lengths <- MC_Lengths
    ProgramOf <- MC_ProgramOf
    Junk <- MC_Junk
    CounterMax <- MC_CounterMax
    WrongNames <- MC_WrongNames
    BUFSIZE = 4
SPECIFICATION Spec
INVARIANTS ReadsExact TableSound ExecuteRight OutputExact
 
