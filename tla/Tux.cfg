CONSTANTS
    TUXCTL_BUFSIZE = 9
    PACKET_BUF = 6
    CHUNK = 3
    SERIAL_ROOM = 40
    Times = {65, 754}
    Presses = {{"up", "a", "left"}}
    MAX_CALLS = 2
    MAX_EVENTS = 1
    MAX_UPSETS = 1
SPECIFICATION Spec
INVARIANTS PacketsSound
PROPERTIES ButtonsGenuine AckReturns RingsAreQueues
CHECK_DEADLOCK FALSE
