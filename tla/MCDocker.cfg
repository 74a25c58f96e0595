CONSTANTS
    Tasks <- MCTasks
    Uses <- MCUses
    LastAddr = 3
    Ports = {8001}
    Exposed = {}
SPECIFICATION Spec
INVARIANTS AddressesApart StatusRecorded NothingLeftBehind TeardownComplete
CHECK_DEADLOCK FALSE
