SPECIFICATION Spec
CONSTANTS
    Devices = {d1, d2}
    Nobody = Nobody
    MaxChats = 3
    MaxFaults = 2
INVARIANT OneChatEach
PROPERTY Converges
CHECK_DEADLOCK FALSE
