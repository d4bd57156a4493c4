CONSTANTS
    c1 = c1
    c2 = c2
    k1 = k1
    k2 = k2
    None = None
    Channels <- MCChannels
    Keys <- MCKeys
    KeysOf <- MCKeysOf
    MaxRetries = 2
    MaxEdits = 1
SPECIFICATION Spec
INVARIANTS
    RequestCountedOnce
CHECK_DEADLOCK FALSE
