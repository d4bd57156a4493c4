SPECIFICATION SecretsSpec
CONSTANTS
    Cells = {"key"}
    EnvKeys = {7}
    KeepBackups = 1
    MaxGenerated = 1
INVARIANTS
    KeyOnDiskFirst
CHECK_DEADLOCK FALSE
