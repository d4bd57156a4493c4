SPECIFICATION Spec
CONSTANTS
    Clients = {"local", "far", "away"}
    Kind <- MCKind
    FreeAttempts = 1
    BaseBackoff = 1
    MaxBackoff = 2
    ClientResetAfter = 3
    MaxTracked = 1
    GlobalWindow = 2
    GlobalThreshold = 2
    GlobalCooldown = 2
    MaxVerifying = 2
    MaxClock = 4
    Ids = {i1}
    Checks = {c1, c2}
    Limits <- MCLimits
    Second = 2
    CleanupInterval = 2
    MaxNow = 4
    MaxDelay = 1
    MaxWindows = 2
    Snapshots <- MCSnapshots
    Asks <- MCAsks
    Normal <- MCNormal
    Starts <- MCStarts
    MaxTries = 2
    MaxTurns = 1
    Callers = {1}
    Owners = {"t", "u"}
    Channels0 <- MCChannels0
    Accounts = {"A", "B"}
    ResponseIds = {"x"}
    MaxKeyRow = 1
    MaxAccountEdits = 1
    Editors = {"e1", "e2"}
    Retries = {1, 2}
    MaxRetries = 1
    ProxyURLs = {"", "proxy"}
    GoodURLs = {"proxy"}
    MaxRevision = 3
    MaxBoots = 1
    Channels = {"c", "d"}
    KeyValues = {"", "a", "b"}
    KeyEdits <- MCKeyEdits
    Switches <- MCSwitches
    MaxChannelId = 2
    MaxKeyId = 2
    Members = {"c"}
    TokenIds = {1, 2}
    TokenValues = {"t", "u"}
    GroupNames = {"vip", "free"}
    MaxGroup = 3
    Cells = {"key", "token"}
    EnvKeys = {7}
    KeepBackups = 1
    MaxGenerated = 2
    Savers = {"w1", "w2"}
    Sizes = {1, 2}
    Caps = {0, 2, 3}
    MaxImages = 4
    Runs = {"r1", "r2"}
    Provider <- MCProvider
    Setting <- MCSetting
    Replace <- MCReplace
    Texts = {"x", "y"}
INVARIANTS
    TypeOK
    RecordsAgree
    
    RequestsAreRouted
PROPERTIES
    GuessersAreHeldBack
    
    NeverRolledBack
CHECK_DEADLOCK FALSE
