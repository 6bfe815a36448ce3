\* A key type outside policy reaches OpenBao over SCEP.
SPECIFICATION Spec
CONSTANTS
    r1 = r1
    r2 = r2
    r3 = r3
    i1 = i1
    i2 = i2
    k1 = k1
    k2 = k2
    DevSerial = DevSerial
    BootSerial = BootSerial
    RogueSerial = RogueSerial
    Ou = Ou
    Lbl = Lbl
    Right = Right
    Wrong = Wrong
    NoToken = NoToken
    NoPassword = NoPassword
    NoReq = NoReq
    NoRole = ""
    Roles = {"boot", "fleet"}
    DefaultRole = ""
    Names <- MCNames
    Tokens <- MCTokens
    Passwords = {Right, Wrong}
    Devices <- MCDevices
    Rules <- MCRules
    StaticSecret = Right
    RequireChallenge = FALSE
    AllowUnauthenticated = FALSE
    UseInventory = TRUE
    Others = {"ip"}
    MaxValidity = 4
    TTLSlack = 1
    Anchors = {"device", "bootstrap"}
    AllowedKeyTypes = {"ec-p256", "rsa-2048"}
    ReplayKeys = {k1, k2}
    ReplayTTL = 1
    OTPTTL = 0
    Reqs = {r1, r2}
    EstMessages = {}
    ScepMessages <- MCScepMessages
    FactoryCerts <- ScepFactory
    Mode = "allowlist"
    ChallengeBackend = "static"
    Lifetimes = {1}
    CodeIds = {}
    CodeKeys = {}
    ReplayMaxSize = 1
    MaxRetries = 0
    MaxClock = 1
    MaxRestarts = 0
SYMMETRY Symmetry
INVARIANTS
    KeyTypesEnforced
CHECK_DEADLOCK FALSE
