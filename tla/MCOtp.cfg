\* One-time codes: two concurrent enrolments over EST and SCEP, two codes, an
\* expiry, a crash.
SPECIFICATION Spec
CONSTANTS
    r1 = r1
    r2 = r2
    r3 = r3
    i1 = i1
    i2 = i2
    k1 = k1
    k2 = k2
    DevSerial = DevSerial
    BootSerial = BootSerial
    RogueSerial = RogueSerial
    Ou = Ou
    Lbl = Lbl
    Right = Right
    Wrong = Wrong
    NoToken = NoToken
    NoPassword = NoPassword
    NoReq = NoReq
    NoRole = ""
    Roles = {"boot", "fleet"}
    DefaultRole = ""
    Names <- MCNames
    Tokens <- MCTokens
    Passwords = {Right, Wrong}
    Devices <- MCDevices
    Rules <- MCRules
    StaticSecret = Right
    RequireChallenge = FALSE
    AllowUnauthenticated = FALSE
    UseInventory = TRUE
    Others = {"ip"}
    MaxValidity = 4
    TTLSlack = 1
    Anchors = {"device", "bootstrap"}
    AllowedKeyTypes = {"ec-p256", "rsa-2048"}
    ReplayKeys = {k1, k2}
    ReplayTTL = 1
    OTPTTL = 0
    Reqs = {r1, r2}
    EstMessages <- OtpEst
    ScepMessages <- OtpScep
    FactoryCerts <- OtpFactory
    Mode = "allowlist"
    ChallengeBackend = "memory"
    Lifetimes = {1}
    CodeIds = {i1, i2}
    CodeKeys <- OtpKeys
    ReplayMaxSize = 2
    MaxRetries = 1
    MaxClock = 1
    MaxRestarts = 1
SYMMETRY SymmetryOtp
PROPERTIES
    CodesOutliveGuesses
INVARIANTS
    OneCertPerCode
    AuditTruthful
    ProvenBeforeIssue
CHECK_DEADLOCK FALSE
