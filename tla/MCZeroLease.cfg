SPECIFICATION Spec
CONSTANTS
    a = a
    b = b
    Callers <- MCCallers
    TTL = 4
    MaxTTL = 5
    Sec = 2
    RenewThreshold = 3
    Latency = 1
    MaxRetries = 1
    Century = 40
    MaxClock = 12
    MaxTokens = 1
    MaxRevoked = 0
INVARIANT ReauthenticatesOnExpiry
