SPECIFICATION Spec
CONSTANTS
    a = a
    b = b
    Callers <- MCCallers
    TTL = 4
    MaxTTL = 6
    Sec = 1
    RenewThreshold = 3
    Latency = 1
    MaxRetries = 1
    Century = 40
    MaxClock = 7
    MaxTokens = 2
    MaxRevoked = 1
SYMMETRY Symmetry
INVARIANTS
    TypeOK
    ExpiryTracksLease
    HeldTokenInLease
    FreshTokenInLease
    RenewedTokenInLease
    OutageBounded
