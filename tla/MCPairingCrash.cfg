SPECIFICATION CrashSpec
CONSTANTS
    Agents = {a1}
    Sessions = {s1, s2, s3}
    NoAgent = NoAgent
    PairingTTL = 1
    ActivationTTL = 1
    MaxAttempts = 2
    DayLength = 1
    LegacyEnabled = TRUE
    SameSecond = FALSE
    MaxTime = 2
    MaxCrashes = 1
SYMMETRY Symmetric
INVARIANTS
    OneOpenSession
    SecretHandedOutOnce
    AttemptsWithCrashes
    CrashesHeal
PROPERTIES
    StatementsMakeHandlers
