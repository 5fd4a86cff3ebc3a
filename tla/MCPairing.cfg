SPECIFICATION Spec
CONSTANTS
    Agents = {a1}
    Sessions = {s1, s2, s3}
    NoAgent = NoAgent
    PairingTTL = 2
    ActivationTTL = 1
    MaxAttempts = 2
    DayLength = 2
    LegacyEnabled = TRUE
    SameSecond = FALSE
    MaxTime = 4
SYMMETRY Symmetric
INVARIANTS
    TypeOK
    OneOpenSession
    AttemptsBounded
    SecretHandedOutOnce
    SecretAgreement
    PairedIsActivatable
PROPERTIES
    RotationNeedsPairing
