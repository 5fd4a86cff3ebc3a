SPECIFICATION Spec
CONSTANTS
    Agents = {a1}
    Sessions = {s1, s2}
    NoAgent = NoAgent
    PairingTTL = 2
    ActivationTTL = 2
    MaxAttempts = 2
    DayLength = 3
    LegacyEnabled = TRUE
    SameSecond = TRUE
    MaxTime = 2
SYMMETRY Symmetric
INVARIANTS
    PairedIsActivatable
