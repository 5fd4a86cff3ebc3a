SPECIFICATION Spec
CONSTANTS
    Agents = {a1, a2}
    Tokens = {t1, t2}
    Deliveries = {d1, d2}
    None = None
SYMMETRY Symmetric
INVARIANTS
    RegisteredStays
    EveryPhoneTried
    FailsOnlyAtStart
CHECK_DEADLOCK FALSE
