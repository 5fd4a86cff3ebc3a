SPECIFICATION Spec
CONSTANTS
    Validity = 2
    MaxTokens = 3
    MaxOpening = 2
    MaxTime = 6
INVARIANTS
    TokenIsValidated
