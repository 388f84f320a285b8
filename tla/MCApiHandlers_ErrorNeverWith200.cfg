CONSTANTS
    None = None
SPECIFICATION Spec
INVARIANT
    ErrorNeverWith200
