CONSTANTS
    None = None
SPECIFICATION Spec
INVARIANT
    FacadeNeverGetsEmptyKey
