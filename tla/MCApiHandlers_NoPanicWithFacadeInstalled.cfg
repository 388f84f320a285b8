CONSTANTS
    None = None
SPECIFICATION Spec
INVARIANT
    NoPanicWithFacadeInstalled
