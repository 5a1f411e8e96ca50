SPECIFICATION Spec
CONSTANTS
    Coordinator = {a, b}
    Maintainer = {}
    Recoverer = {}
    None = None
    LateRecords = TRUE
    MaxEvents = 4
PROPERTY SoleWriter
CHECK_DEADLOCK FALSE
