SPECIFICATION Spec
CONSTANTS
    None = None
    Call = {c1, c2}
    Launch = {l1, l2}
    Revision = {v1, v2}
    MaxInputs = 3
INVARIANT OneProcess
CHECK_DEADLOCK FALSE
