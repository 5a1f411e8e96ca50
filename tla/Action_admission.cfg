SPECIFICATION TakingSpec
CONSTANTS
    a = a  b = b
    Proc <- MCProc
    Grant <- MCGrant
    Request <- MCRequest
    Script <- MCScript
    None = None
    MaxAttempts = 1
    MaxCalls = 2
    MaxEpoch = 0
    MaxCrashes = 1
INVARIANTS OneIntent AtMostOnce VerdictsFinal OutcomesTrue TakingSafe
PROPERTY CallsAnswered
CHECK_DEADLOCK FALSE
