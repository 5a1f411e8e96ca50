SPECIFICATION LimitSpec
CONSTANTS
    r1 = r1  r2 = r2
    t1 = t1  t2 = t2  t3 = t3  p1 = p1
    k1 = k1  k2 = k2  w1 = w1  w2 = w2
    e1 = e1  e2 = e2  a1 = a1
    Runs <- TwoRuns
    None = None
    MaxRuns = 1
    Tokens <- OneToken
    MaxTokens = 0
    ExitOutcome = {"completed"}
    Limited = TRUE
    ExitUsage = {"consumed"}
    InterruptUsage = {"uncertain"}
    MaxOutages = 0
INVARIANTS WorkersWithinLimit  DelegatedSafely
SYMMETRY Symmetric
CHECK_DEADLOCK FALSE
