SPECIFICATION AroundSpec
CONSTANTS
    r1 = r1  r2 = r2  h1 = h1  h2 = h2
    Runs <- OneRun
    None = None
    MaxRuns = 1
    Tokens <- OneToken
    MaxTokens = 1
    ExitOutcome = {"completed", "failed"}
    Limited = TRUE
    ExitUsage = {"consumed", "uncertain"}
    InterruptUsage = {"consumed", "uncertain"}
    MaxOutages = 3
INVARIANTS OneLaunch SignalOnRecord ReceiptLast
PROPERTIES PlaceKept AllEnds TasksSafe MovesSafe
CHECK_DEADLOCK FALSE
