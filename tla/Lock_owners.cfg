SPECIFICATION OwnerSpec
CONSTANTS
    a = a  b = b
    Coordinator = {a, b}
    Maintainer = {m}
    Recoverer = {r}
    None = None  Broken = Broken  Left = Left
    LateRecords = FALSE
    MaxEvents = 3
INVARIANT HeldMeansLocked
PROPERTIES SoleWriter AttemptsSettle SettingsSafe 
CHECK_DEADLOCK FALSE
