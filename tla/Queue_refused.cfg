SPECIFICATION FairSpec
CONSTANTS
    ann = ann
    Item <- MCItem
    Stages <- MCStages
    Role <- MCRole
    MaxWip <- TwoEach
    Runtime <- MCRuntime
    File <- MCFile
    None = None
    Legacy <- NoItem
    Visible <- NoItem
    Caller <- MCCaller
    Sources <- MCApart
    Offers <- MCOffers
    Modes <- MCAttended
    MaxRuns = 1
    Outcomes = {"succeeded"}
    MaxMoves = 0
    MaxCommands = 1
    MaxFaults = 0
PROPERTY ReplacementStarts
