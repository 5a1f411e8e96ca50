SPECIFICATION FairSpec
CONSTANTS
    ann = ann
    Item <- MCItem
    Stages <- MCStages
    Role <- MCRole
    MaxWip <- OneEach
    Runtime <- MCRuntime
    File <- MCFile
    None = None
    Legacy <- NoItem
    Visible <- NoItem
    Caller <- MCCaller
    Sources <- MCSources
    Offers <- MCOffers
    Modes <- MCModes
    MaxRuns = 1
    Outcomes = {"succeeded"}
    MaxMoves = 1
    MaxCommands = 1
    MaxFaults = 1
INVARIANTS HeldWhileAlive WipRespected OneHolder FilesSerialized NeverRelaunched
PROPERTY EndedWorkReleases
