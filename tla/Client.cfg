SPECIFICATION FairSpec
CONSTANTS
    None = None
    dbA = dbA
    dbB = dbB
    Requests = {1, 2, 3}
    Runs <- MCRuns
    Databases = {dbA, dbB}
    DefaultDatabase = dbA
    Today = 9
    Week = 7
    MaxSecond = 1
    Code <- MCCode
    TruthValues = {"no"}
    Supported <- MCSupported
    Clients = {1, 2, 3, 4}
    Files <- MCFiles
    Relative = {"rel"}
    Removes <- MCRemoves
    Scenes <- MCScenes
CHECK_DEADLOCK FALSE
INVARIANTS
    AnswerIsOwn
    RunsRight
    OutliersBalanced
    NothingLeftBehind
    DownStops
    TableIsHistory
    UpReplaces
    ScheduledOnce
PROPERTIES
    RequestsEnd
