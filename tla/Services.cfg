SPECIFICATION ServicesSpec
CONSTANTS
    Callers = {"x", "y"}
    Principal <- Sessions
    Granted <- Grants
    Scopes = {"s", "t"}
    Initial <- SAndT
    QueueCapacity = 2
    BatchSize = 2
    MaxAllowed = 1
    AllowedBytes = 2
    MaxRefused = 2
    RefusedBytes = 1
    Sizes <- RecordSizes
    MaxCalls = 3
    MaxMoves = 1
    MaxFailures = 1
    MaxDeaths = 1
    Clients = {"a"}
    Wanted <- Asked
    Wide = {}
    PublicCalls = {"x", "y"}
    Keys = {"k1"}
    Name <- Named
    Adoptable = {}
    Members = {"k1"}
    Target = "k1"
    Registered = {}
    MaxRequests = 1
    MaxRegistrations = 2
    MaxPages = 0
    MaxStops = 0
    MaxAborts = 0
    Windows = {"w", "x", "v"}
    Client <- Owner
    Topics = {"t", "u"}
    CardScopes = {"s", "z"}
    Texts = {"m"}
    ClientGrants <- Permitted
    Queries <- All
    Order <- Ranked
    TopicsPerScope = 1
    MaxCards = 2
    Limit = 1
    Lifetimes = {1}
    Merges <- Into
    MaxSequence = 3
    MaxTime = 1
    MaxChanges = 1
    Outputs = {"c", "u"}
    Kind <- Undone
    Operators = {"x", "y"}
    MaxRevisions = 4
    MaxTurns = 1
    MaxFalls = 2
INVARIANTS ServicesTypeOK AccessEnds RecordsKept
PROPERTIES CommittedWhereGranted HandoffsRead LaterEditsStand
CHECK_DEADLOCK FALSE
