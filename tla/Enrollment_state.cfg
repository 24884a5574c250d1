CONSTANTS
    Clients = {"a", "w"}
    Wanted <- Asked
    Wide = {"w"}
    PublicCalls = {"x"}
    Keys = {"k1", "k2", "k3"}
    Name <- Named
    Adoptable = {"k2"}
    Members = {"k1", "k2"}
    Target = "k1"
    Registered = {"k1", "k2"}
    MaxRequests = 1
    MaxRegistrations = 2
    MaxPages = 0
    MaxStops = 1
    MaxAborts = 0
SPECIFICATION EnrollmentSpec
INVARIANT StateLoads
CHECK_DEADLOCK FALSE
