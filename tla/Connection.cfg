CONSTANTS
    HeaderLen = 2
    Peek = 1
    FrameHead = 1
    Tag = 1
    BufSize = 8
    Bodies = {0, 2, 6, 7}
    Rotations = {0, 1}
    MaxSent = 3
    Offers <- AllOffers
    Policies <- AllPolicies
    Tls = {TRUE, FALSE}
    Clients = {"a"}
    Elsewhere = {"x"}
    Logins = {"n"}
    Interval = 2
    Threshold = 2
    Window = 2
    MaxBans = 1
    MaxEdits = 1
    MaxFaults = 1
    MaxSteps = 1
SPECIFICATION ConnectionSpec
INVARIANTS AnnouncedUsed InStep NothingLost
PROPERTIES Delivered RateKept PoliteServed BanEarned BannedStayOut Served
CHECK_DEADLOCK FALSE
