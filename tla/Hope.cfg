\* The login alone: every HOPE request under every policy.
CONSTANTS
    HeaderLen = 2
    Peek = 1
    FrameHead = 1
    Tag = 1
    BufSize = 8
    Bodies = {2}
    Rotations = {0, 1}
    MaxSent = 1
    Offers <- AllOffers
    Policies <- AllPolicies
    Tls = {TRUE, FALSE}
    Clients = {"a"}
    Elsewhere = {"x"}
    Logins = {"n"}
    Interval = 2
    Threshold = 2
    Window = 2
    MaxBans = 1
    MaxEdits = 1
    MaxFaults = 1
    MaxSteps = 1
SPECIFICATION ConnectionSpec
INVARIANT AgreedTransport
CHECK_DEADLOCK FALSE
