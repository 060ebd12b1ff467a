SPECIFICATION Spec
CONSTANTS
    Releases <- MCReleases
    Root <- MCRoot
    Asked <- MCAsked
    MaxLog = 5
    ShardBase = 4
    Refused = Refused
    Open = Open
    KeyDirs = {k1, k2}
    Commands <- MCCommands
    Deployments <- MCDeployments
    Measurements <- MCMeasurements
    Captures = 2
    ValidFor = 1
    QuoteLife = 1
    MaxTime = 1
    MaxRollouts = 1
    MaxPins = 2
    Nothing = Nothing
    Levels <- MCLevels
    Guests = {g1, g2}
    Policies <- MCPolicies
    Shapes <- MCShapes
    MinTcb <- MCMinTcb
    MinFirmware <- MCMinFirmware
    VcekLife <- MCVcekLife
    MaxMs = 2
    None = None
    Quotes <- MCQuotes_
    Sessions <- MCSessions
    Life <- MCLife
    NonceLength = 1
    MaxBundles = 1
    MaxDay = 2
    Unset = Unset
    Nonces = {n1, n2}
    Forms = {"evidence_list", "object", "none"}
    Answers = {"pair", "object", "claims", "bare", "error"}
    TokenLife = 1
    MaxSecond = 1
    Absent = Absent
INVARIANTS
    ReleasesAsLogged
    ConfigIsOnePin
    OnlyProvedAccepted
    PatchedStaysPatched
    EvidenceNamesSession
CONSTRAINT Bounds
SYMMETRY Symmetry
CHECK_DEADLOCK FALSE
