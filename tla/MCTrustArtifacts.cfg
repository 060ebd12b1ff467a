\* One deployment built again and again, or two on one cache path.
SPECIFICATION MCSpec
CONSTANTS
    Envelopes <- MCEnvelopes
    Bundled <- MCBundled
    Measurements = {"m1", "m2", "m3"}
    Routes = {"r1"}
    Issuers = {"issuer", "other"}
    NoFile = NoFile
    Nothing = Nothing
    Broken = Broken
    Builders = {b1, b2}
    Other = b2
    Configs <- MCConfigs
    Inodes = {i1, i2, i3}
    MaxBuilds = 4
    MaxNow = 2
CHECK_DEADLOCK FALSE
SYMMETRY Symmetry
INVARIANTS
    CacheFileWhole
    FixtureTrustConfined
    NeverWeakerThanFallback
PROPERTIES
    NoRollback
