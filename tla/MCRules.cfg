SPECIFICATION Spec
CONSTANTS
    Nothing = Nothing
    Registries <- MCRegistries
    NameOrder <- MCNameOrder
    Names <- MCNames
    Configs <- MCConfigs
    Now = 2
    Bodies <- MCBodies
    MaxResponse = 9
    MaxBuffer = 12
    Exchanges = {x1, x2}
    Ways <- MCWays
    Parts <- MCParts
    Nobody = Nobody
    Refused = Refused
    MaxPieces = 3
    Rejected = Rejected
    ComposePaths <- MCComposePaths
    Scalars <- MCScalars
    MaxScalars = 3
    Mentions <- MCMentions
    MaxMentions = 2
    Actives <- MCActives
    Absent = Absent
    Blank = Blank
    Spellings = {1, 2, 4}
    MaxFacts = 5
INVARIANTS
    UpdatesAreSafe
    SelectionSound
    ChunkingIrrelevant
    OpensOnlyItsOwn
    SecretsNeverShown
    OnlyPinnedImages
    FormsAgree
CHECK_DEADLOCK FALSE
