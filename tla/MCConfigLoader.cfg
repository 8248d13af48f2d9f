CONSTANTS
    ra = ra
    rb = rb
    rc = rc
    rd = rd
    Loaders = {l1, l2}
    Names = {ra, rb, rc, rd}
    MaxDepth = 5
    None = None
    Configs <- MCConfigs
SPECIFICATION FairSpec
INVARIANTS
    TypeOK
    ErrorsHaveReasons
    FaultsAreFound
    MadeAsConfigured
    PipelineInOrder
    NeverBuiltAgain
PROPERTIES
    LoadsEnd
    Loads
CHECK_DEADLOCK FALSE
