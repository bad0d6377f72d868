SPECIFICATION ApartSpec
CONSTANTS
    Nobody = Nobody
    Ids = {e1, e2}
    Parties = {p1, p2}
    MaxValue = 2
    FEE_BPS = 1
    BPS_DENOMINATOR = 2
    NoSub = NoSub
    SubIds = {0, 1}
    Claims = {0, 1}
    MaxSubAmount = 2
    MAX_RETENTION_RATE = 1
    BPS = 2
    Accounts = {a1, a2}
    PRECISION = 2
    MaxSupply = 2
    MaxPerToken = 2
    MaxSyncs = 4
    MaxDeposit = 2
    Voters = {v1, v2, v3}
    Proposals = {g1}
    MaxPower = 2
    GOV_BPS = 2
    Uses = {x1, x2, x3}
    Costs = {1, 2}
    Included = 2
    Quota = 1
    MaxMonths = 2
    MaxBought = 1
    MaxTierChanges = 1
    NoDraw = NoDraw
    Candidates = {n1, n2}
    MaxCommits = 2
    MaxDeaths = 1
SYMMETRY Alike
INVARIANT AllTypesOK
INVARIANT Solvent
INVARIANT Accounted
INVARIANT PaidIsAccounted
INVARIANT DividendsCovered
INVARIANT PowerCountsOnce
INVARIANT NeverOverdrawn
INVARIANT EvidenceIsTrue
PROPERTY DrawnInSecret
PROPERTY DepositsAreAtomic
CHECK_DEADLOCK FALSE
