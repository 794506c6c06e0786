CONSTANTS
    c1 = c1
    c2 = c2
    Callers = {c1, c2}
    Pools = {"p", "q"}
    PageSize = 2
    MaxPages = 2
    MaxRetries = 1
    Nobody = "zero"
    Weth = "weth"
    Official = {"listed", "executor", "router"}
    Executor = "executor"
    Router = "router"
    SafeHead = 2
    Remain = {2, 5}
    PageLimit = 1
    TopN = 2
    Recent = 1
    Peers = {1, 2, 3, 4}
    Scenes <- MCScenes
SPECIFICATION Spec
INVARIANTS TypeOK ListingHonest IdentitiesStable CompleteRests ClaimsTrue PoolsTrue TopIsTop PagesHonest ProfileHonest
PROPERTY RequestsEnd
CHECK_DEADLOCK FALSE
