SPECIFICATION FairSpec
CONSTANTS
    s1 = s1
    c1 = c1
    c2 = c2
    p1 = p1
    p2 = p2
    none = none
    Workers = {1, 2}
    Prompts = {p1, p2}
    NoPrompt = none
    CacheEntries = 1
    HitWeight = 1
    LoadWeight = 2
    Requests = {s1, c1, c2}
    Streamed = {s1}
    PromptMixes <- Mixes
    MaxInFlight = 2
    MaxRetries = 1
    Policy = "cache-aware"
    FallbackPolicy = "least-load"
    Window = 2
    MinSamples = 1
    FallbackBelow = 50
    RecoverAt = 50
    TurnCap = 2
    Nobody = none
INVARIANT RouterTypeOK
INVARIANT AccountsBalance
INVARIANT TrackersTrue
PROPERTY PrefixPullBounded
PROPERTY EveryRequestAnswered
