SPECIFICATION MCSpec
CONSTANTS
    Patchers = {p1, p2}
    Encoders = {e1}
    Removers = {d1}
    Readers = {g1, g2}
    NoDoc = NoDoc
    NoPatch = NoPatch
    NoEntry = NoEntry
    Faults <- FaultKinds
    Searches = {g1, g2}
    Requests <- MCRequests
    Words = {"cat"}
    NoWords = "none"
    Spellings = {"plain", "shout"}
    NotANumber = NotANumber
    DefaultSize = 2
    MaxSize = 3
    TTL = 2
    MaxDelay = 1
    None = None
    Queries = {p1, p2}
    NoQuery = NoQuery
    MaxRuns = 5
    Conns = {g1, g2}
    Videos = {v1}
    NoVideo = NoVideo
    Catalog = Catalog
    NoTopic = NoTopic
    Pushes = 2
    MaxSubscriptionsPerConn = 1
    SubscribeRateWindow = 1
    SubscribeRateMaxSubscribe = 2
    ScriptTopics = {p1, p2}
    ScriptLength = 8
SYMMETRY Interchangeable
INVARIANTS TypeOK CacheCoherent DeletedHasNoEntry AnswersTheRequest AnswerIsRecent
           ResultsAreOfTheQuery HubTypeOK HubMatchesConnections ConfirmedIsServed
           AnswersAreWarranted CapBeforeRate
PROPERTIES PushOrder
CHECK_DEADLOCK FALSE
