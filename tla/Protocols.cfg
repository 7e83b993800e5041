\* Two processes each: a session's ingestion, its hooks, a backfill, evidence,
\* the assertions of two messages, a chain of two summary routes, the sidecars
\* of two outputs, the cleaning of one engine's context; three agents on two ids;
\* two searches of two nodes, in a pool of one store, one of two keys.
SPECIFICATION ProtocolsSpec
CONSTANTS
    a1 = a1  a2 = a2  x1 = x1  x2 = x2
    Actors = {a1, a2}
    Things = {x1, x2}
    Workers = {a1, a2}
    System = "sys"
    Users = {"ask"}
    Tools = {"result"}
    Internal = {"thought"}
    MaxTurns = 3
    MaxTime = 2
    MaxReloads = 1
    MaxRewrites = 1
    Window = 0
    FreshTail = 1
    Stamps = {TRUE, FALSE}
    Sessions = {x1, x2}
    NoSession = NoSession
    Agents = {a1, a2}
    MaxSummaries = 1
    MaxBinds = 2
    Intrusion = FALSE
    Backfillers = {a1, a2}
    Leaves = {x1, x2}
    MaxRuns = 2
    BatchSize = 2
    Controllers = {a1, a2}
    Rows = {x1, x2}
    MaxCorpus = 1
    MaxClaims = 2
    MaxFound = 1
    Extractors = {a1, a2}
    Sources = {x1, x2}
    Words = {"said"}
    MaxBatch = 1
    MaxLinks = 1
    Summarizers = {a1, a2}
    Routes <- TwoRoutes
    MaxCalls = 2
    WindowLength = 1
    BackoffLength = 2
    Threshold = 2
    Cooldown = 2
    LastTick = 4
    Writers = {a1, a2}
    Outputs = {x1, x2}
    MaxFiles = 2
    Turns = {a1, a2}
    Lists = {"old", "new"}
    Bindings = {"here", "there"}
    MaxEvents = 5
    a3 = a3
    Frames = {a1, a2, a3}
    Ids = {x1, x2}
    Main = Main
    Nobody = Nobody
    MaxFresh = 1
    Searches = {a1, a2}
    grep = grep  recall = recall
    Grep <- OneGrep
    Recall <- OneRecall
    Nodes = {1, 2}
    ScanRows = 1
    PoolMax = 1
    CacheMax = 1
    MaxVersion = 1
SYMMETRY ProtocolsSymmetry
CONSTRAINTS ForgetsOneNode OneIsShort BindsFit ClockForStamps SearchesMeetNot
INVARIANTS HandedIsKept ToldTurnsStoredOnce NeverResent EmbeddedIsDone HitMissesNothing ReadyCitesWhatIs
           QueriesAreAnswered BudgetKept ReferencesResolve MadeIsJournalled
           SanitisesExactly AgentsKeptApart FullMissesNothing
PROPERTIES  ForgettingCanBeRetried ReadOnce
CHECK_DEADLOCK FALSE
