CONSTANTS
    a1 = a1
    u1 = u1
    Scalars <- MCScalars
    MaxDepth = 3
    RuleTechniques <- MCRuleTechniques
    Events <- MCEvents
    Enrichments <- MCEnrichments
    SiemModes <- MCSiemModes
    MaxRetries = 3
    MaxEmitters = 3
    Upserts = {d1, d2, d3}
    Values = {v1, v2}
    AuthServices = {"controller", "token-engine"}
    Slots = {q1, q2}
    Tokens = {a1, u1}
    TokenExp <- MCTokenExp
    Admins = {a1}
    AuthMaxTime = 3
    TokenRequests = {t1, t2}
    TypeLists <- MCTypeLists
    NamedTypes = {"aws_key", "no_type"}
    KnownTypes = {"aws_key", "ssh_key"}
    BundleTypes <- MCBundleTypes
    TokEngines = {e1, e2}
    MaxTokens = 4
    MaxContainers = 1
    PlaybookFiles <- MCPlaybookFiles
    Alerts <- MCAlerts
    Configured <- MCConfigured
    Captures = {1}
    SendTries = 2
    MaxCrashes = 2
SPECIFICATION SuiteSpec
INVARIANTS
    SuiteTypeOK
    AlertIsFaithful
    TokensAreAccounted
    EveryStepAttempted
    ForwardedOnce
PROPERTIES
    RefinesFanOut
    ExtraRecordsNeedRace
    RevocationHolds
CHECK_DEADLOCK FALSE
