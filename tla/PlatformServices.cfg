SPECIFICATION Spec
CONSTANTS
    p1 = p1
    p2 = p2
    k1 = k1
    k2 = k2
    a1 = a1
    a2 = a2

    EngineIds = {"e1", "e2", "e3"}
    EngineCapacity = 2
    MaxEngineTime = 1
    EngineTtl = 1
    MaxBlockHeight = 2
    UnvaultDelays = {0, 1, 2}
    VaultDeposits = {0, 1}
    CtUsdConfigs <- MCCtUsdConfigs
    AttestationLists <- MCAttestationLists
    ExitTimelock = 2
    MaxInvoices = 3
    MaxChallengeDepth = 3
    StateSizes = {0, 1, 3}
    MaxStackSize = 4
    CovenantDepths = {0, 2, 3}
    MaxCovenantDepth = 2
    Supplies = {0, 1, 2}
    MaxTransfers = 2
    ScanKeys = {1, 2}
    MaxMatches = 3
    Signatories = {p1, p2}
    SessionMembers <- MCSessionMembers
    NonceValues = {"n1", "bad"}
    PartialValues = {"s1", "bad"}
    Malformed = "bad"
    SessionTtl = 0

    Batchers = {1, 2}
    Feed = {1, 2}
    MaxRetries = 1
    MaxBatches = 3
    Mails = {1, 2}
    MailWorkers = {1, 2}
    MaxPolls = 2
    Adapters = {1, 2}
    ShadowBlocks <- MCShadowBlocks
    MaxShadowPolls = 3
    MaxStarts = 2

    Contributors = {k1, k2}
    ClaimRequests <- MCClaimRequests
    MonthlyCap = 400000
    Environments <- MCEnvironments
    Pools = {7}
    MaxEntries = 2
    MaxMonth = 1
    Proposals = {"seeded", "named"}
    SeedProposals = {"seeded"}
    Mandates = {"m"}
    WorkerSets = {{"w1"}, {"w1", "w2"}}
    SidlRequests <- MCSidlRequests
    MaxRequests = 3

    Services = {"dashboard", "nexus"}
    Permissions <- MCPermissions
    Internal = "int"
    AdminService = "dashboard"
    GatewayScopes = {"int", "r"}
    ExternalScopes = {"x"}
    MinTtl = 2
    MaxTtl = 3
    MaxSkew = 2
    JwtConfigs <- MCJwtConfigs
    Callers = {"a", "b"}
    AuthRequests <- MCAuthRequests
    TokenScopes = {{"r", "x"}}
    TokenTtls <- MCTokenTtls
    Graces = {1}
    MaxTokens = 2
    MaxTokenTime = 2

    TaskGraphs <- MCTaskGraphs
    SwarmResultSet <- MCSwarmResults
    DeliveryIds = {1}
    IdempotencyKeys = {"k", "l"}
    MaxDeliveries = 3
    ContextEntries <- MCContextEntries
    ContextPackages <- MCContextPackages
    Allowed = {"repo", "task"}
    RequiredTokens = {{}, {"repo"}}
    MaxItems = 2
    Lifetimes = {2}
    MaxSnapshots = 3
    MaxContextTime = 2
    AgentOffers <- MCAgentOffers
    TaskRequirements <- MCTaskRequirements
    EnvelopeTtl = 2
    AuthenticationTtl = 1
    MaxSequence = 4
    MaxDelegationTime = 2

    MaxRevenueTime = 2
    MaxEvidenceAge = 1
    MaxRevisions = 2
    FirstDisk <- MCFirstDisk
    DiskChanges <- MCDiskChanges
    SkillRequests <- MCSkillRequests
    MaxDiskChanges = 1
    Declared <- MCDeclared
    Enlisted <- MCEnlisted
    HiddenPaths = {"hidden"}
    FirstTexts <- MCFirstTexts
    Overwrites <- MCOverwrites
    InputKeys = {"in"}
    MaxOverwrites = 1
    Placements <- MCPlacements
    MaxDerivations = 2
    MaxPackaged = 2
    MaxCommits = 5
    MaxPromotionTime = 1
    MaxDirectPrs = 1
    MaxActs <- MCMaxActs
    MinDwell = 1

    RouteCalls <- MCRouteCalls
    Latencies = {0, 2}
    MeteredServices = {{"s1"}, {"s1", "s2"}}
    KeyTerms <- MCKeyTerms
    Exporters = {1, 2}
    Outcomes <- MCOutcomes
    MaxObserved = 2
    MaxExported = 2
    KnowledgeIds = {"a", "b"}
    Confidences = {1}
    KbScripts = {1, 2}
    MaxKnowledge = 3
INVARIANTS
    TypeOK
    EnginesSound
    LedgersSound
    GatesSound
    AgentsSound
    
PROPERTY
    PlatformFinal
CHECK_DEADLOCK FALSE
