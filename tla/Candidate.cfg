SPECIFICATION CandidateSpec
CONSTANTS
  n1 = n1  n2 = n2  n3 = n3  hk = hk  jp = jp
  openai = openai  gemini = gemini
  Nodes = {n1, n2, n3}
  Regions = {hk, jp}
  Resolvers <- MCResolvers
  MinPreferred = 2
  ProbeAttempts = 2
  RequiredSuccesses = 1
  AiServices = {openai, gemini}
  OpenAi = openai
  PreferredAiRegions <- MCPreferredAiRegions
  Undeclared = Undeclared
  LegacyOrder <- MCLegacyOrder
  Candidate <- MCGenerated
  Source <- MCSource
  HostnameNodes = {n1}
  TcpNodes = {n1, n2, n3}
  HostAnswers <- MCHostAnswers
  Endpoints <- MCEndpoints
  AllowAaaa = TRUE
  FailedRequests = {"probe_error", "controller_http_400"}
  UdpResults = {"quic", "silent"}
  AiEvidence <- MCAiEvidence
  HasHistory = TRUE
  Unset = Unset
  AiShards <- MCShards
  ShardNodes <- MCShardNodes
  General = "t"
  Ports = {1, 2, 3, 4}
  Reserved = TRUE
  Working <- MCWorking
  MaxExits = 1
  Absent = Absent
  Pins <- MCPins
  Optional = {"v/2"}
  CachePath <- MCCachePath
  Releases <- MCReleases
  Corrupt = {"bad"}
  MaxUploads = 1
  MaxFaults = 2
  MaxRuns = 3
  a = a b = b k1 = k1 k2 = k2
  Order <- BuildOrder
  Spec <- BuildSpecs
  Informational = {4}
  Multiplier <- BuildMultiplier
  Aliases <- BuildAliases
  Countries <- BuildCountries
  Other = "OTHER"
  Pools <- BuildPools
  GroupSpecs <- BuildGroupSpecs
  RouteSpecs <- BuildRouteSpecs
  Browsing <- BuildBrowsing
  GuardPolicy <- BuildGuardPolicy
  Workers = 2
  Fatal = {a}
  Payloads <- BuildPayloads
  MinSuccessful = 1
  MinUsable = 1
  RejectDuplicates = FALSE
  MaxLost = 1
  Baselines <- BuildBaselines
  Evidence <- BuildEvidence
  Services = {"openai"}
INVARIANTS
  NegativeEvidenceIsCorroborated LastAttemptDecides PoolsHoldAdmitted ServicesReachAdmitted AccountingHolds
  PoolsAreExact NoRouteFailsOpen CompilationIsSound RevokedSourcesDoNotBlock VerdictsAreOfTheNode BinariesAreVerified
CHECK_DEADLOCK FALSE
