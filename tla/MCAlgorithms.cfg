SPECIFICATION AlgorithmsSpec
CONSTANTS
  Files = {1, 2, 3, 4}
  Graphs <- MCGraphs
  MaxPasses = 2
  WindowLines = 2
  ChunkCap = 3
  MaxTexts = 2
  MaxTokens = 4
  SourceFiles <- MCSourceFiles
  Repos <- MCRepos
  Requests <- MCRequests
  ToolUses <- MCToolUses
  Trees <- MCTrees
  Manifests <- MCManifests
  Declarations <- MCDeclarations
  CodeBases <- MCCodeBases
  Searches <- MCSearches
  Rankings <- MCRankings
  Reranks <- MCReranks
  ChoiceLists <- MCChoices
  Comments <- MCComments
  KB_MAX_POINTS_PER_COMMUNITY = 2
  KB_MAX_COMMUNITIES = 2
  KB_MAX_KEY_FILES = 1
  KB_MAX_DETAIL_CHARS = 2
  KB_MAX_FAQ = 6
  LANE_MAX_MODULES = 2
  LANE_MAX_HEADLINES = 1
  SUPERVISOR_MAX_FINDINGS = 2
  DEFAULT_MAX_VERSIONS = 2
  VERDICT_CHIP_CAP = 1
  SAFE_TO_CHANGE_MAX_AFFECTED = 1
  RADIAL_RINGS = 2
  RADIAL_LABELS = 2
  RADIAL_MAX_NODES = 4
  MIN_FILES_FOR_SHARE = 4
  HIGH_DEGREE = 3
  LONG_CYCLE = 3
  LATENCY_WINDOW = 3
  TOKEN_ESTIMATE_CHARS_PER_TOKEN = 4
  DEFAULT_MAX_TOKENS = 7
  EMBED_MAX_BATCH = 2
  ESCALATE_AT = 1
  WIDTH = 4
  Boards <- MCBoards
  Lookups <- MCLookups
  Histories <- MCHistories
  Drawings <- MCDrawings
  Measures <- MCMeasures
  Outcomes <- MCOutcomes
  Plans <- MCPlans
  Latencies <- MCLatencies
  Completions <- MCCompletions
  Embeddings <- MCEmbeddings
  Environments <- MCEnvironments
  Routings <- MCRoutings
  Prices <- MCPrices
  HookNames = {"useIt"}
  ComponentNames = {"It"}
  RoutePaths = {"/"}
  Clauses <- MCClauses
  SourceModules <- MCSourceModules
  CallSites <- MCCallSites
  Decorators <- MCDecorators
  PythonFiles <- MCPythonFiles
  PythonImports <- MCPythonImports
  Evaluations <- MCEvaluations
  LabelSets <- MCLabelSets
  ArenaWorlds <- MCArenaWorlds
  Flywheels <- MCFlywheels
  Corpora <- MCCorpora
  ArmTrials <- MCArmTrials
  McpSessions <- MCMcpSessions
  LocalRuns <- MCLocalRuns
  CommandLines <- MCCommandLines
  Listings <- MCListings
INVARIANTS
  DetectionIsExact
  GraphsAreSound
  StagesAreSound
  RetrievalIsSound
  ProductsAreSound
  ProvidersAreSound
  EnginesAgree
  ScoresAreFair
PROPERTIES
  DetectionSettles
CHECK_DEADLOCK FALSE
