SPECIFICATION ServicesSpec
CONSTANTS
  Parts = {"persistent", "scheduler", "esmes", "limiter", "balancer", "routing", "pricing", "firewall", "filter", "configuration"}
  Clients = {c1, sw}
  Sweeper = sw
  Marks = {"Delivered"}
  MaxId = 2
  MaxFaults = 1
  Schedules = {"a", "b", "c"}
  Plan <- MCPlan
  Threads = {t1, runner}
  Runner = runner
  BatchSize = 2
  MaxPerEsme = 1
  MaxTotal = 1
  MaxNow = 2
  MaxSent = 3
  Admins = {c1, c2}
  Accounts = {"a", "b"}
  SystemIds = {"x", "y"}
  Quota <- MCQuota
  MessageCost = 1
  MaxUsed = 1
  Requests = {c1, c2}
  Rate = 1
  Burst = 2
  MaxClock = 2
  Pickers = {c1, c2}
  Weights <- MCWeights
  Span = 5
  MaxLoad = 3
  RouteTables <- MCRouteTables
  Contexts <- MCContexts
  Times <- MCTimes
  SplitSpan = 8
  Offers = {"x", "y"}
  Networks = {"-", "n"}
  NoNetwork = "-"
  Prices <- MCPrices
  PriceMap <- MCPriceMap
  Revenues = {20}
  Inspectors = {c1, c2}
  FirewallConfigs <- MCFirewallConfigs
  FwMessages <- MCFwMessages
  ListNames = {"bad"}
  ListContents <- MCListContents
  Lower <- MCLower
  MaxTime = 2
  MaxChecks = 4
  Checkers = {c1, c2}
  FilterConfigs <- MCFilterConfigs
  RuleLists <- MCRuleLists
  EsmeSettings <- MCEsmeSettings
  Esmes = {"e"}
  FilterMessages <- MCFilterMessages
  Lowercase <- MCLowercase
  Hours <- MCHours
  MaxSaid = 2
  Operators = {c1, c2}
  Configs = {"one", "two", "badroute", "badregex"}
  ConfigOf <- MCConfigOf
INVARIANTS ServicesTypeOK StoreIndexHolds SchedulesKept TruthfulIndex StuckOnlyByDelete GrantsBounded
INVARIANTS ChoicesSpread RoutedAsConfigured NothingBetterPassedOver VerdictsHold AllowedMeansClean ConfigurationHolds
CHECK_DEADLOCK FALSE
