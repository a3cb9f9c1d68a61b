SPECIFICATION EstimatesSpec
CONSTANTS
  a1 = a1
  a2 = a2
  foreign = foreign
  Assets = {a1, a2}
  Foreign = foreign
  Today = 3
  Never = 99
  Lots <- MCLots
  PlanCases <- MCPlanCases
  RuleFiles <- MCRuleFiles
  SaleCases <- MCSaleCases
  FlowFiles <- MCFlowFiles
  SuppliedFiles <- MCSuppliedFiles
  BridgeRows = 4
  Closings <- MCClosings
  Quote <- MCQuote
  LedgerFiles <- MCLedgerFiles
  AccountFiles <- MCAccountFiles
  ResultCases <- MCResultCases
  CetesFiles <- MCCetesFiles
  BondFiles <- MCBondFiles
  LiquidityFiles <- MCLiquidityFiles
  Histories <- MCHistories
  WealthFiles <- MCWealthFiles
  AccountIds = {a1, a2, foreign}
  Nominal = 12
  Year = 6
  LeastRows = 3
  EnoughDays = 2
  Optimal <- Grows
  Share = 1
  Points = 4
  Least = 2
  Enough = 1
  LeastForCuts = 5
  NoOrder = NoOrder
  Outside = Outside
  Refused = Refused
  Blank = Blank
INVARIANTS
  PlansAreSound
  BooksAddUp
  ResultsAddUp
  SeriesFollowTheirTerms
  StudiesLookBack
  PerformanceIsOfTheMarket
  TaxesFollowTheirFiles
  FilesAreUsedOrRefused
CHECK_DEADLOCK FALSE
