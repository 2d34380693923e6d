SPECIFICATION Spec
CONSTANTS
  Stocks = {"a", "b", "c"}
  Hedge = "h"
  Sector <- MCSector
  FredDays <- MCFredDays
  FilingDays <- MCFilingDays
  Week = 1
  Month = 2
  Quarter = 3
  Half = 5
  Year = 8
  Hold = 3
  Slack = 2
  BlackoutPre = 4
  BlackoutGap = 1
  Backtests <- MCBooks
  LastDay = 16
  Requests = {"r1", "r2"}
  Loads <- MCLoads
  NoFamily <- MCNoFamily
  MaxBuilds = 2
  Prices <- MCPrices
  Cap = 1
  Keep = 1
  SampleEvery = 2
  Venues <- MCVenues
  TradeSizes = {1}
  MaxSeq = 3
  Loaders = {"l1", "l2"}
  Companies = {"a", "x"}
  Tickers <- MCTickers
  Known = {"a"}
  Attempts = 2
  MaxLoadsBegun = 3
  Scripts = {"s1", "s2"}
  NumPanels = 3
  MaxRuns = 4
  Pages = 3
  MaxWaits = 2
  MaxRecorders = 2
INVARIANTS
  DeskAccountsAgree  LanguageIsSound NothingIsForeseen
  DownloadsAreWhole MoneyAddsUp TapesAreReplayed LimitsHold ViewsAgree
CHECK_DEADLOCK FALSE
