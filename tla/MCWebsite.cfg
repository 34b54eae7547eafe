CONSTANTS
  MaxVersion = 2
  MaxPolls = 3
  a1 = a1
  a2 = a2
  WalletAccounts = {a1, a2}
  noSession = noSession
  market = market
  scraper = scraper
  attestor = attestor
  LiveTools <- MCLiveTools
  ToolPrice <- MCToolPrice
  Granted = {0, 3}
  MaxTasks = 2
  MaxRuns = 4
  tab1 = tab1
  tab2 = tab2
  Tabs = {tab1, tab2}
  DEFAULT_CHAIN = "algorand"
  noCookie = noCookie
  noRender = noRender
  MaxChoices = 3
  MaxAgentRuns = 1
SPECIFICATION WebsiteSpec
CHECK_DEADLOCK FALSE
INVARIANT WalletInv
INVARIANT TaskInv
INVARIANT StartInv
INVARIANT ChoiceInv
PROPERTY FeedNeverGoesBack
PROPERTY NothingHangs
