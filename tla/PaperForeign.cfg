\* A transaction outlives the wallet that asked for it.
SPECIFICATION Spec
CONSTANTS
    ann = ann
    bob = bob
    sol = sol
    solFeed = solFeed
    NoWallet = NoWallet
    WALLETS <- TwoWallets
    ASSETS <- OneAsset
    FEEDS <- OneFeed
    NoFeed = NoFeed
    U64 = 1000000
    LOT = 10
    BPS = 10000
    FEE_BPS = 10
    START_USDC = 1000
    RECENT_FILLS = 2
    MAX_AGE = 30
    MAX_LEAD = 0
    PriceUpdates <- OneUpdate
    Orders <- EveryOrder
    QuoteOrders <- ManyQuotes
    MarketOrders <- ManyMarket
    MAX_TRADES = 3
    MAX_TIME = 0
    MAX_SWITCHES = 2
    MAX_RUNS = 2
    MAX_READS = 5
    MAX_QUOTE_ID = 3
CHECK_DEADLOCK FALSE
INVARIANTS PortfolioShownIsOwn
