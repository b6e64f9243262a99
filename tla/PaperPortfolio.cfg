\* One owner, two markets, up to five trades through a ring of three, on
\* updates that are published before, at and after the time of the trade.
SPECIFICATION ProgramSpec
CONSTANTS
    owner = owner
    sol = sol
    eth = eth
    solFeed = solFeed
    ethFeed = ethFeed
    WALLETS <- OneOwner
    ASSETS <- TwoAssets
    FEEDS <- TwoFeeds
    NoFeed = NoFeed
    U64 = 1000000
    LOT = 1000
    BPS = 10000
    FEE_BPS = 10
    START_USDC = 300
    RECENT_FILLS = 3
    MAX_AGE = 1
    MAX_LEAD = 1
    PriceUpdates <- ManyUpdates
    Orders <- ManyOrders
    MAX_TRADES = 5
    MAX_TIME = 2
CHECK_DEADLOCK FALSE
INVARIANTS TypeOK BooksBalance SnapshotIsRecent HistoryUndoesTrades
PROPERTIES TradeIsFair
