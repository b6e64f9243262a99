\* The desk's price of SHIB against the program's.
SPECIFICATION Spec
CONSTANTS
    sol = sol
    shib = shib
    ASSETS <- TwoAssets
    U64 = 1000000
    LOT = 1000
    BPS = 10000
    FEE_BPS = 10
    START_USDC = 1000
    RECENT_FILLS = 3
    OraclePrices <- ManyPrices
    MAX_SLIPPAGE = 100
    NoPrice = NoPrice
INVARIANTS ShownPriceIsTraded
