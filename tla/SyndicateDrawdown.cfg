\* The documented drawdown limit, with the program's own limits of 10, 40 and 20 percent.
SPECIFICATION Spec
CONSTANTS
    ada = ada
    bob = bob
    Users = {ada}
    Trader = ada
    Nonces = {1}
    FAUCET_AMOUNT = 40
    ORACLE_MAX_AGE = 0
    Amounts = {40}
    Quantities = {1}
    Expectations = {1, 4}
    Quotes <- CrashingPrice
    Scheduled = {}
    U64 = 1000
    BPS_SCALE = 10
    SHARE_SCALE = 10
    PRICE_SCALE = 1
    PERFORMANCE_FEE_BPS = 1
    SESSION_SECONDS = 1
    MAX_TRADES = 5
    MAX_TRADE_BPS = 1
    MAX_ASSET_BPS = 4
    MAX_DRAWDOWN_BPS = 2
    MAX_SLIPPAGE_BPS = 0
    MIN_NOTIONAL = 1
PROPERTIES TradingStopsAtDrawdown
