\* Two wallets deposit, withdraw and send fUSD around one traded session.
SPECIFICATION Spec
CONSTANTS
    ada = ada
    bob = bob
    Users = {ada, bob}
    Trader = ada
    Nonces = {1}
    FAUCET_AMOUNT = 4
    ORACLE_MAX_AGE = 0
    Amounts = {1, 4}
    Quantities = {1}
    Expectations = {2, 4}
    Quotes <- OneMovingPrice
    Scheduled = {}
    U64 = 1000
    BPS_SCALE = 10
    SHARE_SCALE = 10
    PRICE_SCALE = 1
    PERFORMANCE_FEE_BPS = 5
    SESSION_SECONDS = 1
    MAX_TRADES = 2
    MAX_TRADE_BPS = 5
    MAX_ASSET_BPS = 8
    MAX_DRAWDOWN_BPS = 2
    MAX_SLIPPAGE_BPS = 0
    MIN_NOTIONAL = 1
INVARIANTS BooksAgree FusdConserved SharesAreBacked
PROPERTIES NoDilution ImplementsBackedPool
