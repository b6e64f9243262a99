\* Trades in two assets against a moving oracle, around the expiry.
SPECIFICATION Spec
CONSTANTS
    ada = ada
    bob = bob
    Users = {ada}
    Trader = ada
    Nonces = {1}
    FAUCET_AMOUNT = 10
    ORACLE_MAX_AGE = 1
    Amounts = {10}
    Quantities = {1, 2}
    Expectations = {2, 3}
    Quotes <- TwoMovingPrices
    Scheduled = {}
    U64 = 1000
    BPS_SCALE = 10
    SHARE_SCALE = 10
    PRICE_SCALE = 1
    PERFORMANCE_FEE_BPS = 1
    SESSION_SECONDS = 1
    MAX_TRADES = 2
    MAX_TRADE_BPS = 5
    MAX_ASSET_BPS = 6
    MAX_DRAWDOWN_BPS = 2
    MAX_SLIPPAGE_BPS = 5
    MIN_NOTIONAL = 2
INVARIANTS TypeOK SessionIsSound
PROPERTIES FrozenIsFinal
