\* One wallet runs two sessions on its pool, one after the other.
SPECIFICATION Spec
CONSTANTS
    ada = ada
    bob = bob
    Users = {ada}
    Trader = ada
    Nonces = {1, 2}
    FAUCET_AMOUNT = 6
    ORACLE_MAX_AGE = 0
    Amounts = {6}
    Quantities = {1}
    Expectations = {2, 4}
    Quotes <- OneMovingPrice
    Scheduled = {}
    U64 = 1000
    BPS_SCALE = 10
    SHARE_SCALE = 10
    PRICE_SCALE = 1
    PERFORMANCE_FEE_BPS = 5
    SESSION_SECONDS = 1
    MAX_TRADES = 2
    MAX_TRADE_BPS = 10
    MAX_ASSET_BPS = 8
    MAX_DRAWDOWN_BPS = 4
    MAX_SLIPPAGE_BPS = 0
    MIN_NOTIONAL = 1
INVARIANTS OneOpenSession SettlementIsFunded ReceiptMatchesSession
PROPERTIES FeeOnlyAboveHighWater
