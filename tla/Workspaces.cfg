\* The page's workspaces, one at a time.
SPECIFICATION WorkspacesSpec
CONSTANTS
    \* One driver, its owner, and a network that loses and delays.
    RUN_TICKS = 4
    STARTING_BASE = 1000
    STARTING_QUOTE = 15000
    STARTING_PRICE = 15000
    MAX_INVENTORY = 2000
    Strategies <- OneStrategy
    Noises <- Still
    Events <- Still
    MAX_OWNER_TICKS = 4
    \* A session of three ticks.
    SCENARIO <- Session
    STRATEGY <- SessionStrategy
    Nothing = Nothing
    Forged = Forged
    \* Two ranked runs of two ticks, started from two labs.
    SCENARIOS = {whale, crash}
    STRATEGIES = {tight}
    DEFAULT_SCENARIO = whale
    DEFAULT_STRATEGY = tight
    LAB_TICKS = 2
    MAX_STARTED = 2
    MAX_MOUNTS = 2
    \* Two completed simulations, the debrief of one opened again, and a
    \* history with room for one.
    SIM_SCENARIOS <- TwoMarkets
    SIM_STRATEGIES <- JustNarrow
    FIRST_SCENARIO <- Rise
    FIRST_STRATEGY <- Narrow
    LOCAL_RUN_LIMIT = 1
    MAX_COMPLETED = 2
    MAX_SUBMITTED = 2
    MAX_OPENED = 3
    \* Two loads of the boards, around the end of a week.
    RUN_ACCOUNTS <- FewAccounts
    PORTFOLIOS <- FewPortfolios
    ORACLES <- FewPrices
    FIRST_ORACLE <- FreshPrices
    FIRST_WEEK = 1
    LAST_WEEK = 2
    MAX_REQUESTS = 2
CHECK_DEADLOCK FALSE
INVARIANTS TicksInStep CompleteIsSettled SettledIsOnRecord DisplayIsOfThisLab
           HistoryIsTruthful
PROPERTIES DriverEnds OwnerCanRescue ImplementsLocalRuntime BoardRanksBest
