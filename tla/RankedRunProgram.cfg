\* One run under any caller, any market and any of three accepted strategies.
SPECIFICATION ProgramSpec
CONSTANTS
    RUN_TICKS = 4
    STARTING_BASE = 1000
    STARTING_QUOTE = 1500
    STARTING_PRICE = 1500
    MAX_INVENTORY = 3000
    Strategies <- ManyStrategies
    Noises <- BothWays
    Events <- Shocks
CHECK_DEADLOCK FALSE
INVARIANTS TypeOK TicksNeverRevert BooksBalance ScoreIsEarned EnginesAgree
PROPERTIES SettledIsFinal
