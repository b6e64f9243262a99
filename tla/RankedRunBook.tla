--------------------------- MODULE RankedRunBook ---------------------------
(***************************************************************************)
(* The RankedRun account of the Result Registry: the strategy it was       *)
(* started with, one tick of its market, and its score.  A run is a plain  *)
(* record, so that the same rules act on the copy of the base layer and on *)
(* the one delegated to the Ephemeral Rollup.                              *)
(*                                                                         *)
(* The market's seeded generator is left open: a tick takes any noise,     *)
(* event and luck from the sets below, and what holds for every choice     *)
(* holds for the three scenarios.                                          *)
(***************************************************************************)
EXTENDS Integers

CONSTANTS
    RUN_TICKS,           \* ticks of a run
    STARTING_BASE,       \* inventory at the start, in thousandths of a SOL
    STARTING_QUOTE,      \* cash at the start, in cents
    STARTING_PRICE,      \* reference price at the start, in cents
    MAX_INVENTORY,       \* largest max_inventory_milli a strategy may ask for
    Strategies,          \* strategies that a wallet may submit
    Noises,              \* basis points that the generator may move a price by
    Events               \* basis points that a scenario's events may add

MILLI == 1000

BPS == 10000

Strategy == [spread_bps : Nat, order_size_milli : Nat,
             max_inventory_milli : Nat, refresh_ticks : Nat]

ASSUME BookAssumption ==
    /\ RUN_TICKS \in Nat \ {0}
    /\ STARTING_BASE \in Nat
    /\ STARTING_QUOTE \in Nat \ {0}
    /\ STARTING_PRICE \in Nat \ {0}
    /\ MAX_INVENTORY \in Nat
    /\ Strategies \subseteq Strategy
    /\ Noises \subseteq Int
    /\ Events \subseteq Int
    /\ \A noise \in Noises, event \in Events : BPS + noise + event > 0

larger(a, b) == IF a < b THEN b ELSE a

distance(a, b) == IF a < b THEN b - a ELSE a - b

-----------------------------------------------------------------------------
(* Prices and money *)

\* Cents, to the nearest.
value(quantity, price) == (quantity * price + 500) \div MILLI

equity(base, quote, price) == quote + value(base, price)

half_spread(spread) == larger((spread + 1) \div 2, 1)

bid_of(price, spread) == (price * (BPS - half_spread(spread))) \div BPS

ask_of(price, spread) ==
    (price * (BPS + half_spread(spread)) + 9999) \div BPS

ValidStrategy(s) ==
    /\ s.spread_bps \in 2 .. 1000
    /\ s.order_size_milli \in 1 .. s.max_inventory_milli
    /\ s.max_inventory_milli <= MAX_INVENTORY
    /\ s.refresh_ticks \in 1 .. RUN_TICKS

-----------------------------------------------------------------------------
(* The account *)

RunStatus == {"NONE", "ACTIVE", "SETTLED"}

Run == [status : RunStatus, strategy : Strategy, tick : Nat,
        reference_price : Nat, bid : Nat, ask : Nat, base : Nat, quote : Nat,
        inventory_cost : Nat, realized_pnl : Int, equity : Nat,
        peak_equity : Nat, max_drawdown_bps : Nat, fill_count : Nat,
        liquidity_ticks : Nat, has_buy_order : BOOLEAN,
        has_sell_order : BOOLEAN, final_score : Nat]

StartingEquity == equity(STARTING_BASE, STARTING_QUOTE, STARTING_PRICE)

\* Slip (see TicksNeverRevert): a side is quoted whatever the inventory.
RequotedBlindly(run, price) ==
    LET s == run.strategy
    IN  [run EXCEPT !.bid = bid_of(price, s.spread_bps),
                    !.ask = ask_of(price, s.spread_bps),
                    !.has_buy_order = TRUE,
                    !.has_sell_order = TRUE]

\* The orders of a refresh: each side is quoted only if it can be filled.
Requoted(run, price) ==
    LET s == run.strategy
        bid == bid_of(price, s.spread_bps)
    IN  [run EXCEPT
            !.bid = bid,
            !.ask = ask_of(price, s.spread_bps),
            !.has_buy_order =
                /\ run.base + s.order_size_milli <= s.max_inventory_milli
                /\ run.quote >= value(s.order_size_milli, bid),
            !.has_sell_order = run.base >= s.order_size_milli]

\* An account that does not exist.
BlankRun ==
    [status |-> "NONE",
     strategy |-> [spread_bps |-> 0, order_size_milli |-> 0,
                   max_inventory_milli |-> 0, refresh_ticks |-> 0],
     tick |-> 0, reference_price |-> 0, bid |-> 0, ask |-> 0, base |-> 0,
     quote |-> 0, inventory_cost |-> 0, realized_pnl |-> 0, equity |-> 0,
     peak_equity |-> 0, max_drawdown_bps |-> 0, fill_count |-> 0,
     liquidity_ticks |-> 0, has_buy_order |-> FALSE,
     has_sell_order |-> FALSE, final_score |-> 0]

UnquotedRun(s) ==
    [status |-> "ACTIVE", strategy |-> s, tick |-> 0,
     reference_price |-> STARTING_PRICE, bid |-> 0, ask |-> 0,
     base |-> STARTING_BASE, quote |-> STARTING_QUOTE,
     inventory_cost |-> value(STARTING_BASE, STARTING_PRICE),
     realized_pnl |-> 0, equity |-> StartingEquity,
     peak_equity |-> StartingEquity, max_drawdown_bps |-> 0,
     fill_count |-> 0, liquidity_ticks |-> 0, has_buy_order |-> FALSE,
     has_sell_order |-> FALSE, final_score |-> 0]

StartedRun(s) == Requoted(UnquotedRun(s), STARTING_PRICE)

-----------------------------------------------------------------------------
(* One tick *)

NextPrice(price, move) ==
    larger((price * (BPS + move) + 5000) \div BPS, 100)

IsRefresh(run) == (run.tick + 1) % run.strategy.refresh_ticks = 0

\* The cost of the part of the inventory that one order sells.
CostOfLot(run) ==
    (run.inventory_cost * run.strategy.order_size_milli + run.base \div 2)
        \div run.base

OrderCost(run) == value(run.strategy.order_size_milli, run.bid)

Bought(run) ==
    [run EXCEPT !.base = @ + run.strategy.order_size_milli,
                !.quote = @ - OrderCost(run),
                !.inventory_cost = @ + OrderCost(run),
                !.has_buy_order = FALSE,
                !.fill_count = @ + 1]

\* Slip (see BooksBalance): the profit forgets what the lot had cost.
SoldForNothing(run) ==
    LET proceeds == value(run.strategy.order_size_milli, run.ask)
    IN  [run EXCEPT !.base = @ - run.strategy.order_size_milli,
                    !.quote = @ + proceeds,
                    !.inventory_cost = @ - CostOfLot(run),
                    !.realized_pnl = @ + proceeds,
                    !.has_sell_order = FALSE,
                    !.fill_count = @ + 1]

\* Slip (see TypeOK): the lot leaves the inventory at what it was sold for.
SoldAtProceeds(run) ==
    LET proceeds == value(run.strategy.order_size_milli, run.ask)
    IN  [run EXCEPT !.base = @ - run.strategy.order_size_milli,
                    !.quote = @ + proceeds,
                    !.inventory_cost = @ - proceeds,
                    !.has_sell_order = FALSE,
                    !.fill_count = @ + 1]

Sold(run) ==
    LET proceeds == value(run.strategy.order_size_milli, run.ask)
    IN  [run EXCEPT !.base = @ - run.strategy.order_size_milli,
                    !.quote = @ + proceeds,
                    !.inventory_cost = @ - CostOfLot(run),
                    !.realized_pnl = @ + (proceeds - CostOfLot(run)),
                    !.has_sell_order = FALSE,
                    !.fill_count = @ + 1]

\* What a tick finds in the book: the orders of the last refresh.
Book(run, price) == IF IsRefresh(run) THEN Requoted(run, price) ELSE run

Taken(event, fills) == fills \/ distance(event, 0) >= 200

BuyFills(run, price, taken) ==
    run.has_buy_order /\ price < run.reference_price /\ taken

SellFills(run, price, taken) ==
    run.has_sell_order /\ price > run.reference_price /\ taken

Filled(run, price, taken) ==
    IF BuyFills(run, price, taken) THEN Bought(run)
    ELSE IF SellFills(run, price, taken) THEN Sold(run)
    ELSE run

\* The run valued at the price of the tick that ends.
Marked(run, price, quoted) ==
    LET now == equity(run.base, run.quote, price)
        peak == larger(run.peak_equity, now)
        drawdown == ((peak - now) * BPS + peak \div 2) \div peak
    IN  [run EXCEPT !.tick = @ + 1,
                    !.reference_price = price,
                    !.liquidity_ticks = @ + (IF quoted THEN 1 ELSE 0),
                    !.equity = now,
                    !.peak_equity = peak,
                    !.max_drawdown_bps = larger(@, drawdown)]

\* Slip (see ScoreIsEarned): the orders are looked for after the fill.
AdvancedUnquoted(run, noise, event, fills) ==
    LET price == NextPrice(run.reference_price, noise + event)
        filled == Filled(Book(run, price), price, Taken(event, fills))
    IN  Marked(filled, price,
               filled.has_buy_order \/ filled.has_sell_order)

Advanced(run, noise, event, fills) ==
    LET price == NextPrice(run.reference_price, noise + event)
        book == Book(run, price)
    IN  Marked(Filled(book, price, Taken(event, fills)), price,
               book.has_buy_order \/ book.has_sell_order)

\* The checked subtractions and the division of a tick.
FillCovered(run, price, taken) ==
    /\ BuyFills(run, price, taken) => run.quote >= OrderCost(run)
    /\ ~BuyFills(run, price, taken) /\ SellFills(run, price, taken) =>
         /\ run.base > 0
         /\ run.base >= run.strategy.order_size_milli
         /\ run.inventory_cost >= CostOfLot(run)

\* The tick runs to its end: neither a bound nor the arithmetic reverts it.
TickSucceeds(run, noise, event, fills) ==
    LET price == NextPrice(run.reference_price, noise + event)
    IN  /\ BPS + noise + event > 0
        /\ FillCovered(Book(run, price), price, Taken(event, fills))

-----------------------------------------------------------------------------
(* The score *)

within(x, low, high) == IF x < low THEN low ELSE IF x > high THEN high ELSE x

\* Division that rounds towards zero, as the program's signed division does.
toward_zero(a, b) == IF a >= 0 THEN a \div b ELSE -((-a) \div b)

score(run) ==
    LET s == run.strategy
        liquidity == (run.liquidity_ticks * BPS) \div RUN_TICKS
        spread == larger(BPS - distance(s.spread_bps, 30) * 125, 0)
        inventory ==
            larger(BPS - (distance(run.base, STARTING_BASE) * BPS)
                             \div s.max_inventory_milli, 0)
        drawdown == larger(BPS - run.max_drawdown_bps * 10, 0)
        pnl_bps == toward_zero((run.equity - StartingEquity) * BPS,
                               StartingEquity)
        pnl == within(5000 + pnl_bps * 25, 0, BPS)
    IN  (liquidity * 3000 + spread * 2500 + inventory * 2000
            + drawdown * 1500 + pnl * 1000 + 5000) \div BPS

Scored(run) == [run EXCEPT !.final_score = score(run), !.status = "SETTLED"]
=============================================================================
