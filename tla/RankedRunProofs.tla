-------------------------- MODULE RankedRunProofs --------------------------
(***************************************************************************)
(* What holds of a ranked run for every length, starting balance, strategy *)
(* and market: the account stays well formed, no tick reverts, its books   *)
(* balance, and its score is earned and final.                             *)
(***************************************************************************)
EXTENDS EngineParity, TLAPS

USE BookAssumption DEF Strategy

-----------------------------------------------------------------------------
(* Arithmetic *)

LEMMA DivisionType ==
    ASSUME NEW a \in Nat, NEW d \in Nat \ {0}
    PROVE  /\ a \div d \in Nat
           /\ (a \div d) * d <= a
           /\ a < ((a \div d) + 1) * d
  OBVIOUS

LEMMA QuotientBound ==
    ASSUME NEW a \in Nat, NEW b \in Nat, NEW d \in Nat \ {0}, a <= b * d
    PROVE  a \div d <= b
<1> DEFINE q == a \div d
<1>1. q \in Nat /\ q * d <= a
  BY DivisionType
<1> HIDE DEF q
<1>2. q * d <= b * d /\ q * d \in Nat /\ b * d \in Nat
  BY <1>1
<1>3. ASSUME q >= b + 1
      PROVE  FALSE
  <2>1. q * d >= (b + 1) * d
    BY <1>1, <1>3
  <2>2. (b + 1) * d = b * d + d
    OBVIOUS
  <2>3. QED
    BY <1>2, <2>1, <2>2
<1>4. QED
  BY <1>1, <1>3 DEF q

LEMMA ProductType ==
    ASSUME NEW a \in Nat, NEW b \in Nat
    PROVE  a * b \in Nat
  OBVIOUS

LEMMA ValueType ==
    ASSUME NEW quantity \in Nat, NEW price \in Nat
    PROVE  value(quantity, price) \in Nat
<1>1. quantity * price + 500 \in Nat
  BY ProductType
<1>2. QED
  BY <1>1 DEF value, MILLI

LEMMA StartingEquityPositive == StartingEquity \in Nat \ {0}
<1>1. value(STARTING_BASE, STARTING_PRICE) \in Nat
  BY ValueType
<1>2. QED
  BY <1>1 DEF StartingEquity, equity

LEMMA LargerType ==
    ASSUME NEW a \in Int, NEW b \in Int
    PROVE  /\ larger(a, b) \in {a, b}
           /\ larger(a, b) >= a
           /\ larger(a, b) >= b
  BY DEF larger

LEMMA QuoteType ==
    ASSUME NEW price \in Nat, NEW spread \in 2 .. 1000
    PROVE  bid_of(price, spread) \in Nat /\ ask_of(price, spread) \in Nat
<1>1. half_spread(spread) \in 1 .. 500
  BY DEF half_spread, larger
<1>2. /\ price * (10000 - half_spread(spread)) \in Nat
      /\ price * (10000 + half_spread(spread)) \in Nat
  BY <1>1, ProductType
<1>3. QED
  BY <1>2 DEF bid_of, ask_of, BPS

\* A tick's price is a price whatever moved it, as long as it moved by less
\* than all of itself.
LEMMA PriceType ==
    ASSUME NEW price \in Nat, NEW move \in Int, BPS + move > 0
    PROVE  NextPrice(price, move) \in Nat
<1>1. BPS \in Nat \ {0}
  BY DEF BPS
<1>2. price * (BPS + move) + 5000 \in Nat
  BY <1>1, ProductType
<1>3. (price * (BPS + move) + 5000) \div BPS \in Nat
  BY <1>1, <1>2, DivisionType
<1>4. QED
  BY <1>3, LargerType DEF NextPrice

\* Rounding to the nearest never makes a lot cost more than the inventory it
\* is taken from (advance_ranked_run.rs:77-81), and the last lot takes all of
\* the cost with it.
LEMMA LotCost ==
    ASSUME NEW cost \in Nat, NEW size \in Nat \ {0}, NEW base \in Nat,
           size <= base
    PROVE  LET lot == (cost * size + base \div 2) \div base
           IN  /\ lot \in Nat
               /\ lot <= cost
               /\ size = base => lot = cost
<1> DEFINE half == base \div 2
           whole == cost * size + half
           lot == whole \div base
<1>1. base \in Nat \ {0} /\ half \in Nat /\ half < base
  OBVIOUS
<1> HIDE DEF half
<1>2. cost * size \in Nat /\ cost * base \in Nat /\ cost * size <= cost * base
  BY <1>1
<1>3. whole \in Nat
  BY <1>1, <1>2
<1>4. lot \in Nat /\ lot * base <= whole /\ whole < (lot + 1) * base
  <2> HIDE DEF whole
  <2>1. QED
    BY <1>1, <1>3, DivisionType
<1>5. lot <= cost
  <2> HIDE DEF lot
  <2>1. ASSUME lot >= cost + 1
        PROVE  FALSE
    <3>1. lot * base >= (cost + 1) * base
      BY <1>1, <1>4, <2>1
    <3>2. (cost + 1) * base = cost * base + base
      BY <1>1
    <3>3. QED
      BY <1>1, <1>2, <1>4, <3>1, <3>2
  <2>2. QED
    BY <1>4, <2>1
<1>6. ASSUME size = base
      PROVE  lot >= cost
  <2> HIDE DEF lot
  <2>1. ASSUME lot + 1 <= cost
        PROVE  FALSE
    <3>1. (lot + 1) * base <= cost * base /\ (lot + 1) * base \in Nat
      BY <1>1, <1>4, <2>1
    <3>2. whole >= cost * base
      BY <1>1, <1>2, <1>6
    <3>3. QED
      BY <1>2, <1>3, <1>4, <3>1, <3>2
  <2>2. QED
    BY <1>4, <2>1
<1>7. QED
  BY <1>4, <1>5, <1>6 DEF half
-----------------------------------------------------------------------------
(* A run in progress *)

\* The orders that stand can be filled whenever a tick comes to it.
OrdersCovered(run) ==
    LET size == run.strategy.order_size_milli
    IN  /\ run.has_buy_order =>
             /\ run.base + size <= run.strategy.max_inventory_milli
             /\ run.quote >= value(size, run.bid)
        /\ run.has_sell_order => run.base >= size

Balanced(run) ==
    /\ run.quote + run.inventory_cost - run.realized_pnl = StartingEquity
    /\ run.base = 0 => run.inventory_cost = 0
    /\ run.base <= larger(STARTING_BASE, run.strategy.max_inventory_milli)

Playable(run) ==
    /\ run \in Run
    /\ ValidStrategy(run.strategy)
    /\ OrdersCovered(run)
    /\ Balanced(run)
    /\ run.peak_equity > 0

LEMMA StrategyFields ==
    ASSUME NEW run, Playable(run)
    PROVE  /\ run.strategy \in Strategy
           /\ run.strategy.spread_bps \in 2 .. 1000
           /\ run.strategy.order_size_milli \in Nat \ {0}
           /\ run.strategy.max_inventory_milli \in Nat
           /\ run.strategy.order_size_milli <= run.strategy.max_inventory_milli
           /\ run.strategy.refresh_ticks \in Nat \ {0}
  BY DEF Playable, Run, ValidStrategy

\* The progress of a run, which no order touches.
SameProgress(new, run) ==
    /\ new.status = run.status
    /\ new.tick = run.tick
    /\ new.liquidity_ticks = run.liquidity_ticks
    /\ new.reference_price = run.reference_price

\* A refresh quotes only what can be filled (advance_ranked_run.rs:54-60).
LEMMA RequotedPlayable ==
    ASSUME NEW run \in Run, ValidStrategy(run.strategy), Balanced(run),
           run.peak_equity > 0, NEW price \in Nat
    PROVE  LET new == Requoted(run, price)
           IN  /\ Playable(new)
               /\ SameProgress(new, run)
               /\ new.fill_count = run.fill_count
<1> DEFINE s == run.strategy
           bid == bid_of(price, s.spread_bps)
           ask == ask_of(price, s.spread_bps)
           buys == /\ run.base + s.order_size_milli <= s.max_inventory_milli
                   /\ run.quote >= value(s.order_size_milli, bid)
           sells == run.base >= s.order_size_milli
           new == Requoted(run, price)
<1>1. bid \in Nat /\ ask \in Nat
  BY QuoteType DEF Run, ValidStrategy
<1>2. new = [run EXCEPT !.bid = bid, !.ask = ask, !.has_buy_order = buys,
                        !.has_sell_order = sells]
  BY DEF Requoted
<1>3. buys \in BOOLEAN /\ sells \in BOOLEAN
  OBVIOUS
<1>4. /\ buys => /\ run.base + s.order_size_milli <= s.max_inventory_milli
                 /\ run.quote >= value(s.order_size_milli, bid)
      /\ sells => run.base >= s.order_size_milli
  OBVIOUS
<1> HIDE DEF new, buys, sells, bid, ask
<1>5. new \in Run
  BY <1>1, <1>2, <1>3 DEF Run
<1>6. /\ new.strategy = run.strategy /\ new.base = run.base
      /\ new.quote = run.quote /\ new.inventory_cost = run.inventory_cost
      /\ new.realized_pnl = run.realized_pnl
      /\ new.peak_equity = run.peak_equity /\ new.bid = bid
      /\ new.status = run.status /\ new.tick = run.tick
      /\ new.liquidity_ticks = run.liquidity_ticks
      /\ new.reference_price = run.reference_price
      /\ new.fill_count = run.fill_count
  BY <1>2 DEF Run
<1>7. new.has_buy_order = buys /\ new.has_sell_order = sells
  BY <1>2 DEF Run
<1>8. OrdersCovered(new)
  BY <1>4, <1>6, <1>7 DEF OrdersCovered
<1>9. Balanced(new)
  BY <1>6 DEF Balanced
<1>10. QED
  BY <1>5, <1>6, <1>8, <1>9 DEF Playable, SameProgress, new

LEMMA BookPlayable ==
    ASSUME NEW run, Playable(run), NEW price \in Nat
    PROVE  LET book == Book(run, price)
           IN  /\ Playable(book)
               /\ SameProgress(book, run)
               /\ book.fill_count = run.fill_count
<1>1. CASE IsRefresh(run)
  BY <1>1, RequotedPlayable DEF Book, Playable
<1>2. CASE ~IsRefresh(run)
  BY <1>2 DEF Book, SameProgress
<1>3. QED
  BY <1>1, <1>2

\* A filled buy is paid from cash (advance_ranked_run.rs:69-75).
LEMMA BoughtPlayable ==
    ASSUME NEW run, Playable(run), run.has_buy_order
    PROVE  /\ run.quote >= OrderCost(run)
           /\ Playable(Bought(run))
           /\ SameProgress(Bought(run), run)
           /\ Bought(run).fill_count = run.fill_count + 1
<1> DEFINE size == run.strategy.order_size_milli
           paid == OrderCost(run)
           new == Bought(run)
<1>1. run \in Run /\ Balanced(run) /\ OrdersCovered(run)
  BY DEF Playable
<1>2. size \in Nat \ {0}
  BY StrategyFields
<1>3. paid \in Nat
  BY <1>1, <1>2, ValueType DEF OrderCost, Run
<1>4. /\ run.base + size <= run.strategy.max_inventory_milli
      /\ run.quote >= paid
  BY <1>1 DEF OrdersCovered, OrderCost
<1>5. new = [run EXCEPT !.base = run.base + size, !.quote = run.quote - paid,
                        !.inventory_cost = run.inventory_cost + paid,
                        !.has_buy_order = FALSE,
                        !.fill_count = run.fill_count + 1]
  BY DEF Bought
<1> HIDE DEF new, paid
<1>6. /\ run.base + size \in Nat /\ run.quote - paid \in Nat
      /\ run.inventory_cost + paid \in Nat /\ run.fill_count + 1 \in Nat
  BY <1>1, <1>2, <1>3, <1>4 DEF Run
<1>7. new \in Run
  BY <1>1, <1>5, <1>6 DEF Run
<1>8. /\ new.strategy = run.strategy /\ new.base = run.base + size
      /\ new.quote = run.quote - paid
      /\ new.inventory_cost = run.inventory_cost + paid
      /\ new.realized_pnl = run.realized_pnl
      /\ new.peak_equity = run.peak_equity
      /\ new.status = run.status /\ new.tick = run.tick
      /\ new.liquidity_ticks = run.liquidity_ticks
      /\ new.reference_price = run.reference_price
      /\ new.fill_count = run.fill_count + 1
  BY <1>1, <1>5 DEF Run
<1>9. ~new.has_buy_order /\ new.has_sell_order = run.has_sell_order
  BY <1>1, <1>5 DEF Run
<1>10. OrdersCovered(new)
  BY <1>1, <1>2, <1>8, <1>9 DEF OrdersCovered, Run
<1>11. Balanced(new)
  <2>1. new.quote + new.inventory_cost - new.realized_pnl = StartingEquity
    BY <1>1, <1>3, <1>8 DEF Balanced, Run
  <2>2. new.base # 0
    BY <1>1, <1>2, <1>8 DEF Run
  <2>3. new.base <= larger(STARTING_BASE, new.strategy.max_inventory_milli)
    BY <1>1, <1>2, <1>4, <1>8, StrategyFields DEF Run, larger
  <2>4. QED
    BY <2>1, <2>2, <2>3 DEF Balanced
<1>12. QED
  BY <1>4, <1>7, <1>8, <1>10, <1>11 DEF Playable, SameProgress, new, paid

\* A filled sell takes a lot that is there (advance_ranked_run.rs:76-88).
LEMMA SoldPlayable ==
    ASSUME NEW run, Playable(run), run.has_sell_order
    PROVE  /\ run.base > 0
           /\ run.base >= run.strategy.order_size_milli
           /\ run.inventory_cost >= CostOfLot(run)
           /\ Playable(Sold(run))
           /\ SameProgress(Sold(run), run)
           /\ Sold(run).fill_count = run.fill_count + 1
<1> DEFINE size == run.strategy.order_size_milli
           lot == CostOfLot(run)
           proceeds == value(size, run.ask)
           new == Sold(run)
<1>1. run \in Run /\ Balanced(run) /\ OrdersCovered(run)
  BY DEF Playable
<1>2. size \in Nat \ {0}
  BY StrategyFields
<1>3. run.base >= size /\ run.base > 0
  BY <1>1, <1>2 DEF OrdersCovered, Run
<1>4. /\ lot \in Nat
      /\ lot <= run.inventory_cost
      /\ size = run.base => lot = run.inventory_cost
  <2>1. run.inventory_cost \in Nat /\ run.base \in Nat
    BY <1>1 DEF Run
  <2>2. lot = (run.inventory_cost * size + run.base \div 2) \div run.base
    BY DEF CostOfLot
  <2> HIDE DEF lot, size
  <2>3. QED
    BY <1>2, <1>3, <2>1, <2>2, LotCost
<1>5. proceeds \in Nat
  BY <1>1, <1>2, ValueType DEF Run
<1>6. new = [run EXCEPT !.base = run.base - size,
                        !.quote = run.quote + proceeds,
                        !.inventory_cost = run.inventory_cost - lot,
                        !.realized_pnl = run.realized_pnl + (proceeds - lot),
                        !.has_sell_order = FALSE,
                        !.fill_count = run.fill_count + 1]
  BY DEF Sold
<1> HIDE DEF new, lot, proceeds
<1>7. /\ run.base - size \in Nat /\ run.quote + proceeds \in Nat
      /\ run.inventory_cost - lot \in Nat
      /\ run.realized_pnl + (proceeds - lot) \in Int
      /\ run.fill_count + 1 \in Nat
  BY <1>1, <1>2, <1>3, <1>4, <1>5 DEF Run
<1>8. new \in Run
  BY <1>1, <1>6, <1>7 DEF Run
<1>9. /\ new.strategy = run.strategy /\ new.base = run.base - size
      /\ new.quote = run.quote + proceeds
      /\ new.inventory_cost = run.inventory_cost - lot
      /\ new.realized_pnl = run.realized_pnl + (proceeds - lot)
      /\ new.peak_equity = run.peak_equity /\ new.bid = run.bid
      /\ new.status = run.status /\ new.tick = run.tick
      /\ new.liquidity_ticks = run.liquidity_ticks
      /\ new.reference_price = run.reference_price
      /\ new.fill_count = run.fill_count + 1
  BY <1>1, <1>6 DEF Run
<1>10. ~new.has_sell_order /\ new.has_buy_order = run.has_buy_order
  BY <1>1, <1>6 DEF Run
<1>11. OrdersCovered(new)
  <2>1. ASSUME run.has_buy_order
        PROVE  /\ new.base + size <= new.strategy.max_inventory_milli
               /\ new.quote >= value(size, new.bid)
    <3>1. /\ run.base + size <= run.strategy.max_inventory_milli
          /\ run.quote >= value(size, run.bid)
      BY <1>1, <2>1 DEF OrdersCovered
    <3>2. value(size, run.bid) \in Nat
      BY <1>1, <1>2, ValueType DEF Run
    <3>3. run.base + size \in Nat /\ new.base + size <= run.base + size
      BY <1>1, <1>2, <1>9 DEF Run
    <3>4. QED
      BY <1>1, <1>5, <1>7, <1>9, <3>1, <3>2, <3>3, <1>2, StrategyFields DEF Run
  <2>2. QED
    BY <1>9, <1>10, <2>1 DEF OrdersCovered
<1>12. Balanced(new)
  <2>1. new.quote + new.inventory_cost - new.realized_pnl = StartingEquity
    BY <1>1, <1>4, <1>5, <1>9 DEF Balanced, Run
  <2>2. new.base = 0 => new.inventory_cost = 0
    BY <1>1, <1>2, <1>4, <1>9 DEF Run
  <2>3. new.base <= run.base
    BY <1>1, <1>2, <1>9 DEF Run
  <2>4. run.base <= larger(STARTING_BASE, run.strategy.max_inventory_milli)
    BY <1>1 DEF Balanced
  <2>5. new.base <= larger(STARTING_BASE, new.strategy.max_inventory_milli)
    BY <1>1, <1>7, <1>9, <2>3, <2>4, StrategyFields DEF Run, larger
  <2>6. QED
    BY <2>1, <2>2, <2>5 DEF Balanced
<1>13. QED
  BY <1>3, <1>4, <1>8, <1>9, <1>11, <1>12 DEF Playable, SameProgress, new, lot

LEMMA FilledPlayable ==
    ASSUME NEW run, Playable(run), NEW price \in Nat, NEW taken \in BOOLEAN
    PROVE  LET new == Filled(run, price, taken)
               quoted == run.has_buy_order \/ run.has_sell_order
           IN  /\ FillCovered(run, price, taken)
               /\ Playable(new)
               /\ SameProgress(new, run)
               /\ new.fill_count
                    <= run.fill_count + (IF quoted THEN 1 ELSE 0)
<1> DEFINE new == Filled(run, price, taken)
<1>1. run.fill_count \in Nat
  BY DEF Playable, Run
<1>2. CASE BuyFills(run, price, taken)
  <2>1. run.has_buy_order /\ new = Bought(run)
    BY <1>2 DEF BuyFills, Filled
  <2> HIDE DEF new
  <2>2. QED
    BY <1>1, <1>2, <2>1, BoughtPlayable DEF FillCovered, new
<1>3. CASE ~BuyFills(run, price, taken) /\ SellFills(run, price, taken)
  <2>1. run.has_sell_order /\ new = Sold(run)
    BY <1>3 DEF SellFills, Filled
  <2> HIDE DEF new
  <2>2. QED
    BY <1>1, <1>3, <2>1, SoldPlayable DEF FillCovered, new
<1>4. CASE ~BuyFills(run, price, taken) /\ ~SellFills(run, price, taken)
  <2>1. new = run
    BY <1>4 DEF Filled
  <2> HIDE DEF new
  <2>2. QED
    BY <1>1, <1>4, <2>1 DEF FillCovered, SameProgress, new
<1>5. QED
  BY <1>2, <1>3, <1>4

\* Marking raises the peak and the drawdown and touches no money
\* (advance_ranked_run.rs:91-99).
LEMMA MarkedPlayable ==
    ASSUME NEW run, Playable(run), NEW price \in Nat, NEW quoted \in BOOLEAN
    PROVE  LET new == Marked(run, price, quoted)
           IN  /\ Playable(new)
               /\ new.status = run.status
               /\ new.tick = run.tick + 1
               /\ new.fill_count = run.fill_count
               /\ new.liquidity_ticks
                    = run.liquidity_ticks + (IF quoted THEN 1 ELSE 0)
<1> DEFINE now == equity(run.base, run.quote, price)
           peak == larger(run.peak_equity, now)
           fall == ((peak - now) * BPS + peak \div 2) \div peak
           worst == larger(run.max_drawdown_bps, fall)
           counted == run.liquidity_ticks + (IF quoted THEN 1 ELSE 0)
           new == Marked(run, price, quoted)
<1>1. run \in Run /\ run.peak_equity > 0 /\ Balanced(run) /\ OrdersCovered(run)
  BY DEF Playable
<1>2. now \in Nat
  <2>1. value(run.base, price) \in Nat
    BY <1>1, ValueType DEF Run
  <2>2. QED
    BY <1>1, <2>1 DEF equity, Run
<1>3. peak \in Nat \ {0} /\ peak >= now
  <2> HIDE DEF now
  <2>1. QED
    BY <1>1, <1>2, LargerType DEF Run
<1>4. fall \in Nat
  <2> HIDE DEF now, peak
  <2>1. (peak - now) * BPS + peak \div 2 \in Nat
    BY <1>2, <1>3 DEF BPS
  <2>2. QED
    BY <1>3, <2>1, DivisionType
<1>5. worst \in Nat
  <2> HIDE DEF fall
  <2>1. QED
    BY <1>1, <1>4, LargerType DEF Run
<1>6. counted \in Nat /\ run.tick + 1 \in Nat
  BY <1>1 DEF Run
<1>7. new = [run EXCEPT !.tick = run.tick + 1, !.reference_price = price,
                        !.liquidity_ticks = counted, !.equity = now,
                        !.peak_equity = peak, !.max_drawdown_bps = worst]
  BY DEF Marked
<1> HIDE DEF new, now, peak, fall, worst, counted
<1>8. new \in Run
  BY <1>1, <1>2, <1>3, <1>5, <1>6, <1>7 DEF Run
<1>9. /\ new.strategy = run.strategy /\ new.base = run.base
      /\ new.quote = run.quote /\ new.inventory_cost = run.inventory_cost
      /\ new.realized_pnl = run.realized_pnl /\ new.peak_equity = peak
      /\ new.bid = run.bid /\ new.status = run.status
      /\ new.tick = run.tick + 1 /\ new.liquidity_ticks = counted
      /\ new.fill_count = run.fill_count
  BY <1>1, <1>7 DEF Run
<1>10. /\ new.has_buy_order = run.has_buy_order
       /\ new.has_sell_order = run.has_sell_order
  BY <1>1, <1>7 DEF Run
<1>11. OrdersCovered(new) /\ Balanced(new)
  BY <1>1, <1>9, <1>10 DEF OrdersCovered, Balanced
<1>12. QED
  BY <1>3, <1>8, <1>9, <1>11 DEF Playable, new, counted

\* The counts of a run: one fill at most per tick that had an order.
Counted(run) ==
    /\ run.fill_count <= run.liquidity_ticks
    /\ run.liquidity_ticks <= run.tick
    /\ run.tick <= RUN_TICKS

LEMMA TickIsSound ==
    ASSUME NEW run, Playable(run), Counted(run), run.tick < RUN_TICKS,
           NEW noise \in Noises, NEW event \in Events, NEW fills \in BOOLEAN
    PROVE  LET new == Advanced(run, noise, event, fills)
           IN  /\ TickSucceeds(run, noise, event, fills)
               /\ Playable(new)
               /\ Counted(new)
               /\ new.status = run.status
               /\ new.tick = run.tick + 1
<1> DEFINE price == NextPrice(run.reference_price, noise + event)
           book == Book(run, price)
           taken == Taken(event, fills)
           filled == Filled(book, price, taken)
           quoted == book.has_buy_order \/ book.has_sell_order
           new == Advanced(run, noise, event, fills)
<1>1. price \in Nat
  <2>1. run.reference_price \in Nat
    BY DEF Playable, Run
  <2>2. noise + event \in Int /\ BPS + (noise + event) > 0
    BY DEF BPS
  <2>3. QED
    BY <2>1, <2>2, PriceType
<1>2. taken \in BOOLEAN /\ quoted \in BOOLEAN
  BY DEF Taken
<1> HIDE DEF price, taken
<1>3. /\ Playable(book) /\ SameProgress(book, run)
      /\ book.fill_count = run.fill_count
  BY <1>1, BookPlayable
<1> HIDE DEF book
<1>4. /\ FillCovered(book, price, taken)
      /\ Playable(filled) /\ SameProgress(filled, book)
      /\ filled.fill_count <= book.fill_count + (IF quoted THEN 1 ELSE 0)
  BY <1>1, <1>2, <1>3, FilledPlayable
<1>5. new = Marked(filled, price, quoted)
  BY DEF Advanced, book, price, taken
<1> HIDE DEF new, filled, quoted
<1>6. /\ Playable(new)
      /\ new.status = filled.status
      /\ new.tick = filled.tick + 1
      /\ new.fill_count = filled.fill_count
      /\ new.liquidity_ticks
           = filled.liquidity_ticks + (IF quoted THEN 1 ELSE 0)
  BY <1>1, <1>2, <1>4, <1>5, MarkedPlayable
<1>7. /\ filled.status = run.status /\ filled.tick = run.tick
      /\ filled.liquidity_ticks = run.liquidity_ticks
  BY <1>3, <1>4 DEF SameProgress
<1>8. /\ run.fill_count \in Nat /\ filled.fill_count \in Nat
      /\ run.liquidity_ticks \in Nat /\ run.tick \in Nat
  BY <1>4 DEF Playable, Run
<1>9. Counted(new)
  BY <1>3, <1>4, <1>6, <1>7, <1>8 DEF Counted
<1>10. TickSucceeds(run, noise, event, fills)
  <2>1. BPS + noise + event > 0
    OBVIOUS
  <2>2. QED
    BY <1>4, <2>1 DEF TickSucceeds, book, price, taken
<1>11. QED
  BY <1>6, <1>7, <1>9, <1>10 DEF new

-----------------------------------------------------------------------------
(* The score *)

LEMMA WithinType ==
    ASSUME NEW x \in Int, NEW low \in Int, NEW high \in Int, low <= high
    PROVE  within(x, low, high) \in low .. high
  BY DEF within

LEMMA TowardZeroType ==
    ASSUME NEW a \in Int, NEW d \in Nat \ {0}
    PROVE  toward_zero(a, d) \in Int
  BY DEF toward_zero

LEMMA DistanceType ==
    ASSUME NEW a \in Int, NEW b \in Int
    PROVE  distance(a, b) \in Nat
  BY DEF distance

\* What is left of a full mark after a penalty.
LEMMA MarkType ==
    ASSUME NEW penalty \in Nat
    PROVE  larger(BPS - penalty, 0) \in 0 .. BPS
  BY DEF larger, BPS

\* Every part of the score is between nothing and a full mark, and the
\* weights add up (finalize_ranked_run.rs:79-92).
LEMMA ScoreBound ==
    ASSUME NEW run, Playable(run), Counted(run)
    PROVE  score(run) \in 0 .. BPS
<1> DEFINE s == run.strategy
           liquidity == (run.liquidity_ticks * BPS) \div RUN_TICKS
           spread == larger(BPS - distance(s.spread_bps, 30) * 125, 0)
           inventory ==
               larger(BPS - (distance(run.base, STARTING_BASE) * BPS)
                                \div s.max_inventory_milli, 0)
           drawdown == larger(BPS - run.max_drawdown_bps * 10, 0)
           pnl_bps == toward_zero((run.equity - StartingEquity) * BPS,
                                  StartingEquity)
           pnl == within(5000 + pnl_bps * 25, 0, BPS)
<1>1. run \in Run /\ BPS \in Nat
  BY DEF Playable, BPS
<1>2. liquidity \in 0 .. BPS
  <2> DEFINE part == run.liquidity_ticks * BPS
  <2>1. run.liquidity_ticks \in Nat /\ run.liquidity_ticks <= RUN_TICKS
    BY <1>1 DEF Counted, Run
  <2>2. part \in Nat /\ part <= BPS * RUN_TICKS
    BY <1>1, <2>1 DEF BPS
  <2> HIDE DEF part
  <2>3. part \div RUN_TICKS \in Nat /\ part \div RUN_TICKS <= BPS
    BY <1>1, <2>2, DivisionType, QuotientBound
  <2>4. QED
    BY <1>1, <2>3 DEF part
<1>3. spread \in 0 .. BPS
  <2>1. s.spread_bps \in Int
    BY StrategyFields
  <2> HIDE DEF s
  <2>2. distance(s.spread_bps, 30) \in Nat
    BY <2>1 DEF distance
  <2>3. distance(s.spread_bps, 30) * 125 \in Nat
    BY <2>2
  <2>4. QED
    BY <2>3, MarkType
<1>4. inventory \in 0 .. BPS
  <2> DEFINE shift == distance(run.base, STARTING_BASE) * BPS
  <2>1. distance(run.base, STARTING_BASE) \in Nat
    <3>1. run.base \in Int /\ STARTING_BASE \in Int
      BY <1>1 DEF Run
    <3>2. QED
      BY <3>1, DistanceType
  <2>2. shift \in Nat
    BY <1>1, <2>1, ProductType
  <2>3. s.max_inventory_milli \in Nat \ {0}
    BY StrategyFields
  <2> HIDE DEF shift, s
  <2>4. shift \div s.max_inventory_milli \in Nat
    BY <2>2, <2>3, DivisionType
  <2>5. QED
    BY <2>4, MarkType DEF shift
<1>5. drawdown \in 0 .. BPS
  <2>1. run.max_drawdown_bps * 10 \in Nat
    BY <1>1 DEF Run
  <2>2. QED
    BY <2>1, MarkType
<1>6. pnl \in 0 .. BPS
  <2>1. (run.equity - StartingEquity) * BPS \in Int
    BY <1>1, StartingEquityPositive DEF Run, BPS
  <2>2. pnl_bps \in Int
    BY <2>1, StartingEquityPositive, TowardZeroType
  <2> HIDE DEF pnl_bps
  <2> DEFINE centred == 5000 + pnl_bps * 25
  <2>3. centred \in Int /\ 0 <= BPS /\ BPS \in Int
    BY <1>1, <2>2
  <2> HIDE DEF centred
  <2>4. within(centred, 0, BPS) \in 0 .. BPS
    BY <2>3, WithinType
  <2>5. QED
    BY <2>4 DEF centred
<1>7. score(run) = (liquidity * 3000 + spread * 2500 + inventory * 2000
                      + drawdown * 1500 + pnl * 1000 + 5000) \div BPS
  BY DEF score
<1> HIDE DEF liquidity, spread, inventory, drawdown, pnl
<1> DEFINE sum == liquidity * 3000 + spread * 2500 + inventory * 2000
                    + drawdown * 1500 + pnl * 1000
<1>8. sum \in Nat /\ sum <= BPS * 10000
  <2>1. ASSUME NEW part \in 0 .. BPS, NEW weight \in Nat
        PROVE  part * weight \in Nat /\ part * weight <= BPS * weight
    BY <1>1, SMT
  <2>2. /\ liquidity * 3000 \in Nat /\ liquidity * 3000 <= BPS * 3000
        /\ spread * 2500 \in Nat /\ spread * 2500 <= BPS * 2500
        /\ inventory * 2000 \in Nat /\ inventory * 2000 <= BPS * 2000
        /\ drawdown * 1500 \in Nat /\ drawdown * 1500 <= BPS * 1500
        /\ pnl * 1000 \in Nat /\ pnl * 1000 <= BPS * 1000
    BY <1>2, <1>3, <1>4, <1>5, <1>6, <2>1, SMT
  <2>3. QED
    BY <1>1, <2>2, SMT
<1>9. score(run) = (sum + 5000) \div BPS
  BY <1>7
<1> HIDE DEF sum
<1>10. QED
  BY <1>8, <1>9, SMT DEF BPS

-----------------------------------------------------------------------------
(* The account on its two layers *)

\* A copy of the account is blank, in progress, or settled with its score.
Sound(run) ==
    /\ run \in Run
    /\ Counted(run)
    /\ run.status # "NONE" => Playable(run)
    /\ run.status = "SETTLED" =>
         run.tick = RUN_TICKS /\ run.final_score <= BPS

\* Which copy is the account's, and how far it can have come there.
PlaceInv ==
    /\ place \in Places
    /\ expired \in BOOLEAN
    /\ place = "base" => ledger.status # "NONE"
    /\ place = "er" => rollup.status = "ACTIVE"
    /\ place = "committing" => rollup.status = "SETTLED"
    /\ place = "absent" => ledger = BlankRun

Inv == Sound(ledger) /\ Sound(rollup) /\ PlaceInv

LEMMA UnquotedRunIsSound ==
    ASSUME NEW s \in Strategies
    PROVE  LET blank == UnquotedRun(s)
           IN  /\ blank \in Run /\ Balanced(blank)
               /\ blank.strategy = s /\ blank.base = STARTING_BASE
               /\ blank.quote = STARTING_QUOTE
               /\ blank.peak_equity = StartingEquity
               /\ blank.status = "ACTIVE" /\ blank.tick = 0
               /\ blank.liquidity_ticks = 0 /\ blank.fill_count = 0
<1> DEFINE cost == value(STARTING_BASE, STARTING_PRICE)
           blank == UnquotedRun(s)
<1>1. cost \in Nat /\ StartingEquity = STARTING_QUOTE + cost
  BY ValueType DEF StartingEquity, equity
<1>2. STARTING_BASE = 0 => cost = 0
  BY DEF value, MILLI
<1> HIDE DEF cost
<1>3. blank \in Run
  <2>1. /\ s \in Strategy /\ STARTING_PRICE \in Nat /\ STARTING_BASE \in Nat
        /\ STARTING_QUOTE \in Nat /\ StartingEquity \in Nat
    BY StartingEquityPositive
  <2> HIDE DEF Strategy
  <2>2. QED
    BY <1>1, <2>1 DEF UnquotedRun, Run, RunStatus, cost
<1>4. /\ blank.strategy = s /\ blank.base = STARTING_BASE
      /\ blank.quote = STARTING_QUOTE /\ blank.inventory_cost = cost
      /\ blank.realized_pnl = 0 /\ blank.peak_equity = StartingEquity
      /\ blank.status = "ACTIVE" /\ blank.tick = 0
      /\ blank.liquidity_ticks = 0 /\ blank.fill_count = 0
  BY DEF UnquotedRun, cost
<1> HIDE DEF blank
<1>5. Balanced(blank)
  BY <1>1, <1>2, <1>4, LargerType DEF Balanced
<1>6. QED
  BY <1>3, <1>4, <1>5 DEF blank

LEMMA StartedRunSound ==
    ASSUME NEW s \in Strategies, ValidStrategy(s)
    PROVE  /\ Sound(StartedRun(s))
           /\ StartedRun(s).status = "ACTIVE"
           /\ StartedRun(s).tick = 0
<1> DEFINE blank == UnquotedRun(s)
<1>1. /\ blank \in Run /\ Balanced(blank) /\ blank.strategy = s
      /\ blank.peak_equity = StartingEquity /\ blank.status = "ACTIVE"
      /\ blank.tick = 0 /\ blank.liquidity_ticks = 0 /\ blank.fill_count = 0
  BY UnquotedRunIsSound
<1>2. StartedRun(s) = Requoted(blank, STARTING_PRICE)
  BY DEF StartedRun
<1> HIDE DEF blank
<1>3. /\ Playable(StartedRun(s))
      /\ SameProgress(StartedRun(s), blank)
      /\ StartedRun(s).fill_count = blank.fill_count
  BY <1>1, <1>2, StartingEquityPositive, RequotedPlayable
<1>4. Counted(StartedRun(s))
  BY <1>1, <1>3 DEF SameProgress, Counted
<1>5. QED
  BY <1>1, <1>3, <1>4 DEF Sound, Playable, SameProgress

LEMMA BlankRunSound == Sound(BlankRun)
<1>1. BlankRun \in Run
  BY DEF BlankRun, Run, RunStatus
<1>2. /\ BlankRun.status = "NONE" /\ BlankRun.fill_count = 0
      /\ BlankRun.liquidity_ticks = 0 /\ BlankRun.tick = 0
  BY DEF BlankRun
<1>3. QED
  BY <1>1, <1>2 DEF Sound, Counted

LEMMA AdvancedSound ==
    ASSUME NEW run, Sound(run), run.status = "ACTIVE", run.tick < RUN_TICKS,
           NEW noise \in Noises, NEW event \in Events, NEW fills \in BOOLEAN
    PROVE  LET new == Advanced(run, noise, event, fills)
           IN  Sound(new) /\ new.status = "ACTIVE" /\ new.tick = run.tick + 1
  BY TickIsSound DEF Sound, Playable

LEMMA ScoredSound ==
    ASSUME NEW run, Sound(run), run.status = "ACTIVE", run.tick = RUN_TICKS
    PROVE  /\ Sound(Scored(run))
           /\ Scored(run).status = "SETTLED"
           /\ Scored(run).tick = run.tick
<1> DEFINE points == score(run)
           new == Scored(run)
<1>1. run \in Run /\ Playable(run) /\ Counted(run)
  BY DEF Sound
<1>2. points \in 0 .. BPS /\ BPS \in Nat
  BY <1>1, ScoreBound DEF BPS
<1>3. new = [run EXCEPT !.final_score = points, !.status = "SETTLED"]
  BY DEF Scored
<1> HIDE DEF points, new
<1>4. points \in Nat /\ points <= BPS
  BY <1>2
<1>5. new \in Run
  BY <1>1, <1>3, <1>4 DEF Run, RunStatus
<1>6. /\ new.strategy = run.strategy /\ new.base = run.base
      /\ new.quote = run.quote /\ new.inventory_cost = run.inventory_cost
      /\ new.realized_pnl = run.realized_pnl /\ new.bid = run.bid
      /\ new.peak_equity = run.peak_equity /\ new.tick = run.tick
      /\ new.liquidity_ticks = run.liquidity_ticks
      /\ new.fill_count = run.fill_count
      /\ new.status = "SETTLED" /\ new.final_score = points
  BY <1>1, <1>3 DEF Run
<1>7. /\ new.has_buy_order = run.has_buy_order
      /\ new.has_sell_order = run.has_sell_order
  BY <1>1, <1>3 DEF Run
<1>8. Playable(new)
  BY <1>1, <1>5, <1>6, <1>7 DEF Playable, OrdersCovered, Balanced
<1>9. Counted(new)
  BY <1>1, <1>6 DEF Counted
<1>10. QED
  BY <1>4, <1>5, <1>6, <1>8, <1>9 DEF Sound, new

LEMMA CurrentSound ==
    ASSUME Inv
    PROVE  Sound(Current)
  BY DEF Inv, Current

LEMMA InvInit == ProgramInit => Inv
<1>1. SUFFICES ASSUME ProgramInit
               PROVE  Inv
  OBVIOUS
<1>2. BlankRun.status = "NONE"
  BY DEF BlankRun
<1>3. QED
  BY <1>1, <1>2, BlankRunSound DEF ProgramInit, Inv, PlaceInv, Places


LEMMA InvNext == Inv /\ [ProgramNext]_programVars => Inv'
<1> SUFFICES ASSUME Inv, [ProgramNext]_programVars
             PROVE  Inv'
  OBVIOUS
<1>1. /\ Sound(ledger) /\ Sound(rollup) /\ PlaceInv
  BY DEF Inv
<1>2. ASSUME NEW s \in Strategies, StartRankedRun(s)
      PROVE  Inv'
  <2>1. /\ ledger' = StartedRun(s) /\ rollup' = rollup /\ place' = "base"
        /\ expired' = expired /\ ValidStrategy(s)
    BY <1>2 DEF StartRankedRun
  <2>2. Sound(StartedRun(s)) /\ StartedRun(s).status = "ACTIVE"
    BY <2>1, StartedRunSound
  <2>3. QED
    BY <1>1, <2>1, <2>2 DEF Inv, PlaceInv, Places
<1>3. CASE DelegateRankedRun
  <2>1. /\ ledger' = ledger /\ rollup' = ledger /\ place' = "er"
        /\ expired' = expired /\ ledger.status = "ACTIVE"
    BY <1>3 DEF DelegateRankedRun, Delegable
  <2>2. QED
    BY <1>1, <2>1 DEF Inv, PlaceInv, Places
<1>4. ASSUME NEW actor \in Actors, AdvanceRankedRun(actor)
      PROVE  Inv'
  <2>1. PICK noise \in Noises, event \in Events, fills \in BOOLEAN :
            Written(Advanced(Current, noise, event, fills))
    BY <1>4 DEF AdvanceRankedRun
  <2> DEFINE new == Advanced(Current, noise, event, fills)
  <2>2. /\ place \in {"base", "er"} /\ Current.status = "ACTIVE"
        /\ Current.tick < RUN_TICKS
        /\ place' = place /\ expired' = expired
    BY <1>4 DEF AdvanceRankedRun, Advanceable
  <2>3. Sound(new) /\ new.status = "ACTIVE"
    BY <2>2, CurrentSound, AdvancedSound
  <2> HIDE DEF new
  <2>4. \/ place = "er" /\ rollup' = new /\ ledger' = ledger
        \/ place = "base" /\ ledger' = new /\ rollup' = rollup
    BY <2>1, <2>2 DEF Written, new
  <2>5. QED
    BY <1>1, <2>2, <2>3, <2>4 DEF Inv, PlaceInv, Places
<1>5. ASSUME NEW actor \in Actors, FinalizeRankedRun(actor)
      PROVE  Inv'
  <2>1. /\ place = "er" /\ rollup.status = "ACTIVE" /\ rollup.tick = RUN_TICKS
        /\ rollup' = Scored(rollup) /\ place' = "committing"
        /\ ledger' = ledger /\ expired' = expired
    BY <1>5 DEF FinalizeRankedRun, Finalizable, Current
  <2>2. Sound(Scored(rollup)) /\ Scored(rollup).status = "SETTLED"
    BY <1>1, <2>1, ScoredSound
  <2>3. QED
    BY <1>1, <2>1, <2>2 DEF Inv, PlaceInv, Places
<1>6. CASE CommitLands
  <2>1. /\ place = "committing" /\ ledger' = rollup /\ rollup' = rollup
        /\ place' = "base" /\ expired' = expired
    BY <1>6 DEF CommitLands
  <2>2. QED
    BY <1>1, <2>1 DEF Inv, PlaceInv, Places
<1>7. CASE Expires
  BY <1>1, <1>7 DEF Expires, Inv, PlaceInv
<1>8. CASE UNCHANGED programVars
  BY <1>1, <1>8 DEF programVars, Inv, PlaceInv
<1>9. QED
  BY <1>2, <1>3, <1>4, <1>5, <1>6, <1>7, <1>8 DEF ProgramNext

LEMMA Invariant == ProgramSpec => []Inv
  BY InvInit, InvNext, PTL DEF ProgramSpec

\* The copies of the account keep their layout (ranked_run.rs).
THEOREM TypeCorrect == ProgramSpec => []TypeOK
<1>1. Inv => TypeOK
  BY DEF Inv, Sound, PlaceInv, TypeOK
<1>2. QED
  BY <1>1, Invariant, PTL

\* Whatever strategy and market, no tick of a run in progress reverts: the
\* checked subtractions and the division of advance_ranked_run.rs:66-90 are
\* never the reason for which a run stands still.
THEOREM NoTickReverts == ProgramSpec => []TicksNeverRevert
<1>1. Inv => TicksNeverRevert
  <2> SUFFICES ASSUME Inv, Running, Current.tick < RUN_TICKS,
                      NEW noise \in Noises, NEW event \in Events,
                      NEW fills \in BOOLEAN
               PROVE  TickSucceeds(Current, noise, event, fills)
    BY DEF TicksNeverRevert
  <2>1. Playable(Current) /\ Counted(Current)
    BY CurrentSound DEF Sound, Running
  <2>2. QED
    BY <2>1, TickIsSound
<1>2. QED
  BY <1>1, Invariant, PTL

\* Money only moves between cash, inventory and profit
\* (advance_ranked_run.rs:69-88).
THEOREM RunBooksBalance == ProgramSpec => []BooksBalance
<1>1. Inv => BooksBalance
  BY CurrentSound DEF BooksBalance, Sound, Playable, Balanced
<1>2. QED
  BY <1>1, Invariant, PTL

\* A settled score was earned over all ticks and is within its scale
\* (finalize_ranked_run.rs:44-52).
THEOREM ScoresAreEarned == ProgramSpec => []ScoreIsEarned
<1>1. Inv => ScoreIsEarned
  BY CurrentSound DEF ScoreIsEarned, Sound, Counted
<1>2. QED
  BY <1>1, Invariant, PTL

LEMMA ResultKeptByStep ==
    ASSUME Inv, [ProgramNext]_programVars
    PROVE  ResultKept
<1>1. /\ Sound(ledger) /\ Sound(rollup) /\ PlaceInv
  BY DEF Inv
<1>2. ASSUME NEW s \in Strategies, StartRankedRun(s)
      PROVE  ResultKept
  <2>1. /\ place = "absent" /\ ledger' = StartedRun(s) /\ place' = "base"
        /\ ValidStrategy(s)
    BY <1>2 DEF StartRankedRun
  <2>2. Current = BlankRun /\ Current' = StartedRun(s)
    BY <1>1, <2>1 DEF Current, PlaceInv
  <2>3. BlankRun.tick = 0 /\ BlankRun.status = "NONE" /\ StartedRun(s).tick = 0
    BY <2>1, StartedRunSound DEF BlankRun
  <2>4. QED
    BY <2>1, <2>2, <2>3 DEF ResultKept
<1>3. CASE DelegateRankedRun
  <2>1. /\ place = "base" /\ ledger' = ledger /\ rollup' = ledger
        /\ place' = "er"
    BY <1>3 DEF DelegateRankedRun
  <2>2. Current' = Current
    BY <2>1 DEF Current
  <2>3. QED
    BY <2>1, <2>2 DEF ResultKept
<1>4. ASSUME NEW actor \in Actors, AdvanceRankedRun(actor)
      PROVE  ResultKept
  <2>1. PICK noise \in Noises, event \in Events, fills \in BOOLEAN :
            Written(Advanced(Current, noise, event, fills))
    BY <1>4 DEF AdvanceRankedRun
  <2> DEFINE new == Advanced(Current, noise, event, fills)
  <2>2. /\ place \in {"base", "er"} /\ Current.status = "ACTIVE"
        /\ Current.tick < RUN_TICKS
        /\ place' = place
    BY <1>4 DEF AdvanceRankedRun, Advanceable
  <2>3. new.tick = Current.tick + 1
    BY <2>2, <1>1, CurrentSound, AdvancedSound
  <2> HIDE DEF new
  <2>4. Current' = new
    BY <2>1, <2>2 DEF Written, new, Current
  <2>5. QED
    BY <2>2, <2>3, <2>4 DEF ResultKept
<1>5. ASSUME NEW actor \in Actors, FinalizeRankedRun(actor)
      PROVE  ResultKept
  <2>1. /\ place = "er" /\ rollup.status = "ACTIVE" /\ rollup.tick = RUN_TICKS
        /\ rollup' = Scored(rollup) /\ place' = "committing"
    BY <1>5 DEF FinalizeRankedRun, Finalizable, Current
  <2>2. Current = rollup /\ Current' = Scored(rollup)
    BY <2>1 DEF Current
  <2>3. Scored(rollup).tick = rollup.tick
    BY <1>1, <2>1, ScoredSound
  <2>4. QED
    BY <2>1, <2>2, <2>3 DEF ResultKept
<1>6. CASE CommitLands
  <2>1. /\ place = "committing" /\ ledger' = rollup /\ place' = "base"
    BY <1>6 DEF CommitLands
  <2>2. Current = rollup /\ Current' = rollup
    BY <2>1 DEF Current
  <2>3. rollup.status = "SETTLED" /\ rollup.tick = RUN_TICKS
    BY <1>1, <2>1 DEF PlaceInv, Sound
  <2>4. QED
    BY <2>1, <2>2, <2>3 DEF ResultKept
<1>7. CASE Expires \/ UNCHANGED programVars
  <2>1. ledger' = ledger /\ rollup' = rollup /\ place' = place
    BY <1>7 DEF Expires, programVars
  <2>2. QED
    BY <2>1 DEF ResultKept, Current
<1>8. QED
  BY <1>2, <1>3, <1>4, <1>5, <1>6, <1>7 DEF ProgramNext

\* A run takes its ticks one by one and its result, once settled, never
\* changes, on whichever layer it is read.
THEOREM ResultsAreFinal == ProgramSpec => SettledIsFinal
<1>1. Inv /\ [ProgramNext]_programVars => [ResultKept]_programVars
  BY ResultKeptByStep
<1>2. QED
  BY <1>1, Invariant, PTL DEF ProgramSpec, SettledIsFinal
-----------------------------------------------------------------------------
(* The browser's engine: the same rounding, prices and orders *)

LEMMA QuotientIs ==
    ASSUME NEW x \in Int, NEW d \in Nat \ {0}, NEW q \in Int,
           q * d <= x, x < (q + 1) * d
    PROVE  x \div d = q
<1> DEFINE p == x \div d
<1>1. p \in Int /\ p * d <= x /\ x < (p + 1) * d
  OBVIOUS
<1> HIDE DEF p
<1>2. q * d < (p + 1) * d /\ p * d < (q + 1) * d
  <2>1. q * d \in Int /\ p * d \in Int /\ (p + 1) * d \in Int
        /\ (q + 1) * d \in Int
    BY <1>1
  <2>2. QED
    BY <1>1, <2>1
<1>3. ASSUME NEW a \in Int, NEW b \in Int, a * d < b * d
      PROVE  a < b
  <2>1. SUFFICES ASSUME b <= a
                 PROVE  FALSE
    OBVIOUS
  <2>2. b * d <= a * d /\ b * d \in Int /\ a * d \in Int
    BY <2>1
  <2>3. QED
    BY <1>3, <2>2
<1>4. q < p + 1 /\ p < q + 1
  BY <1>1, <1>2, <1>3
<1>5. QED
  BY <1>1, <1>4 DEF p

\* Math.round of a quotient, and adding half of the divisor before dividing.
LEMMA SameRounding ==
    ASSUME NEW a \in Nat, NEW b \in Nat \ {0}
    PROVE  Sim!rounded(a, b) = (a + b \div 2) \div b
<1> DEFINE h == b \div 2
           q == (a + h) \div b
<1>1. h \in Nat /\ 2 * h <= b /\ b <= 2 * h + 1
  OBVIOUS
<1> HIDE DEF h
<1>2. q \in Nat /\ q * b <= a + h /\ a + h < (q + 1) * b
  BY <1>1, DivisionType
<1> HIDE DEF q
<1>3. /\ q * (2 * b) = 2 * (q * b) /\ q * b \in Nat
      /\ (q + 1) * (2 * b) = 2 * ((q + 1) * b) /\ (q + 1) * b \in Nat
  BY <1>2
<1>4. q * (2 * b) <= 2 * a + b /\ 2 * a + b < (q + 1) * (2 * b)
  BY <1>1, <1>2, <1>3
<1>5. (2 * a + b) \div (2 * b) = q
  BY <1>2, <1>4, QuotientIs
<1>6. QED
  BY <1>5 DEF Sim!rounded, q, h

LEMMA SameValue ==
    ASSUME NEW quantity \in Nat, NEW price \in Nat
    PROVE  Sim!valueOf(quantity, price) = value(quantity, price)
<1>1. quantity * price \in Nat
  BY ProductType
<1>2. 1000 \in Nat \ {0} /\ 1000 \div 2 = 500
  OBVIOUS
<1>3. Sim!rounded(quantity * price, 1000) = (quantity * price + 500) \div 1000
  BY <1>1, <1>2, SameRounding
<1>4. QED
  BY <1>3 DEF Sim!valueOf, value, MILLI

LEMMA SameEquity ==
    ASSUME NEW base \in Nat, NEW quote \in Nat, NEW price \in Nat
    PROVE  Sim!equityOf(base, quote, price) = equity(base, quote, price)
  BY SameValue DEF Sim!equityOf, equity

LEMMA SameSpread ==
    ASSUME NEW s \in Strategy
    PROVE  Sim!halfSpread(s) = half_spread(s.spread_bps)
           /\ half_spread(s.spread_bps) \in Nat
<1> DEFINE h == (s.spread_bps + 1) \div 2
<1>1. s.spread_bps \in Nat
  OBVIOUS
<1>2. h \in Nat
  BY <1>1
<1>3. /\ Sim!halfSpread(s) = IF 1 < h THEN h ELSE 1
      /\ half_spread(s.spread_bps) = IF h < 1 THEN 1 ELSE h
  BY DEF Sim!halfSpread, Sim!mathMax, half_spread, larger
<1> HIDE DEF h
<1>4. QED
  BY <1>2, <1>3

LEMMA SameQuotes ==
    ASSUME NEW price \in Nat, NEW s \in Strategy
    PROVE  /\ Sim!bidOf(price, s) = bid_of(price, s.spread_bps)
           /\ Sim!askOf(price, s) = ask_of(price, s.spread_bps)
<1> DEFINE half == half_spread(s.spread_bps)
           a    == price * (10000 + half)
<1>1. Sim!halfSpread(s) = half /\ half \in Nat
  BY SameSpread
<1>2. /\ ask_of(price, s.spread_bps) = (a + 9999) \div 10000
      /\ bid_of(price, s.spread_bps) = (price * (10000 - half)) \div 10000
  BY DEF ask_of, bid_of, BPS
<1> HIDE DEF half
<1>3. /\ Sim!bidOf(price, s) = (price * (10000 - half)) \div 10000
      /\ Sim!askOf(price, s) = -((-a) \div 10000)
  BY <1>1 DEF Sim!bidOf, Sim!askOf, Sim!ceiling
<1>4. a \in Nat
  BY <1>1, ProductType
<1> HIDE DEF a
<1>5. -((-a) \div 10000) = (a + 9999) \div 10000
  BY <1>4
<1>6. QED
  BY <1>2, <1>3, <1>5

LEMMA SamePrice ==
    ASSUME NEW price \in Nat, NEW move \in Int, BPS + move > 0
    PROVE  Sim!movedPrice(price, move) = NextPrice(price, move)
<1> DEFINE x == price * (10000 + move)
           p == (x + 5000) \div 10000
<1>1. x \in Nat
  BY ProductType DEF BPS
<1>2. 10000 \in Nat \ {0} /\ 10000 \div 2 = 5000
  OBVIOUS
<1>3. Sim!rounded(x, 10000) = p
  <2> HIDE DEF x
  <2>1. QED
    BY <1>1, <1>2, SameRounding
<1>4. p \in Nat
  <2> HIDE DEF x
  <2>1. QED
    BY <1>1
<1>5. NextPrice(price, move) = IF p < 100 THEN 100 ELSE p
  BY DEF NextPrice, larger, BPS
<1>6. Sim!movedPrice(price, move)
        = IF 100 < Sim!rounded(x, 10000) THEN Sim!rounded(x, 10000) ELSE 100
  BY DEF Sim!movedPrice, Sim!mathMax
<1> HIDE DEF p, x
<1>7. QED
  BY <1>3, <1>4, <1>5, <1>6

\* The engine's orders as a set, and the program's as two flags.
LEMMA QuotesAreOrders ==
    ASSUME NEW run \in Run, ValidStrategy(run.strategy), NEW price \in Nat,
           CashForQuote(run, price)
    PROVE  Sim!quoteOrders(Sim!bidOf(price, run.strategy),
                           Sim!askOf(price, run.strategy),
                           run.base, run.strategy)
             = OrdersOf(Requoted(run, price))
<1> DEFINE s    == run.strategy
           bid  == bid_of(price, s.spread_bps)
           ask  == ask_of(price, s.spread_bps)
           fits == run.base + s.order_size_milli <= s.max_inventory_milli
           buys == fits /\ run.quote >= value(s.order_size_milli, bid)
           sells == run.base >= s.order_size_milli
           new  == Requoted(run, price)
           buy  == Sim!order("buy", s, bid)
           sell == Sim!order("sell", s, ask)
<1>1. s \in Strategy
  BY DEF Run
<1>2. Sim!bidOf(price, s) = bid /\ Sim!askOf(price, s) = ask
  BY <1>1, SameQuotes
<1>3. new = [run EXCEPT !.bid = bid, !.ask = ask, !.has_buy_order = buys,
                        !.has_sell_order = sells]
  BY DEF Requoted
<1>4. /\ buys \in BOOLEAN /\ sells \in BOOLEAN
      /\ buys = fits
  BY DEF CashForQuote
<1>5. /\ buy.side = "buy" /\ buy.size = s.order_size_milli
      /\ sell.side = "sell" /\ sell.size = s.order_size_milli
  BY DEF Sim!order
<1>6. Sim!quoteOrders(bid, ask, run.base, s)
        = {o \in {buy, sell} :
             \/ /\ o.side = "buy"
                /\ run.base + o.size <= s.max_inventory_milli
             \/ o.side = "sell" /\ run.base >= o.size}
  BY DEF Sim!quoteOrders
<1>7. /\ run.base + buy.size <= s.max_inventory_milli <=> fits
      /\ run.base >= sell.size <=> sells
  BY <1>5
<1> HIDE DEF bid, ask, buys, sells, new
<1>8. /\ new.strategy = s /\ new.bid = bid /\ new.ask = ask
      /\ new.has_buy_order = buys /\ new.has_sell_order = sells
  BY <1>3 DEF Run
<1>9. OrdersOf(new) = {o \in {buy, sell} :
                         IF o.side = "buy" THEN new.has_buy_order
                         ELSE new.has_sell_order}
  BY <1>8 DEF OrdersOf
<1> HIDE DEF s, buy, sell, fits
<1>10. Sim!quoteOrders(bid, ask, run.base, s) = OrdersOf(new)
  BY <1>4, <1>5, <1>6, <1>7, <1>8, <1>9
<1>11. QED
  BY <1>2, <1>10 DEF s, new

-----------------------------------------------------------------------------
(* A tick of the engine, from the quotes to the mark *)

\* A state of the engine is its fields.
Whole(state) ==
    state = [tick |-> state.tick, referencePrice |-> state.referencePrice,
             bid |-> state.bid, ask |-> state.ask, base |-> state.base,
             quote |-> state.quote, openOrders |-> state.openOrders,
             fills |-> state.fills, inventoryCost |-> state.inventoryCost,
             realizedPnl |-> state.realizedPnl,
             liquidityTicks |-> state.liquidityTicks,
             startingEquity |-> state.startingEquity,
             equity |-> state.equity, peakEquity |-> state.peakEquity,
             maxDrawdownBps |-> state.maxDrawdownBps]

LEMMA WholeStays ==
    ASSUME NEW state, Whole(state), NEW v
    PROVE  /\ Whole([state EXCEPT !.tick = v])
           /\ Whole([state EXCEPT !.referencePrice = v])
           /\ Whole([state EXCEPT !.bid = v])
           /\ Whole([state EXCEPT !.ask = v])
           /\ Whole([state EXCEPT !.base = v])
           /\ Whole([state EXCEPT !.quote = v])
           /\ Whole([state EXCEPT !.openOrders = v])
           /\ Whole([state EXCEPT !.fills = v])
           /\ Whole([state EXCEPT !.inventoryCost = v])
           /\ Whole([state EXCEPT !.realizedPnl = v])
           /\ Whole([state EXCEPT !.liquidityTicks = v])
           /\ Whole([state EXCEPT !.equity = v])
           /\ Whole([state EXCEPT !.peakEquity = v])
           /\ Whole([state EXCEPT !.maxDrawdownBps = v])
  BY DEF Whole

LEMMA SameState ==
    ASSUME NEW one, Whole(one), NEW two, Whole(two),
           one.tick = two.tick, one.referencePrice = two.referencePrice,
           one.bid = two.bid, one.ask = two.ask, one.base = two.base,
           one.quote = two.quote, one.openOrders = two.openOrders,
           one.fills = two.fills, one.inventoryCost = two.inventoryCost,
           one.realizedPnl = two.realizedPnl,
           one.liquidityTicks = two.liquidityTicks,
           one.startingEquity = two.startingEquity,
           one.equity = two.equity, one.peakEquity = two.peakEquity,
           one.maxDrawdownBps = two.maxDrawdownBps
    PROVE  one = two
  BY DEF Whole

\* The engine between its quotes and its mark, with the program's orders.
InTick(run, price) ==
    [tick |-> run.tick + 1, referencePrice |-> price,
     bid |-> Sim!bidOf(price, run.strategy),
     ask |-> Sim!askOf(price, run.strategy),
     base |-> run.base, quote |-> run.quote, openOrders |-> OrdersOf(run),
     fills |-> run.fill_count, inventoryCost |-> run.inventory_cost,
     realizedPnl |-> run.realized_pnl, liquidityTicks |-> run.tick,
     startingEquity |-> StartingEquity, equity |-> run.equity,
     peakEquity |-> run.peak_equity,
     maxDrawdownBps |-> run.max_drawdown_bps]

LEMMA InTickFields ==
    ASSUME NEW run, NEW price
    PROVE  LET state == InTick(run, price)
           IN  /\ Whole(state)
               /\ state.tick = run.tick + 1 /\ state.referencePrice = price
               /\ state.bid = Sim!bidOf(price, run.strategy)
               /\ state.ask = Sim!askOf(price, run.strategy)
               /\ state.base = run.base /\ state.quote = run.quote
               /\ state.openOrders = OrdersOf(run)
               /\ state.fills = run.fill_count
               /\ state.inventoryCost = run.inventory_cost
               /\ state.realizedPnl = run.realized_pnl
               /\ state.liquidityTicks = run.tick
               /\ state.startingEquity = StartingEquity
               /\ state.equity = run.equity
               /\ state.peakEquity = run.peak_equity
               /\ state.maxDrawdownBps = run.max_drawdown_bps
  BY DEF InTick, Whole

LEMMA EngineFields ==
    ASSUME NEW run
    PROVE  LET state == AsSimulation(run)
           IN  /\ Whole(state)
               /\ state.tick = run.tick
               /\ state.referencePrice = run.reference_price
               /\ state.bid = Sim!bidOf(run.reference_price, run.strategy)
               /\ state.ask = Sim!askOf(run.reference_price, run.strategy)
               /\ state.base = run.base /\ state.quote = run.quote
               /\ state.openOrders = OrdersOf(run)
               /\ state.fills = run.fill_count
               /\ state.inventoryCost = run.inventory_cost
               /\ state.realizedPnl = run.realized_pnl
               /\ state.liquidityTicks = run.tick
               /\ state.startingEquity = StartingEquity
               /\ state.equity = run.equity
               /\ state.peakEquity = run.peak_equity
               /\ state.maxDrawdownBps = run.max_drawdown_bps
  BY DEF AsSimulation, Whole

LEMMA SameBook ==
    ASSUME NEW run, Playable(run), NEW price \in Nat,
           IsRefresh(run) => CashForQuote(run, price)
    PROVE  Sim!requoted(AsSimulation(run), run.tick + 1, price, run.strategy)
             = InTick(Book(run, price), price)
<1> DEFINE s    == run.strategy
           bid  == Sim!bidOf(price, s)
           ask  == Sim!askOf(price, s)
           old  == AsSimulation(run)
           book == Book(run, price)
           orders == IF (run.tick + 1) % s.refresh_ticks = 0
                     THEN Sim!quoteOrders(bid, ask, run.base, s)
                     ELSE OrdersOf(run)
           new  == Sim!requoted(old, run.tick + 1, price, s)
           goal == InTick(book, price)
<1>1. run \in Run /\ ValidStrategy(s)
  BY DEF Playable
<1>2. orders = OrdersOf(book)
  BY <1>1, QuotesAreOrders DEF Book, IsRefresh
<1>3. /\ book.strategy = s /\ book.tick = run.tick /\ book.base = run.base
      /\ book.quote = run.quote /\ book.fill_count = run.fill_count
      /\ book.inventory_cost = run.inventory_cost
      /\ book.realized_pnl = run.realized_pnl /\ book.equity = run.equity
      /\ book.peak_equity = run.peak_equity
      /\ book.max_drawdown_bps = run.max_drawdown_bps
  BY <1>1 DEF Book, Requoted, Run
<1>4. old.base = run.base /\ old.openOrders = OrdersOf(run) /\ Whole(old)
  BY EngineFields
<1>5. new = [old EXCEPT !.tick = run.tick + 1, !.referencePrice = price,
                        !.bid = bid, !.ask = ask, !.openOrders = orders]
  BY <1>4 DEF Sim!requoted
<1>6. /\ old.quote = run.quote /\ old.fills = run.fill_count
      /\ old.inventoryCost = run.inventory_cost
      /\ old.realizedPnl = run.realized_pnl
      /\ old.liquidityTicks = run.tick
      /\ old.startingEquity = StartingEquity /\ old.equity = run.equity
      /\ old.peakEquity = run.peak_equity
      /\ old.maxDrawdownBps = run.max_drawdown_bps
  BY EngineFields
<1> HIDE DEF old, new, orders
<1>7. Whole(new)
  <2> DEFINE r1 == [old EXCEPT !.tick = run.tick + 1]
             r2 == [r1 EXCEPT !.referencePrice = price]
             r3 == [r2 EXCEPT !.bid = bid]
             r4 == [r3 EXCEPT !.ask = ask]
  <2>1. new = [r4 EXCEPT !.openOrders = orders]
    BY <1>5
  <2>2. Whole(r1) /\ Whole(r2) /\ Whole(r3) /\ Whole(r4)
    BY <1>4, WholeStays
  <2> HIDE DEF r4
  <2>3. QED
    BY <2>1, <2>2, WholeStays
<1>8. /\ new.tick = run.tick + 1 /\ new.referencePrice = price
      /\ new.bid = bid /\ new.ask = ask /\ new.openOrders = orders
      /\ new.base = old.base /\ new.quote = old.quote
      /\ new.fills = old.fills /\ new.inventoryCost = old.inventoryCost
      /\ new.realizedPnl = old.realizedPnl
      /\ new.liquidityTicks = old.liquidityTicks
      /\ new.startingEquity = old.startingEquity
      /\ new.equity = old.equity /\ new.peakEquity = old.peakEquity
      /\ new.maxDrawdownBps = old.maxDrawdownBps
  BY <1>4, <1>5 DEF Whole
<1> HIDE DEF book
<1>9. /\ Whole(goal)
      /\ goal.tick = run.tick + 1 /\ goal.referencePrice = price
      /\ goal.bid = bid /\ goal.ask = ask /\ goal.base = run.base
      /\ goal.quote = run.quote /\ goal.openOrders = OrdersOf(book)
      /\ goal.fills = run.fill_count
      /\ goal.inventoryCost = run.inventory_cost
      /\ goal.realizedPnl = run.realized_pnl
      /\ goal.liquidityTicks = run.tick
      /\ goal.startingEquity = StartingEquity
      /\ goal.equity = run.equity /\ goal.peakEquity = run.peak_equity
      /\ goal.maxDrawdownBps = run.max_drawdown_bps
  BY <1>3, InTickFields
<1> HIDE DEF goal, bid, ask, s
<1>10. new = goal
  BY <1>2, <1>4, <1>6, <1>7, <1>8, <1>9, SameState
<1>11. QED
  BY <1>10 DEF new, goal, old, book, s

\* What a fill finds in the engine's orders.
LEMMA OrdersTaken ==
    ASSUME NEW run
    PROVE  LET buy  == Sim!order("buy", run.strategy, run.bid)
               sell == Sim!order("sell", run.strategy, run.ask)
           IN  /\ {o \in OrdersOf(run) : o.side = "buy"}
                    = IF run.has_buy_order THEN {buy} ELSE {}
               /\ {o \in OrdersOf(run) : o.side = "sell"}
                    = IF run.has_sell_order THEN {sell} ELSE {}
               /\ buy.size = run.strategy.order_size_milli
               /\ sell.size = run.strategy.order_size_milli
               /\ buy.price = run.bid /\ sell.price = run.ask
  BY DEF OrdersOf, Sim!order

LEMMA OrdersLeft ==
    ASSUME NEW run, NEW new, new.strategy = run.strategy,
           new.bid = run.bid, new.ask = run.ask
    PROVE  /\ ~new.has_buy_order /\ new.has_sell_order = run.has_sell_order =>
                OrdersOf(new) =
                  OrdersOf(run) \ {Sim!order("buy", run.strategy, run.bid)}
           /\ ~new.has_sell_order /\ new.has_buy_order = run.has_buy_order =>
                OrdersOf(new) =
                  OrdersOf(run) \ {Sim!order("sell", run.strategy, run.ask)}
  BY DEF OrdersOf, Sim!order

LEMMA SameBuy ==
    ASSUME NEW run, Playable(run), NEW price
    PROVE  Sim!bought(InTick(run, price),
                      Sim!order("buy", run.strategy, run.bid))
             = InTick(Bought(run), price)
<1> DEFINE o    == Sim!order("buy", run.strategy, run.bid)
           cost == Sim!valueOf(o.size, o.price)
           new  == Bought(run)
           old  == InTick(run, price)
           next == Sim!bought(old, o)
           goal == InTick(new, price)
<1>1. /\ run \in Run /\ run.strategy.order_size_milli \in Nat
      /\ run.bid \in Nat
  BY DEF Playable, Run
<1>2. o.size = run.strategy.order_size_milli /\ o.price = run.bid
  BY DEF Sim!order
<1>3. cost = OrderCost(run)
  BY <1>1, <1>2, SameValue DEF OrderCost
<1>4. next = [old EXCEPT !.base = old.base + o.size,
                         !.quote = old.quote - cost,
                         !.inventoryCost = old.inventoryCost + cost,
                         !.fills = old.fills + 1,
                         !.openOrders = old.openOrders \ {o}]
  BY DEF Sim!bought
<1>5. /\ new.strategy = run.strategy /\ new.bid = run.bid
      /\ new.ask = run.ask /\ new.tick = run.tick
      /\ new.base = run.base + o.size /\ new.quote = run.quote - cost
      /\ new.inventory_cost = run.inventory_cost + cost
      /\ new.realized_pnl = run.realized_pnl /\ new.equity = run.equity
      /\ new.peak_equity = run.peak_equity
      /\ new.max_drawdown_bps = run.max_drawdown_bps
      /\ new.fill_count = run.fill_count + 1
      /\ ~new.has_buy_order /\ new.has_sell_order = run.has_sell_order
  BY <1>1, <1>2, <1>3 DEF Bought, Run
<1> HIDE DEF new, cost, next
<1>6. OrdersOf(new) = OrdersOf(run) \ {o}
  BY <1>5, OrdersLeft
<1> HIDE DEF o
<1>7. /\ Whole(old)
      /\ old.tick = run.tick + 1 /\ old.referencePrice = price
      /\ old.bid = Sim!bidOf(price, run.strategy)
      /\ old.ask = Sim!askOf(price, run.strategy)
      /\ old.base = run.base /\ old.quote = run.quote
      /\ old.openOrders = OrdersOf(run) /\ old.fills = run.fill_count
      /\ old.inventoryCost = run.inventory_cost
      /\ old.realizedPnl = run.realized_pnl
      /\ old.liquidityTicks = run.tick
      /\ old.startingEquity = StartingEquity /\ old.equity = run.equity
      /\ old.peakEquity = run.peak_equity
      /\ old.maxDrawdownBps = run.max_drawdown_bps
  BY InTickFields
<1> HIDE DEF old
<1>8. Whole(next)
  <2> DEFINE r1 == [old EXCEPT !.base = old.base + o.size]
             r2 == [r1 EXCEPT !.quote = old.quote - cost]
             r3 == [r2 EXCEPT !.inventoryCost = old.inventoryCost + cost]
             r4 == [r3 EXCEPT !.fills = old.fills + 1]
  <2>1. next = [r4 EXCEPT !.openOrders = old.openOrders \ {o}]
    BY <1>4
  <2>2. Whole(r1) /\ Whole(r2) /\ Whole(r3) /\ Whole(r4)
    BY <1>7, WholeStays
  <2> HIDE DEF r4
  <2>3. QED
    BY <2>1, <2>2, WholeStays
<1>9. /\ next.base = old.base + o.size /\ next.quote = old.quote - cost
      /\ next.inventoryCost = old.inventoryCost + cost
      /\ next.fills = old.fills + 1
      /\ next.openOrders = old.openOrders \ {o}
      /\ next.tick = old.tick /\ next.referencePrice = old.referencePrice
      /\ next.bid = old.bid /\ next.ask = old.ask
      /\ next.realizedPnl = old.realizedPnl
      /\ next.liquidityTicks = old.liquidityTicks
      /\ next.startingEquity = old.startingEquity
      /\ next.equity = old.equity /\ next.peakEquity = old.peakEquity
      /\ next.maxDrawdownBps = old.maxDrawdownBps
  BY <1>4, <1>7 DEF Whole
<1>10. /\ Whole(goal)
       /\ goal.tick = run.tick + 1 /\ goal.referencePrice = price
       /\ goal.bid = Sim!bidOf(price, run.strategy)
       /\ goal.ask = Sim!askOf(price, run.strategy)
       /\ goal.base = run.base + o.size /\ goal.quote = run.quote - cost
       /\ goal.openOrders = OrdersOf(run) \ {o}
       /\ goal.fills = run.fill_count + 1
       /\ goal.inventoryCost = run.inventory_cost + cost
       /\ goal.realizedPnl = run.realized_pnl
       /\ goal.liquidityTicks = run.tick
       /\ goal.startingEquity = StartingEquity
       /\ goal.equity = run.equity /\ goal.peakEquity = run.peak_equity
       /\ goal.maxDrawdownBps = run.max_drawdown_bps
  BY <1>5, <1>6, InTickFields
<1> HIDE DEF goal
<1>11. /\ next.base = goal.base /\ next.quote = goal.quote
       /\ next.inventoryCost = goal.inventoryCost
       /\ next.fills = goal.fills /\ next.openOrders = goal.openOrders
  BY <1>7, <1>9, <1>10
<1>12. /\ next.tick = goal.tick
       /\ next.referencePrice = goal.referencePrice
       /\ next.bid = goal.bid /\ next.ask = goal.ask
       /\ next.realizedPnl = goal.realizedPnl
       /\ next.liquidityTicks = goal.liquidityTicks
       /\ next.startingEquity = goal.startingEquity
       /\ next.equity = goal.equity /\ next.peakEquity = goal.peakEquity
       /\ next.maxDrawdownBps = goal.maxDrawdownBps
  BY <1>7, <1>9, <1>10
<1> HIDE DEF next
<1>13. next = goal
  BY <1>8, <1>10, <1>11, <1>12, SameState
<1>14. QED
  BY <1>13 DEF next, goal, new, old, o

LEMMA SameSale ==
    ASSUME NEW run, Playable(run), run.has_sell_order, NEW price
    PROVE  Sim!sold(InTick(run, price),
                    Sim!order("sell", run.strategy, run.ask))
             = InTick(Sold(run), price)
<1> DEFINE o    == Sim!order("sell", run.strategy, run.ask)
           paid == Sim!valueOf(o.size, o.price)
           cost == Sim!rounded(run.inventory_cost * o.size, run.base)
           new  == Sold(run)
           old  == InTick(run, price)
           next == Sim!sold(old, o)
           goal == InTick(new, price)
<1>1. /\ run \in Run /\ run.strategy.order_size_milli \in Nat
      /\ run.ask \in Nat /\ run.inventory_cost \in Nat
      /\ run.realized_pnl \in Int
  BY DEF Playable, Run
<1>2. o.size = run.strategy.order_size_milli /\ o.price = run.ask
  BY DEF Sim!order
<1>3. paid = value(run.strategy.order_size_milli, run.ask) /\ paid \in Nat
  <2>1. value(run.strategy.order_size_milli, run.ask) \in Nat
    BY <1>1, ValueType
  <2>2. QED
    BY <1>1, <1>2, <2>1, SameValue
<1>4. cost = CostOfLot(run) /\ cost \in Nat
  <2>1. run.base \in Nat \ {0}
    BY <1>1, SoldPlayable DEF Run
  <2>2. run.inventory_cost * o.size \in Nat
    BY <1>1, <1>2
  <2>3. cost = (run.inventory_cost * o.size + run.base \div 2) \div run.base
    BY <2>1, <2>2, SameRounding
  <2>4. run.inventory_cost * o.size + run.base \div 2 \in Nat
    BY <2>1, <2>2
  <2> HIDE DEF cost, o
  <2>5. QED
    BY <1>2, <2>1, <2>3, <2>4, DivisionType DEF CostOfLot
<1>5. old.inventoryCost = run.inventory_cost /\ old.base = run.base
  BY InTickFields
<1>6. next = [old EXCEPT !.base = old.base - o.size,
                         !.quote = old.quote + paid,
                         !.inventoryCost = old.inventoryCost - cost,
                         !.realizedPnl = old.realizedPnl + paid - cost,
                         !.fills = old.fills + 1,
                         !.openOrders = old.openOrders \ {o}]
  BY <1>5 DEF Sim!sold
<1>7. /\ new.strategy = run.strategy /\ new.bid = run.bid
      /\ new.ask = run.ask /\ new.tick = run.tick
      /\ new.base = run.base - o.size /\ new.quote = run.quote + paid
      /\ new.inventory_cost = run.inventory_cost - cost
      /\ new.realized_pnl = run.realized_pnl + (paid - cost)
      /\ new.equity = run.equity
      /\ new.peak_equity = run.peak_equity
      /\ new.max_drawdown_bps = run.max_drawdown_bps
      /\ new.fill_count = run.fill_count + 1
      /\ ~new.has_sell_order /\ new.has_buy_order = run.has_buy_order
  BY <1>1, <1>2, <1>3, <1>4 DEF Sold, Run
<1> HIDE DEF new, cost, paid, next
<1>8. OrdersOf(new) = OrdersOf(run) \ {o}
  BY <1>7, OrdersLeft
<1>9. run.realized_pnl + paid - cost = run.realized_pnl + (paid - cost)
  BY <1>1, <1>3, <1>4
<1> HIDE DEF o
<1>10. /\ Whole(old)
       /\ old.tick = run.tick + 1 /\ old.referencePrice = price
       /\ old.bid = Sim!bidOf(price, run.strategy)
       /\ old.ask = Sim!askOf(price, run.strategy)
       /\ old.base = run.base /\ old.quote = run.quote
       /\ old.openOrders = OrdersOf(run) /\ old.fills = run.fill_count
       /\ old.inventoryCost = run.inventory_cost
       /\ old.realizedPnl = run.realized_pnl
       /\ old.liquidityTicks = run.tick
       /\ old.startingEquity = StartingEquity /\ old.equity = run.equity
       /\ old.peakEquity = run.peak_equity
       /\ old.maxDrawdownBps = run.max_drawdown_bps
  BY InTickFields
<1> HIDE DEF old
<1>11. Whole(next)
  <2> DEFINE r1 == [old EXCEPT !.base = old.base - o.size]
             r2 == [r1 EXCEPT !.quote = old.quote + paid]
             r3 == [r2 EXCEPT !.inventoryCost = old.inventoryCost - cost]
             r4 == [r3 EXCEPT !.realizedPnl = old.realizedPnl + paid - cost]
             r5 == [r4 EXCEPT !.fills = old.fills + 1]
  <2>1. next = [r5 EXCEPT !.openOrders = old.openOrders \ {o}]
    BY <1>6
  <2>2. Whole(r1) /\ Whole(r2) /\ Whole(r3)
    BY <1>10, WholeStays
  <2> HIDE DEF r3
  <2>3. Whole(r4) /\ Whole(r5)
    BY <2>2, WholeStays
  <2> HIDE DEF r5
  <2>4. QED
    BY <2>1, <2>3, WholeStays
<1>12. /\ next.base = old.base - o.size /\ next.quote = old.quote + paid
       /\ next.inventoryCost = old.inventoryCost - cost
       /\ next.realizedPnl = old.realizedPnl + paid - cost
       /\ next.fills = old.fills + 1
       /\ next.openOrders = old.openOrders \ {o}
       /\ next.tick = old.tick /\ next.referencePrice = old.referencePrice
       /\ next.bid = old.bid /\ next.ask = old.ask
       /\ next.liquidityTicks = old.liquidityTicks
       /\ next.startingEquity = old.startingEquity
       /\ next.equity = old.equity /\ next.peakEquity = old.peakEquity
       /\ next.maxDrawdownBps = old.maxDrawdownBps
  BY <1>6, <1>10 DEF Whole
<1>13. /\ Whole(goal)
       /\ goal.tick = run.tick + 1 /\ goal.referencePrice = price
       /\ goal.bid = Sim!bidOf(price, run.strategy)
       /\ goal.ask = Sim!askOf(price, run.strategy)
       /\ goal.base = run.base - o.size /\ goal.quote = run.quote + paid
       /\ goal.openOrders = OrdersOf(run) \ {o}
       /\ goal.fills = run.fill_count + 1
       /\ goal.inventoryCost = run.inventory_cost - cost
       /\ goal.realizedPnl = run.realized_pnl + (paid - cost)
       /\ goal.liquidityTicks = run.tick
       /\ goal.startingEquity = StartingEquity
       /\ goal.equity = run.equity /\ goal.peakEquity = run.peak_equity
       /\ goal.maxDrawdownBps = run.max_drawdown_bps
  BY <1>7, <1>8, InTickFields
<1> HIDE DEF goal
<1>14. /\ next.base = goal.base /\ next.quote = goal.quote
       /\ next.inventoryCost = goal.inventoryCost
       /\ next.realizedPnl = goal.realizedPnl
       /\ next.fills = goal.fills /\ next.openOrders = goal.openOrders
  BY <1>9, <1>10, <1>12, <1>13
<1>15. /\ next.tick = goal.tick
       /\ next.referencePrice = goal.referencePrice
       /\ next.bid = goal.bid /\ next.ask = goal.ask
       /\ next.liquidityTicks = goal.liquidityTicks
       /\ next.startingEquity = goal.startingEquity
       /\ next.equity = goal.equity /\ next.peakEquity = goal.peakEquity
       /\ next.maxDrawdownBps = goal.maxDrawdownBps
  BY <1>10, <1>12, <1>13
<1>16. next = goal
  BY <1>11, <1>13, <1>14, <1>15, SameState
<1>17. QED
  BY <1>16 DEF next, goal, new, old, o

\* At most one order of the engine is filled, the one that the program fills.
LEMMA SameFill ==
    ASSUME NEW run, Playable(run), NEW price \in Nat, NEW taken \in BOOLEAN
    PROVE  Sim!filled(InTick(run, price), price - run.reference_price, taken)
             = InTick(Filled(run, price, taken), price)
<1> DEFINE state == InTick(run, price)
           move  == price - run.reference_price
           buy   == Sim!order("buy", run.strategy, run.bid)
           sell  == Sim!order("sell", run.strategy, run.ask)
           bids  == {o \in state.openOrders : o.side = "buy"}
           asks  == {o \in state.openOrders : o.side = "sell"}
<1>1. /\ run.reference_price \in Nat
      /\ run.has_buy_order \in BOOLEAN /\ run.has_sell_order \in BOOLEAN
  BY DEF Playable, Run
<1>2. state.openOrders = OrdersOf(run)
  BY InTickFields
<1>3. /\ bids = IF run.has_buy_order THEN {buy} ELSE {}
      /\ asks = IF run.has_sell_order THEN {sell} ELSE {}
  BY <1>2, OrdersTaken
<1>4. ASSUME NEW o
      PROVE  (CHOOSE x \in {o} : TRUE) = o
  OBVIOUS
<1>5. /\ move < 0 <=> price < run.reference_price
      /\ move = 0 <=> price = run.reference_price
      /\ move \in Int
  BY <1>1
<1>6. /\ move = 0 \/ ~taken => Sim!filled(state, move, taken) = state
      /\ move < 0 /\ move # 0 /\ taken =>
           Sim!filled(state, move, taken)
             = IF bids = {} THEN state
               ELSE Sim!bought(state, CHOOSE o \in bids : TRUE)
      /\ ~(move < 0) /\ move # 0 /\ taken =>
           Sim!filled(state, move, taken)
             = IF asks = {} THEN state
               ELSE Sim!sold(state, CHOOSE o \in asks : TRUE)
  <2> HIDE DEF state, move
  <2> DEFINE side == IF move < 0 THEN "buy" ELSE "sell"
             met  == {o \in state.openOrders : o.side = side}
             best == CHOOSE o \in met : TRUE
  <2>1. Sim!filled(state, move, taken)
          = IF move = 0 \/ ~taken \/ met = {} THEN state
            ELSE IF side = "buy" THEN Sim!bought(state, best)
            ELSE Sim!sold(state, best)
    BY DEF Sim!filled
  <2>2. /\ move < 0 => side = "buy" /\ met = bids
        /\ ~(move < 0) => side = "sell" /\ met = asks
    OBVIOUS
  <2>3. "buy" # "sell"
    OBVIOUS
  <2> HIDE DEF side, met, bids, asks
  <2>4. QED
    BY <2>1, <2>2, <2>3
<1>7. CASE BuyFills(run, price, taken)
  <2>1. Filled(run, price, taken) = Bought(run)
    BY <1>7 DEF Filled
  <2>2. run.has_buy_order /\ taken /\ move < 0 /\ move # 0
    BY <1>1, <1>5, <1>7 DEF BuyFills
  <2>3. bids = {buy}
    BY <1>3, <2>2
  <2> HIDE DEF state, bids, asks, buy, move
  <2>4. Sim!filled(state, move, taken) = Sim!bought(state, buy)
    BY <1>4, <1>6, <2>2, <2>3
  <2>5. Sim!bought(state, buy) = InTick(Bought(run), price)
    BY SameBuy DEF state, buy
  <2>6. QED
    BY <2>1, <2>4, <2>5 DEF state, move
<1>8. CASE ~BuyFills(run, price, taken) /\ SellFills(run, price, taken)
  <2>1. Filled(run, price, taken) = Sold(run)
    BY <1>8 DEF Filled
  <2>2. run.has_sell_order /\ taken /\ ~(move < 0) /\ move # 0
    BY <1>1, <1>5, <1>8 DEF SellFills
  <2>3. asks = {sell}
    BY <1>3, <2>2
  <2>4. Sim!sold(state, sell) = InTick(Sold(run), price)
    BY <2>2, SameSale
  <2> HIDE DEF state, bids, asks, sell, move
  <2>5. Sim!filled(state, move, taken) = Sim!sold(state, sell)
    BY <1>4, <1>6, <2>2, <2>3
  <2>6. QED
    BY <2>1, <2>4, <2>5 DEF state, move
<1>9. CASE ~BuyFills(run, price, taken) /\ ~SellFills(run, price, taken)
  <2>1. Filled(run, price, taken) = run
    BY <1>9 DEF Filled
  <2>2. taken /\ move < 0 => ~run.has_buy_order
    BY <1>5, <1>9 DEF BuyFills
  <2>3. taken /\ ~(move < 0) /\ move # 0 => ~run.has_sell_order
    BY <1>1, <1>5, <1>9 DEF SellFills
  <2>4. /\ taken /\ move < 0 => bids = {}
        /\ taken /\ ~(move < 0) /\ move # 0 => asks = {}
    BY <1>3, <2>2, <2>3
  <2> HIDE DEF state, bids, asks, move
  <2>5. Sim!filled(state, move, taken) = state
    BY <1>6, <2>4
  <2>6. QED
    BY <2>1, <2>5 DEF state, move
<1>10. QED
  BY <1>7, <1>8, <1>9

LEMMA SameMark ==
    ASSUME NEW run, Playable(run), NEW price \in Nat, NEW quoted
    PROVE  Sim!marked(InTick(run, price))
             = AsSimulation(Marked(run, price, quoted))
<1> DEFINE now   == equity(run.base, run.quote, price)
           peak  == larger(run.peak_equity, now)
           fall  == ((peak - now) * BPS + peak \div 2) \div peak
           worst == larger(run.max_drawdown_bps, fall)
           count == run.liquidity_ticks + (IF quoted THEN 1 ELSE 0)
           new   == Marked(run, price, quoted)
           old   == InTick(run, price)
           next  == Sim!marked(old)
           goal  == AsSimulation(new)
<1>1. /\ run \in Run /\ run.peak_equity \in Nat \ {0} /\ run.base \in Nat
      /\ run.quote \in Nat /\ run.max_drawdown_bps \in Nat
      /\ run.tick \in Nat
  BY DEF Playable, Run
<1>2. now \in Nat
  <2>1. value(run.base, price) \in Nat
    BY <1>1, ValueType
  <2>2. QED
    BY <1>1, <2>1 DEF equity
<1>3. /\ peak \in Nat \ {0} /\ peak >= now
      /\ peak = IF run.peak_equity < now THEN now ELSE run.peak_equity
  <2> HIDE DEF now
  <2>1. QED
    BY <1>1, <1>2, LargerType DEF larger
<1>4. fall = Sim!rounded((peak - now) * 10000, peak)
  <2> HIDE DEF now, peak
  <2> DEFINE lost == (peak - now) * 10000
  <2>1. lost \in Nat
    BY <1>2, <1>3
  <2>2. fall = (lost + peak \div 2) \div peak
    BY DEF BPS
  <2> HIDE DEF lost, fall
  <2>3. Sim!rounded(lost, peak) = (lost + peak \div 2) \div peak
    BY <1>3, <2>1, SameRounding
  <2>4. QED
    BY <2>2, <2>3 DEF lost
<1>5. /\ Whole(old)
      /\ old.tick = run.tick + 1 /\ old.referencePrice = price
      /\ old.bid = Sim!bidOf(price, run.strategy)
      /\ old.ask = Sim!askOf(price, run.strategy)
      /\ old.base = run.base /\ old.quote = run.quote
      /\ old.openOrders = OrdersOf(run) /\ old.fills = run.fill_count
      /\ old.inventoryCost = run.inventory_cost
      /\ old.realizedPnl = run.realized_pnl
      /\ old.liquidityTicks = run.tick
      /\ old.startingEquity = StartingEquity /\ old.equity = run.equity
      /\ old.peakEquity = run.peak_equity
      /\ old.maxDrawdownBps = run.max_drawdown_bps
  BY InTickFields
<1>6. next = [old EXCEPT !.liquidityTicks = run.tick + 1, !.equity = now,
                         !.peakEquity = peak, !.maxDrawdownBps = worst]
  <2> DEFINE worth == Sim!equityOf(old.base, old.quote, old.referencePrice)
             high == Sim!mathMax(old.peakEquity, worth)
             drop == Sim!rounded((high - worth) * 10000, high)
             deepest == Sim!mathMax(old.maxDrawdownBps, drop)
  <2>1. next = [old EXCEPT !.liquidityTicks = old.liquidityTicks + 1,
                           !.equity = worth, !.peakEquity = high,
                           !.maxDrawdownBps = deepest]
    BY DEF Sim!marked
  <2>2. worth = now
    BY <1>1, <1>5, SameEquity
  <2> HIDE DEF old, worth, now
  <2>3. high = peak
    BY <1>5, <2>2 DEF Sim!mathMax, larger
  <2> HIDE DEF high, peak
  <2>4. drop = fall
    BY <1>4, <2>2, <2>3
  <2> HIDE DEF drop, fall
  <2>5. deepest = worst
    BY <1>5, <2>4 DEF Sim!mathMax, larger
  <2> HIDE DEF next, deepest, worst
  <2>6. QED
    BY <1>5, <2>1, <2>2, <2>3, <2>5
<1>7. new = [run EXCEPT !.tick = run.tick + 1, !.reference_price = price,
                        !.liquidity_ticks = count, !.equity = now,
                        !.peak_equity = peak, !.max_drawdown_bps = worst]
  BY DEF Marked
<1> HIDE DEF now, peak, fall, worst, count, new, old, next
<1>8. /\ new.strategy = run.strategy /\ new.base = run.base
      /\ new.quote = run.quote /\ new.inventory_cost = run.inventory_cost
      /\ new.realized_pnl = run.realized_pnl
      /\ new.bid = run.bid /\ new.ask = run.ask
      /\ new.has_buy_order = run.has_buy_order
      /\ new.has_sell_order = run.has_sell_order
      /\ new.fill_count = run.fill_count
      /\ new.tick = run.tick + 1 /\ new.reference_price = price
      /\ new.equity = now /\ new.peak_equity = peak
      /\ new.max_drawdown_bps = worst
  BY <1>1, <1>7 DEF Run
<1>9. OrdersOf(new) = OrdersOf(run)
  BY <1>8 DEF OrdersOf
<1>10. Whole(next)
  <2> DEFINE r1 == [old EXCEPT !.liquidityTicks = run.tick + 1]
             r2 == [r1 EXCEPT !.equity = now]
             r3 == [r2 EXCEPT !.peakEquity = peak]
  <2>1. next = [r3 EXCEPT !.maxDrawdownBps = worst]
    BY <1>6
  <2>2. Whole(r1) /\ Whole(r2) /\ Whole(r3)
    BY <1>5, WholeStays
  <2> HIDE DEF r3
  <2>3. QED
    BY <2>1, <2>2, WholeStays
<1>11. /\ next.liquidityTicks = run.tick + 1 /\ next.equity = now
       /\ next.peakEquity = peak /\ next.maxDrawdownBps = worst
       /\ next.base = old.base /\ next.quote = old.quote
       /\ next.inventoryCost = old.inventoryCost
       /\ next.fills = old.fills
       /\ next.openOrders = old.openOrders
       /\ next.tick = old.tick /\ next.referencePrice = old.referencePrice
       /\ next.bid = old.bid /\ next.ask = old.ask
       /\ next.realizedPnl = old.realizedPnl
       /\ next.startingEquity = old.startingEquity
  BY <1>5, <1>6 DEF Whole
<1>12. /\ Whole(goal)
       /\ goal.tick = run.tick + 1 /\ goal.referencePrice = price
       /\ goal.bid = Sim!bidOf(price, run.strategy)
       /\ goal.ask = Sim!askOf(price, run.strategy)
       /\ goal.base = run.base /\ goal.quote = run.quote
       /\ goal.openOrders = OrdersOf(run)
       /\ goal.fills = run.fill_count
       /\ goal.inventoryCost = run.inventory_cost
       /\ goal.realizedPnl = run.realized_pnl
       /\ goal.liquidityTicks = run.tick + 1
       /\ goal.startingEquity = StartingEquity
       /\ goal.equity = now /\ goal.peakEquity = peak
       /\ goal.maxDrawdownBps = worst
  BY <1>8, <1>9, EngineFields
<1> HIDE DEF goal
<1>13. /\ next.base = goal.base /\ next.quote = goal.quote
       /\ next.inventoryCost = goal.inventoryCost
       /\ next.fills = goal.fills /\ next.openOrders = goal.openOrders
       /\ next.tick = goal.tick /\ next.liquidityTicks = goal.liquidityTicks
       /\ next.referencePrice = goal.referencePrice
  BY <1>5, <1>11, <1>12
<1>14. /\ next.bid = goal.bid /\ next.ask = goal.ask
       /\ next.realizedPnl = goal.realizedPnl
       /\ next.startingEquity = goal.startingEquity
       /\ next.equity = goal.equity /\ next.peakEquity = goal.peakEquity
       /\ next.maxDrawdownBps = goal.maxDrawdownBps
  BY <1>5, <1>11, <1>12
<1>15. next = goal
  BY <1>10, <1>12, <1>13, <1>14, SameState
<1>16. QED
  BY <1>15 DEF next, goal, new, old

\* A tick of the engine is a tick of the program.
LEMMA EngineTakesTick ==
    ASSUME NEW run, Playable(run), run.tick < RUN_TICKS,
           NEW noise \in Noises, NEW event \in Events, NEW fills \in BOOLEAN
    PROVE  SameTick(run, noise, event, fills)
<1> DEFINE price == NextPrice(run.reference_price, noise + event)
           book  == Book(run, price)
           taken == Taken(event, fills)
           quoted == book.has_buy_order \/ book.has_sell_order
           s     == run.strategy
           tick  == run.tick + 1
           scenario == ScenarioWith(noise, event, fills)
           state == AsSimulation(run)
           next  == Sim!stepSimulation(state, scenario, s)
<1>1. SUFFICES ASSUME IsRefresh(run) => CashForQuote(run, price)
               PROVE  next = AsSimulation(Advanced(run, noise, event, fills))
  BY DEF SameTick
<1>2. /\ run.reference_price \in Nat /\ run.tick \in Nat
      /\ noise + event \in Int /\ BPS + (noise + event) > 0
  BY DEF Playable, Run, BPS
<1>3. price \in Nat
  BY <1>2, PriceType
<1>4. Sim!movedPrice(run.reference_price, noise + event) = price
  BY <1>2, SamePrice
<1>5. tick \in 1 .. RUN_TICKS
  BY <1>2
<1>6. taken \in BOOLEAN /\ taken = (fills \/ Sim!mathAbs(event) >= 200)
  <2>1. event \in Int
    OBVIOUS
  <2>2. distance(event, 0) = Sim!mathAbs(event)
    BY <2>1 DEF distance, Sim!mathAbs
  <2>3. QED
    BY <2>2 DEF Taken
<1>7. /\ scenario.ticks = RUN_TICKS /\ scenario.noise[tick] = noise
      /\ scenario.flow[tick] = fills /\ scenario.event[tick] = event
  BY <1>5 DEF ScenarioWith
<1>8. state.tick = run.tick /\ state.referencePrice = run.reference_price
  BY EngineFields
<1>9. ~(state.tick >= scenario.ticks)
  BY <1>2, <1>7, <1>8
<1> HIDE DEF price, taken, scenario, state
<1>10. next = Sim!marked(Sim!filled(Sim!requoted(state, tick, price, s),
                                    price - run.reference_price, taken))
  BY <1>4, <1>6, <1>7, <1>8, <1>9 DEF Sim!stepSimulation
<1>11. Sim!requoted(state, tick, price, s) = InTick(book, price)
  BY <1>1, <1>3, SameBook DEF state
<1>12. Playable(book) /\ book.reference_price = run.reference_price
  BY <1>3, BookPlayable DEF SameProgress
<1> HIDE DEF book, next, quoted
<1>13. Sim!filled(InTick(book, price), price - run.reference_price, taken)
         = InTick(Filled(book, price, taken), price)
  BY <1>3, <1>6, <1>12, SameFill
<1>14. Playable(Filled(book, price, taken))
  BY <1>3, <1>6, <1>12, FilledPlayable
<1>15. Sim!marked(InTick(Filled(book, price, taken), price))
         = AsSimulation(Marked(Filled(book, price, taken), price, quoted))
  BY <1>3, <1>14, SameMark
<1>16. Advanced(run, noise, event, fills)
         = Marked(Filled(book, price, taken), price, quoted)
  BY DEF Advanced, book, price, taken, quoted
<1>17. QED
  BY <1>10, <1>11, <1>13, <1>15, <1>16

\* A run starts as the engine does.
LEMMA EngineStarts ==
    ASSUME NEW s \in Strategies, ValidStrategy(s),
           CashForQuote(StartedRun(s), STARTING_PRICE)
    PROVE  AsSimulation(StartedRun(s))
             = Sim!createSimulation(StillScenario, s)
<1> DEFINE blank == UnquotedRun(s)
           new   == StartedRun(s)
           bid   == Sim!bidOf(STARTING_PRICE, s)
           ask   == Sim!askOf(STARTING_PRICE, s)
           state == AsSimulation(new)
           start == Sim!createSimulation(StillScenario, s)
<1>1. /\ blank \in Run /\ blank.strategy = s /\ blank.base = STARTING_BASE
      /\ blank.quote = STARTING_QUOTE
  BY UnquotedRunIsSound
<1>2. new = Requoted(blank, STARTING_PRICE)
  BY DEF StartedRun
<1>3. /\ new.strategy = s /\ new.tick = 0 /\ new.base = STARTING_BASE
      /\ new.quote = STARTING_QUOTE /\ new.realized_pnl = 0
      /\ new.reference_price = STARTING_PRICE
      /\ new.inventory_cost = value(STARTING_BASE, STARTING_PRICE)
      /\ new.equity = StartingEquity /\ new.peak_equity = StartingEquity
      /\ new.max_drawdown_bps = 0 /\ new.fill_count = 0
  BY DEF StartedRun, Requoted, UnquotedRun
<1>4. CashForQuote(blank, STARTING_PRICE)
  BY <1>1, <1>3 DEF CashForQuote
<1>5. OrdersOf(new) = Sim!quoteOrders(bid, ask, STARTING_BASE, s)
  BY <1>1, <1>2, <1>4, QuotesAreOrders
<1>6. /\ Sim!valueOf(STARTING_BASE, STARTING_PRICE)
           = value(STARTING_BASE, STARTING_PRICE)
      /\ Sim!equityOf(STARTING_BASE, STARTING_QUOTE, STARTING_PRICE)
           = StartingEquity
  BY SameValue, SameEquity DEF StartingEquity
<1>7. /\ StillScenario.price = STARTING_PRICE
      /\ StillScenario.base = STARTING_BASE
      /\ StillScenario.quote = STARTING_QUOTE
  BY DEF StillScenario, ScenarioWith
<1>8. /\ Whole(start) /\ start.tick = 0
      /\ start.referencePrice = STARTING_PRICE
      /\ start.bid = bid /\ start.ask = ask /\ start.base = STARTING_BASE
      /\ start.quote = STARTING_QUOTE
      /\ start.openOrders = Sim!quoteOrders(bid, ask, STARTING_BASE, s)
      /\ start.fills = 0
      /\ start.inventoryCost = value(STARTING_BASE, STARTING_PRICE)
      /\ start.realizedPnl = 0 /\ start.liquidityTicks = 0
      /\ start.startingEquity = StartingEquity
      /\ start.equity = StartingEquity
      /\ start.peakEquity = StartingEquity /\ start.maxDrawdownBps = 0
  BY <1>6, <1>7 DEF Sim!createSimulation, Whole
<1> HIDE DEF new, start, bid, ask
<1>9. /\ Whole(state) /\ state.tick = 0
      /\ state.referencePrice = STARTING_PRICE
      /\ state.bid = bid /\ state.ask = ask /\ state.base = STARTING_BASE
      /\ state.quote = STARTING_QUOTE
      /\ state.openOrders = OrdersOf(new) /\ state.fills = 0
      /\ state.inventoryCost = value(STARTING_BASE, STARTING_PRICE)
      /\ state.realizedPnl = 0 /\ state.liquidityTicks = 0
      /\ state.startingEquity = StartingEquity
      /\ state.equity = StartingEquity
      /\ state.peakEquity = StartingEquity /\ state.maxDrawdownBps = 0
  BY <1>3, EngineFields DEF bid, ask
<1> HIDE DEF state
<1>10. state = start
  BY <1>5, <1>8, <1>9, SameState
<1>11. QED
  BY <1>10 DEF state, start, new

-----------------------------------------------------------------------------
(* The two scores *)

\* A product with a positive factor keeps the order, and reflects it.
LEMMA FactorReflects ==
    ASSUME NEW a \in Int, NEW b \in Int, NEW d \in Nat \ {0}, a * d < b * d
    PROVE  a < b
<1>1. SUFFICES ASSUME b <= a
               PROVE  FALSE
  OBVIOUS
<1>2. b * d <= a * d /\ b * d \in Int /\ a * d \in Int
  BY <1>1
<1>3. QED
  BY <1>2

\* A fraction of the score, and a band in twentieths of a hundredth.
Fraction(f) == f[1] \in Int /\ f[2] \in Nat \ {0}

InBand(f, band) ==
    /\ band[1] \in Int /\ band[2] \in Int
    /\ band[1] * f[2] <= 20 * f[1]
    /\ 20 * f[1] <= band[2] * f[2]

\* What the sum of three fractions is rounded from.
Numerator(f, g, h) ==
    f[1] * (g[2] * h[2]) + g[1] * (f[2] * h[2]) + h[1] * (f[2] * g[2])

Denominator(f, g, h) == f[2] * (g[2] * h[2])

LEMMA WholeAndRest ==
    ASSUME NEW f, Fraction(f), NEW k \in Nat
    PROVE  /\ Sim!whole(f) \in Int /\ Sim!rest(f) \in Nat
           /\ f[1] * k = Sim!whole(f) * (f[2] * k) + Sim!rest(f) * k
<1> DEFINE a == f[1]
           b == f[2]
           q == a \div b
           r == a % b
<1>1. a \in Int /\ b \in Nat \ {0}
  BY DEF Fraction
<1> HIDE DEF a, b
<1>2. q \in Int /\ r \in Nat /\ a = q * b + r
  BY <1>1
<1> HIDE DEF q, r
<1>3. (q * b + r) * k = q * (b * k) + r * k
  BY <1>1, <1>2
<1>4. QED
  BY <1>2, <1>3 DEF Sim!whole, Sim!rest, q, r, a, b

\* Math.round of a quotient of integers.
LEMMA RoundedIs ==
    ASSUME NEW x \in Int, NEW d \in Nat \ {0}
    PROVE  /\ Sim!rounded(x, d) \in Int
           /\ Sim!rounded(x, d) * (2 * d) <= 2 * x + d
           /\ 2 * x + d < (Sim!rounded(x, d) + 1) * (2 * d)
<1> DEFINE y == 2 * x + d
           e == 2 * d
           q == y \div e
<1>1. y \in Int /\ e \in Nat \ {0}
  OBVIOUS
<1> HIDE DEF y, e
<1>2. q \in Int /\ q * e <= y /\ y < (q + 1) * e
  BY <1>1
<1>3. QED
  BY <1>2 DEF Sim!rounded, y, e

LEMMA SumTimesTwo ==
    ASSUME NEW w \in Int, NEW m \in Int, NEW d \in Int
    PROVE  /\ (w + m) * (2 * d) = 2 * (w * d) + m * (2 * d)
           /\ (w + m + 1) * (2 * d) = 2 * (w * d) + (m + 1) * (2 * d)
           /\ w * d \in Int
  OBVIOUS

LEMMA ThreeFactors ==
    ASSUME NEW a \in Nat \ {0}, NEW b \in Nat \ {0}, NEW c \in Nat \ {0}
    PROVE  /\ b * c \in Nat \ {0} /\ a * c \in Nat \ {0}
           /\ a * b \in Nat \ {0}
           /\ b * (a * c) = a * (b * c) /\ c * (a * b) = a * (b * c)
  OBVIOUS

LEMMA RoundedSumIs ==
    ASSUME NEW f, NEW g, NEW h, Fraction(f), Fraction(g), Fraction(h)
    PROVE  LET x == Numerator(f, g, h)
               d == Denominator(f, g, h)
               n == Sim!roundedSum(f, g, h)
           IN  /\ x \in Int /\ d \in Nat \ {0} /\ n \in Int
               /\ n * (2 * d) <= 2 * x + d
               /\ 2 * x + d < (n + 1) * (2 * d)
<1> DEFINE x == Numerator(f, g, h)
           d == Denominator(f, g, h)
           n == Sim!roundedSum(f, g, h)
           y == Sim!rest(f) * g[2] * h[2] + Sim!rest(g) * f[2] * h[2]
                    + Sim!rest(h) * f[2] * g[2]
           w == Sim!whole(f) + Sim!whole(g) + Sim!whole(h)
           m == Sim!rounded(y, f[2] * g[2] * h[2])
           gh == g[2] * h[2]
           fh == f[2] * h[2]
           fg == f[2] * g[2]
<1>1. /\ f[1] \in Int /\ f[2] \in Nat \ {0}
      /\ g[1] \in Int /\ g[2] \in Nat \ {0}
      /\ h[1] \in Int /\ h[2] \in Nat \ {0}
  BY DEF Fraction
<1>2. /\ gh \in Nat \ {0} /\ fh \in Nat \ {0} /\ fg \in Nat \ {0}
      /\ d \in Nat \ {0} /\ x \in Int
      /\ f[2] * g[2] * h[2] = d /\ g[2] * fh = d /\ h[2] * fg = d
  BY <1>1 DEF Denominator, Numerator
<1>3. /\ Sim!whole(f) \in Int /\ Sim!rest(f) \in Nat
      /\ f[1] * gh = Sim!whole(f) * d + Sim!rest(f) * gh
  BY <1>2, WholeAndRest DEF Denominator
<1>4. /\ Sim!whole(g) \in Int /\ Sim!rest(g) \in Nat
      /\ g[1] * fh = Sim!whole(g) * d + Sim!rest(g) * fh
  BY <1>2, WholeAndRest
<1>5. /\ Sim!whole(h) \in Int /\ Sim!rest(h) \in Nat
      /\ h[1] * fg = Sim!whole(h) * d + Sim!rest(h) * fg
  BY <1>2, WholeAndRest
<1>6. y = Sim!rest(f) * gh + Sim!rest(g) * fh + Sim!rest(h) * fg
  BY <1>1, <1>3, <1>4, <1>5
<1>7. y \in Int /\ w \in Int /\ x = w * d + y
  <2>1. x = f[1] * gh + g[1] * fh + h[1] * fg
    BY DEF Numerator
  <2> DEFINE wf == Sim!whole(f)
             wg == Sim!whole(g)
             wh == Sim!whole(h)
             rf == Sim!rest(f) * gh
             rg == Sim!rest(g) * fh
             rh == Sim!rest(h) * fg
  <2>2. /\ wf \in Int /\ wg \in Int /\ wh \in Int
        /\ rf \in Int /\ rg \in Int /\ rh \in Int
        /\ f[1] * gh = wf * d + rf /\ g[1] * fh = wg * d + rg
        /\ h[1] * fg = wh * d + rh /\ y = rf + rg + rh
        /\ w = wf + wg + wh
    BY <1>2, <1>3, <1>4, <1>5, <1>6
  <2> HIDE DEF x, d, y, w, wf, wg, wh, rf, rg, rh, gh, fh, fg
  <2>3. (wf + wg + wh) * d = wf * d + wg * d + wh * d
    BY <1>2, <2>2
  <2>4. QED
    BY <1>2, <2>1, <2>2, <2>3
<1>8. m = Sim!rounded(y, d) /\ n = w + m
  BY <1>2 DEF Sim!roundedSum
<1> HIDE DEF x, d, n, y, w, m
<1>9. m \in Int /\ m * (2 * d) <= 2 * y + d /\ 2 * y + d < (m + 1) * (2 * d)
  BY <1>2, <1>7, <1>8, RoundedIs
<1>10. /\ n * (2 * d) = 2 * (w * d) + m * (2 * d)
       /\ (n + 1) * (2 * d) = 2 * (w * d) + (m + 1) * (2 * d)
       /\ w * d \in Int
  <2>1. w \in Int /\ m \in Int /\ d \in Int /\ n = w + m
    BY <1>2, <1>7, <1>8, <1>9
  <2>2. QED
    BY <2>1, SumTimesTwo
<1>11. QED
  BY <1>2, <1>7, <1>8, <1>9, <1>10 DEF x, d, n

\* A fraction in a band stays there over a common denominator.
LEMMA BandScaled ==
    ASSUME NEW f, Fraction(f), NEW band, InBand(f, band), NEW k \in Nat \ {0}
    PROVE  /\ band[1] * (f[2] * k) <= 20 * (f[1] * k)
           /\ 20 * (f[1] * k) <= band[2] * (f[2] * k)
<1> DEFINE a == f[1]
           b == f[2]
           low == band[1]
           high == band[2]
<1>1. /\ a \in Int /\ b \in Nat \ {0} /\ low \in Int /\ high \in Int
      /\ low * b <= 20 * a /\ 20 * a <= high * b
  BY DEF Fraction, InBand
<1> HIDE DEF a, b, low, high
<1> DEFINE p == low * b
           q == high * b
           r == 20 * a
<1>2. p \in Int /\ q \in Int /\ r \in Int
  BY <1>1
<1>3. p <= r /\ r <= q
  BY <1>1
<1>5. low * (b * k) = p * k /\ high * (b * k) = q * k /\ 20 * (a * k) = r * k
  BY <1>1
<1> HIDE DEF p, q, r
<1>4. p * k <= r * k /\ r * k <= q * k
  BY <1>2, <1>3
<1>6. QED
  BY <1>4, <1>5 DEF a, b, low, high

\* The rounded sum of three fractions is within half of where they are.
LEMMA RoundedSumInBand ==
    ASSUME NEW f, NEW g, NEW h, Fraction(f), Fraction(g), Fraction(h),
           NEW p, NEW q, NEW r, InBand(f, p), InBand(g, q), InBand(h, r),
           NEW n, n = Sim!roundedSum(f, g, h)
    PROVE  /\ n \in Int /\ p[1] + q[1] + r[1] - 10 < 20 * n
           /\ 20 * n <= p[2] + q[2] + r[2] + 10
<1> DEFINE x == Numerator(f, g, h)
           d == Denominator(f, g, h)
           gh == g[2] * h[2]
           fh == f[2] * h[2]
           fg == f[2] * g[2]
           low == p[1] + q[1] + r[1]
           high == p[2] + q[2] + r[2]
<1>1. /\ x \in Int /\ d \in Nat \ {0} /\ n \in Int
      /\ n * (2 * d) <= 2 * x + d
      /\ 2 * x + d < (n + 1) * (2 * d)
  BY RoundedSumIs
<1>2. /\ f[1] \in Int /\ f[2] \in Nat \ {0}
      /\ g[1] \in Int /\ g[2] \in Nat \ {0}
      /\ h[1] \in Int /\ h[2] \in Nat \ {0}
      /\ p[1] \in Int /\ p[2] \in Int /\ q[1] \in Int /\ q[2] \in Int
      /\ r[1] \in Int /\ r[2] \in Int
  BY DEF Fraction, InBand
<1>3. /\ gh \in Nat \ {0} /\ fh \in Nat \ {0} /\ fg \in Nat \ {0}
      /\ f[2] * gh = d /\ g[2] * fh = d /\ h[2] * fg = d
      /\ f[1] * gh \in Int /\ g[1] * fh \in Int /\ h[1] * fg \in Int
  <2>1. /\ gh \in Nat \ {0} /\ fh \in Nat \ {0} /\ fg \in Nat \ {0}
        /\ g[2] * fh = f[2] * gh /\ h[2] * fg = f[2] * gh
    BY <1>2, ThreeFactors
  <2>2. d = f[2] * gh
    BY DEF Denominator
  <2> HIDE DEF gh, fh, fg, d
  <2>3. f[1] * gh \in Int /\ g[1] * fh \in Int /\ h[1] * fg \in Int
    BY <1>2, <2>1
  <2>4. QED
    BY <2>1, <2>2, <2>3
<1>4. /\ p[1] * d <= 20 * (f[1] * gh) /\ 20 * (f[1] * gh) <= p[2] * d
  BY <1>3, BandScaled
<1>5. /\ q[1] * d <= 20 * (g[1] * fh) /\ 20 * (g[1] * fh) <= q[2] * d
  BY <1>3, BandScaled
<1>6. /\ r[1] * d <= 20 * (h[1] * fg) /\ 20 * (h[1] * fg) <= r[2] * d
  BY <1>3, BandScaled
<1>7. x = f[1] * gh + g[1] * fh + h[1] * fg
  BY DEF Numerator
<1> HIDE DEF x, d, gh, fh, fg
<1>8. /\ low \in Int /\ high \in Int
      /\ low * d = p[1] * d + q[1] * d + r[1] * d
      /\ high * d = p[2] * d + q[2] * d + r[2] * d
      /\ p[1] * d \in Int /\ q[1] * d \in Int /\ r[1] * d \in Int
      /\ p[2] * d \in Int /\ q[2] * d \in Int /\ r[2] * d \in Int
  BY <1>1, <1>2
<1>9. low * d <= 20 * x /\ 20 * x <= high * d
  BY <1>3, <1>4, <1>5, <1>6, <1>7, <1>8
<1>10. /\ n \in Int /\ low \in Int /\ high \in Int /\ d \in Nat \ {0}
       /\ n * (2 * d) <= 2 * x + d /\ 2 * x + d < (n + 1) * (2 * d)
  BY <1>1, <1>8
<1> HIDE DEF low, high
<1>11. /\ (20 * n) * d < (high + 11) * d
       /\ (low + 10) * d < (20 * n + 20) * d
  <2>1. /\ (20 * n) * d = 10 * (n * (2 * d)) /\ n * (2 * d) \in Int
        /\ (20 * n + 20) * d = 10 * ((n + 1) * (2 * d))
        /\ (n + 1) * (2 * d) \in Int
    BY <1>10
  <2>2. /\ low * d \in Int /\ high * d \in Int
        /\ (high + 11) * d = high * d + 11 * d
        /\ (low + 10) * d = low * d + 10 * d
    BY <1>10
  <2>3. x \in Int
    BY <1>1
  <2>4. QED
    BY <1>9, <1>10, <2>1, <2>2, <2>3
<1>12. 20 * n < high + 11 /\ low + 10 < 20 * n + 20
  BY <1>10, <1>11, FactorReflects
<1>13. low - 10 < 20 * n /\ 20 * n <= high + 10
  <2>1. n \in Int /\ low \in Int /\ high \in Int
    BY <1>10
  <2>2. QED
    BY <1>12, <2>1
<1>14. n \in Int
  BY <1>10
<1>15. p[1] + q[1] + r[1] - 10 < 20 * n
  BY <1>2, <1>13, <1>14 DEF low
<1>16. 20 * n <= p[2] + q[2] + r[2] + 10
  BY <1>13 DEF high
<1>17. QED
  BY <1>14, <1>15, <1>16
\* A profit truncated to a basis point of what the run started with.
LEMMA TowardZeroIs ==
    ASSUME NEW y \in Int, NEW start \in Nat \ {0}
    PROVE  LET coarse == toward_zero(y, start)
           IN  /\ coarse \in Int
               /\ (coarse - 1) * start < y /\ y < (coarse + 1) * start
<1> DEFINE coarse == toward_zero(y, start)
<1>1. CASE y >= 0
  <2>1. y \in Nat
    BY <1>1
  <2>2. coarse = y \div start
    BY <1>1 DEF toward_zero
  <2>3. coarse \in Nat /\ coarse * start <= y /\ y < (coarse + 1) * start
    BY <2>1, <2>2, DivisionType
  <2> HIDE DEF coarse
  <2>4. (coarse - 1) * start = coarse * start - start
        /\ coarse * start \in Nat
    BY <2>3
  <2>5. QED
    BY <2>3, <2>4 DEF coarse
<1>2. CASE ~(y >= 0)
  <2> DEFINE n == -y
             q == n \div start
  <2>1. n \in Nat
    BY <1>2
  <2>2. coarse = -q
    BY <1>2 DEF toward_zero
  <2> HIDE DEF n, coarse
  <2>3. q \in Nat /\ q * start <= n /\ n < (q + 1) * start
    BY <2>1, DivisionType
  <2> HIDE DEF q
  <2>4. /\ (-q - 1) * start = -((q + 1) * start)
        /\ (-q + 1) * start = -(q * start) + start
        /\ (q + 1) * start \in Nat /\ q * start \in Nat
    BY <2>3
  <2>5. y = -n
    BY DEF n
  <2>6. QED
    BY <2>1, <2>2, <2>3, <2>4, <2>5 DEF coarse
<1>3. QED
  BY <1>1, <1>2

\* The program truncates the inventory's distance to basis points.
LEMMA InventoryInBand ==
    ASSUME NEW shift \in Nat, NEW room \in Nat \ {0}, NEW share, NEW band,
           NEW kept, kept = larger(BPS - (shift * BPS) \div room, 0),
           share = <<2000 * Sim!mathMax(0, room - shift), room>>,
           band = <<4 * kept - 4, 4 * kept>>
    PROVE  kept \in 0 .. BPS /\ Fraction(share) /\ InBand(share, band)
<1> DEFINE a    == shift * 10000
           part == a \div room
           left == Sim!mathMax(0, room - shift)
<1>1. a \in Nat /\ shift * BPS = a
  BY DEF BPS
<1>2. left \in Nat /\ share = <<2000 * left, room>>
  BY DEF Sim!mathMax
<1>8. kept = larger(BPS - part, 0)
  BY <1>1
<1> HIDE DEF a
<1>3. part \in Nat /\ part * room <= a /\ a < (part + 1) * room
  BY <1>1, DivisionType
<1> HIDE DEF part
<1>4. kept \in 0 .. BPS
  <2>1. BPS \in Nat
    BY DEF BPS
  <2>2. kept \in Int /\ 0 <= kept /\ kept <= BPS
    BY <1>3, <1>8, <2>1 DEF larger
  <2>3. QED
    BY <2>1, <2>2
<1>5. /\ (kept - 1) * room <= 10000 * left
      /\ 10000 * left <= kept * room
  <2>1. CASE shift <= room
    <3>1. left = room - shift
      BY <2>1 DEF Sim!mathMax
    <3>2. part * room < 10001 * room
      BY <1>1, <1>3, <2>1 DEF a
    <3>3. part < 10001
      BY <1>3, <3>2, FactorReflects
    <3>4. kept = 10000 - part
      BY <1>3, <1>8, <3>3 DEF larger, BPS
    <3>5. /\ (10000 - part) * room = 10000 * room - part * room
          /\ (10000 - part - 1) * room = 10000 * room - (part + 1) * room
          /\ 10000 * left = 10000 * room - a
          /\ part * room \in Nat /\ (part + 1) * room \in Nat
      BY <1>3, <3>1 DEF a
    <3>6. QED
      BY <1>1, <1>3, <3>4, <3>5
  <2>2. CASE ~(shift <= room)
    <3>1. left = 0
      BY <2>2 DEF Sim!mathMax
    <3>2. 10000 * room < (part + 1) * room
      BY <1>1, <1>3, <2>2 DEF a
    <3>3. 10000 < part + 1
      BY <1>3, <3>2, FactorReflects
    <3>4. kept = 0
      BY <1>3, <1>8, <3>3 DEF larger, BPS
    <3>5. QED
      BY <3>1, <3>4
  <2>3. QED
    BY <2>1, <2>2
<1>6. Fraction(share)
  BY <1>2 DEF Fraction
<1>7. InBand(share, band)
  <2> HIDE DEF left
  <2>1. kept \in Int
    BY <1>4
  <2>2. /\ (4 * kept - 4) * room = 4 * ((kept - 1) * room)
        /\ (4 * kept) * room = 4 * (kept * room)
        /\ 20 * (2000 * left) = 4 * (10000 * left)
        /\ (kept - 1) * room \in Int /\ kept * room \in Int
    BY <2>1, <1>2
  <2>3. QED
    BY <1>2, <1>5, <2>1, <2>2 DEF InBand
<1>9. QED
  BY <1>4, <1>6, <1>7

\* The program truncates the profit before it is weighted.
LEMMA ProfitInBand ==
    ASSUME NEW gain \in Int, NEW start \in Nat \ {0}, NEW share, NEW band,
           NEW earned,
           earned = within(5000 + toward_zero(gain * BPS, start) * 25, 0, BPS),
           share = <<Sim!mathMax(0, Sim!mathMin(1000 * start,
                         500 * start + 25000 * gain)), start>>,
           band = <<2 * earned - 50, 2 * earned + 50>>
    PROVE  earned \in 0 .. BPS /\ Fraction(share) /\ InBand(share, band)
<1> DEFINE y      == gain * 10000
           coarse == toward_zero(y, start)
           won    == Sim!mathMax(0, Sim!mathMin(1000 * start,
                         500 * start + 25000 * gain))
           t      == coarse * start
<1>1. y \in Int /\ 20 * (25000 * gain) = 50 * y /\ gain * BPS = y
  BY DEF BPS
<1>7. earned = within(5000 + coarse * 25, 0, BPS)
  BY <1>1
<1>2. /\ coarse \in Int
      /\ (coarse - 1) * start < y /\ y < (coarse + 1) * start
  <2> HIDE DEF y
  <2>1. QED
    BY <1>1, TowardZeroIs
<1> HIDE DEF y, coarse
<1>3. t \in Int /\ t - start < y /\ y < t + start
  BY <1>1, <1>2
<1>4. earned \in 0 .. BPS
  <2>1. BPS \in Nat
    BY DEF BPS
  <2>2. earned \in Int /\ 0 <= earned /\ earned <= BPS
    BY <1>2, <1>7, <2>1 DEF within
  <2>3. QED
    BY <2>1, <2>2
<1>5. won \in Nat
  BY DEF Sim!mathMax, Sim!mathMin
<1>6. /\ 20 * won <= (2 * earned + 50) * start
      /\ (2 * earned - 50) * start <= 20 * won
  <2>1. /\ won = 0 \/ 20 * won <= 10000 * start + 50 * y
        /\ won = 1000 * start \/ 20 * won >= 10000 * start + 50 * y
        /\ 0 <= won /\ won <= 1000 * start
    BY <1>1, <1>5 DEF Sim!mathMax, Sim!mathMin
  <2> HIDE DEF won, t
  <2>2. CASE 5000 + coarse * 25 < 0
    <3>1. earned = 0
      BY <1>7, <2>2 DEF within
    <3>2. coarse <= -201
      BY <1>2, <2>2
    <3>3. t <= -201 * start
      BY <1>2, <3>2 DEF t
    <3>4. /\ (2 * earned + 50) * start = 50 * start
          /\ (2 * earned - 50) * start = -(50 * start)
      BY <3>1
    <3>5. QED
      BY <1>1, <1>3, <1>5, <2>1, <3>3, <3>4
  <2>3. CASE 5000 + coarse * 25 > BPS
    <3>1. earned = 10000
      BY <1>2, <1>7, <2>3 DEF within, BPS
    <3>2. coarse >= 201
      BY <1>2, <2>3 DEF BPS
    <3>3. t >= 201 * start
      BY <1>2, <3>2 DEF t
    <3>4. /\ (2 * earned + 50) * start = 20050 * start
          /\ (2 * earned - 50) * start = 19950 * start
      BY <3>1
    <3>5. QED
      BY <1>1, <1>3, <1>5, <2>1, <3>3, <3>4
  <2>4. CASE 5000 + coarse * 25 >= 0 /\ 5000 + coarse * 25 <= BPS
    <3>1. earned = 5000 + coarse * 25
      BY <1>2, <1>7, <2>4 DEF within, BPS
    <3>2. coarse >= -200 /\ coarse <= 200
      BY <1>2, <2>4 DEF BPS
    <3>3. /\ t >= -200 * start /\ t <= 200 * start
      BY <1>2, <3>2 DEF t
    <3>4. /\ (2 * (5000 + coarse * 25) + 50) * start
               = 10000 * start + 50 * t + 50 * start
          /\ (2 * (5000 + coarse * 25) - 50) * start
               = 10000 * start + 50 * t - 50 * start
      BY <1>2 DEF t
    <3>5. QED
      BY <1>1, <1>3, <1>5, <2>1, <3>1, <3>3, <3>4
  <2>5. QED
    BY <1>2, <2>2, <2>3, <2>4 DEF BPS
<1>8. Fraction(share) /\ InBand(share, band)
  <2> HIDE DEF won
  <2>1. QED
    BY <1>4, <1>5, <1>6 DEF Fraction, InBand, BPS, won
<1>9. QED
  BY <1>4, <1>8

\* Liquidity at every tick, with the spread and the drawdown, which neither
\* side rounds.
LEMMA SteadinessInBand ==
    ASSUME NEW steady \in Nat, NEW share, NEW band, NEW b,
           b = 5 * (12000 + steady), band = <<b, b>>,
           share = <<RUN_TICKS * 12000 + steady * RUN_TICKS, 4 * RUN_TICKS>>
    PROVE  Fraction(share) /\ InBand(share, band)
<1> DEFINE a == RUN_TICKS * 12000 + steady * RUN_TICKS
           d == 4 * RUN_TICKS
<1>1. a \in Int /\ d \in Nat \ {0} /\ b \in Int /\ b * d = 20 * a
  BY BookAssumption
<1>2. share = <<a, d>>
  OBVIOUS
<1> HIDE DEF a, d
<1>3. QED
  BY <1>1, <1>2 DEF Fraction, InBand

\* The liquidity of the program and what it lacks make up the whole.
LEMMA LiquidityAndCost ==
    ASSUME NEW run, run.liquidity_ticks \in 0 .. RUN_TICKS
    PROVE  LET full == (run.liquidity_ticks * BPS) \div RUN_TICKS
               cost == UnquotedCost(run)
           IN  /\ full \in Nat /\ cost \in Nat
               /\ 3 * full + 10 * cost <= 30000
               /\ 3 * full + 10 * cost > 29987
<1> DEFINE ticks == run.liquidity_ticks
           a    == ticks * 10000
           c    == (RUN_TICKS - ticks) * 3000
           full == a \div RUN_TICKS
           cost == c \div RUN_TICKS
<1>1. /\ a \in Nat /\ c \in Nat /\ RUN_TICKS \in Nat \ {0}
      /\ 3 * a + 10 * c = 30000 * RUN_TICKS
  BY BookAssumption
<1> HIDE DEF a, c
<1>2. full \in Nat /\ full * RUN_TICKS <= a /\ a < (full + 1) * RUN_TICKS
  BY <1>1, DivisionType
<1>3. cost \in Nat /\ cost * RUN_TICKS <= c /\ c < (cost + 1) * RUN_TICKS
  BY <1>1, DivisionType
<1> HIDE DEF full, cost
<1> DEFINE sum == 3 * full + 10 * cost
<1>4. /\ sum * RUN_TICKS = 3 * (full * RUN_TICKS) + 10 * (cost * RUN_TICKS)
      /\ (sum + 13) * RUN_TICKS
           = 3 * ((full + 1) * RUN_TICKS) + 10 * ((cost + 1) * RUN_TICKS)
      /\ full * RUN_TICKS \in Nat /\ cost * RUN_TICKS \in Nat
      /\ (full + 1) * RUN_TICKS \in Nat /\ (cost + 1) * RUN_TICKS \in Nat
  BY <1>1, <1>2, <1>3
<1>5. sum \in Nat
  BY <1>2, <1>3
<1> HIDE DEF sum
<1>6. /\ sum * RUN_TICKS < 30001 * RUN_TICKS
      /\ 30000 * RUN_TICKS < (sum + 13) * RUN_TICKS
  BY <1>1, <1>2, <1>3, <1>4
<1>7. sum < 30001 /\ 30000 < sum + 13
  BY <1>1, <1>5, <1>6, FactorReflects
<1>8. QED
  BY <1>2, <1>3, <1>5, <1>7 DEF sum, full, cost, a, c, UnquotedCost, BPS

LEMMA CalmIs ==
    ASSUME NEW drawdown \in Nat
    PROVE  /\ Sim!mathMax(0, 1000 - drawdown) \in 0 .. 1000
           /\ larger(BPS - drawdown * 10, 0)
                = 10 * Sim!mathMax(0, 1000 - drawdown)
<1>1. CASE drawdown <= 1000
  <2>1. Sim!mathMax(0, 1000 - drawdown) = 1000 - drawdown
    BY <1>1 DEF Sim!mathMax
  <2>2. larger(BPS - drawdown * 10, 0) = 10000 - drawdown * 10
    BY <1>1 DEF larger, BPS
  <2>3. QED
    BY <1>1, <2>1, <2>2
<1>2. CASE ~(drawdown <= 1000)
  <2>1. Sim!mathMax(0, 1000 - drawdown) = 0
    BY <1>2 DEF Sim!mathMax
  <2>2. larger(BPS - drawdown * 10, 0) = 0
    BY <1>2 DEF larger, BPS
  <2>3. QED
    BY <2>1, <2>2
<1>3. QED
  BY <1>1, <1>2

LEMMA EngineScores ==
    ASSUME NEW run, Playable(run), run.tick = RUN_TICKS,
           run.liquidity_ticks <= RUN_TICKS
    PROVE  distance(score(run) + UnquotedCost(run),
                    Sim!scoreRun(AsSimulation(run), StillScenario,
                                 run.strategy)) <= SCORE_TOLERANCE
<1> DEFINE s     == run.strategy
           state == AsSimulation(run)
           room  == s.max_inventory_milli
           away  == distance(s.spread_bps, 30)
           shift == distance(run.base, STARTING_BASE)
           gain  == run.equity - StartingEquity
           coarse == toward_zero(gain * BPS, StartingEquity)
           full  == (run.liquidity_ticks * BPS) \div RUN_TICKS
           cost  == UnquotedCost(run)
           tight == larger(BPS - away * 125, 0)
           calm  == Sim!mathMax(0, 1000 - run.max_drawdown_bps)
           kept  == larger(BPS - (shift * BPS) \div room, 0)
           earned == within(5000 + coarse * 25, 0, BPS)
           steady == tight + 6 * calm
           b == 5 * (12000 + steady)
           f == <<RUN_TICKS * 12000 + steady * RUN_TICKS, 4 * RUN_TICKS>>
           g == <<2000 * Sim!mathMax(0, room - shift), room>>
           h == <<Sim!mathMax(0, Sim!mathMin(1000 * StartingEquity,
                      500 * StartingEquity + 25000 * gain)), StartingEquity>>
           p == <<b, b>>
           q == <<4 * kept - 4, 4 * kept>>
           r == <<2 * earned - 50, 2 * earned + 50>>
           u == score(run)
           v == Sim!scoreRun(state, StillScenario, s)
<1>1. /\ run \in Run /\ run.base \in Nat /\ run.equity \in Nat
      /\ run.max_drawdown_bps \in Nat /\ run.liquidity_ticks \in Nat
  BY DEF Playable, Run
<1>2. s.spread_bps \in Nat /\ room \in Nat \ {0}
  BY StrategyFields
<1>3. /\ full \in Nat /\ cost \in Nat
      /\ 3 * full + 10 * cost <= 30000 /\ 3 * full + 10 * cost > 29987
  <2>1. run.liquidity_ticks \in 0 .. RUN_TICKS
    BY <1>1, BookAssumption
  <2>2. QED
    BY <2>1, LiquidityAndCost
<1>4. /\ away \in Nat /\ Sim!mathAbs(s.spread_bps - 30) = away
      /\ shift \in Nat /\ Sim!mathAbs(run.base - STARTING_BASE) = shift
  <2> HIDE DEF s
  <2>1. QED
    BY <1>1, <1>2, BookAssumption DEF distance, Sim!mathAbs
<1>5. /\ Sim!mathMax(0, 10000 - away * 125) = tight /\ tight \in 0 .. BPS
  <2> HIDE DEF away
  <2> DEFINE miss == away * 125
  <2>1. miss \in Nat
    BY <1>4
  <2> HIDE DEF miss
  <2>2. /\ Sim!mathMax(0, 10000 - miss) = larger(BPS - miss, 0)
        /\ larger(BPS - miss, 0) \in 0 .. BPS
    BY <2>1 DEF Sim!mathMax, larger, BPS
  <2>3. QED
    BY <2>2 DEF miss
<1>6. /\ calm \in 0 .. 1000
      /\ larger(BPS - run.max_drawdown_bps * 10, 0) = 10 * calm
  BY <1>1, CalmIs
<1>7. steady \in Nat
  BY <1>5, <1>6
<1>8. Fraction(f) /\ InBand(f, p)
  <2> HIDE DEF steady
  <2>1. steady \in Nat
    BY <1>7
  <2>2. /\ b = 5 * (12000 + steady) /\ p = <<b, b>>
        /\ f = <<RUN_TICKS * 12000 + steady * RUN_TICKS, 4 * RUN_TICKS>>
    OBVIOUS
  <2> HIDE DEF b, p, f
  <2>3. QED
    BY <2>1, <2>2, SteadinessInBand
<1>9. kept \in 0 .. BPS /\ Fraction(g) /\ InBand(g, q)
  <2> HIDE DEF shift, room
  <2>1. shift \in Nat /\ room \in Nat \ {0}
    BY <1>2, <1>4
  <2>2. /\ kept = larger(BPS - (shift * BPS) \div room, 0)
        /\ q = <<4 * kept - 4, 4 * kept>>
        /\ g = <<2000 * Sim!mathMax(0, room - shift), room>>
    OBVIOUS
  <2> HIDE DEF kept, q, g
  <2>3. QED
    BY <2>1, <2>2, InventoryInBand
<1>10. earned \in 0 .. BPS /\ Fraction(h) /\ InBand(h, r)
  <2>1. gain \in Int
    BY <1>1, StartingEquityPositive
  <2> HIDE DEF gain
  <2>2. /\ earned = within(5000 + toward_zero(gain * BPS, StartingEquity) * 25,
                           0, BPS)
        /\ r = <<2 * earned - 50, 2 * earned + 50>>
        /\ h = <<Sim!mathMax(0, Sim!mathMin(1000 * StartingEquity,
                      500 * StartingEquity + 25000 * gain)), StartingEquity>>
    OBVIOUS
  <2> HIDE DEF earned, r, h
  <2>3. QED
    BY <2>1, <2>2, StartingEquityPositive, ProfitInBand
<1>11. u = (full * 3000 + tight * 2500 + kept * 2000 + (10 * calm) * 1500
              + earned * 1000 + 5000) \div 10000
  <2>1. u = (full * 3000 + tight * 2500 + kept * 2000
               + larger(BPS - run.max_drawdown_bps * 10, 0) * 1500
               + earned * 1000 + 5000) \div BPS
    BY DEF score
  <2>2. QED
    BY <1>6, <2>1 DEF BPS
<1>12. /\ state.liquidityTicks = RUN_TICKS /\ state.base = run.base
       /\ state.maxDrawdownBps = run.max_drawdown_bps
       /\ state.equity = run.equity
       /\ state.startingEquity = StartingEquity
       /\ StillScenario.ticks = RUN_TICKS
       /\ StillScenario.base = STARTING_BASE
  BY EngineFields DEF StillScenario, ScenarioWith
<1>13. v = Sim!roundedSum(f, g, h)
  <2>1. Sim!mathMin(RUN_TICKS, RUN_TICKS) = RUN_TICKS
    BY BookAssumption DEF Sim!mathMin
  <2>2. Sim!steadiness(state, StillScenario, s) = f
    <3> HIDE DEF state, s, away, tight, calm
    <3>1. Sim!steadiness(state, StillScenario, s)
            = <<Sim!mathMin(RUN_TICKS, RUN_TICKS) * 12000
                  + (Sim!mathMax(0, 10000
                         - Sim!mathAbs(s.spread_bps - 30) * 125)
                     + 6 * Sim!mathMax(0, 1000 - run.max_drawdown_bps))
                    * RUN_TICKS, 4 * RUN_TICKS>>
      BY <1>12 DEF Sim!steadiness
    <3>2. QED
      BY <1>4, <1>5, <2>1, <3>1 DEF calm
  <2>3. Sim!inventoryControl(state, StillScenario, s) = g
    <3> HIDE DEF state, s, shift
    <3>1. QED
      BY <1>4, <1>12 DEF Sim!inventoryControl
  <2>4. Sim!pnl(state) = h
    <3> HIDE DEF state
    <3>1. QED
      BY <1>12 DEF Sim!pnl
  <2> HIDE DEF f, g, h, state
  <2>5. QED
    BY <2>2, <2>3, <2>4 DEF Sim!scoreRun
<1> HIDE DEF f, g, h, u, full, cost, tight, kept, calm, earned
<1>14. /\ v \in Int
       /\ p[1] + q[1] + r[1] - 10 < 20 * v
       /\ 20 * v <= p[2] + q[2] + r[2] + 10
  BY <1>8, <1>9, <1>10, <1>13, RoundedSumInBand
<1>15. /\ v \in Int
       /\ b + 4 * kept + 2 * earned - 64 < 20 * v
       /\ 20 * v <= b + 4 * kept + 2 * earned + 60
  <2> HIDE DEF v, b
  <2>1. b \in Int
    BY <1>7 DEF b
  <2>2. QED
    BY <1>9, <1>10, <1>14, <2>1 DEF BPS
<1> HIDE DEF v
<1>16. u - v + cost <= 4 /\ v - u - cost <= 4 /\ u \in Int
  BY <1>3, <1>5, <1>6, <1>9, <1>10, <1>11, <1>15 DEF BPS
<1>17. QED
  BY <1>3, <1>15, <1>16
     DEF distance, SCORE_TOLERANCE, u, v, cost, state, s

-----------------------------------------------------------------------------
(* The engines agree in every state *)

\* A copy that has not ticked is as it was started, and a settled one has the
\* score of what it came to.
Traced(run) ==
    /\ run.status = "ACTIVE" /\ run.tick = 0 =>
         run.strategy \in Strategies /\ run = StartedRun(run.strategy)
    /\ run.status = "SETTLED" => run.final_score = score(run)

TracedInv == Traced(ledger) /\ Traced(rollup)

LEMMA StartedTraced ==
    ASSUME NEW s \in Strategies, ValidStrategy(s)
    PROVE  Traced(StartedRun(s))
<1>1. StartedRun(s).strategy = s
  BY DEF StartedRun, Requoted, UnquotedRun
<1>2. StartedRun(s).status = "ACTIVE"
  BY StartedRunSound
<1> DEFINE run == StartedRun(s)
<1>3. run.strategy = s /\ run = StartedRun(s)
  BY <1>1
<1> HIDE DEF run
<1>4. Traced(run)
  BY <1>2, <1>3 DEF Traced
<1>5. QED
  BY <1>4 DEF run

LEMMA ScoredTraced ==
    ASSUME NEW run, Sound(run), run.status = "ACTIVE", run.tick = RUN_TICKS
    PROVE  Traced(Scored(run))
<1> DEFINE points == score(run)
           new == Scored(run)
<1>1. run \in Run
  BY DEF Sound
<1>2. new = [run EXCEPT !.final_score = points, !.status = "SETTLED"]
  BY DEF Scored
<1> HIDE DEF new, points
<1>3. /\ new.strategy = run.strategy /\ new.base = run.base
      /\ new.max_drawdown_bps = run.max_drawdown_bps
      /\ new.liquidity_ticks = run.liquidity_ticks
      /\ new.equity = run.equity
      /\ new.status = "SETTLED" /\ new.final_score = points
  BY <1>1, <1>2 DEF Run
<1>4. score(new) = score(run)
  BY <1>3 DEF score
<1>5. new.final_score = score(new)
  BY <1>3, <1>4 DEF points
<1>6. Traced(new)
  BY <1>3, <1>5 DEF Traced
<1>7. QED
  BY <1>6 DEF new

LEMMA TracedInit == ProgramInit => TracedInv
<1>1. BlankRun.status = "NONE"
  BY DEF BlankRun
<1>2. QED
  BY <1>1 DEF ProgramInit, TracedInv, Traced

LEMMA TracedNext == Inv /\ TracedInv /\ [ProgramNext]_programVars => TracedInv'
<1>1. SUFFICES ASSUME Inv, TracedInv, [ProgramNext]_programVars
               PROVE  TracedInv'
  OBVIOUS
<1>2. Traced(ledger) /\ Traced(rollup)
  BY <1>1 DEF TracedInv
<1>3. SUFFICES /\ ledger' = ledger \/ Traced(ledger')
               /\ rollup' = rollup \/ Traced(rollup')
  <2>1. /\ ledger' = ledger => Traced(ledger')
        /\ Traced(ledger)' <=> Traced(ledger')
    BY <1>2 DEF Traced
  <2>2. /\ rollup' = rollup => Traced(rollup')
        /\ Traced(rollup)' <=> Traced(rollup')
    BY <1>2 DEF Traced
  <2>3. QED
    BY <1>3, <2>1, <2>2 DEF TracedInv
<1>4. ASSUME NEW s \in Strategies, StartRankedRun(s)
      PROVE  Traced(ledger') /\ rollup' = rollup
  BY <1>4, StartedTraced DEF StartRankedRun
<1>5. CASE DelegateRankedRun
  BY <1>2, <1>5 DEF DelegateRankedRun
<1>6. ASSUME NEW actor \in Actors, AdvanceRankedRun(actor)
      PROVE  /\ ledger' = ledger \/ Traced(ledger')
             /\ rollup' = rollup \/ Traced(rollup')
  <2>1. PICK noise \in Noises, event \in Events, fills \in BOOLEAN :
          Written(Advanced(Current, noise, event, fills))
    BY <1>6 DEF AdvanceRankedRun
  <2> DEFINE new == Advanced(Current, noise, event, fills)
  <2>2. Current.status = "ACTIVE" /\ Current.tick < RUN_TICKS
    BY <1>6 DEF AdvanceRankedRun, Advanceable
  <2>3. new.status = "ACTIVE" /\ new.tick = Current.tick + 1
    BY <1>1, <2>2, AdvancedSound, CurrentSound
  <2>4. Current.tick \in Nat
    BY <1>1, CurrentSound DEF Sound, Run
  <2> HIDE DEF new
  <2>5. Traced(new)
    BY <2>3, <2>4 DEF Traced
  <2>6. \/ rollup' = new /\ ledger' = ledger
        \/ ledger' = new /\ rollup' = rollup
    BY <2>1 DEF Written, new
  <2>7. QED
    BY <2>5, <2>6
<1>7. ASSUME NEW actor \in Actors, FinalizeRankedRun(actor)
      PROVE  ledger' = ledger /\ Traced(rollup')
  <2>1. /\ rollup.status = "ACTIVE" /\ rollup.tick = RUN_TICKS
        /\ rollup' = Scored(rollup) /\ ledger' = ledger
    BY <1>7 DEF FinalizeRankedRun, Finalizable, Current
  <2>2. Sound(rollup)
    BY <1>1 DEF Inv
  <2>3. QED
    BY <2>1, <2>2, ScoredTraced
<1>8. CASE CommitLands
  BY <1>2, <1>8 DEF CommitLands
<1>9. CASE Expires \/ UNCHANGED programVars
  BY <1>9 DEF Expires, programVars
<1>10. QED
  BY <1>1, <1>4, <1>5, <1>6, <1>7, <1>8, <1>9 DEF ProgramNext

LEMMA CurrentTraced ==
    ASSUME TracedInv
    PROVE  Traced(Current)
  BY DEF TracedInv, Current

LEMMA EnginesAgreeByInv == Inv /\ TracedInv => EnginesAgree
<1>1. SUFFICES ASSUME Inv, TracedInv
               PROVE  EnginesAgree
  OBVIOUS
<1> DEFINE run == Current
<1>2. Sound(run) /\ Traced(run)
  BY <1>1, CurrentSound, CurrentTraced
<1>3. ASSUME Running
      PROVE  TicksAgree
  <2>1. run.status = "ACTIVE"
    BY <1>3 DEF Running
  <2>2. Playable(run)
    BY <1>2, <2>1 DEF Sound
  <2>3. ASSUME run.tick = 0, CashForQuote(run, STARTING_PRICE)
        PROVE  AsSimulation(run)
                 = Sim!createSimulation(StillScenario, run.strategy)
    <3>1. run.strategy \in Strategies /\ run = StartedRun(run.strategy)
      BY <1>2, <2>1, <2>3 DEF Traced
    <3>2. ValidStrategy(run.strategy)
      BY <2>2 DEF Playable
    <3> HIDE DEF run
    <3>3. CashForQuote(StartedRun(run.strategy), STARTING_PRICE)
      BY <2>3, <3>1
    <3>4. AsSimulation(StartedRun(run.strategy))
            = Sim!createSimulation(StillScenario, run.strategy)
      BY <3>1, <3>2, <3>3, EngineStarts
    <3>5. QED
      BY <3>1, <3>4
  <2>4. ASSUME run.tick < RUN_TICKS, NEW noise \in Noises,
               NEW event \in Events, NEW fills \in BOOLEAN
        PROVE  SameTick(run, noise, event, fills)
    BY <2>2, <2>4, EngineTakesTick
  <2>5. QED
    BY <2>3, <2>4 DEF TicksAgree
<1>4. ASSUME run.status = "SETTLED"
      PROVE  distance(run.final_score + UnquotedCost(run),
                      Sim!scoreRun(AsSimulation(run), StillScenario,
                                   run.strategy)) <= SCORE_TOLERANCE
  <2>1. /\ Playable(run) /\ run.tick = RUN_TICKS
        /\ run.liquidity_ticks <= RUN_TICKS
    BY <1>2, <1>4 DEF Sound, Counted
  <2>2. run.final_score = score(run)
    BY <1>2, <1>4 DEF Traced
  <2> HIDE DEF run
  <2>3. QED
    BY <2>1, <2>2, EngineScores
<1>5. QED
  BY <1>3, <1>4 DEF EnginesAgree, ScoresAgree

\* Whatever the market does, the browser's engine and the program trade the
\* same orders and value them alike, tick by tick (engine.ts against
\* advance_ranked_run.rs), and the engine's score is the program's and what
\* the program took off for ticks without an order, within four hundredths
\* (score.ts against finalize_ranked_run.rs), for every run that is settled.
THEOREM BrowserAgreesWithProgram == ProgramSpec => []EnginesAgree
<1>1. ProgramInit => TracedInv
  BY TracedInit
<1>2. Inv /\ TracedInv /\ [ProgramNext]_programVars => TracedInv'
  BY TracedNext
<1>3. Inv /\ TracedInv => EnginesAgree
  BY EnginesAgreeByInv
<1>4. QED
  BY <1>1, <1>2, <1>3, Invariant, PTL DEF ProgramSpec
=============================================================================
