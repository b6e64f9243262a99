--------------------------- MODULE BrowserEngine ---------------------------
(***************************************************************************)
(* The browser's market simulation (engine.ts) and its score (score.ts).   *)
(*                                                                         *)
(* A scenario carries the outcome of its seeded generator for every tick:  *)
(* noise[t] in basis points, flow[t] for a roll below 0.75, and event[t],  *)
(* zero where the scenario has no event.  A simulation keeps its orders as *)
(* a set with at most one of each side; the price history and the activity *)
(* log, which nothing reads back, are left out.                            *)
(***************************************************************************)
EXTENDS Integers, FiniteSets

mathMax(a, b) == IF a < b THEN b ELSE a

mathMin(a, b) == IF a < b THEN a ELSE b

mathAbs(a) == IF a < 0 THEN -a ELSE a

\* Math.round of a quotient: to the nearest, halves up.
rounded(a, b) == (2 * a + b) \div (2 * b)

\* Math.ceil of a quotient.
ceiling(a, b) == -((-a) \div b)

valueOf(milliSol, price) == rounded(milliSol * price, 1000)

equityOf(base, quote, price) == quote + valueOf(base, price)

halfSpread(strategy) == mathMax(1, (strategy.spread_bps + 1) \div 2)

bidOf(price, strategy) == (price * (10000 - halfSpread(strategy))) \div 10000

askOf(price, strategy) ==
    ceiling(price * (10000 + halfSpread(strategy)), 10000)

order(side, strategy, price) ==
    [side |-> side, size |-> strategy.order_size_milli, price |-> price]

\* A buy while the inventory has room, a sell while it has the lot.  Cash is
\* not looked at.
quoteOrders(bid, ask, base, strategy) ==
    {o \in {order("buy", strategy, bid), order("sell", strategy, ask)} :
        \/ /\ o.side = "buy"
           /\ base + o.size <= strategy.max_inventory_milli
        \/ o.side = "sell" /\ base >= o.size}

createSimulation(scenario, strategy) ==
    LET price == scenario.price
        worth == equityOf(scenario.base, scenario.quote, price)
    IN  [tick |-> 0, referencePrice |-> price,
         bid |-> bidOf(price, strategy), ask |-> askOf(price, strategy),
         base |-> scenario.base, quote |-> scenario.quote,
         openOrders |-> quoteOrders(bidOf(price, strategy),
                                    askOf(price, strategy),
                                    scenario.base, strategy),
         fills |-> 0, inventoryCost |-> valueOf(scenario.base, price),
         realizedPnl |-> 0, liquidityTicks |-> 0, startingEquity |-> worth,
         equity |-> worth, peakEquity |-> worth, maxDrawdownBps |-> 0]

-----------------------------------------------------------------------------
(* One tick *)

movedPrice(price, moveBps) ==
    mathMax(100, rounded(price * (10000 + moveBps), 10000))

\* The tick's prices, with the orders replaced when it is a refresh.
requoted(state, tick, price, strategy) ==
    LET bid == bidOf(price, strategy)
        ask == askOf(price, strategy)
    IN  [state EXCEPT
            !.tick = tick, !.referencePrice = price, !.bid = bid, !.ask = ask,
            !.openOrders = IF tick % strategy.refresh_ticks = 0
                           THEN quoteOrders(bid, ask, state.base, strategy)
                           ELSE @]

bought(state, o) ==
    LET cost == valueOf(o.size, o.price)
    IN  [state EXCEPT !.base = @ + o.size, !.quote = @ - cost,
                      !.inventoryCost = @ + cost, !.fills = @ + 1,
                      !.openOrders = @ \ {o}]

\* Slip (see EnginesAgree): a lot leaves the inventory at what it was sold for.
soldAtProceeds(state, o) ==
    LET proceeds == valueOf(o.size, o.price)
    IN  [state EXCEPT !.base = @ - o.size, !.quote = @ + proceeds,
                      !.inventoryCost = @ - proceeds,
                      !.fills = @ + 1, !.openOrders = @ \ {o}]

sold(state, o) ==
    LET proceeds == valueOf(o.size, o.price)
        cost == rounded(state.inventoryCost * o.size, state.base)
    IN  [state EXCEPT !.base = @ - o.size, !.quote = @ + proceeds,
                      !.inventoryCost = @ - cost,
                      !.realizedPnl = @ + proceeds - cost,
                      !.fills = @ + 1, !.openOrders = @ \ {o}]

\* A falling price takes the bid, a rising one the ask: at most one fill.
filled(state, deviation, flow) ==
    LET side == IF deviation < 0 THEN "buy" ELSE "sell"
        taken == {o \in state.openOrders : o.side = side}
    IN  IF deviation = 0 \/ ~flow \/ taken = {} THEN state
        ELSE LET o == CHOOSE o \in taken : TRUE
             IN  IF side = "buy" THEN bought(state, o) ELSE sold(state, o)

marked(state) ==
    LET worth == equityOf(state.base, state.quote, state.referencePrice)
        peak == mathMax(state.peakEquity, worth)
    IN  [state EXCEPT
            !.liquidityTicks = @ + 1, !.equity = worth, !.peakEquity = peak,
            !.maxDrawdownBps =
                mathMax(@, rounded((peak - worth) * 10000, peak))]

stepSimulation(state, scenario, strategy) ==
    LET tick == state.tick + 1
        event == scenario.event[tick]
        price == movedPrice(state.referencePrice, scenario.noise[tick] + event)
    IN  IF state.tick >= scenario.ticks THEN state
        ELSE marked(filled(requoted(state, tick, price, strategy),
                           price - state.referencePrice,
                           scenario.flow[tick] \/ mathAbs(event) >= 200))

\* The states of a run, tick by tick: runSimulation, and replaySnapshots of
\* the lab.
simulationAt(scenario, strategy) ==
    LET state[t \in 0 .. scenario.ticks] ==
            IF t = 0 THEN createSimulation(scenario, strategy)
            ELSE stepSimulation(state[t - 1], scenario, strategy)
    IN  state

-----------------------------------------------------------------------------
(* The score, in hundredths of a point.  A quality enters it as a fraction *)
(* <<numerator, denominator>> of its weight: only the total is rounded.    *)
(* The inventory is compared with the base that every scenario starts with.*)

whole(f) == f[1] \div f[2]

rest(f) == f[1] % f[2]

\* Math.round of a sum of three fractions.
roundedSum(f, g, h) ==
    whole(f) + whole(g) + whole(h)
        + rounded(rest(f) * g[2] * h[2] + rest(g) * f[2] * h[2]
                      + rest(h) * f[2] * g[2], f[2] * g[2] * h[2])

\* Liquidity counts 3000 of 10000, the spread 2500, the drawdown 1500.
steadiness(state, scenario, strategy) ==
    LET spread == mathMax(0, 10000 - mathAbs(strategy.spread_bps - 30) * 125)
        calm == mathMax(0, 1000 - state.maxDrawdownBps)
    IN  <<mathMin(state.liquidityTicks, scenario.ticks) * 12000
              + (spread + 6 * calm) * scenario.ticks, 4 * scenario.ticks>>

inventoryControl(state, scenario, strategy) ==
    <<2000 * mathMax(0, strategy.max_inventory_milli
                            - mathAbs(state.base - scenario.base)),
      strategy.max_inventory_milli>>

pnl(state) ==
    <<mathMax(0, mathMin(1000 * state.startingEquity,
                         500 * state.startingEquity
                             + 25000 * (state.equity - state.startingEquity))),
      state.startingEquity>>

scoreRun(state, scenario, strategy) ==
    roundedSum(steadiness(state, scenario, strategy),
               inventoryControl(state, scenario, strategy), pnl(state))
=============================================================================
