---------------------------- MODULE EngineParity ----------------------------
(***************************************************************************)
(* The same strategy in the same market twice: in the Result Registry's    *)
(* RankedRun and in the browser's BrowserEngine.  A wallet tries a         *)
(* strategy in the browser and is then ranked by the program.              *)
(***************************************************************************)
EXTENDS RankedRun

Sim == INSTANCE BrowserEngine

\* A scenario in which the market does the same at every tick.
ScenarioWith(noise, event, fills) ==
    [price |-> STARTING_PRICE, base |-> STARTING_BASE,
     quote |-> STARTING_QUOTE, ticks |-> RUN_TICKS,
     noise |-> [t \in 1 .. RUN_TICKS |-> noise],
     flow |-> [t \in 1 .. RUN_TICKS |-> fills],
     event |-> [t \in 1 .. RUN_TICKS |-> event]]

StillScenario == ScenarioWith(0, 0, FALSE)

\* The orders that the flags of a run stand for, at the prices of its refresh.
OrdersOf(run) ==
    {o \in {Sim!order("buy", run.strategy, run.bid),
            Sim!order("sell", run.strategy, run.ask)} :
        IF o.side = "buy" THEN run.has_buy_order ELSE run.has_sell_order}

\* A run of the program as a state of the engine, which quotes at every tick.
AsSimulation(run) ==
    [tick |-> run.tick, referencePrice |-> run.reference_price,
     bid |-> Sim!bidOf(run.reference_price, run.strategy),
     ask |-> Sim!askOf(run.reference_price, run.strategy),
     base |-> run.base, quote |-> run.quote, openOrders |-> OrdersOf(run),
     fills |-> run.fill_count, inventoryCost |-> run.inventory_cost,
     realizedPnl |-> run.realized_pnl, liquidityTicks |-> run.tick,
     startingEquity |-> StartingEquity, equity |-> run.equity,
     peakEquity |-> run.peak_equity,
     maxDrawdownBps |-> run.max_drawdown_bps]

\* The program does not quote a buy that it cannot pay; the engine does.
CashForQuote(run, price) ==
    run.quote >= value(run.strategy.order_size_milli,
                       bid_of(price, run.strategy.spread_bps))

SameTick(run, noise, event, fills) ==
    LET price == NextPrice(run.reference_price, noise + event)
    IN  (IsRefresh(run) => CashForQuote(run, price)) =>
            Sim!stepSimulation(AsSimulation(run),
                               ScenarioWith(noise, event, fills),
                               run.strategy) =
            AsSimulation(Advanced(run, noise, event, fills))

TicksAgree ==
    /\ Current.tick = 0 /\ CashForQuote(Current, STARTING_PRICE) =>
         AsSimulation(Current) =
            Sim!createSimulation(StillScenario, Current.strategy)
    /\ Current.tick < RUN_TICKS =>
         \A noise \in Noises, event \in Events, fills \in BOOLEAN :
            SameTick(Current, noise, event, fills)

\* What the ticks without an order cost in the program, in hundredths: the
\* engine counts every tick as liquid, whether or not a quote stands.
UnquotedCost(run) == ((RUN_TICKS - run.liquidity_ticks) * 3000) \div RUN_TICKS

\* Hundredths that the program's divisions may take: a basis point of profit
\* counts two and a half and is truncated before it is weighted, and so are
\* the liquidity and the inventory.
SCORE_TOLERANCE == 4

ScoresAgree ==
    distance(Current.final_score + UnquotedCost(Current),
             Sim!scoreRun(AsSimulation(Current), StillScenario,
                          Current.strategy)) <= SCORE_TOLERANCE

\* Trying a strategy in the browser tells what the program will do with it:
\* from any point of a run, whatever the market does, a tick of the program
\* and a tick of the engine trade the same orders at the same prices and value
\* them alike, as long as the program can pay for what it quotes.  The scores
\* are not the same (docs/scoring.md:25): the engine's is higher by the whole
\* liquidity of the ticks at which no order stood (engine.ts:218 beside
\* advance_ranked_run.rs:64), and by nothing else but integer division.
EnginesAgree ==
    /\ Running => TicksAgree
    /\ Current.status = "SETTLED" => ScoresAgree
=============================================================================
