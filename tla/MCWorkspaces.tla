---------------------------- MODULE MCWorkspaces ----------------------------
(***************************************************************************)
(* Small instances of the workspaces for the model checker: the driver in  *)
(* a market that stands still, so that only the order of the transactions  *)
(* makes a difference; runs of one to three ticks for the browser's own    *)
(* simulations.                                                            *)
(***************************************************************************)
EXTENDS Workspaces, MCLeaderboards

StrategyOf(spread_bps, refresh_ticks) ==
    [spread_bps |-> spread_bps, order_size_milli |-> 500,
     max_inventory_milli |-> 2000, refresh_ticks |-> refresh_ticks]

OneStrategy == {StrategyOf(30, 1)}

Still == {0}

Market(noise, flow, event) ==
    [price |-> 15000, base |-> 1000, quote |-> 15000, ticks |-> Len(noise),
     noise |-> noise, flow |-> flow, event |-> event]

Session == Market(<<-21, 14, 3>>, <<TRUE, FALSE, TRUE>>, <<0, 650, -550>>)

SessionStrategy == StrategyOf(30, 2)

Rise == Market(<<-21, 14>>, <<TRUE, FALSE>>, <<0, 650>>)

Fall == Market(<<12>>, <<FALSE>>, <<-550>>)

TwoMarkets == {Rise, Fall}

Narrow == StrategyOf(30, 2)

JustNarrow == {Narrow}
=============================================================================
