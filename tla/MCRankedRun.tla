---------------------------- MODULE MCRankedRun ----------------------------
(***************************************************************************)
(* Small instances of RankedRun for the model checker: strategies over a   *)
(* run of a few ticks, one of them refused by the program.                 *)
(***************************************************************************)
EXTENDS EngineParity

Plan(spread, size, limit, refresh) ==
    [spread_bps |-> spread, order_size_milli |-> size,
     max_inventory_milli |-> limit, refresh_ticks |-> refresh]

ManyStrategies ==
    {Plan(30, 700, 2000, 2), Plan(60, 300, 900, 3), Plan(200, 1000, 3000, 3),
     Plan(2, 500, 400, 1)}

BothWays == {-21, 0, 21}

Shocks == {-1200, 0, 650}
=============================================================================
