--------------------------- MODULE MCLeaderboards ---------------------------
(***************************************************************************)
(* A small instance of Leaderboards for the model checker: two wallets     *)
(* with runs of the same score in two weeks, an account that is not        *)
(* genuine, and three paper portfolios of which one never traded.          *)
(***************************************************************************)
EXTENDS Leaderboards

RunOf(address, wallet, status, equity, drawdown, finalized) ==
    [address |-> address, authority |-> wallet, genuine |-> TRUE,
     status |-> status, schema |-> RUN_SCHEMA, tick |-> RUN_LENGTH,
     started |-> 1, score |-> 9000, start |-> 30000, equity |-> equity,
     drawdown |-> drawdown, finalized |-> finalized]

FewAccounts ==
    {RunOf(1, 1, "ACTIVE", 30000, 0, 0), RunOf(1, 1, "SETTLED", 30001, 7, 2),
     RunOf(2, 1, "SETTLED", 30002, 5, 1), RunOf(3, 2, "SETTLED", 29999, 9, 2),
     [RunOf(4, 2, "SETTLED", 39999, 9, 2) EXCEPT !.genuine = FALSE]}

PortfolioOf(wallet, usdc, trades, sol, eth) ==
    [wallet |-> wallet, usdc |-> usdc, start |-> 1000000, trades |-> trades,
     updated |-> trades, quantity |-> [sol |-> sol, eth |-> eth]]

FewPortfolios ==
    {PortfolioOf(1, 990000, 1, 700, 0), PortfolioOf(2, 990000, 2, 300, 5),
     PortfolioOf(3, 1000000, 0, 0, 0)}

PricesOf(solAge, ethAge) ==
    [sol |-> [genuine |-> TRUE, cents |-> 15000, age |-> solAge],
     eth |-> [genuine |-> TRUE, cents |-> 300000, age |-> ethAge]]

FreshPrices == PricesOf(0, 30)

FewPrices == {FreshPrices, PricesOf(10, 31)}
=============================================================================
