-------------------------- MODULE MCPaperPortfolio --------------------------
(***************************************************************************)
(* A small instance of PaperPortfolio for the model checker: odd prices    *)
(* and sizes that do not divide evenly, a ring of three slots, updates     *)
(* that are traded on in another order than they were published in, until  *)
(* they are too old, and one whose exponent the program refuses.           *)
(***************************************************************************)
EXTENDS PaperHistory

CONSTANTS owner, sol, eth, solFeed, ethFeed

Update(feed, price, exponent, at) ==
    [feed |-> feed, price |-> price, exponent |-> exponent, at |-> at]

ManyUpdates ==
    {Update(solFeed, 1337, -3, 0), Update(solFeed, 2, 0, 2),
     Update(ethFeed, 30011, -4, 1), Update(solFeed, 7, -19, 1)}

Order(asset, side, size, expected) ==
    [asset |-> asset, side |-> side, size |-> size, expected |-> expected,
     max_bps |-> 100]

ManyOrders ==
    {Order(sol, side, size, expected) :
        side \in Sides, size \in {1, 335}, expected \in {133, 202}}
    \cup {Order(eth, side, size, 300) : side \in Sides, size \in {150}}
    \cup {Order(sol, "sell", 0, 133)}

TwoAssets == {sol, eth}

TwoFeeds == {solFeed, ethFeed}

OneOwner == {owner}
=============================================================================
