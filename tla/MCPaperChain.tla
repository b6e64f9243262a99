---------------------------- MODULE MCPaperChain ----------------------------
(***************************************************************************)
(* A small instance of PaperChain for the model checker: two wallets, one  *)
(* market at one price, a limit order that rests and an order sent at once.*)
(***************************************************************************)
EXTENDS PaperChain

CONSTANTS ann, bob, sol, solFeed

Update == [feed |-> solFeed, price |-> 2, exponent |-> 0, at |-> 0]

OneUpdate == {Update}

Order(side, size) ==
    [asset |-> sol, side |-> side, size |-> size, expected |-> 200,
     max_bps |-> 100]

ManyQuotes == {Order("buy", 10)}

ManyMarket == {Order("buy", 20)}

EveryOrder == ManyQuotes \cup ManyMarket

OneAsset == {sol}

OneFeed == {solFeed}

TwoWallets == {ann, bob}

OneWallet == {ann}

Alike == Permutations(TwoWallets)
=============================================================================
