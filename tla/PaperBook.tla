----------------------------- MODULE PaperBook -----------------------------
(***************************************************************************)
(* The arithmetic of one paper portfolio: the price of an order in cents,  *)
(* its fee, what a buy and a sell do to cash, position and realized profit *)
(* (trade_portfolio.rs), and how the browser reads the account back        *)
(* (paper-account.ts).                                                     *)
(*                                                                         *)
(* The account's trade_log_hash is a hash chain over every fill; it is     *)
(* modelled by what it commits to, the sequence of all fills.              *)
(***************************************************************************)
EXTENDS Integers, Sequences

CONSTANTS
    ASSETS,          \* the paper markets
    U64,             \* 2^64: one more than the largest u64
    LOT,             \* 1000: milli-units of an asset in one unit
    BPS,             \* 10_000 basis points make the whole
    FEE_BPS,         \* the exchange's fee
    START_USDC,      \* cents a portfolio is opened with
    RECENT_FILLS     \* slots of the ring of recent fills

ASSUME PaperAssumption ==
    /\ U64 \in Nat \ {0}
    /\ LOT \in Nat \ {0}
    /\ BPS \in Nat \ {0}
    /\ FEE_BPS \in Nat /\ FEE_BPS <= BPS
    /\ START_USDC \in Nat /\ START_USDC < U64
    /\ RECENT_FILLS \in Nat \ {0}

Fits(x) == x \in 0 .. U64 - 1

Position == [quantity : Nat, cost : Nat]

Sides == {"buy", "sell"}

\* price_at: when the price was published; executed_at: the cluster's time.
Fill == [asset : ASSETS, side : Sides, fee : Nat, price : Nat, size : Nat,
         price_at : Nat, executed_at : Nat]

\* A slot of the ring that no fill has been written to.
BlankFill == [asset |-> "none", side |-> "none", fee |-> 0, price |-> 0,
              size |-> 0, price_at |-> 0, executed_at |-> 0]

Account ==
    [opened : BOOLEAN, usdc : Nat, start_equity : Nat, realized_pnl : Int,
     positions : [ASSETS -> Position], trade_count : Nat,
     trade_log : Seq(Fill),
     recent_fills : [0 .. RECENT_FILLS - 1 -> Fill \cup {BlankFill}]]

BlankAccount ==
    [opened |-> FALSE, usdc |-> 0, start_equity |-> 0, realized_pnl |-> 0,
     positions |-> [a \in ASSETS |-> [quantity |-> 0, cost |-> 0]],
     trade_count |-> 0, trade_log |-> <<>>,
     recent_fills |-> [i \in 0 .. RECENT_FILLS - 1 |-> BlankFill]]

OpenedAccount ==
    [BlankAccount EXCEPT !.opened = TRUE, !.usdc = START_USDC,
                         !.start_equity = START_USDC]

-----------------------------------------------------------------------------
(* Prices *)

Distance(x, y) == IF x >= y THEN x - y ELSE y - x

\* The mantissa and the decimal exponent of an oracle price as whole cents.
price_to_cents(price, exponent) ==
    IF exponent >= 0
    THEN price * 10^exponent * 100
    ELSE (price * 100) \div 10^(-exponent)

SlippageWithin(actual, expected, max_bps) ==
    Distance(actual, expected) * BPS <= expected * max_bps

\* Slip (see TradeIsFair): a buy is rounded in the buyer's favour.
NotionalRoundedDown(side, price, size) == (price * size) \div LOT

\* Buys round up, sells round down.
notional(side, price, size) ==
    (price * size + (IF side = "buy" THEN LOT - 1 ELSE 0)) \div LOT

fee_cents(gross) == (gross * FEE_BPS + BPS - 1) \div BPS

-----------------------------------------------------------------------------
(* One trade *)

\* What a fill is charged or pays before its fee.
GrossOf(fill) == notional(fill.side, fill.price, fill.size)

PricedFill(order, price, at, time) ==
    [asset |-> order.asset, side |-> order.side, price |-> price,
     size |-> order.size,
     fee |-> fee_cents(notional(order.side, price, order.size)),
     price_at |-> at, executed_at |-> time]

\* Slip (see BooksBalance): the cost is kept per milli-unit.
SoldCostPerUnit(position, size) == (position.cost \div position.quantity) * size

\* The part of a position's cost that a sale takes out.
sold_cost(position, size) == (position.cost * size) \div position.quantity

Bought(account, fill) ==
    LET a        == fill.asset
        total    == GrossOf(fill) + fill.fee
        position == account.positions[a]
    IN  [account EXCEPT
            !.usdc = @ - total,
            !.positions[a] = [quantity |-> position.quantity + fill.size,
                              cost     |-> position.cost + total]]

Sold(account, fill) ==
    LET a        == fill.asset
        proceeds == GrossOf(fill) - fill.fee
        position == account.positions[a]
        released == sold_cost(position, fill.size)
    IN  [account EXCEPT
            !.usdc = @ + proceeds,
            !.positions[a] = [quantity |-> position.quantity - fill.size,
                              cost     |-> position.cost - released],
            !.realized_pnl = @ + proceeds - released]

\* Slip (see SnapshotIsRecent): the count is raised before the slot is taken.
RecordedAhead(account, fill) ==
    [account EXCEPT
        !.recent_fills[(account.trade_count + 1) % RECENT_FILLS] = fill,
        !.trade_log = Append(@, fill),
        !.trade_count = @ + 1]

\* The fill enters the ring and the hash chain.
Recorded(account, fill) ==
    [account EXCEPT
        !.recent_fills[account.trade_count % RECENT_FILLS] = fill,
        !.trade_log = Append(@, fill),
        !.trade_count = @ + 1]

Traded(account, fill) ==
    Recorded(IF fill.side = "buy" THEN Bought(account, fill)
                                  ELSE Sold(account, fill), fill)

\* Slip (see TypeOK): the last milli-unit is sold twice.
CoveredLoosely(account, fill) ==
    LET position == account.positions[fill.asset]
    IN  IF fill.side = "buy"
        THEN account.usdc >= GrossOf(fill) + fill.fee
        ELSE position.quantity > 0 /\ position.quantity + 1 >= fill.size

\* The portfolio has the cash, or the inventory, that the fill takes.
Covered(account, fill) ==
    IF fill.side = "buy"
    THEN account.usdc >= GrossOf(fill) + fill.fee
    ELSE account.positions[fill.asset].quantity >= fill.size

\* Every checked addition and conversion of the trade succeeds.
Representable(account, fill) ==
    LET after    == Traded(account, fill)
        position == after.positions[fill.asset]
    IN  /\ Fits(GrossOf(fill)) /\ Fits(fill.fee)
        /\ fill.side = "buy" =>
             /\ Fits(GrossOf(fill) + fill.fee)
             /\ Fits(position.quantity) /\ Fits(position.cost)
        /\ fill.side = "sell" =>
             /\ fill.fee <= GrossOf(fill)
             /\ Fits(after.usdc)
             /\ after.realized_pnl \in -(U64 \div 2) .. (U64 \div 2) - 1

-----------------------------------------------------------------------------
(* The browser's reading of the account *)

\* paperAccountToSnapshot: the ring, newest fill first, with the numbers the
\* fills have in the history.
Snapshot(account) ==
    LET count == account.trade_count
        shown == IF count < RECENT_FILLS THEN count ELSE RECENT_FILLS
    IN  [k \in 1 .. shown |->
            [id   |-> count - (k - 1),
             fill |-> account.recent_fills[(count - k) % RECENT_FILLS]]]
=============================================================================
