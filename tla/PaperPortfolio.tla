--------------------------- MODULE PaperPortfolio ---------------------------
(***************************************************************************)
(* The paper exchange of the Result Registry: the exchange's and the       *)
(* markets' configuration, and one portfolio per wallet that only its      *)
(* owner trades, at the price of a posted oracle update.                   *)
(***************************************************************************)
EXTENDS PaperBook, FiniteSets, Sums

CONSTANTS
    WALLETS,
    FEEDS,             \* oracle feeds an admin may name
    NoFeed,            \* the all-zero feed id
    MAX_AGE,           \* time after which an update is too old to trade on
    MAX_LEAD,          \* how far the oracle's clock is ahead of the cluster's
    PriceUpdates,      \* updates that the oracle publishes
    Orders,            \* orders the owners sign
    MAX_TRADES,        \* bound on the trades of one portfolio
    MAX_TIME           \* bound on the cluster's clock

ASSUME PortfolioAssumption ==
    /\ IsFiniteSet(ASSETS)
    /\ NoFeed \notin FEEDS
    /\ MAX_AGE \in Nat /\ MAX_LEAD \in Nat
    /\ MAX_TRADES \in Nat /\ MAX_TIME \in Nat
    /\ PriceUpdates \subseteq
         [feed : FEEDS, price : Int, exponent : Int, at : Nat]
    /\ Orders \subseteq
         [asset : ASSETS, side : Sides, size : Nat, expected : Nat,
          max_bps : Nat]

NoAdmin == "no admin"

VARIABLES
    admin,        \* who initialized the exchange
    feeds,        \* the feed of each configured market
    portfolios,   \* the accounts, by owner
    now           \* the cluster's clock

programVars == <<admin, feeds, portfolios, now>>

ProgramInit ==
    /\ admin = NoAdmin
    /\ feeds = [a \in ASSETS |-> NoFeed]
    /\ portfolios = [w \in WALLETS |-> BlankAccount]
    /\ now = 0

\* initialize_paper_exchange: the config account is created once.
InitializePaperExchange(w) ==
    /\ admin = NoAdmin
    /\ admin' = w
    /\ UNCHANGED <<feeds, portfolios, now>>

\* configure_paper_market: a market account is created once.
ConfigurePaperMarket(w, a, feed) ==
    /\ admin = w
    /\ feeds[a] = NoFeed
    /\ feed # NoFeed
    /\ feeds' = [feeds EXCEPT ![a] = feed]
    /\ UNCHANGED <<admin, portfolios, now>>

\* open_portfolio
OpenPortfolio(w) ==
    /\ ~portfolios[w].opened
    /\ portfolios' = [portfolios EXCEPT ![w] = OpenedAccount]
    /\ UNCHANGED <<admin, feeds, now>>

\* Nothing can be signed by the oracle before it is published.
Published(update) == update.at <= now + MAX_LEAD

\* get_price_no_older_than, and the range of exponents.  Of several updates
\* of a feed that are recent enough the trader may take an older one.
Usable(update, a) ==
    /\ update.feed = feeds[a]
    /\ update.at + MAX_AGE >= now
    /\ update.price > 0
    /\ update.exponent \in -18 .. 18
    /\ Fits(price_to_cents(update.price, update.exponent))

ValidOrder(order) == order.size > 0 /\ order.expected > 0

\* The fill that the program makes of an order.
FillOf(order, update) ==
    PricedFill(order, price_to_cents(update.price, update.exponent),
               update.at, now)

TradeAllowed(w, order, update) ==
    LET fill == FillOf(order, update)
    IN  /\ portfolios[w].opened
        /\ admin # NoAdmin
        /\ ValidOrder(order)
        /\ Published(update) /\ Usable(update, order.asset)
        /\ SlippageWithin(fill.price, order.expected, order.max_bps)
        /\ Covered(portfolios[w], fill)
        /\ Representable(portfolios[w], fill)

\* trade_portfolio, signed by the owner.
TradePortfolio(w, order, update) ==
    /\ portfolios[w].trade_count < MAX_TRADES
    /\ TradeAllowed(w, order, update)
    /\ portfolios' =
         [portfolios EXCEPT ![w] = Traded(@, FillOf(order, update))]
    /\ UNCHANGED <<admin, feeds, now>>

TimePasses ==
    /\ now < MAX_TIME
    /\ now' = now + 1
    /\ UNCHANGED <<admin, feeds, portfolios>>

ProgramNext ==
    \/ \E w \in WALLETS : InitializePaperExchange(w)
    \/ \E w \in WALLETS, a \in ASSETS, feed \in FEEDS :
          ConfigurePaperMarket(w, a, feed)
    \/ \E w \in WALLETS : OpenPortfolio(w)
    \/ \E w \in WALLETS, order \in Orders, update \in PriceUpdates :
          TradePortfolio(w, order, update)
    \/ TimePasses

ProgramSpec == ProgramInit /\ [][ProgramNext]_programVars

-----------------------------------------------------------------------------
(* Properties *)

\* Every account keeps its layout, and no amount falls below zero: the u64
\* fields of paper_account.rs.
TypeOK ==
    /\ admin \in WALLETS \cup {NoAdmin}
    /\ feeds \in [ASSETS -> FEEDS \cup {NoFeed}]
    /\ portfolios \in [WALLETS -> Account]
    /\ now \in Nat

Opened == {w \in WALLETS : portfolios[w].opened}

\* Cash, the cost of all positions and realized profit account for every cent
\* that the portfolio was opened with, fees included; and a position that was
\* sold in however many parts leaves no cost behind: the rounding of every
\* part comes out again with the last one.
BooksBalance ==
    \A w \in Opened :
        LET account == portfolios[w]
            costs   == [a \in ASSETS |-> account.positions[a].cost]
        IN  /\ account.usdc + SumOver(costs, ASSETS) - account.realized_pnl =
                 account.start_equity
            /\ \A a \in ASSETS :
                 account.positions[a].quantity = 0 => costs[a] = 0

\* What the browser reads from the ring is the end of the history that the
\* hash chain commits to, newest first and with its numbers, however often
\* the ring was overwritten.
SnapshotIsRecent ==
    \A w \in WALLETS :
        LET shown   == Snapshot(portfolios[w])
            history == portfolios[w].trade_log
        IN  \A k \in DOMAIN shown :
                /\ shown[k].id = Len(history) - (k - 1)
                /\ shown[k].fill = history[shown[k].id]

\* Holdings of one asset and all cash at a price, in cents per LOT.
WorthAt(account, a, price) ==
    account.usdc * LOT + account.positions[a].quantity * price

\* What one step may do to an open portfolio: nothing, or append one fill to
\* its history.  The fill moves its own position only, keeps the books, and
\* costs its owner at least the fee: no rounding gains anything at the price
\* that was traded on.
FairStep(before, after) ==
    \/ after = before
    \/ LET fill == after.trade_log[Len(after.trade_log)]
       IN  /\ after.trade_log = Append(before.trade_log, fill)
           /\ \A a \in ASSETS \ {fill.asset} :
                  after.positions[a] = before.positions[a]
           /\ after.usdc + after.positions[fill.asset].cost
                - after.realized_pnl =
              before.usdc + before.positions[fill.asset].cost
                - before.realized_pnl
           /\ WorthAt(after, fill.asset, fill.price) + fill.fee * LOT <=
              WorthAt(before, fill.asset, fill.price)

TradesAreFair ==
    \A w \in WALLETS :
        portfolios[w].opened => FairStep(portfolios[w], portfolios[w]')

\* A portfolio, once open, is changed by nothing but fair trades.
TradeIsFair == [][TradesAreFair]_programVars
=============================================================================
