---------------------------- MODULE PaperHistory ----------------------------
(***************************************************************************)
(* The desk's chart of the portfolio (paper-analytics.ts): it knows the    *)
(* account as it is and the fills of the ring, and rebuilds what the       *)
(* account held at an earlier time by undoing the fills whose price was    *)
(* published after it.  What those holdings were worth is left out.        *)
(***************************************************************************)
EXTENDS PaperPortfolio

\* Math.round(price * size / 1000)
costOf(fill) == (2 * fill.price * fill.size + LOT) \div (2 * LOT)

signOf(fill) == IF fill.side = "buy" THEN 1 ELSE -1

\* What a fill adds to the position in an asset.
Moved(fill, a) == IF fill.asset = a THEN signOf(fill) * fill.size ELSE 0

\* Slip (see HistoryUndoesTrades): the fills as the ring has them, not sorted,
\* down to the first one that is no later.
LaterInRing(account, t) ==
    LET trades == Snapshot(account)
    IN  {k \in DOMAIN trades : \A j \in 1 .. k : trades[j].fill.price_at > t}

\* The trades sorted by at, newest first, down to the first one that is no
\* later: a trade's at is the time its price was published.
Later(account, t) ==
    LET trades == Snapshot(account)
    IN  {k \in DOMAIN trades : trades[k].fill.price_at > t}

\* The holdings at a point of the chart.  The fees are not given back.
portfolioHistory(account, t) ==
    LET later == Later(account, t)
        trade(k) == Snapshot(account)[k].fill
    IN  [cash |-> account.usdc
                    + SumOver([k \in later |->
                                 signOf(trade(k)) * costOf(trade(k))], later),
         quantity |-> [a \in ASSETS |->
             account.positions[a].quantity
               - SumOver([k \in later |-> Moved(trade(k), a)], later)]]

-----------------------------------------------------------------------------
(* Property *)

\* What the program takes from cash for a fill.
Paid(fill) == signOf(fill) * GrossOf(fill) + fill.fee

\* A portfolio that made these fills of a history, and no others.
CashAfter(log, made) ==
    START_USDC - SumOver([i \in made |-> Paid(log[i])], made)

QuantityAfter(log, made, a) ==
    SumOver([i \in made |-> Moved(log[i], a)], made)

FeesOf(log, made) == SumOver([i \in made |-> log[i].fee], made)

PublishedAfter(log, t) == {i \in DOMAIN log : log[i].price_at > t}

UndoesTrades(account, t) ==
    LET log     == account.trade_log
        later   == PublishedAfter(log, t)
        made    == DOMAIN log \ later
        rebuilt == portfolioHistory(account, t)
    IN  /\ \A a \in ASSETS : rebuilt.quantity[a] = QuantityAfter(log, made, a)
        /\ CashAfter(log, made) - rebuilt.cash - FeesOf(log, later)
             \in 0 .. Cardinality(later)

\* The fills that were executed by a time, but for those around it.
NearlyExecutedBy(log, made, t) ==
    \A i \in DOMAIN log :
        /\ log[i].executed_at + MAX_LEAD <= t => i \in made
        /\ i \in made => log[i].executed_at <= t + MAX_AGE

\* No fill that the ring has lost is later than t.
Covers(account, t) ==
    LET log == account.trade_log
    IN  \A i \in PublishedAfter(log, t) : i > Len(log) - RECENT_FILLS

\* paper-analytics.ts:31, "rebuilds the portfolio at each price point": from
\* the ring and the account alone, in whatever order prices of several markets
\* were traded on and however often the ring was overwritten, a point that is
\* not older than the ring has every position, and the cash but for the fees
\* paid since and a cent per trade, both against the owner, of a portfolio
\* that made the fills published by then.  They are the fills executed by
\* then, but for fills made at older prices in the MAX_AGE that follows.
HistoryUndoesTrades ==
    \A w \in Opened : \A t \in 0 .. now :
        LET log == portfolios[w].trade_log
        IN  Covers(portfolios[w], t) =>
                /\ UndoesTrades(portfolios[w], t)
                /\ NearlyExecutedBy(log, DOMAIN log \ PublishedAfter(log, t),
                                    t)
=============================================================================
