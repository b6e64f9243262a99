---------------------------- MODULE Leaderboards ----------------------------
(***************************************************************************)
(* The leaderboards (community-pages.tsx): settled ranked runs by week or  *)
(* of all time (ranked-repository.ts), and paper portfolios at the prices  *)
(* of the oracle (paper-repository.ts, paper-ranking.ts).                  *)
(*                                                                         *)
(* A load reads all accounts of the program, in no particular order, and   *)
(* its answer comes at any later time.  The bytes of an account are        *)
(* modelled by whether they are genuine: owner, size, discriminator,       *)
(* derived address.  Times are in weeks.                                   *)
(***************************************************************************)
EXTENDS Integers, Sequences, FiniteSets, Sums

CONSTANTS
    RUN_ACCOUNTS,    \* accounts that may come to be, in any of their states
    PORTFOLIOS,      \* paper accounts
    ORACLES,         \* what the price accounts may hold, by asset
    FIRST_ORACLE,    \* what they hold first
    FIRST_WEEK, LAST_WEEK,   \* bounds on the weeks
    MAX_REQUESTS     \* bound on the loads of either board

ASSUME LeaderboardsAssumption ==
    FIRST_ORACLE \in ORACLES /\ FIRST_WEEK \in Nat /\ LAST_WEEK \in Nat

\* A run starts with the program's funds.
ASSUME RunAccountsAssumption ==
    \A a \in RUN_ACCOUNTS :
        /\ {a.address, a.equity, a.start, a.drawdown, a.finalized}
             \subseteq Int
        /\ a.score \in Nat
        /\ a.genuine /\ a.status = "SETTLED" => a.start > 0

\* A wallet has one paper account.
ASSUME PortfoliosAssumption ==
    /\ IsFiniteSet(PORTFOLIOS)
    /\ \A p, q \in PORTFOLIOS : p.wallet = q.wallet => p = q
    /\ \A p \in PORTFOLIOS :
         /\ {p.wallet, p.usdc, p.start, p.updated} \subseteq Int
         /\ p.trades \in Nat
         /\ IsFiniteSet(DOMAIN p.quantity)
         /\ \A a \in DOMAIN p.quantity :
              p.quantity[a] \in Int /\ \A o \in ORACLES : o[a].cents \in Int

RUN_SCHEMA == 1

ORACLE_MAX_AGE == 30

RUN_LENGTH == 60

HIGHEST_SCORE == 10000

VARIABLES
    chain,           \* the ranked-run accounts of the program
    prices,          \* its oracle's price accounts
    week,            \* the week that it is
    tab,             \* [live, section, period]: live is, active on devnet
    rows, loading, failed,                    \* the strategy board
    paper_rows, paper_loading, paper_failed,  \* the paper board
    loads, paper_loads,                       \* requests under way
    requests                                  \* how many there were

strategyBoard == <<rows, loading, failed, loads>>

paperBoard == <<paper_rows, paper_loading, paper_failed, paper_loads>>

boardVars == <<chain, prices, week, tab, strategyBoard, paperBoard, requests>>

NoBoard == [entries |-> <<>>, excluded |-> -1]

BoardInit ==
    /\ chain = {} /\ prices = FIRST_ORACLE /\ week = FIRST_WEEK
    /\ tab = [live |-> FALSE, section |-> "strategy", period |-> "weekly"]
    /\ rows = <<>> /\ loading = FALSE /\ failed = FALSE
    /\ paper_rows = NoBoard /\ paper_loading = FALSE /\ paper_failed = FALSE
    /\ loads = {} /\ paper_loads = {} /\ requests = 0

-----------------------------------------------------------------------------
(* Ranking settled runs *)

decodeSettledRankedRecord(accounts) ==
    {a \in accounts :
        /\ a.genuine
        /\ a.status = "SETTLED" /\ a.schema = RUN_SCHEMA
        /\ a.tick = RUN_LENGTH
        /\ a.finalized > 0 /\ a.started > 0
        /\ a.score <= HIGHEST_SCORE /\ a.start > 0}

\* Division of BigInts: towards zero.
quotient(a, b) == IF a < 0 THEN -((-a) \div b) ELSE a \div b

pnlBps(r) == quotient((r.equity - r.start) * 10000, r.start)

\* The first difference decides.
earlier(a, b) ==
    \E i \in DOMAIN a :
        a[i] < b[i] /\ \A j \in 1 .. i - 1 : a[j] = b[j]

compare(a, b) ==
    earlier(<<-a.score, -pnlBps(a), a.drawdown, a.finalized, a.address>>,
            <<-b.score, -pnlBps(b), b.drawdown, b.finalized, b.address>>)

\* Slip (see BoardRanksBest): of equal scores, the first that was listed.
ByScore(a, b) == a.score > b.score

Better(a, b) == compare(a, b)

ofPeriod(records, period) ==
    {r \in records : period = "all-time" \/ r.finalized >= week}

Take(best, r) ==
    LET previous == {b \in best : b.authority = r.authority}
    IN  IF \A b \in previous : Better(r, b)
        THEN (best \ previous) \cup {r} ELSE best

\* The Map of the best record by wallet, record by record.
bestByWallet(records) ==
    LET best[i \in 0 .. Len(records)] ==
            IF i = 0 THEN {} ELSE Take(best[i - 1], records[i])
    IN  best[Len(records)]

\* sort: each member in the place that as many others precede.
sorted(S, before) ==
    [i \in 1 .. Cardinality(S) |->
        CHOOSE x \in S : Cardinality({y \in S : <<y, x>> \in before}) = i - 1]

rankSettledRuns(records) ==
    LET best == bestByWallet(records)
    IN  sorted(best, {p \in best \X best : compare(p[1], p[2])})

-----------------------------------------------------------------------------
(* Ranking portfolios *)

freshPrice(oracle) ==
    /\ oracle.genuine
    /\ oracle.cents > 0
    /\ oracle.age \in -ORACLE_MAX_AGE .. ORACLE_MAX_AGE

Priced(p, oracle) ==
    \A a \in DOMAIN p.quantity : p.quantity[a] # 0 => freshPrice(oracle[a])

entryOf(p, oracle) ==
    LET held == {a \in DOMAIN p.quantity : p.quantity[a] # 0}
        worth == [a \in held |->
                     (p.quantity[a] * oracle[a].cents) \div 1000]
        equity == p.usdc + SumOver(worth, held)
    IN  [wallet |-> p.wallet, equity |-> equity,
         returnBps |-> quotient((equity - p.start) * 10000, p.start),
         trades |-> p.trades, updated |-> p.updated]

compareEntries(a, b) ==
    earlier(<<-a.returnBps, -a.equity, -a.updated, a.wallet>>,
            <<-b.returnBps, -b.equity, -b.updated, b.wallet>>)

\* Portfolios that never traded are left out, those without a price counted.
rankPaperPortfolios(oracle) ==
    LET traded == {p \in PORTFOLIOS : p.trades # 0}
        ranked == {p \in traded : Priced(p, oracle) /\ p.start > 0}
        entries == {entryOf(p, oracle) : p \in ranked}
    IN  [entries |->
             sorted(entries, {p \in entries \X entries :
                                 compareEntries(p[1], p[2])}),
         excluded |-> Cardinality(traded \ ranked)]

-----------------------------------------------------------------------------
(* The chain *)

\* An account is created or changes; a settled run is final.
AccountChanges ==
    \E a \in RUN_ACCOUNTS \ chain :
        /\ \A c \in chain : c.address = a.address => c.status # "SETTLED"
        /\ a.finalized <= week
        /\ chain' = {c \in chain : c.address # a.address} \cup {a}
        /\ UNCHANGED <<prices, week, tab, strategyBoard, paperBoard, requests>>

PricesChange ==
    /\ prices' \in ORACLES \ {prices}
    /\ UNCHANGED <<chain, week, tab, strategyBoard, paperBoard, requests>>

WeekEnds ==
    /\ week < LAST_WEEK
    /\ week' = week + 1
    /\ UNCHANGED <<chain, prices, tab, strategyBoard, paperBoard, requests>>

-----------------------------------------------------------------------------
(* The page *)

\* refreshStrategy: the period is the one of the render that asks.
refreshStrategy(shown) ==
    /\ requests < MAX_REQUESTS /\ requests' = requests + 1
    /\ loads' = loads \cup {[id |-> requests', period |-> shown.period,
                             read |-> FALSE, accounts |-> {}]}
    /\ loading' = TRUE /\ failed' = FALSE
    /\ UNCHANGED <<rows, paperBoard>>

refreshPaper ==
    /\ requests < MAX_REQUESTS /\ requests' = requests + 1
    /\ paper_loads' = paper_loads \cup {requests'}
    /\ paper_loading' = TRUE /\ paper_failed' = FALSE
    /\ UNCHANGED <<paper_rows, strategyBoard>>

\* The effects of a render: the board that is looked at is loaded.
Refreshes(shown) ==
    IF ~shown.live
    THEN UNCHANGED <<strategyBoard, paperBoard, requests>>
    ELSE IF shown.section = "strategy" THEN refreshStrategy(shown)
    ELSE refreshPaper

\* Another page or cluster, section or period is chosen.
TabChanged ==
    /\ \/ tab' = [tab EXCEPT !.live = ~@]
       \/ tab' = [tab EXCEPT !.section =
                      IF @ = "paper" THEN "strategy" ELSE "paper"]
       \/ /\ tab.section = "strategy"
          /\ tab' = [tab EXCEPT !.period =
                         IF @ = "weekly" THEN "all-time" ELSE "weekly"]
    /\ Refreshes(tab')
    /\ UNCHANGED <<chain, prices, week>>

\* The refresh button, or the paper board's interval.
RefreshClicked ==
    /\ tab.live
    /\ Refreshes(tab)
    /\ UNCHANGED <<chain, prices, week, tab>>

LoadReads(load) ==
    /\ ~load.read
    /\ loads' = (loads \ {load}) \cup
         {[load EXCEPT !.read = TRUE, !.accounts = chain]}
    /\ UNCHANGED <<chain, prices, week, tab, rows, loading, failed, paperBoard,
                   requests>>

\* The accounts come in any order, and are ranked by the load's own period.
\* There is no check that a later load was answered before.
LoadReturns(load) ==
    /\ load.read
    /\ loads' = loads \ {load}
    /\ LET eligible == ofPeriod(decodeSettledRankedRecord(load.accounts),
                                load.period)
       IN  \E records \in Bijection(1 .. Cardinality(eligible), eligible) :
              rows' = rankSettledRuns(records)
    /\ loading' = FALSE
    /\ UNCHANGED <<chain, prices, week, tab, failed, paperBoard, requests>>

LoadFails(load) ==
    /\ loads' = loads \ {load}
    /\ failed' = TRUE /\ loading' = FALSE
    /\ UNCHANGED <<chain, prices, week, tab, rows, paperBoard, requests>>

PaperLoadReturns(load) ==
    /\ paper_loads' = paper_loads \ {load}
    /\ paper_rows' = rankPaperPortfolios(prices)
    /\ paper_loading' = FALSE
    /\ UNCHANGED <<chain, prices, week, tab, paper_failed, strategyBoard,
                   requests>>

PaperLoadFails(load) ==
    /\ paper_loads' = paper_loads \ {load}
    /\ paper_failed' = TRUE /\ paper_loading' = FALSE
    /\ UNCHANGED <<chain, prices, week, tab, paper_rows, strategyBoard,
                   requests>>

BoardNext ==
    \/ AccountChanges \/ PricesChange \/ WeekEnds
    \/ TabChanged \/ RefreshClicked
    \/ \E load \in loads :
          LoadReads(load) \/ LoadReturns(load) \/ LoadFails(load)
    \/ \E load \in paper_loads : PaperLoadReturns(load) \/ PaperLoadFails(load)

BoardSpec == BoardInit /\ [][BoardNext]_boardVars

-----------------------------------------------------------------------------
(* Properties *)

\* docs/pitch/06-leaderboard.md:11, what a run must be to be displayed.
Eligible(a, period) ==
    /\ a.genuine /\ a.status = "SETTLED" /\ a.tick = RUN_LENGTH
    /\ a.schema = RUN_SCHEMA /\ a.score \in 0 .. HIGHEST_SCORE
    /\ a.finalized > 0 /\ a.started > 0
    /\ period = "weekly" => a.finalized >= week

\* docs/pitch/06-leaderboard.md:25, the ranking order.
Beats(a, b) ==
    \/ a.score > b.score
    \/ a.score = b.score /\ pnlBps(a) > pnlBps(b)
    \/ /\ a.score = b.score /\ pnlBps(a) = pnlBps(b)
       /\ \/ a.drawdown < b.drawdown
          \/ a.drawdown = b.drawdown /\ a.finalized < b.finalized
          \/ /\ a.drawdown = b.drawdown /\ a.finalized = b.finalized
             /\ a.address < b.address

RanksBestOf(board, load) ==
    LET eligible == {a \in load.accounts : Eligible(a, load.period)}
        ranked == {board[i] : i \in DOMAIN board}
    IN  /\ ranked = {a \in eligible : \A b \in eligible :
                        b.authority = a.authority => ~Beats(b, a)}
        /\ \A i, j \in DOMAIN board : i < j => Beats(board[i], board[j])

\* "Only the best eligible run per wallet is ranked": in whatever order the
\* accounts are listed, a board shows each wallet's best run, by the
\* documented order, of what one load has read; and a paper board accounts
\* for every portfolio that has traded.
BoardsRankBest ==
    /\ rows' # rows =>
         \E load \in loads : load.read /\ RanksBestOf(rows', load)
    /\ paper_rows' # paper_rows =>
         LET entries == paper_rows'.entries
         IN  /\ Len(entries) + paper_rows'.excluded =
                  Cardinality({p \in PORTFOLIOS : p.trades > 0})
             /\ \A i, j \in DOMAIN entries :
                  i < j => entries[i].returnBps >= entries[j].returnBps

BoardRanksBest == [][BoardsRankBest]_boardVars
=============================================================================
