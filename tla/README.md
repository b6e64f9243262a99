# SpreadForge in TLA+

SpreadForge is a trading simulator on Solana devnet: two Anchor programs keep
the money and the results, MagicBlock Ephemeral Rollups (ER) run the parts
that need many small transactions, and a Next.js application reads and drives
them from the browser. This directory specifies the parts whose correctness
does not follow from one function at a time, checks them with TLC on small
instances and proves the most important results with TLAPS for all values of
the constants.

Paths below are relative to the repository; `lib.rs` is
`anchor/programs/forge-syndicates/src/lib.rs`.

## The system

| Component | State it keeps | Operations | What makes it hard |
|---|---|---|---|
| **Forge Syndicates program** (`lib.rs`) | fUSD mint, faucet receipts, pool, memberships, sessions on two layers, settlement receipts | faucet, create, deposit, withdraw, start, delegate, schedule expiry, trade, expire, finalize, settle | a pool is locked in one transaction and its session delegated in another; a session has a copy on each layer; settlement is permissionless; integer shares and fees |
| **Ranked runs program** (`vault/.../start_ranked_run.rs` and three more) | one account per run: book, score, counters | start, delegate, advance, finalize | orders stand over several ticks while fills change what pays for them; a tick that reverts once reverts for ever |
| **Ranked-run driver** (`app/lib/magicblock/ranked-run.ts`) | how far the browser believes the run is | start, one transaction per tick, finalize, wait for settlement | confirmations are lost, transactions land late, the session key expires, the base layer lags |
| **Paper exchange program** (`vault/.../trade_portfolio.rs` and three more) | exchange, markets, one portfolio per wallet | initialize, configure, open, trade | rounding of notional, fee and cost; a ring of recent fills beside a hash chain |
| **Paper hook and desk** (`use-paper-chain.ts`, `paper-trading-desk.tsx`, `paper.ts`) | what is on display, resting quotes, a fill under way | refresh, open, trade, place, cancel, fill | awaits that return after the wallet was switched, overlapping reads, sends that throw after they landed |
| **Market prices** (`app/api/market/[market]/route.ts`) | none | oracle price to cents | the same conversion exists twice, on chain and in the browser |
| **Verified sessions and their runtime** (`initialize_session.rs` and three more, `session.ts`, `runtime.ts`) | tick counter and state hash on two layers; the runtime's mode and last known state | initialize, delegate, advance, finalize; start, step, settle | a call may fail before or after its transaction landed, and the run then goes on locally |
| **Simulation engine and score** (`engine.ts`, `score.ts`) | a simulation's book, orders and counters | create, place orders, step, score | the same rules exist twice, in Rust and in TypeScript, with different rounding |
| **Ranked strategy lab** (`ranked-strategy-lab.tsx`, `app/page.tsx`) | controls, the run on display, its debrief | choose, start, be called back, close, be replaced by the page | a run goes on after the lab that started it is gone, and a second may be started while the first is prepared |
| **Browser strategy lab, history, registry** (`simulation-lab.tsx`, `storage.ts`, `registry.ts`, `submit_result.rs`) | the running simulation, its debrief, the records in localStorage, result accounts | play, step, choose, finish, publish | hashing and sending outlive the dialog that began them, and a dialog may be opened again; the history has a limit |
| **Leaderboards** (`community-pages.tsx`, `ranked-repository.ts`, `paper-repository.ts`, `paper-ranking.ts`) | both boards on display, their loads under way | load, switch tab, rank | loads overlap; which accounts count, and in which order |
| **Syndicates client** (`app/lib/syndicates`, `use-syndicates.ts`) | listed syndicates | build transactions, list | refreshes without a guard |
| **Paper analytics** (`paper-analytics.ts`) | none | rebuild earlier holdings from the ring of fills | the ring holds the newest fills only, in the order of their execution; the chart cuts them by the time at which their price was published |
| Charts, generated clients, pages, wallet adapters, scripts | | | presentation, adapters or one-shot tools |

The browser talks to the programs by transactions and account reads only. The
programs never call each other; both call MagicBlock's programs to delegate,
to schedule and to commit accounts, and the SPL Token program (Syndicates) and
Pyth accounts (Syndicates, paper exchange). `PROJECT.json` names every
component with its status, and the hazards of this code, each at its line.

## Modules

Each component has its own stack: pure arithmetic, then the state machine,
then what is proved of it.

```
Sums <- Syndicate, PaperPortfolio, PaperHistory, Leaderboards, SumsProofs

SyndicateMath <- SyndicateSession <- Syndicate <- SyndicateProperties <-
MCSyndicate BackedPool (abstract) <-(INSTANCE)------------------/
SyndicateProperties, SumsProofs <- SyndicateProofs <- SyndicateSafetyProofs

RankedRunBook <- RankedRun <- EngineParity <- MCRankedRun
                     |            |-(INSTANCE) BrowserEngine
                     |            \- RankedRunProofs <- RankedRunDriverProofs
                     \- RankedRunDriver <- RankedRunDriverProofs

BrowserEngine <- SessionRuntime -(INSTANCE) LocalRuntime (abstract)
    \- StrategyLab

Workspaces EXTENDS RankedRunDriver, SessionRuntime, RankedLab, StrategyLab,
Leaderboards MCWorkspaces EXTENDS Workspaces, MCLeaderboards SessionRuntime,
RankedLab, StrategyLab, Leaderboards, SumsProofs <- WorkspacesProofs

PaperBook <- PaperPortfolio <- PaperChain <- MCPaperChain
    |              |               \- PaperChainProofs
    |              |- PaperHistory <- MCPaperPortfolio
    |              |       \- PaperPortfolioProofs (with SumsProofs) <- PaperChainProofs
    \- PaperPrices <- MCPaperPrices
```

**Sums** is the sum of a function over a finite set, with which the properties
say what a total in one account has to come to.

**SyndicateMath** is the arithmetic at the end of `lib.rs`: shares for a
deposit, tokens for a withdrawal, the price conversion, slippage, the
settlement of a session with its fee. Results that a `u64` cannot hold make
the instruction fail; `as u64` casts keep the low bits (`truncated`).

**SyndicateSession** is one session account: what `trade`, `expire_session`
and `finalize_session` do to it and when they refuse.

**Syndicate** composes them with wallets, mint, vault, pool, memberships, and
with the two layers: `place[n]` says whether session `n` is absent, on the
base layer, on the ER, or between its finalization and the commit; `base[n]`
and `er[n]` are the two copies. One action is one transaction. The environment
acts too: tokens are sent straight to the vault, the oracle publishes and
ages, time passes, scheduled tasks run, the ER commits.

**BackedPool** is what the pool promises: a fund that members enter and leave
at no better than the share price, locked while its stake is at risk, that
comes back having lost no more than the drawdown limit. `SyndicateProperties`
maps the vault, the shares and the running session's stake to it.

**RankedRunBook** and **RankedRun** are the run's order book, score and life
on both layers. The market of a run is seeded from the chain; the model takes
any noise, event and fill decision at every tick. The amounts of a run are far
below the limits of their integers, and widths are left out.

**BrowserEngine** is the browser's market simulation and score. A scenario
carries the outcomes of its seeded generator, and a simulation its orders; a
function gives the state after every tick. The score is a sum of exact
fractions that is rounded once, as in `score.ts`. **EngineParity** puts the
engine's definitions beside the program's: the same strategy in the same
market.

**RankedRunDriver** adds the browser. A transaction that was sent stays in
`flying` and may land at any later time or never; a send returns or throws
independently of that. The driver is the code between two awaits, and the
wallet's owner may act at any moment with the wallet's own key.

**SessionRuntime** is a verified session: the program's instructions on both
layers, the browser's `MagicBlockRuntime` with its fallback, and between them a
transport that sends the transactions of `session.ts` one by one and may throw
before or after any of them. A finalization may commit the account with its
old status or its new one, or be reverted: the source does not tell which (see
below). A state's hash is the state. **LocalRuntime** is
the contract that the runtime promises to keep, and which the local runtime
keeps by definition.

**RankedLab** is what the page shows of ranked runs. An action is the code
from one await to the next, and every run carries the lab that started it. The
user may act while a start is being prepared, as the code allows: change the
controls, or start a second run that calls back into the same lab.

**StrategyLab** is the browser's own lab: the engine on a timer, the debrief
with its hashing and publication, and the private history. The calls under way
are a set of records that any answer may come for at any time. A dismissed
debrief is opened again by "View results", which hashes and saves once more
while the calls of the dialog before it may still be under way.

**Leaderboards** is both boards: which accounts are decoded and counted, the
orders by which they rank, and the loads with the tab that each was started
for. The bytes of an account are modelled by whether they are genuine.

**Workspaces** puts the driver, the runtime, the two labs and the boards into
one page. They share no state: the driver's account is of another program
module than the session's, and what the driver calls back with is all that the
lab knows of it. So one of them is followed at a time, and `subject` names it;
interleaving them would multiply their states and show nothing of either.

**PaperBook** and **PaperPortfolio** are the portfolio's arithmetic, its
instructions, and the snapshot that the browser takes of it. There is a clock:
an update carries the time it was published at, a fill that time and the time
of its execution, and trades may be made on updates in another order than
they were published in, until they are too old. The hash over all fills is
modelled by the sequence of fills that it commits to.

**PaperChain** is the browser's side: an action is the code from one await to
the next with the render and effects that follow. Every refresh carries the
number and the owner it was started with, every transaction the wallet, the
address and the quote of its closure. The market moves freely, so any resting
quote may be the one that is crossed. Ledger steps are the actions of
PaperPortfolio.

**PaperHistory** is the desk's chart of past holdings, rebuilt by undoing those
fills of the ring whose price was published after the point. What the holdings
were worth then (`paper-analytics.ts:56`) is left out.

**PaperPrices** compares the cents on display with the cents that the program
trades at.

A definition that begins with "Slip" in its comment is a plausible mistake in
the operator below or above it; no specification uses it. It documents which
bug a property would catch, and `PROJECT.json` lists each property with the
slip that breaks it.

## Runs

| Run | Shows | Bounds |
|---|---|---|
| `SyndicatePool` | the books agree with the accounts, fUSD is neither lost nor made twice, shares stay backed, nobody is diluted, and the pool implements `BackedPool` | two wallets, one session of two trades, amounts that do not divide evenly, one price that doubles or halves |
| `SyndicateSessions` | one open session at a time, settlement is always funded and applies what was frozen, fees only above the high-water mark | one wallet, two sessions, so that a loss, a recovery and a second fee occur |
| `SyndicateTrading` | a session's recorded figures agree with each other, and nothing changes after the freeze | two assets with moving, ageing prices around the expiry |
| `SyndicateLiveness` | a delegated session is settled without its trader; the scheduler alone ends its trading | one scheduled session |
| `RankedRunProgram` | no tick ever reverts, the books balance, a score is earned, a settled run is final, and the browser's engine trades the same run alike and scores it higher by what the ticks without an order cost | four ticks, four strategies (one is refused), three noises, three events, both fill decisions |
| `Workspaces` | *driver*: no tick is sent twice or reported untaken, a run is reported complete only with its final record, the driver always ends, its owner can finish what it left; *session*: what is reported as settled is on record, the runtime with its fallbacks implements `LocalRuntime`; *ranked lab*: all that a lab shows is of runs that were started in it, each tick once; *strategy lab*: the history holds finished runs only, with their own results, and calls committed what is on record; *leaderboards*: a board ranks every wallet by its best run | a driven run of four ticks, of which the owner may take all; a session of three; two ranked runs of two ticks from one lab or two, with two scenarios and one strategy; two simulations and three dialogs, with room for one in the history; two loads of each board around the end of a week |
| `PaperPortfolio` | the books balance to the cent and closed positions leave no cost, the ring and the history agree, no trade gains from rounding, and the chart's past holdings are those of the fills published by then, up to fees and a cent per trade | five trades through a ring of three, two markets, odd prices, three times, updates that are traded on late or in another order than they were published, and a malformed one |
| `PaperHook` | the display is a real state of the displayed address and never goes back, no quote is sent twice, every fill ends | two wallets, two switches, two transactions, four refreshes, two quotes |
| `SyndicateVanished` | *violated*: an open session that was never delegated is never settled | one session |
| `SyndicateDrawdown` | *violated*: trading stops at the drawdown limit | two assets, one crash |
| `PaperForeign` | *violated*: a portfolio at rest on display is the connected wallet's | two wallets |
| `PaperPrices` | *violated*: an order at the displayed price is traded at it | SOL and SHIB |

The scales (`BPS_SCALE`, `SHARE_SCALE`, `LOT`, the starting balances) are
parameters and small in most runs: with 10 for 10,000 basis points every
division still rounds, and rounding differences are a larger part of the
amounts than in the program, which makes them easier to reach. Two wallets are
enough for dilution (one gains, one loses), two sessions for everything that
relates a session to an earlier one, and a ring of three for wrapping around.
The bounds on counters (`MAX_TRADES` of a portfolio, `MAX_SWITCHES`,
`MAX_RUNS`, `MAX_READS`, `MAX_QUOTE_ID`, `MAX_OWNER_TICKS`, `MAX_STARTED`,
`MAX_MOUNTS`, `MAX_COMPLETED`, `MAX_SUBMITTED`, `MAX_OPENED`, `MAX_TIME`,
`MAX_REQUESTS`, `FIRST_WEEK`, `LAST_WEEK`, `Nonces`, `Amounts`, `Quantities`,
`Expectations`, `Scheduled`) are constants whose declaration names them as
bounds. `MAX_TRADES` of a session, `RUN_TICKS` and `MAX_DRAWDOWN_BPS` are
limits of the program itself. `LOCAL_RUN_LIMIT` is 100 in the code and one in
the run, so that a second record displaces the first. `MAX_AGE`, the 30
seconds for which an update may be traded on, is one step of time, and so is
`MAX_LEAD`, by which the oracle's clock may be ahead of the cluster's; the
code does not limit it, and the theorem holds for any. `SCORE_TOLERANCE` is
four hundredths of a point, which is what the program's integer divisions can
take: the profit's basis point, which counts two and a half hundredths, is
truncated before it is weighted, and so are the liquidity and the inventory;
no smaller bound is proved. Deadlock is not checked: users may stop at any
time, and every bounded counter comes to its bound.

## Fairness

No user action is fair. `ScheduledSpec` assumes that time passes and that the
MagicBlock scheduler runs a scheduled task. `SomebodyActs`, the hypothesis of
`DelegatedSessionSettles`, adds that the ER commits and that somebody sends
the calls that demand no particular signer (`finalize_session` of an expired
session and `settle_session`); settlement is strongly fair, because the trader
can delegate the committed account again before it is settled, and so disable
it for a while. `DriverGoesOn` says that the driver's awaits return or throw
and its polling loops reach their deadlines, which the code gives them.
`OwnerGoesOn` is what a rescue needs: the owner keeps sending ticks and the
finalization. `BrowserGoesOn` says that reads and sends end, in whatever way,
and that the user answers a wallet prompt that is on the screen.

## What is proved

All proofs are for any value of the constants under the assumptions that the
modules state (`MathAssumption`, `SessionAssumption`, `SyndicateAssumption`,
`BookAssumption`, `DriverAssumption`, `SessionRuntimeAssumption`,
`PaperAssumption`, `PortfolioAssumption`, `PaperChainAssumption`,
`RankedLabAssumption`, `StrategyLabAssumption`, `RunAccountsAssumption`,
`PortfoliosAssumption`): scales are positive, a fee is no more than the whole,
the drawdown limit is below it, the market's moves never take a ranked run's
price to zero, a session has one to sixty ticks, oracle updates are records of
integers, there is a wallet, the sets that are summed over (users, sessions,
assets) are finite, a genuine settled run began with money, and a wallet has
one paper account. `NothingIsNoState` says that the mark for "no state" is not
a state of the engine.

The library's induction takes the statement as an operator, which the provers
cannot instantiate. So induction is by contradiction: `SmallestNumber` and
`SmallestSubset` of `SumsProofs` give the least number or subset for which a
statement would fail. With it `SumsProofs` shows that a sum may be taken apart
at any element or part, counted and renumbered (`SumWithout`, `SumAdds`,
`SameSum`, `SumSplits`, `SumOfBoth`, `SumCounts`, `SumRenumbered`), and the
other modules that their recursive functions exist, are unique and satisfy
their equations (`SimulationRuns` and `RunEquation` of the engine,
`BestAreFirsts` of the boards).

*Syndicates.* `TypeCorrect` shows that every account keeps its layout and
every amount fits its `u64`. The safety proofs need a stronger invariant than
the properties themselves. `SafetyInv` adds three facts: a session never loses
more than the drawdown limit under its peak and its peak is at least its start
(`SessionInv`, from the check in `mark_equity`, with the rounding of the
drawdown in basis points), both copies agree on the starting equity; a session
lacks a receipt exactly while it is the pool's (`PairInv`); and a locked vault
still holds the stake (`PoolInv`). From it follow `SharesStayBacked`,
`SessionsPairUp` and `SettlementAlwaysFunded`; the drawdown limit below the
whole is what keeps a loss from emptying the vault. `SyndicateSafetyProofs` uses
the same invariant for the action properties: frozen sessions are final,
no step but a losing settlement lowers the value of a share (the lemmas at the
head of `SyndicateProofs` on the rounding of `mul_div` are the core), fees are
taken above the high-water mark only, and every step is a step of `BackedPool`
or leaves it unchanged. A part of the invariant says what a marked
session's equity, peak, drawdown and positions have to do with each other
(`SoundBook`), from which `SessionsAreSound` follows; `ReceiptsMatch` also uses
`FrozenStep`, that a session with a receipt is never changed but by
committing it once more.

The books are sums: `BooksInv` adds to `BooksAgree` and `FusdConserved` that a
session without a receipt has an empty one, so that settling adds its fee and
its result to the totals once, and that an absent pool is empty.

*Ranked runs.* The inductive invariant `Inv` says of both copies that their
standing orders are covered (`OrdersCovered`: the cash for the buy at its own
price, the inventory for the sell, and the room under the limit), that the
books balance, and how counters and status agree. `OrdersCovered` is what
`NoTickReverts` rests on: filling one side only ever leaves more of what the
other side needs. The books, the score and the finality follow.

`BrowserAgreesWithProgram` compares two programs. `TracedInv` says that a copy
that has not ticked is as the program started it, and a settled one has the
score of its fields. `EngineTakesTick` follows the browser's engine through
one tick beside the program (the same quote, fill and mark, by `SameBook`,
`SameFill` and `SameMark`; it uses that the program's orders are covered).
`EngineScores` is about any run, whatever ticks it was without an order at:
the two scores differ by `UnquotedCost`, what those ticks cost in the program
and not in the engine, give or take `SCORE_TOLERANCE`. Each part of the score
is bounded by itself (`ProfitInBand`, `InventoryInBand`, `SteadinessInBand`,
`LiquidityAndCost`), over a common denominator.

*The driver.* `DriverInv` counts: the advances still in flight and the ticks
that the account has are together no more than what the driver has asked for
and the owner has taken, and the account is never behind what the driver
counts. `DriverInStep` follows, and `CompleteIsOnRecord` from
the program's `Inv`: a run read as settled on the base layer is settled on
both, and a settled account takes nothing more.

*Verified sessions.* `RecordInv` says that once the transport has seen the
last tick executed, the account, on whichever layer it is, has all its ticks
and the hash that was sent with the last. No later tick exists, so neither the
owner nor a late transaction can change it: `SettledRunOnRecord`.
`RuntimeIsLocal` is the refinement of `LocalRuntime`. `ShownInv` says that
what the runtime shows is a state of the local run and which call may be made
in its mode; what is restored after a fallback is that run up to the last tick
seen (`RestoredIsReplayed`), so that every step is one of the local runtime or
shows nothing new.

*Ranked strategy lab.* `LabInv` says that the link, the result and every point
of the chart belong to the lab on the page (`OfThisLab`, `ChartOfThisLab`), that
no tick has two points (`PointPerTick`), and that the run of a result was
executed to its end (`Executed`), as one that is settling is. Whatever a run
calls back with, React drops it unless its own lab is mounted (`Mounted`), and
the page's key makes a new lab of every selection. `DisplayAlwaysOfThisLab` says
no more than the code keeps: two runs of one lab may share its display.

*Browser strategy lab.* `HistoryInv` says that whatever claims to be a run's
result, in a call under way, a record or a dialog, is the same
(`OneResultPerRun`), and that what a record calls committed is in the registry
(`CommittedOnRecord`). That is why an answer which comes after its dialog was
closed, or opened again, cannot put another run's result into a record.
Records are saved at different times, so that dropping the oldest keeps the
limit (`HistoryBounded`).

*Leaderboards.* `BoardInv` says that what a load has read is one state of each
account. Two eligible runs then never tie, since their addresses differ, so
the documented order is a strict one (`RankingOrders`); going through the
list, the Map holds after every record each wallet's first of those seen
(`TakesFirst`), in whatever order they were listed; and a member's place in
the sorted board is the number of those before it (`EveryPlaceTaken`).
`BoardAlwaysRanksBest` follows.

*Paper exchange.* `PortfolioInv` is type correctness with `RingInv`: slot `k %
RECENT_FILLS` of the ring holds fill `k` of the history, for the newest fills.
`SnapshotsAreRecent` unrolls the ring from it. `TradesStayFair` rests on
lemmas about rounding alone: a buy pays at least the exact notional, a sale
receives at most it, and a position's cost moves by what was paid for it.
`BooksStayBalanced` adds the sums over the markets. `ChartUndoesTrades` needs
`HistoryInv`, that every open portfolio `AccountsFor` its history: its cash
and its positions are sums over all its fills, and each fill is `Prompt`,
executed no later than `MAX_AGE` after its price was published and at most
`MAX_LEAD` before. For a point of the chart such a sum is split into the fills
that are undone and those that stand (`UndoneSum`), the first are renumbered
from the ring (`LaterIsPublishedAfter`), and what the chart's rounding may
differ by, a cent for each, is counted (`RoundingAddsUp`).

*Paper hook and desk.* `ChainInv` says of the ledger what `PortfolioInv` says,
and has three parts of its own. `FillsInv`: a quote whose fill is under way is
the pending one, and once the fill has ended the quote is gone and its id is
not given again, whence `FillsHappenOnce`. `RefreshInv`: only a transaction
that is refreshing has a read, and one only, which is why no read ends a fill
twice. `ReadsInv`: whatever was read, and whatever is on display, is a
beginning of its owner's history, and the newest read is not older than the
display, whence `DisplayIsOnChain` and `DisplayNeverGoesBack`. The ledger's
part uses `PortfolioStep`, and that no step rewrites a history.

*Model-checked only.* Every safety and action property that a passing run
checks is proved. Liveness under fairness is out of the prover's reach and
stays with TLC: `DelegatedSessionSettles`, `ScheduledSessionFreezes`,
`DriverEnds`, `OwnerCanRescue` and `PendingFillEnds`. So do the four
violations, which are counterexamples and need no proof.

## Where the code and its documents disagree

1. **A trader who vanishes early locks the pool** (`SyndicateVanished`).
   `docs/pitch/09-questions-and-answers.md:45` promises a permissionless way
   out. It exists once the session is delegated. Between `start_session` and
   `delegate_session`, two transactions of the trader, it does not: only the
   trader may delegate, an undelegated session cannot be committed, and
   without that it cannot be settled.
2. **The drawdown limit reverts its own evidence** (`SyndicateDrawdown`).
   `docs/features-and-architecture.md:210` says the session stops. The trade
   that would mark the session under the limit fails as a whole, so that
   the mark is lost with it and trades in the other asset go on.
3. **Another wallet's portfolio comes back** (`PaperForeign`). A wallet opens
   its portfolio or trades; before the confirmation another wallet is
   connected. The transaction's closure ends with its own refresh
   (`use-paper-chain.ts:59`), now the newest, and the first wallet's portfolio
   stays on display, ready to trade, under the second wallet.
4. **SHIB cannot be traded** (`PaperPrices`). The desk's price is per 1,000
   SHIB (`market-assets.ts:122`) and is sent as the expected price; the program
   converts the same feed to the cents of one SHIB, which is zero.

Smaller ones were met on the way and have no run of their own:

- The 40% asset limit (`docs/pitch/05-forge-syndicates.md:40`) is taken from the
  equity of the previous mark (`lib.rs:347`): after the asset fell, a buy within
  the limit leaves more than 40% of the equity that the same trade records.
- A fill whose confirmation is lost is reported as "limit fill not recorded"
  (`paper-trading-desk.tsx:633`) and the account is not read again, although the
  fill may have landed.
- "Local quote ids never collide with on-chain fill ids" (`paper.test.ts:265`)
  holds for quotes placed after the fills, not before.
- A ranked run can be started twice: while the plan of the first start is
  built (`ranked-strategy-lab.tsx:142`) nothing is disabled. Both runs then call
  back into one lab, so that the link, the tick and the chart mix two runs, the
  controls may be those of neither, and the first to end enables the page's
  drawer while the other goes on. The model contains it, and no property
  denies it: `DisplayIsOfThisLab` is what is left.
- `docs/scoring.md:25` gives one score, the code has two. The browser's engine
  counts every tick as liquid (`engine.ts:218`), the program only those at which
  an order stands (`advance_ranked_run.rs:62`). Accepted strategies with
  `refresh_ticks` of 3 or more reach it: after both orders were filled none stands
  until the next refresh. The difference may come to the whole weight of the
  liquidity, 30 points. `EnginesAgree` says exactly that, and bounds the rest.
- The browser's engine does not check that a buy order is paid for when it is
  placed, where the program does. `EnginesAgree` compares ticks at which it is.
- The runtime goes on locally in the middle of a session
  (`runtime.ts:126`), while `docs/magicblock-architecture.md:42` allows that
  only before a verified session begins.
- `finalize_session.rs:41` sets the status and does not serialize it before it
  commits, which `finalize_ranked_run.rs:21-24` says has to be avoided. In the
  model the committed copy has either status, or the transaction is reverted at
  Anchor's exit. The ticks and the hash of what was committed are final
  nevertheless, which is what `SettledIsOnRecord` shows. That the owner recovers
  a session and undelegates it (`docs/magicblock-architecture.md:43`) cannot be
  stated: if every finalization is reverted, the session stays on the ER.
- "View results" (`simulation-lab.tsx:573`) opens the debrief again, whose effect
  saves the run once more as "local" (line 1218), over a record that is
  "submitting" or "committed". Its address is forgotten, a submission under way
  may lose its place in the history, and a second submission that fails leaves
  a run that is on record as "failed". `HistoryIsTruthful` holds with all of it,
  and does not say that a run on record is called committed.
- Publishing a result again after a failed attempt makes a second record, since
  every attempt takes a new nonce; a page reloaded during the attempt keeps a
  record that is "submitting" for ever.
- The portfolio's chart does not give fees back, so that past values are too
  low by the fees paid since.
- The chart undoes fills by the time their price was published
  (`paper-analytics.ts:44`), not by that of their execution. A point may show fills
  that were made up to `MAX_AGE` later, and with updates of different ages even
  holdings that the account never had, as when a sale was made at an older
  price than the purchase before it.
- A load of all times that returns after the weekly tab was chosen is shown
  under the weekly tab (`community-pages.tsx:250`, `docs/pitch/06-leaderboard.md:21`).

## What is not modelled

One syndicate at a time, one ranked run, one session, one paper market price
per run of `PaperChain`; the clock of a session in whole steps. Account rent,
signatures and account addresses are abstracted to who may act. Cluster
switching, the health of the price feed and the replay mode of the desk are
left out of `PaperChain`; the branches of `paper.ts` that execute orders in the
browser are not reached by the desk, which is always on chain.

Some code is not used by the application. The four rollup paper-account
handlers (`open_paper_account.rs` and its neighbours) are not compiled.
`MagicBlockRuntime` and `simulation-lab.tsx` are mounted by no page, only by
tests, and there is no implementation of the runtime's transport; they are
modelled because the documents describe them as the product's core. The
arithmetic of `economics.ts` (`sharesForDeposit`, `tokensForWithdrawal`,
`calculateSettlement`) is called by no page and left out, as are `rankRecords`
(`ranking.ts`) and `repository.ts`.

The listing of syndicates and its refresh, the news and challenge pages,
charts, layout, statistics for display, wallet adapters, generated clients,
HTTP routes without state and deployment scripts make up most of the
repository's lines. They keep no state that the rest depends on, or only
draw it; `PROJECT.json` lists each with its reason. The map therefore covers
nearly all of both programs and a small share of all lines.

## Plan

1. *Done*: Syndicates, ranked runs and their driver, the paper exchange and its
   hook; verified sessions with their runtime; both labs, history and registry;
   the leaderboards; the engine and the chart against their counterparts.
2. *Done*: proofs of every safety and action property, and of both
   refinements.
3. The listing of syndicates with the cluster switch that it does not guard
   against, and `PaperPrices` composed with `PaperChain`.
