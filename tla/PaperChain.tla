----------------------------- MODULE PaperChain -----------------------------
(***************************************************************************)
(* The browser's side of paper trading: the hook that reads and trades the *)
(* connected wallet's portfolio (use-paper-chain.ts) and the desk that     *)
(* keeps resting limit quotes and asks for their fills                     *)
(* (paper-trading-desk.tsx, paper.ts).                                     *)
(*                                                                         *)
(* JavaScript runs to completion between two awaits, so that an action is  *)
(* the code from one await to the next, with the render and the effects    *)
(* that follow it.  What an await comes back to may have changed: another  *)
(* wallet may be connected, and other reads may have started.  A function  *)
(* that is already running keeps the wallet it was created with.           *)
(*                                                                         *)
(* The clock stands still: no step of the browser depends on it, and an    *)
(* update that has become too old is one reason of many why a transaction  *)
(* is refused.                                                             *)
(***************************************************************************)
EXTENDS PaperPortfolio, SequencesExt

CONSTANTS
    NoWallet,        \* no wallet is connected
    QuoteOrders,     \* limit orders the user places on the desk
    MarketOrders,    \* orders the user sends at once
    MAX_SWITCHES,    \* bound on connecting another wallet
    MAX_RUNS,        \* bound on the transactions asked for
    MAX_READS,       \* bound on the refreshes
    MAX_QUOTE_ID     \* bound on the desk's ids

ASSUME PaperChainAssumption ==
    /\ WALLETS # {} /\ NoWallet \notin WALLETS
    /\ QuoteOrders \subseteq Orders /\ MarketOrders \subseteq Orders

VARIABLES
    wallet,        \* the connected wallet
    switches,      \* how often it was changed
    hook,          \* the hook's state: status, address, snapshot, busy
    generation,    \* the number of the latest refresh
    reads,         \* refreshes whose read has not returned
    runs,          \* every transaction asked for, oldest first
    desk,          \* the desk's balances: the account it synced last
    quotes,        \* resting limit quotes
    next_id,       \* the desk's next id
    pending        \* pendingFill: the quote whose fill is under way, or 0

hookVars == <<hook, generation, reads>>
deskVars == <<desk, quotes, next_id, pending>>
chainVars == <<wallet, switches, hookVars, runs, deskVars>>
vars == <<programVars, chainVars>>

\* The desk's own start: createPaperState.
DeskStart == OpenedAccount

Disconnected ==
    [status |-> "disconnected", address |-> NoWallet,
     snapshot |-> BlankAccount, busy |-> FALSE]

\* The exchange is deployed by anyone, every market is configured, and a
\* wallet may have opened its portfolio on an earlier visit.
Deployed ==
    /\ admin = CHOOSE w \in WALLETS : TRUE
    /\ feeds \in [ASSETS -> FEEDS]
    /\ portfolios \in [WALLETS -> {BlankAccount, OpenedAccount}]
    /\ now = 0

Init ==
    /\ Deployed
    /\ wallet = NoWallet
    /\ switches = 0
    /\ hook = Disconnected
    /\ generation = 0
    /\ reads = {}
    /\ runs = <<>>
    /\ desk = DeskStart
    /\ quotes = {}
    /\ next_id = 1
    /\ pending = 0

-----------------------------------------------------------------------------
(* use-paper-chain.ts: refresh *)

\* A refresh for owner, on behalf of a transaction or of none (0).
StartsRead(owner, run) ==
    /\ generation' = generation + 1
    /\ reads' = reads \cup
         {[gen |-> generation + 1, owner |-> owner, run |-> run,
           served |-> FALSE, account |-> BlankAccount]}

\* While it is read, a portfolio that was on display stays there.
Loading(h) ==
    IF h.address = NoWallet THEN [h EXCEPT !.status = "loading"] ELSE h

\* Slip (see ShownIsOnChain): the address is the one connected now.
LoadedAsConnected(owner, account) ==
    [status   |-> IF account.opened THEN "ready" ELSE "none",
     address  |-> wallet,
     snapshot |-> account,
     busy     |-> FALSE]

\* What the hook shows of an account that was read for owner.
Loaded(owner, account) ==
    [status   |-> IF account.opened THEN "ready" ELSE "none",
     address  |-> owner,
     snapshot |-> account,
     busy     |-> FALSE]

\* Slip (see ShownNeverGoesBack): any read that returns is shown.
AnyRead(read) == TRUE

Newest(read) == read.gen = generation

\* sync-chain: the desk takes over the balances, and ids above the fills'.
Synced(account) ==
    /\ desk' = account
    /\ next_id' = LET above == account.trade_count + 1
                  IN  IF above > next_id THEN above ELSE next_id

\* A read that returned without a newer one having started is shown.
Shows(read) ==
    IF Newest(read)
    THEN /\ hook' = Loaded(read.owner, read.account)
         /\ IF read.account.opened
            THEN Synced(read.account)
            ELSE UNCHANGED <<desk, next_id>>
    ELSE /\ hook' = IF read.run = 0 THEN hook ELSE [hook EXCEPT !.busy = FALSE]
         /\ UNCHANGED <<desk, next_id>>

-----------------------------------------------------------------------------
(* use-paper-chain.ts: run, open, trade *)

\* Slip (see PendingFillEnds): a fill that failed stays pending.
ReleasedIfDone(quote, ok) ==
    /\ quotes' = {q \in quotes : q.id # quote}
    /\ pending' = IF quote # 0 /\ ok THEN 0 ELSE pending

\* The desk's continuation of a fill, whatever its outcome: the quote goes.
Released(quote, ok) ==
    /\ quotes' = {q \in quotes : q.id # quote}
    /\ pending' = IF quote # 0 THEN 0 ELSE pending

\* A new transaction, asked of the wallet connected now for the portfolio
\* on display now.
StartsRun(kind, order, quote) ==
    /\ Len(runs) < MAX_RUNS
    /\ runs' = Append(runs, [kind |-> kind, owner |-> wallet,
                             address |-> hook.address, order |-> order,
                             quote |-> quote, stage |-> "approval",
                             tx |-> "none"])
    /\ hook' = [hook EXCEPT !.busy = TRUE]
    /\ UNCHANGED <<programVars, wallet, switches, generation, reads>>

Failed(i) ==
    /\ runs' = [runs EXCEPT ![i].stage = "failed"]
    /\ hook' = [hook EXCEPT !.busy = FALSE]
    /\ Released(runs[i].quote, FALSE)
    /\ UNCHANGED <<programVars, wallet, switches, generation, reads, desk,
                   next_id>>

\* The wallet signs and sends; a run without a signer throws before that.
WalletApproves(i) ==
    /\ runs[i].stage = "approval"
    /\ runs[i].owner # NoWallet
    /\ runs' = [runs EXCEPT ![i].stage = "sent", ![i].tx = "flying"]
    /\ UNCHANGED <<programVars, wallet, switches, hookVars, deskVars>>

WalletRejects(i) == runs[i].stage = "approval" /\ Failed(i)

\* The confirmation arrives; the closure's own refresh is awaited.
TxConfirmed(i) ==
    /\ generation < MAX_READS
    /\ runs[i].stage = "sent"
    /\ runs[i].tx = "landed"
    /\ runs' = [runs EXCEPT ![i].stage = "refreshing"]
    /\ StartsRead(runs[i].owner, i)
    /\ hook' = Loading(hook)
    /\ UNCHANGED <<programVars, wallet, switches, deskVars>>

\* The send throws: refused, lost, or landed with its confirmation lost.
TxUnclear(i) == runs[i].stage = "sent" /\ Failed(i)

ReadServed(read) ==
    /\ ~read.served
    /\ reads' = (reads \ {read}) \cup
         {[read EXCEPT !.served = TRUE, !.account = portfolios[read.owner]]}
    /\ UNCHANGED <<programVars, wallet, switches, hook, generation, runs,
                   deskVars>>

\* A run ends with its refresh, even if that was overtaken or failed.
RunEnds(read) ==
    IF read.run = 0
    THEN UNCHANGED <<runs, quotes, pending>>
    ELSE /\ runs' = [runs EXCEPT ![read.run].stage = "done"]
         /\ Released(runs[read.run].quote, TRUE)

ReadReturns(read) ==
    /\ read.served
    /\ reads' = reads \ {read}
    /\ Shows(read)
    /\ RunEnds(read)
    /\ UNCHANGED <<programVars, wallet, switches, generation>>

ReadFails(read) ==
    /\ reads' = reads \ {read}
    /\ hook' = [hook EXCEPT
                    !.status = IF Newest(read) THEN "error" ELSE @,
                    !.busy = IF read.run = 0 THEN @ ELSE FALSE]
    /\ RunEnds(read)
    /\ UNCHANGED <<programVars, wallet, switches, generation, desk, next_id>>

-----------------------------------------------------------------------------
(* The user *)

\* Connecting another wallet, or none, re-creates refresh and runs it.
Switch(w) ==
    /\ switches < MAX_SWITCHES
    /\ generation < MAX_READS
    /\ w # wallet
    /\ wallet' = w
    /\ switches' = switches + 1
    /\ IF w = NoWallet
       THEN /\ generation' = generation + 1
            /\ hook' = Disconnected
            /\ UNCHANGED reads
       ELSE StartsRead(w, 0) /\ hook' = Loading(hook)
    /\ UNCHANGED <<programVars, runs, deskVars>>

Retry ==
    /\ generation < MAX_READS
    /\ hook.status = "error"
    /\ wallet # NoWallet
    /\ StartsRead(wallet, 0)
    /\ hook' = Loading(hook)
    /\ UNCHANGED <<programVars, wallet, switches, runs, deskVars>>

Open ==
    /\ hook.status = "none"
    /\ ~hook.busy
    /\ wallet # NoWallet
    /\ StartsRun("open", "no order", 0)
    /\ UNCHANGED deskVars

\* tradingPaused disables every order button.
TradingOpen == hook.status = "ready" /\ ~hook.busy

\* The desk's own cover of an order, without a fee.
RoundedNotional(order) ==
    (2 * order.expected * order.size + LOT) \div (2 * LOT)

Holds(usdc, order, quantity) ==
    IF order.side = "buy" THEN usdc >= RoundedNotional(order)
                          ELSE quantity >= order.size

SubmitMarket(order) ==
    /\ TradingOpen
    /\ Holds(desk.usdc, order, desk.positions[order.asset].quantity)
    /\ StartsRun("trade", order, 0)
    /\ UNCHANGED deskVars

ReservedCash ==
    SumOver([q \in quotes |-> IF q.order.side = "buy"
                              THEN RoundedNotional(q.order) ELSE 0], quotes)

ReservedOf(a) ==
    SumOver([q \in quotes |-> IF q.order.side = "sell" /\ q.order.asset = a
                              THEN q.order.size ELSE 0], quotes)

\* paperReducer "quote", for an order that the market does not cross yet.
PlaceQuote(order) ==
    /\ TradingOpen
    /\ next_id < MAX_QUOTE_ID
    /\ ValidOrder(order)
    /\ Holds(desk.usdc - ReservedCash, order,
             desk.positions[order.asset].quantity - ReservedOf(order.asset))
    /\ quotes' = quotes \cup {[id |-> next_id, order |-> order]}
    /\ next_id' = next_id + 1
    /\ UNCHANGED <<programVars, wallet, switches, hookVars, runs, desk,
                   pending>>

CancelQuote(q) ==
    /\ quotes' = quotes \ {q}
    /\ UNCHANGED <<programVars, wallet, switches, hookVars, runs, desk,
                   next_id, pending>>

\* Slip (see QuoteFillsOnce): only the hook's busy flag holds a fill back.
NoFillHeld == TRUE

NoFillUnderWay == pending = 0

\* The desk's effect: the market crossed a quote, and its fill is asked for.
\* The market moves freely, so any quote may be the first one crossed.
FillQuote(q) ==
    /\ TradingOpen
    /\ NoFillUnderWay
    /\ pending' = q.id
    /\ StartsRun("trade", q.order, q.id)
    /\ UNCHANGED <<desk, quotes, next_id>>

-----------------------------------------------------------------------------
(* The network *)

\* A sent transaction is executed, also after the browser gave it up.
TxLands(i) ==
    /\ runs[i].tx = "flying"
    /\ \/ runs[i].kind = "open" /\ OpenPortfolio(runs[i].owner)
       \/ /\ runs[i].kind = "trade"
          /\ runs[i].address = runs[i].owner
          /\ \E update \in PriceUpdates :
                TradePortfolio(runs[i].owner, runs[i].order, update)
    /\ runs' = [runs EXCEPT ![i].tx = "landed"]
    /\ UNCHANGED <<wallet, switches, hookVars, deskVars>>

\* The program refuses it, or it is dropped.
TxVanishes(i) ==
    /\ runs[i].tx = "flying"
    /\ runs' = [runs EXCEPT ![i].tx = "vanished"]
    /\ UNCHANGED <<programVars, wallet, switches, hookVars, deskVars>>

Runs == DOMAIN runs

HookStep ==
    \/ \E i \in Runs : TxConfirmed(i) \/ TxUnclear(i)
    \/ \E read \in reads : ReadServed(read) \/ ReadReturns(read)
                             \/ ReadFails(read)

WalletAnswers == \E i \in Runs : WalletApproves(i) \/ WalletRejects(i)

UserStep ==
    \/ \E w \in WALLETS \cup {NoWallet} : Switch(w)
    \/ Retry
    \/ Open
    \/ \E order \in MarketOrders : SubmitMarket(order)
    \/ \E order \in QuoteOrders : PlaceQuote(order)
    \/ \E q \in quotes : CancelQuote(q)

Next ==
    \/ UserStep
    \/ WalletAnswers
    \/ \E q \in quotes : FillQuote(q)
    \/ HookStep
    \/ \E i \in Runs : TxLands(i) \/ TxVanishes(i)

Spec == Init /\ [][Next]_vars

-----------------------------------------------------------------------------
(* Properties *)

\* A crossed quote is sent to the wallet for at most one fill: the busy flag
\* that would hold a second one back is cleared by every refresh, whoever
\* started it, while the first fill is still waiting for the wallet.
QuoteFillsOnce ==
    \A i, j \in Runs :
        runs[i].quote # 0 /\ runs[i].quote = runs[j].quote => i = j

\* What is on display is a state that the portfolio at the displayed address
\* was in: no refresh mixes the address of one wallet with the account of
\* another, however they overlap with connecting another wallet.
ShownIsOnChain ==
    hook.address # NoWallet =>
        IsPrefix(hook.snapshot.trade_log,
                 portfolios[hook.address].trade_log)

NeverOlder ==
    hook'.address = hook.address /\ hook.address # NoWallet =>
        hook'.snapshot.trade_count >= hook.snapshot.trade_count

\* While the same portfolio stays on display it never goes back to an earlier
\* state: of overlapping reads that return out of order only the one that was
\* started last is shown.
ShownNeverGoesBack == [][NeverOlder]_vars

\* The steps that happen by themselves, and the user's answer to a wallet
\* prompt that is on the screen.
BrowserGoesOn ==
    /\ WF_vars(HookStep)
    /\ WF_vars(WalletAnswers)

\* The desk never stays blocked by a fill: approved or rejected, recorded,
\* refused or lost, its quote goes and the next crossed quote can be filled.
PendingFillEnds == BrowserGoesOn => (pending # 0 ~> pending = 0)

-----------------------------------------------------------------------------
(* What the repository says, and the code does not keep *)

\* docs/pitch/03-paper-trading.md: every wallet has its own portfolio, and the
\* browser is not the ledger.  Once nothing is being read or sent any more, a
\* portfolio on display is the connected wallet's.
PortfolioShownIsOwn ==
    hook.status = "ready" /\ ~hook.busy /\ reads = {} =>
        hook.address = wallet
=============================================================================
