------------------------------ MODULE Syndicate ------------------------------
(***************************************************************************)
(* One syndicate of the Forge Syndicates program: wallets that claim fUSD, *)
(* back a pool with it and redeem their shares; a trader who opens         *)
(* sessions on the pool; the session account's life on two layers; and the *)
(* settlement that turns a session's result into minted or burnt fUSD.     *)
(*                                                                         *)
(* A session account has a base-layer copy and, while it is delegated, a   *)
(* copy on the Ephemeral Rollup (ER).  Only one of them can be written.    *)
(* Each action is one transaction: it happens as a whole or not at all.    *)
(***************************************************************************)
EXTENDS SyndicateSession, FiniteSets

CONSTANTS
    Users,              \* wallets
    Trader,             \* the wallet that runs the syndicate
    Nonces,             \* session nonces
    FAUCET_AMOUNT,      \* fUSD a wallet may claim, once
    ORACLE_MAX_AGE,     \* oldest oracle quote a trade accepts
    Amounts,            \* bound: amounts deposited or sent to the vault
    Quantities,         \* bound: quantities traded
    Expectations,       \* bound: prices a caller expects
    Quotes,             \* bound: <<mantissa, exponent>> quotes of the assets that
                        \* have a feed
    Scheduled           \* bound: sessions whose expiry check is scheduled

ASSUME SyndicateAssumption ==
    /\ Trader \in Users
    /\ IsFiniteSet(Users)
    /\ Nonces \subseteq Nat /\ IsFiniteSet(Nonces)
    /\ FAUCET_AMOUNT \in Nat \ {0}
    /\ ORACLE_MAX_AGE \in Nat
    /\ Amounts \subseteq Nat
    /\ Quantities \subseteq Nat
    /\ Expectations \subseteq Nat
    /\ DOMAIN Quotes \subseteq Assets
    /\ Quotes \in [DOMAIN Quotes -> SUBSET (Int \X Int)]
    /\ Scheduled \subseteq Nonces

VARIABLES
    config,     \* has the protocol been initialised?
    claimed,    \* wallets that hold a faucet receipt
    wallet,     \* fUSD held by each wallet
    supply,     \* fUSD in existence, kept by the mint
    vault,      \* fUSD held by the pool
    pool,       \* the Syndicate account
    joined,     \* wallets with a membership account
    shares,     \* shares of each membership
    place,      \* where each session account can be written
    base,       \* the base layer's copy of each session
    er,         \* the ER's copy of each session
    left,       \* seconds before each session expires; -1 when it is over
    tasks,      \* seconds before each expiry check scheduled on the ER runs
    receipt,    \* the settlement receipt of each session
    oracle,     \* the latest quote of each asset
    age         \* the age of each quote; one past the limit stands for older

poolVars == <<claimed, wallet, supply, vault, pool, joined, shares, receipt>>
sessionVars == <<place, base, er, left, tasks>>
envVars == <<config, oracle, age>>
vars == <<poolVars, sessionVars, envVars>>

Feeds == DOMAIN Quotes

Places == {"none", "base", "er", "returning"}

NoReceipt == [done |-> FALSE, gross_pnl |-> 0, mint_amount |-> 0,
              burn_amount |-> 0, fee_amount |-> 0]

AbsentPool == [status |-> "ABSENT", total_shares |-> 0, high_water |-> 0,
               active_nonce |-> 0, backer_count |-> 0, session_count |-> 0,
               total_fees |-> 0, max_drawdown |-> 0]

Trades == [asset : Assets, side : Sides, quantity : Quantities,
           expected : Expectations, slippage : 0 .. MAX_SLIPPAGE_BPS]

Init ==
    /\ config = FALSE
    /\ claimed = {}
    /\ wallet = [u \in Users |-> 0]
    /\ supply = 0
    /\ vault = 0
    /\ pool = AbsentPool
    /\ joined = {}
    /\ shares = [u \in Users |-> 0]
    /\ place = [n \in Nonces |-> "none"]
    /\ base = [n \in Nonces |-> BlankSession]
    /\ er = [n \in Nonces |-> BlankSession]
    /\ left = [n \in Nonces |-> 0]
    /\ tasks = [n \in Nonces |-> {}]
    /\ receipt = [n \in Nonces |-> NoReceipt]
    /\ oracle \in {q \in [Feeds -> UNION {Quotes[a] : a \in Feeds}] :
                    \A a \in Feeds : q[a] \in Quotes[a]}
    /\ age = [a \in Feeds |-> 0]

-----------------------------------------------------------------------------
(* The protocol and the pool, on the base layer *)

\* The only writes of config.paused set it to false, so the two handlers that
\* test it never find the protocol paused.
InitializeConfig ==
    /\ ~config
    /\ config' = TRUE
    /\ UNCHANGED <<poolVars, sessionVars, oracle, age>>

\* The receipt account is created by the instruction: a second claim fails.
ClaimFusd(u) ==
    /\ config
    /\ u \notin claimed
    /\ Fits(supply + FAUCET_AMOUNT)
    /\ Fits(wallet[u] + FAUCET_AMOUNT)
    /\ claimed' = claimed \cup {u}
    /\ wallet' = [wallet EXCEPT ![u] = @ + FAUCET_AMOUNT]
    /\ supply' = supply + FAUCET_AMOUNT
    /\ UNCHANGED <<vault, pool, joined, shares, receipt, sessionVars, envVars>>

CreateSyndicate ==
    /\ config
    /\ pool.status = "ABSENT"
    /\ pool' = [AbsentPool EXCEPT !.status = "IDLE",
                                  !.high_water = truncated(SHARE_SCALE)]
    /\ UNCHANGED <<claimed, wallet, supply, vault, joined, shares, receipt,
                   sessionVars, envVars>>

\* Slip (see SettlementIsFunded): a running session does not lock the pool.
NeverLocked == pool.status # "ABSENT"

\* Deposits, withdrawals and new sessions need a pool that no session uses.
PoolIdle == pool.status = "IDLE"

\* Slip (see BooksAgree): a member who redeemed everything joins again.
BackersByShares(u) ==
    IF shares[u] > 0 THEN pool.backer_count ELSE pool.backer_count + 1

BackersWith(u) ==
    IF u \in joined THEN pool.backer_count ELSE pool.backer_count + 1

Deposit(u, amount) ==
    LET issued == shares_for_deposit(amount, pool.total_shares, vault)
    IN  /\ amount > 0
        /\ PoolIdle
        /\ pool.total_shares > 0 => vault > 0
        /\ Fits(issued)
        /\ issued > 0
        /\ wallet[u] >= amount
        /\ Fits(vault + amount)
        /\ Fits(shares[u] + issued)
        /\ Fits(pool.total_shares + issued)
        /\ wallet' = [wallet EXCEPT ![u] = @ - amount]
        /\ vault' = vault + amount
        /\ joined' = joined \cup {u}
        /\ shares' = [shares EXCEPT ![u] = @ + issued]
        /\ pool' = [pool EXCEPT !.total_shares = @ + issued,
                                !.backer_count = BackersWith(u)]
        /\ UNCHANGED <<claimed, supply, receipt, sessionVars, envVars>>

Withdraw(u, n) ==
    LET amount == tokens_for_withdrawal(n, pool.total_shares, vault)
    IN  /\ u \in joined
        /\ n > 0
        /\ n <= shares[u]
        /\ PoolIdle
        /\ pool.total_shares > 0
        /\ Fits(amount)
        /\ amount > 0
        /\ amount <= vault
        /\ Fits(wallet[u] + amount)
        /\ n <= pool.total_shares
        /\ vault' = vault - amount
        /\ wallet' = [wallet EXCEPT ![u] = @ + amount]
        /\ shares' = [shares EXCEPT ![u] = @ - n]
        /\ pool' = [pool EXCEPT !.total_shares = @ - n]
        /\ UNCHANGED <<claimed, supply, joined, receipt, sessionVars, envVars>>

\* Anyone may send fUSD to the vault's token account, in a session or out of
\* one: the token program does not ask the syndicate.
DirectTransfer(u, amount) ==
    /\ amount > 0
    /\ config
    /\ pool.status # "ABSENT"
    /\ wallet[u] >= amount
    /\ Fits(vault + amount)
    /\ wallet' = [wallet EXCEPT ![u] = @ - amount]
    /\ vault' = vault + amount
    /\ UNCHANGED <<claimed, supply, pool, joined, shares, receipt,
                   sessionVars, envVars>>

-----------------------------------------------------------------------------
(* A session: opened on the base layer, then moved to the ER and back *)

StartSession(n) ==
    /\ config
    /\ place[n] = "none"
    /\ PoolIdle
    /\ vault > 0
    /\ pool.total_shares > 0
    /\ place' = [place EXCEPT ![n] = "base"]
    /\ base' = [base EXCEPT ![n] = StartedSession(vault)]
    /\ left' = [left EXCEPT ![n] = SESSION_SECONDS]
    /\ pool' = [pool EXCEPT !.status = "ACTIVE", !.active_nonce = n]
    /\ UNCHANGED <<claimed, wallet, supply, vault, joined, shares, receipt,
                   er, tasks, envVars>>

\* Only the trader may delegate, and may do so in any status of the session:
\* before it trades, after it froze, even after it was settled.
DelegateSession(n) ==
    /\ place[n] = "base"
    /\ place' = [place EXCEPT ![n] = "er"]
    /\ er' = [er EXCEPT ![n] = base[n]]
    /\ UNCHANGED <<poolVars, base, left, tasks, envVars>>

\* The scheduler runs the expiry check at once and again after the interval.
ScheduleExpiry(n) ==
    /\ n \in Scheduled
    /\ place[n] = "er"
    /\ er[n].status = "ACTIVE"
    /\ tasks' = [tasks EXCEPT ![n] = @ \cup {0, SESSION_SECONDS}]
    /\ UNCHANGED <<poolVars, place, base, er, left, envVars>>

\* The copy of session n that transactions act on.
Live(n) == IF place[n] \in {"er", "returning"} THEN er[n] ELSE base[n]

Writable(n) == place[n] \in {"base", "er"}

SetLive(n, s) ==
    \/ /\ place[n] = "base"
       /\ base' = [base EXCEPT ![n] = s]
       /\ UNCHANGED er
    \/ /\ place[n] = "er"
       /\ er' = [er EXCEPT ![n] = s]
       /\ UNCHANGED base

\* The price of an asset, if the oracle's quote is recent and in range.
OraclePrice(a) == price_to_micro(oracle[a][1], oracle[a][2])

OracleUsable(a) ==
    /\ a \in Feeds
    /\ age[a] <= ORACLE_MAX_AGE
    /\ oracle[a][1] > 0
    /\ oracle[a][2] \in -18 .. 18
    /\ Fits(OraclePrice(a))

Trade(n, t) ==
    /\ Writable(n)
    /\ OracleUsable(t.asset)
    /\ TradeAllowed(Live(n), t, OraclePrice(t.asset), left[n])
    /\ SetLive(n, Traded(Live(n), t, OraclePrice(t.asset)))
    /\ UNCHANGED <<poolVars, place, left, tasks, envVars>>

ExpireSession(n) ==
    /\ Writable(n)
    /\ SetLive(n, Expired(Live(n), left[n]))
    /\ UNCHANGED <<poolVars, place, left, tasks, envVars>>

\* A due task runs once; if the account has left the ER its call fails.
CrankRuns(n) ==
    /\ 0 \in tasks[n]
    /\ tasks' = [tasks EXCEPT ![n] = @ \ {0}]
    /\ IF place[n] = "er"
       THEN er' = [er EXCEPT ![n] = Expired(@, left[n])]
       ELSE UNCHANGED er
    /\ UNCHANGED <<poolVars, place, base, left, envVars>>

\* Anyone may finalize.  The commit is built by the ER's Magic program, so
\* the call fails as a whole for a session that is on the base layer.
FinalizeSession(n) ==
    /\ place[n] = "er"
    /\ FinalizeAllowed(er[n], left[n])
    /\ er' = [er EXCEPT ![n] = Finalized(@)]
    /\ place' = [place EXCEPT ![n] = "returning"]
    /\ UNCHANGED <<poolVars, base, left, tasks, envVars>>

\* The delegation program writes the ER's copy back and returns the account.
CommitLands(n) ==
    /\ place[n] = "returning"
    /\ base' = [base EXCEPT ![n] = er[n]]
    /\ er' = [er EXCEPT ![n] = BlankSession]
    /\ place' = [place EXCEPT ![n] = "base"]
    /\ UNCHANGED <<poolVars, left, tasks, envVars>>

-----------------------------------------------------------------------------
(* Settlement *)

SettlementOf(n) ==
    calculate_settlement(base[n].starting_equity, base[n].equity,
                         pool.total_shares, pool.high_water)

\* Slip (see ReceiptMatchesSession): a session still trading is settled.
SettleableEarly(n) ==
    /\ place[n] = "base"
    /\ pool.status = "ACTIVE"
    /\ pool.active_nonce = n
    /\ ~receipt[n].done
    /\ base[n].starting_equity > 0
    /\ pool.total_shares > 0

Settleable(n) ==
    /\ place[n] = "base"
    /\ base[n].status = "COMMITTING"
    /\ pool.status = "ACTIVE"
    /\ pool.active_nonce = n
    /\ ~receipt[n].done
    /\ base[n].starting_equity > 0
    /\ pool.total_shares > 0

\* What the token program demands of the mint, the burn and the transfer.
TokensSuffice(n) ==
    LET s == SettlementOf(n)
    IN  /\ s.burn_amount <= vault + s.mint_amount
        /\ s.fee_amount <= vault + s.mint_amount - s.burn_amount

SettleSession(n) ==
    LET s == SettlementOf(n)
    IN  /\ Settleable(n)
        /\ TokensSuffice(n)
        /\ Fits(supply + s.mint_amount - s.burn_amount)
        /\ Fits(vault + s.mint_amount)
        /\ Fits(wallet[Trader] + s.fee_amount)
        /\ Fits(pool.total_fees + s.fee_amount)
        /\ supply' = supply + s.mint_amount - s.burn_amount
        /\ vault' = vault + s.mint_amount - s.burn_amount - s.fee_amount
        /\ wallet' = [wallet EXCEPT ![Trader] = @ + s.fee_amount]
        /\ pool' = [pool EXCEPT
                      !.status = "IDLE",
                      !.high_water = s.next_high_water,
                      !.total_fees = @ + s.fee_amount,
                      !.session_count = @ + 1,
                      !.max_drawdown = Larger(@, base[n].drawdown_bps)]
        /\ receipt' = [receipt EXCEPT ![n] =
                         [done |-> TRUE,
                          gross_pnl |-> base[n].equity
                                          - base[n].starting_equity,
                          mint_amount |-> s.mint_amount,
                          burn_amount |-> s.burn_amount,
                          fee_amount |-> s.fee_amount]]
        /\ UNCHANGED <<claimed, joined, shares, sessionVars, envVars>>

-----------------------------------------------------------------------------
(* The environment *)

OraclePublishes(a) ==
    /\ \E q \in Quotes[a] : oracle' = [oracle EXCEPT ![a] = q]
    /\ age' = [age EXCEPT ![a] = 0]
    /\ UNCHANGED <<poolVars, sessionVars, config>>

\* A second passes.
Tick ==
    /\ left' = [n \in Nonces |->
                  IF place[n] = "none" THEN left[n]
                                       ELSE Larger(left[n] - 1, -1)]
    /\ tasks' = [n \in Nonces |-> {Larger(due - 1, 0) : due \in tasks[n]}]
    /\ age' = [a \in Feeds |-> Smaller(age[a] + 1, ORACLE_MAX_AGE + 1)]
    /\ UNCHANGED <<poolVars, place, base, er, config, oracle>>

Next ==
    \/ InitializeConfig
    \/ CreateSyndicate
    \/ \E u \in Users :
        \/ ClaimFusd(u)
        \/ \E amount \in Amounts : Deposit(u, amount)
        \/ \E n \in 1 .. shares[u] : Withdraw(u, n)
        \/ \E amount \in Amounts : DirectTransfer(u, amount)
    \/ \E n \in Nonces :
        \/ StartSession(n)
        \/ DelegateSession(n)
        \/ ScheduleExpiry(n)
        \/ \E t \in Trades : Trade(n, t)
        \/ ExpireSession(n)
        \/ CrankRuns(n)
        \/ FinalizeSession(n)
        \/ CommitLands(n)
        \/ SettleSession(n)
    \/ \E a \in Feeds : OraclePublishes(a)
    \/ Tick

Spec == Init /\ [][Next]_vars
=============================================================================
