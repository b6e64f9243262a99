------------------------ MODULE SyndicateProperties ------------------------
(***************************************************************************)
(* What one syndicate promises its backers, its trader and the fUSD mint,  *)
(* and the fairness under which a session comes to an end.                 *)
(***************************************************************************)
EXTENDS Syndicate, Sums

Receipt == [done : BOOLEAN, gross_pnl : Int, mint_amount : Word,
            burn_amount : Word, fee_amount : Word]

Pool == [status : {"ABSENT", "IDLE", "ACTIVE"}, total_shares : Word,
         high_water : Word, active_nonce : Nat, backer_count : Nat,
         session_count : Nat, total_fees : Word, max_drawdown : Nat]

PoolTypeOK ==
    /\ claimed \subseteq Users
    /\ wallet \in [Users -> Word]
    /\ supply \in Word
    /\ vault \in Word
    /\ pool \in Pool
    /\ joined \subseteq Users
    /\ shares \in [Users -> Word]
    /\ receipt \in [Nonces -> Receipt]

SessionsTypeOK ==
    /\ place \in [Nonces -> Places]
    /\ base \in [Nonces -> Session]
    /\ er \in [Nonces -> Session]
    /\ left \in [Nonces -> -1 .. SESSION_SECONDS]
    /\ tasks \in [Nonces -> SUBSET (0 .. SESSION_SECONDS)]

EnvTypeOK ==
    /\ config \in BOOLEAN
    /\ oracle \in [Feeds -> Int \X Int]
    /\ age \in [Feeds -> 0 .. ORACLE_MAX_AGE + 1]

\* The state is well formed: every amount is a word, every account has its
\* shape.  Models the layout of the accounts at lib.rs:719-804.
TypeOK == PoolTypeOK /\ SessionsTypeOK /\ EnvTypeOK

Settled == {n \in Nonces : receipt[n].done}

Open(n) == pool.status = "ACTIVE" /\ pool.active_nonce = n

-----------------------------------------------------------------------------
(* Safety of the pool *)

\* Every share the pool counts belongs to exactly one member, and the pool's
\* aggregates agree with the accounts they summarise: the deposits,
\* withdrawals and settlements that update both sides keep them together.
BooksAgree ==
    /\ pool.total_shares = SumOver(shares, Users)
    /\ pool.backer_count = Cardinality(joined)
    /\ pool.session_count = Cardinality(Settled)
    /\ pool.total_fees =
        SumOver([n \in Nonces |-> receipt[n].fee_amount], Nonces)

\* fUSD enters and leaves existence only through the faucet, once per wallet,
\* and through the result of a session, once per session: whatever the order
\* of delegations, retried settlements and transfers, no token is made twice
\* or lost.
FusdConserved ==
    /\ supply = SumOver(wallet, Users) + vault
    /\ supply = FAUCET_AMOUNT * Cardinality(claimed)
                + SumOver([n \in Nonces |-> receipt[n].gross_pnl], Nonces)

\* Sessions and settlements pair up: a session exists without a receipt
\* exactly while it is the one the pool is trading.
OneOpenSession ==
    \A n \in Nonces :
        place[n] # "none" => (receipt[n].done <=> ~Open(n))

\* While a session runs the vault still holds what the session started with,
\* so its loss can be burnt and its fee paid: settlement cannot be refused by
\* the token program.
SettlementIsFunded ==
    /\ \A n \in Nonces : Open(n) => vault >= Live(n).starting_equity
    /\ \A n \in Nonces : Settleable(n) => TokensSuffice(n)

\* Shares are always backed: no withdrawal rounding and no sequence of losing
\* sessions leaves shares without fUSD, the state in which a deposit fails
\* with InvalidVault for ever.
SharesAreBacked == pool.total_shares > 0 => vault > 0

\* The settlement applied what the session held when it froze: a receipt
\* agrees with its session even after the account was delegated again.
ReceiptMatchesSession ==
    \A n \in Settled :
        /\ Live(n).status = "COMMITTING"
        /\ receipt[n].gross_pnl = Live(n).equity - Live(n).starting_equity
        /\ receipt[n].gross_pnl =
            receipt[n].mint_amount - receipt[n].burn_amount

\* A step lowers the value of a share only as a losing settlement.
SharesKeepValue ==
    pool.total_shares > 0
    /\ vault' * pool.total_shares < vault * pool'.total_shares
        => pool.status = "ACTIVE" /\ pool'.status = "IDLE" /\ supply' < supply

\* Neither a deposit nor a withdrawal lowers the value of the shares that the
\* other members hold; only a losing settlement does.
NoDilution == [][SharesKeepValue]_vars

FeesAboveMark ==
    /\ pool.status # "ABSENT" => pool'.high_water >= pool.high_water
    /\ \A n \in Nonces :
         receipt'[n].fee_amount > receipt[n].fee_amount =>
            LET fee == receipt'[n].fee_amount
                end == base[n].equity
            IN  /\ end > base[n].starting_equity
                /\ (end - fee) * SHARE_SCALE
                     >= pool.high_water * pool.total_shares
                /\ fee * BPS_SCALE
                     <= (end - base[n].starting_equity) * PERFORMANCE_FEE_BPS

\* The high-water price never falls, and a performance fee is paid only when
\* the session's value per share, with the fee taken off, has not fallen
\* below the old mark: the same profit is never charged twice, and the fee
\* takes no more than its part of the session's own profit.
FeeOnlyAboveHighWater == [][FeesAboveMark]_vars

\* The whole program, seen from the vault, implements the abstract fund: it
\* is locked from start_session to settle_session with the stake that the
\* session started with.
Stake ==
    IF pool.status = "ACTIVE" THEN base[pool.active_nonce].starting_equity
                              ELSE 0

Fund == INSTANCE BackedPool WITH fund <- vault,
                                 issued <- pool.total_shares,
                                 stake <- Stake

ImplementsBackedPool == Fund!Spec

-----------------------------------------------------------------------------
(* Safety of a session *)

\* A step takes a frozen session to its commit and changes nothing else of it.
FrozenKept(n) ==
    Live(n).status \in {"FROZEN", "COMMITTING"} =>
        /\ Live(n)'.status \in {Live(n).status, "COMMITTING"}
        /\ Live(n)' = [Live(n) EXCEPT !.status = Live(n)'.status]

\* Once frozen, a session's money, positions and marks never change again on
\* whichever layer can write them, through commits, re-delegations and late
\* trades that race the expiry check.
FrozenIsFinal == [][\A n \in Nonces : FrozenKept(n)]_vars

\* A session's recorded equity is its cash and its positions at the recorded
\* prices, its recorded drawdown is within the limit, a closed position has
\* no cost left, and it never trades past its count.
SessionIsSound ==
    \A n \in Nonces :
        LET s == Live(n)
        IN  s.status # "NONE" =>
              /\ s.equity = EquityAt(s, s.last_price)
              /\ s.peak_equity >= s.equity
              /\ s.peak_equity >= s.starting_equity
              /\ s.drawdown_bps = DrawdownFrom(s.peak_equity, s.equity)
              /\ s.drawdown_bps <= MAX_DRAWDOWN_BPS
              /\ s.trade_count <= MAX_TRADES
              /\ \A a \in Assets : s.quantity[a] = 0 => s.cost[a] = 0

\* docs/features-and-architecture.md:210 "Stops at a 20% maximum drawdown":
\* no trade is recorded while the session, valued at the oracle's prices, is
\* deeper under its peak than the limit.
CurrentPrices ==
    [a \in Assets |-> IF a \in Feeds THEN OraclePrice(a) ELSE 0]

DeepUnderPeak(s) ==
    /\ EquityAt(s, CurrentPrices) <= s.peak_equity
    /\ DrawdownFrom(s.peak_equity, EquityAt(s, CurrentPrices))
         > MAX_DRAWDOWN_BPS

TradingStopsAtDrawdown ==
    [][ \A n \in Nonces :
          DeepUnderPeak(Live(n)) =>
            Live(n)'.trade_count = Live(n).trade_count ]_vars

-----------------------------------------------------------------------------
(* Liveness *)

\* Time passes, and the ER's scheduler runs what was scheduled.
ScheduledSpec ==
    /\ Spec
    /\ WF_vars(Tick)
    /\ \A n \in Nonces : WF_vars(CrankRuns(n))

\* The ER commits, and somebody sends the calls that need no particular
\* signer.  Strong fairness for settlement: the trader may delegate the
\* committed account again before it is settled, but not every time.
SomebodyActs ==
    \A n \in Nonces :
        /\ WF_vars(FinalizeSession(n))
        /\ WF_vars(CommitLands(n))
        /\ SF_vars(SettleSession(n))

FairSpec == ScheduledSpec /\ SomebodyActs

\* A session that reached the ER is settled and the pool opens again, even if
\* the trader never acts again.
DelegatedSessionSettles ==
    SomebodyActs =>
        \A n \in Nonces : Open(n) /\ place[n] = "er" ~> pool.status = "IDLE"

\* A scheduled expiry check ends the trading of its session by itself, with
\* nobody to expire or finalize it.
ScheduledSessionFreezes ==
    \A n \in Nonces : tasks[n] # {} ~> Live(n).status # "ACTIVE"

\* docs/pitch/09-questions-and-answers.md:43-45, "What happens if a Syndicates
\* trader disappears?": an open session comes to its settlement without the
\* trader.
OpenSessionSettles ==
    pool.status = "ACTIVE" ~> pool.status = "IDLE"
=============================================================================
