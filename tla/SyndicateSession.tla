-------------------------- MODULE SyndicateSession --------------------------
(***************************************************************************)
(* The SyndicateSession account: what one trade against it is allowed to   *)
(* do and does.  A session is a plain record, so that the same rules act   *)
(* on the copy held by the base layer and on the one delegated to the      *)
(* Ephemeral Rollup.                                                       *)
(***************************************************************************)
EXTENDS SyndicateMath

CONSTANTS
    SESSION_SECONDS,      \* life of a session
    MAX_TRADES,           \* trades a session may record
    MAX_TRADE_BPS,        \* one trade, as a part of session equity
    MAX_ASSET_BPS,        \* one asset after a buy, as a part of equity
    MAX_DRAWDOWN_BPS,     \* largest loss from the peak a trade may leave
    MAX_SLIPPAGE_BPS,     \* largest slippage a caller may ask for
    MIN_NOTIONAL          \* smallest trade

ASSUME SessionAssumption ==
    /\ SESSION_SECONDS \in Nat \ {0}
    /\ MAX_TRADES \in Nat
    /\ MAX_TRADE_BPS \in Nat
    /\ MAX_ASSET_BPS \in Nat
    /\ MAX_DRAWDOWN_BPS \in Nat
    /\ MAX_DRAWDOWN_BPS < BPS_SCALE
    /\ MAX_SLIPPAGE_BPS \in Nat
    /\ MIN_NOTIONAL \in Nat \ {0}

Assets == {0, 1}

Sides == {"buy", "sell"}

SessionStatus == {"NONE", "ACTIVE", "FROZEN", "COMMITTING"}

\* The account's expires_at is compared with the clock and never printed or
\* changed, so the specification keeps the time left instead; trade_count is
\* a u16 in the program and never near its limit.
Session ==
    [status : SessionStatus, starting_equity : Word, cash : Word,
     equity : Word, peak_equity : Word, drawdown_bps : Nat,
     trade_count : Nat, quantity : [Assets -> Word], cost : [Assets -> Word],
     last_price : [Assets -> Word]]

\* An account that does not exist.
BlankSession ==
    [status |-> "NONE", starting_equity |-> 0, cash |-> 0,
     equity |-> 0, peak_equity |-> 0, drawdown_bps |-> 0,
     trade_count |-> 0, quantity |-> [a \in Assets |-> 0],
     cost |-> [a \in Assets |-> 0], last_price |-> [a \in Assets |-> 0]]

StartedSession(balance) ==
    [BlankSession EXCEPT !.status = "ACTIVE",
                         !.starting_equity = balance,
                         !.cash = balance,
                         !.equity = balance,
                         !.peak_equity = balance]

-----------------------------------------------------------------------------
(* Marking to market *)

\* Cash and both positions at given prices.
EquityAt(s, price) ==
    s.cash + position_value(s.quantity[0], price[0])
           + position_value(s.quantity[1], price[1])

DrawdownFrom(peak, equity) ==
    IF peak = 0 THEN 0 ELSE mul_div(peak - equity, BPS_SCALE, peak)

\* Slip (see SessionIsSound): the peak is not raised.
MarkedUnderOldPeak(s) ==
    [s EXCEPT !.equity = EquityAt(s, s.last_price)]

mark_equity(s) ==
    LET equity == EquityAt(s, s.last_price)
        peak   == Larger(s.peak_equity, equity)
    IN  [s EXCEPT !.equity = equity,
                  !.peak_equity = peak,
                  !.drawdown_bps = DrawdownFrom(peak, equity)]

-----------------------------------------------------------------------------
(* One trade: t is the caller's request, price the oracle's in micro-units, *)
(* left the seconds before the session expires                             *)

Notional(t, price) == position_value(t.quantity, price)

ReleasedCost(s, t) ==
    mul_div(s.cost[t.asset], t.quantity, s.quantity[t.asset])

Bought(s, t, price) ==
    [s EXCEPT !.cash = @ - Notional(t, price),
              !.quantity[t.asset] = @ + t.quantity,
              !.cost[t.asset] = @ + Notional(t, price),
              !.last_price[t.asset] = price]

\* Slip (see TypeOK): the cost shrinks by the proceeds of the sale.
SoldOffProceeds(s, t, price) ==
    [s EXCEPT !.cash = @ + Notional(t, price),
              !.quantity[t.asset] = @ - t.quantity,
              !.cost[t.asset] = @ - Notional(t, price),
              !.last_price[t.asset] = price]

Sold(s, t, price) ==
    [s EXCEPT !.cash = @ + Notional(t, price),
              !.quantity[t.asset] = @ - t.quantity,
              !.cost[t.asset] = @ - ReleasedCost(s, t),
              !.last_price[t.asset] = price]

Traded(s, t, price) ==
    LET filled == IF t.side = "buy" THEN Bought(s, t, price)
                                    ELSE Sold(s, t, price)
    IN  [mark_equity(filled) EXCEPT !.trade_count = @ + 1]

BuyAllowed(s, t, price) ==
    LET holding == s.quantity[t.asset] + t.quantity
    IN  /\ s.cash >= Notional(t, price)
        /\ Fits(holding)
        /\ position_value(holding, price) <= bps_of(s.equity, MAX_ASSET_BPS)
        /\ Fits(s.cost[t.asset] + Notional(t, price))

SellAllowed(s, t, price) ==
    /\ s.quantity[t.asset] >= t.quantity
    /\ Fits(s.cash + Notional(t, price))

RequestAllowed(s, t, price) ==
    /\ t.quantity > 0
    /\ t.expected > 0
    /\ s.trade_count < MAX_TRADES
    /\ t.slippage <= MAX_SLIPPAGE_BPS
    /\ SlippageWithin(price, t.expected, t.slippage)
    /\ Fits(Notional(t, price))
    /\ Notional(t, price) >= MIN_NOTIONAL
    /\ Notional(t, price) <= bps_of(s.equity, MAX_TRADE_BPS)
    /\ t.side = "buy" => BuyAllowed(s, t, price)
    /\ t.side = "sell" => SellAllowed(s, t, price)

\* Slip (see FrozenIsFinal): a trade looks at the clock only.
TradeUntilExpiry(s, t, price, left) ==
    /\ left >= 0
    /\ RequestAllowed(s, t, price)
    /\ Fits(Traded(s, t, price).equity)
    /\ Traded(s, t, price).drawdown_bps <= MAX_DRAWDOWN_BPS

\* A trade that would leave too deep a drawdown fails as a whole: the new
\* mark is lost with it.
TradeAllowed(s, t, price, left) ==
    /\ s.status = "ACTIVE"
    /\ left >= 0
    /\ RequestAllowed(s, t, price)
    /\ Fits(Traded(s, t, price).equity)
    /\ Traded(s, t, price).drawdown_bps <= MAX_DRAWDOWN_BPS

-----------------------------------------------------------------------------
(* Freezing and finalizing *)

\* Slip (see ScheduledSessionFreezes): the boundary second is missed.
ExpiredLater(s, left) ==
    IF s.status = "ACTIVE" /\ left < 0
    THEN [s EXCEPT !.status = "FROZEN"]
    ELSE s

Expired(s, left) ==
    IF s.status = "ACTIVE" /\ left <= 0
    THEN [s EXCEPT !.status = "FROZEN"]
    ELSE s

\* Slip (see DelegatedSessionSettles): only a frozen session ends.
FinalizeFrozen(s, left) == s.status = "FROZEN"

FinalizeAllowed(s, left) == s.status = "FROZEN" \/ left <= 0

Finalized(s) == [s EXCEPT !.status = "COMMITTING"]
=============================================================================
