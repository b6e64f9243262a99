--------------------------- MODULE SyndicateProofs ---------------------------
(***************************************************************************)
(* What holds of Syndicate for any wallets, amounts, quotes and limits:    *)
(* how the rounding of mul_div bounds a share issue, a redemption, a fee   *)
(* and the drawdown, and that every account keeps its layout.              *)
(***************************************************************************)
EXTENDS SyndicateProperties, SumsProofs

-----------------------------------------------------------------------------
(* Arithmetic *)

\* mul_div rounds down: it never exceeds the exact quotient and is less than
\* one below it (lib.rs:847-854).
LEMMA MulDivRoundsDown ==
    ASSUME NEW a \in Nat, NEW b \in Nat, NEW d \in Nat \ {0}
    PROVE  /\ mul_div(a, b, d) \in Nat
           /\ mul_div(a, b, d) * d <= a * b
           /\ a * b < (mul_div(a, b, d) + 1) * d
<1>1. a * b \in Nat
  OBVIOUS
<1>2. ASSUME NEW p \in Nat
      PROVE  /\ p \div d \in Nat
             /\ (p \div d) * d <= p
             /\ p < ((p \div d) + 1) * d
  OBVIOUS
<1>3. QED
  BY <1>1, <1>2 DEF mul_div

\* Products keep an order between their first factors.
LEMMA ProductsKeepOrder ==
    ASSUME NEW a \in Nat, NEW b \in Nat, NEW c \in Nat, a <= b
    PROVE  a * c <= b * c
  OBVIOUS

\* ... and can be cancelled.
LEMMA ProductsCancel ==
    ASSUME NEW a \in Nat, NEW b \in Nat, NEW c \in Nat \ {0}, a * c <= b * c
    PROVE  a <= b
  OBVIOUS

\* A part of a, taken as b of d, is no more than a when b is no more than d.
LEMMA PartIsNoMore ==
    ASSUME NEW a \in Nat, NEW b \in Nat, NEW d \in Nat \ {0}, b <= d
    PROVE  mul_div(a, b, d) <= a
<1> DEFINE q == mul_div(a, b, d)
<1>1. /\ q \in Nat
      /\ q * d <= a * b
  BY MulDivRoundsDown
<1>2. a * b <= a * d
  OBVIOUS
<1> HIDE DEF q
<1>3. q * d <= a * d
  BY <1>1, <1>2
<1>4. q <= a
  BY <1>1, <1>3, ProductsCancel
<1>5. QED
  BY <1>4 DEF q

\* The part of an amount that some basis points make.
LEMMA BpsOfBound ==
    ASSUME NEW x \in Nat, NEW bps \in Nat, bps <= BPS_SCALE
    PROVE  /\ bps_of(x, bps) \in Nat
           /\ bps_of(x, bps) <= x
           /\ bps_of(x, bps) * BPS_SCALE <= x * bps
<1>1. BPS_SCALE \in Nat \ {0}
  BY MathAssumption
<1>2. QED
  BY <1>1, MulDivRoundsDown, PartIsNoMore DEF bps_of

LEMMA SharePriceType ==
    ASSUME NEW value \in Nat, NEW total \in Nat \ {0}
    PROVE  /\ share_price(value, total) \in Word
           /\ share_price(value, total) * total <= value * SHARE_SCALE
<1> DEFINE price == (value * SHARE_SCALE) \div total
<1>1. /\ price \in Nat
      /\ price * total <= value * SHARE_SCALE
  BY MathAssumption, MulDivRoundsDown DEF mul_div
<1>2. share_price(value, total) = price % U64
  BY DEF share_price, truncated
<1> HIDE DEF price
<1>3. /\ price % U64 \in Word
      /\ price % U64 <= price
  BY <1>1, MathAssumption DEF Word
<1>4. (price % U64) * total <= price * total
  BY <1>1, <1>3, MathAssumption, ProductsKeepOrder
<1>5. value * SHARE_SCALE \in Nat /\ price * total \in Nat
  BY <1>1, MathAssumption
<1>6. (price % U64) * total \in Nat
  BY <1>3 DEF Word
<1>7. QED
  BY <1>1, <1>2, <1>3, <1>4, <1>5, <1>6

\* A performance fee (lib.rs:909-949) is a part of the session's own profit.
LEMMA FeeBound ==
    ASSUME NEW start \in Nat, NEW end \in Nat, end >= start,
           NEW total \in Nat \ {0}, NEW high_water \in Nat
    PROVE  LET fee == PerformanceFee(start, end, total, high_water)
           IN  /\ fee \in Nat
               /\ fee <= end - start
               /\ fee * BPS_SCALE <= (end - start) * PERFORMANCE_FEE_BPS
<1> DEFINE gross    == share_price(end, total)
           eligible == mul_div(gross - high_water, total, SHARE_SCALE)
           taxed    == Smaller(eligible, end - start)
<1>1. gross \in Nat
  BY SharePriceType DEF Word
<1>2. CASE gross > high_water
  <2>1. eligible \in Nat
    <3> HIDE DEF gross
    <3>1. gross - high_water \in Nat
      BY <1>1, <1>2
    <3>2. QED
      BY <3>1, MulDivRoundsDown, MathAssumption
  <2>2. taxed \in Nat /\ taxed <= end - start
    BY <2>1 DEF Smaller
  <2>3. /\ bps_of(taxed, PERFORMANCE_FEE_BPS) \in Nat
        /\ bps_of(taxed, PERFORMANCE_FEE_BPS) <= taxed
        /\ bps_of(taxed, PERFORMANCE_FEE_BPS) * BPS_SCALE
             <= taxed * PERFORMANCE_FEE_BPS
    BY <2>2, BpsOfBound, MathAssumption
  <2>4. PerformanceFee(start, end, total, high_water)
          = bps_of(taxed, PERFORMANCE_FEE_BPS)
    BY <1>2 DEF PerformanceFee
  <2>5. PERFORMANCE_FEE_BPS \in Nat /\ BPS_SCALE \in Nat
    BY MathAssumption
  <2> DEFINE fee == bps_of(taxed, PERFORMANCE_FEE_BPS)
             profit == end - start
  <2>6. profit \in Nat
    OBVIOUS
  <2> HIDE DEF taxed, fee, profit
  <2>7. taxed * PERFORMANCE_FEE_BPS <= profit * PERFORMANCE_FEE_BPS
    BY <2>2, <2>5, <2>6, ProductsKeepOrder DEF profit
  <2>8. /\ fee \in Nat
        /\ fee <= profit
        /\ fee * BPS_SCALE <= profit * PERFORMANCE_FEE_BPS
    BY <2>2, <2>3, <2>5, <2>6, <2>7 DEF fee, profit
  <2>9. QED
    BY <2>4, <2>8 DEF fee, profit
<1>3. CASE ~(gross > high_water)
  <2>1. PerformanceFee(start, end, total, high_water) = 0
    BY <1>3 DEF PerformanceFee
  <2>2. (end - start) * PERFORMANCE_FEE_BPS \in Nat
    BY MathAssumption
  <2>3. QED
    BY <2>1, <2>2, MathAssumption
<1>4. QED
  BY <1>2, <1>3

\* With its fee taken off, a session's value per share is still no lower than
\* the high-water price it was charged above (lib.rs:923-948).
LEMMA FeeLeavesMark ==
    ASSUME NEW start \in Nat, NEW end \in Nat, end >= start,
           NEW total \in Nat \ {0}, NEW high_water \in Nat,
           PerformanceFee(start, end, total, high_water) > 0
    PROVE  (end - PerformanceFee(start, end, total, high_water)) * SHARE_SCALE
             >= high_water * total
<1> DEFINE gross    == share_price(end, total)
           above    == gross - high_water
           eligible == mul_div(above, total, SHARE_SCALE)
           fee      == PerformanceFee(start, end, total, high_water)
           scale    == SHARE_SCALE
<1>1. gross \in Nat /\ gross * total <= end * scale
  BY SharePriceType DEF Word
<1>2. scale \in Nat \ {0}
  BY MathAssumption
<1>3. gross > high_water
  BY DEF PerformanceFee
<1>4. fee = bps_of(Smaller(eligible, end - start), PERFORMANCE_FEE_BPS)
  BY <1>3 DEF PerformanceFee
<1> HIDE DEF gross, fee
<1>5. above \in Nat
  BY <1>1, <1>3
<1> HIDE DEF above
<1>6. eligible \in Nat /\ eligible * scale <= above * total
  BY <1>2, <1>5, MulDivRoundsDown
<1> HIDE DEF eligible
<1>7. fee \in Nat /\ fee <= eligible
  <2> DEFINE taxed == Smaller(eligible, end - start)
  <2>1. taxed \in Nat /\ taxed <= eligible
    BY <1>6 DEF Smaller
  <2> HIDE DEF taxed
  <2>2. bps_of(taxed, PERFORMANCE_FEE_BPS) \in Nat
          /\ bps_of(taxed, PERFORMANCE_FEE_BPS) <= taxed
    BY <2>1, BpsOfBound, MathAssumption
  <2>3. QED
    BY <1>4, <1>6, <2>1, <2>2 DEF taxed
<1> HIDE DEF scale
<1>8. fee * scale <= eligible * scale
  BY <1>2, <1>6, <1>7, ProductsKeepOrder
<1>9. above * total = gross * total - high_water * total
  BY <1>1 DEF above
<1>10. (end - fee) * scale = end * scale - fee * scale
  BY <1>2, <1>7
<1>11. /\ gross * total \in Nat
       /\ high_water * total \in Nat
       /\ end * scale \in Nat
       /\ fee * scale \in Nat
       /\ eligible * scale \in Nat
  BY <1>1, <1>2, <1>6, <1>7
<1>12. (end - fee) * scale >= high_water * total
  BY <1>1, <1>6, <1>8, <1>9, <1>10, <1>11
<1>13. QED
  BY <1>12 DEF fee, scale

\* Depositing and redeeming at once never returns more than was put in.
LEMMA RoundTripGainsNothing ==
    ASSUME NEW amount \in Nat, NEW total \in Nat \ {0}, NEW held \in Nat \ {0}
    PROVE  LET issued == shares_for_deposit(amount, total, held)
           IN  tokens_for_withdrawal(issued, total + issued, held + amount)
                 <= amount
<1> DEFINE issued == shares_for_deposit(amount, total, held)
           back   == tokens_for_withdrawal(issued, total + issued,
                                           held + amount)
<1>1. issued \in Nat /\ issued * held <= amount * total
  BY MulDivRoundsDown DEF shares_for_deposit
<1> HIDE DEF issued
<1>2. total + issued \in Nat \ {0} /\ held + amount \in Nat
  BY <1>1
<1>3. back \in Nat /\ back * (total + issued) <= issued * (held + amount)
  BY <1>1, <1>2, MulDivRoundsDown DEF tokens_for_withdrawal
<1> HIDE DEF back
<1>4. issued * (held + amount) <= amount * (total + issued)
  BY <1>1
<1>5. back * (total + issued) <= amount * (total + issued)
  <2>1. /\ back * (total + issued) \in Nat
        /\ issued * (held + amount) \in Nat
        /\ amount * (total + issued) \in Nat
    BY <1>1, <1>2, <1>3
  <2>2. QED
    BY <1>3, <1>4, <2>1
<1>6. back <= amount
  BY <1>2, <1>3, <1>5, ProductsCancel
<1>7. QED
  BY <1>6 DEF back, issued

-----------------------------------------------------------------------------
USE MathAssumption DEF Word, Fits

-----------------------------------------------------------------------------
(* Sessions stay well formed *)

LEMMA TruncatedType ==
    ASSUME NEW x \in Nat
    PROVE  truncated(x) \in Word /\ truncated(x) <= x
  BY MathAssumption DEF truncated

LEMMA StartedSessionType ==
    ASSUME NEW b \in Word
    PROVE  StartedSession(b) \in Session /\ BlankSession \in Session
<1>1. 0 \in Word
  BY MathAssumption
<1>2. [a \in Assets |-> 0] \in [Assets -> Word]
  BY <1>1
<1>3. BlankSession \in Session
  BY <1>1, <1>2 DEF BlankSession, Session, SessionStatus
<1>4. StartedSession(b) \in Session
  BY <1>1, <1>2 DEF StartedSession, BlankSession, Session, SessionStatus
<1>5. QED
  BY <1>3, <1>4

LEMMA PositionValueType ==
    ASSUME NEW q \in Nat, NEW p \in Nat
    PROVE  position_value(q, p) \in Nat
  BY MulDivRoundsDown, MathAssumption DEF position_value

LEMMA EquityType ==
    ASSUME NEW s \in Session, NEW price \in [Assets -> Nat]
    PROVE  EquityAt(s, price) \in Nat
<1>1. s.cash \in Nat /\ s.quantity \in [Assets -> Word]
  BY DEF Session
<1>2. \A a \in Assets : position_value(s.quantity[a], price[a]) \in Nat
  <2>1. \A a \in Assets : s.quantity[a] \in Nat /\ price[a] \in Nat
    BY <1>1
  <2>2. QED
    BY <2>1, PositionValueType
<1>3. QED
  BY <1>1, <1>2 DEF EquityAt, Assets

LEMMA DrawdownType ==
    ASSUME NEW peak \in Nat, NEW equity \in Nat, equity <= peak
    PROVE  DrawdownFrom(peak, equity) \in Nat
<1>1. CASE peak = 0
  BY <1>1 DEF DrawdownFrom
<1>2. CASE peak # 0
  <2>1. peak - equity \in Nat /\ BPS_SCALE \in Nat /\ peak \in Nat \ {0}
    BY <1>2, MathAssumption
  <2>2. mul_div(peak - equity, BPS_SCALE, peak) \in Nat
    BY <2>1, MulDivRoundsDown
  <2>3. QED
    BY <1>2, <2>2 DEF DrawdownFrom
<1>3. QED
  BY <1>1, <1>2

\* mark_equity (lib.rs:890-908) keeps a session well formed when the equity
\* fits a word, and writes nothing but the three marks.
LEMMA MarkEquity ==
    ASSUME NEW s \in Session, Fits(EquityAt(s, s.last_price))
    PROVE  LET m == mark_equity(s)
               equity == EquityAt(s, s.last_price)
           IN  /\ m \in Session
               /\ m.equity = equity
               /\ m.peak_equity = Larger(s.peak_equity, equity)
               /\ m.drawdown_bps = DrawdownFrom(m.peak_equity, equity)
               /\ m.status = s.status
               /\ m.starting_equity = s.starting_equity
               /\ m.trade_count = s.trade_count
<1> DEFINE equity == EquityAt(s, s.last_price)
           peak   == Larger(s.peak_equity, equity)
<1>1. equity \in Word /\ s.peak_equity \in Word
  BY DEF Session
<1>2. peak \in Word /\ equity <= peak
  BY <1>1 DEF Larger
<1>3. DrawdownFrom(peak, equity) \in Nat
  BY <1>1, <1>2, DrawdownType
<1>4. mark_equity(s) = [s EXCEPT !.equity = equity, !.peak_equity = peak,
                                 !.drawdown_bps = DrawdownFrom(peak, equity)]
  BY DEF mark_equity
<1> HIDE DEF equity, peak
<1>5. QED
  BY <1>1, <1>2, <1>3, <1>4 DEF Session, equity, peak

Filled(s, t, price) ==
    IF t.side = "buy" THEN Bought(s, t, price) ELSE Sold(s, t, price)

LEMMA TradeTypes ==
    ASSUME NEW t \in Trades
    PROVE  /\ t.asset \in Assets
           /\ t.side \in Sides
           /\ t.quantity \in Nat
           /\ t.expected \in Nat
           /\ t.slippage \in Nat
  BY SyndicateAssumption, SessionAssumption DEF Trades

\* A session with its cash, one position and that position's price written.
PositionWritten(s, a, cash, quantity, cost, price) ==
    [s EXCEPT !.cash = cash,
              !.quantity[a] = quantity,
              !.cost[a] = cost,
              !.last_price[a] = price]

\* Such a write leaves a session well formed, and these fields alone.
Unwritten == {"status", "starting_equity", "peak_equity", "trade_count"}

LEMMA PositionWrittenType ==
    ASSUME NEW s \in Session, NEW a \in Assets, NEW cash \in Word,
           NEW quantity \in Word, NEW cost \in Word, NEW price \in Word
    PROVE  LET f == PositionWritten(s, a, cash, quantity, cost, price)
           IN  f \in Session /\ \A k \in Unwritten : f[k] = s[k]
<1>1. /\ [s.quantity EXCEPT ![a] = quantity] \in [Assets -> Word]
      /\ [s.cost EXCEPT ![a] = cost] \in [Assets -> Word]
      /\ [s.last_price EXCEPT ![a] = price] \in [Assets -> Word]
  BY DEF Session
<1>2. QED
  BY <1>1 DEF Session, PositionWritten, Unwritten

LEMMA FilledType ==
    ASSUME NEW s \in Session, NEW t \in Trades, NEW price \in Word,
           RequestAllowed(s, t, price)
    PROVE  LET f == Filled(s, t, price)
           IN  f \in Session /\ \A k \in Unwritten : f[k] = s[k]
<1> DEFINE f     == Filled(s, t, price)
           value == Notional(t, price)
           a     == t.asset
           held  == s.quantity[a]
           paid  == s.cost[a]
           freed == ReleasedCost(s, t)
<1>1. /\ a \in Assets
      /\ t.quantity \in Nat \ {0}
  BY TradeTypes DEF RequestAllowed
<1>2. s.cash \in Word /\ held \in Word /\ paid \in Word
  BY <1>1 DEF Session
<1>3. value \in Word
  BY DEF RequestAllowed
<1>4. CASE t.side = "buy"
  <2> DEFINE cash     == s.cash - value
             quantity == held + t.quantity
             cost     == paid + value
  <2>1. s.cash >= value /\ quantity \in Word /\ cost \in Word
    BY <1>4 DEF RequestAllowed, BuyAllowed
  <2>2. f = PositionWritten(s, a, cash, quantity, cost, price)
    BY <1>4, <1>1 DEF Filled, Bought, Session, PositionWritten
  <2> HIDE DEF f, value, a, held, paid
  <2>3. cash \in Word
    BY <2>1, <1>2, <1>3
  <2> HIDE DEF cash, quantity, cost, Word
  <2>4. /\ a \in Assets
        /\ cash \in Word
        /\ quantity \in Word
        /\ cost \in Word
    BY <2>1, <2>3, <1>1
    <2> DEFINE g == PositionWritten(s, a, cash, quantity, cost, price)
  <2>5. g \in Session /\ \A k \in Unwritten : g[k] = s[k]
    BY <2>4, PositionWrittenType
  <2> HIDE DEF g
  <2>6. f \in Session /\ \A k \in Unwritten : f[k] = s[k]
    BY <2>2, <2>5 DEF g
  <2>7. QED
    BY <2>6 DEF f
<1>5. CASE t.side # "buy"
  <2> DEFINE cash     == s.cash + value
             quantity == held - t.quantity
             cost     == paid - freed
  <2>1. held >= t.quantity /\ cash \in Word
    BY <1>5, TradeTypes DEF RequestAllowed, SellAllowed, Sides
  <2>2. freed \in Nat /\ freed <= paid
    <3>1. /\ held \in Nat \ {0}
          /\ t.quantity \in Nat
          /\ t.quantity <= held
          /\ paid \in Nat
      BY <2>1, <1>1, <1>2
    <3>2. freed = mul_div(paid, t.quantity, held)
      BY DEF ReleasedCost
    <3> HIDE DEF freed, paid, held
    <3>3. QED
      BY <3>1, <3>2, PartIsNoMore, MulDivRoundsDown
  <2>3. f = PositionWritten(s, a, cash, quantity, cost, price)
    BY <1>5, <1>1 DEF Filled, Sold, Session, PositionWritten
  <2> HIDE DEF f, value, a, held, paid, freed
  <2>4. quantity \in Word /\ cost \in Word
    BY <2>1, <2>2, <1>1, <1>2
  <2> HIDE DEF cash, quantity, cost, Word
  <2>5. /\ a \in Assets
        /\ cash \in Word
        /\ quantity \in Word
        /\ cost \in Word
    BY <2>1, <2>4, <1>1
    <2> DEFINE g == PositionWritten(s, a, cash, quantity, cost, price)
  <2>6. g \in Session /\ \A k \in Unwritten : g[k] = s[k]
    BY <2>5, PositionWrittenType
  <2> HIDE DEF g
  <2>7. f \in Session /\ \A k \in Unwritten : f[k] = s[k]
    BY <2>3, <2>6 DEF g
  <2>8. QED
    BY <2>7 DEF f
<1>6. QED
  BY <1>4, <1>5

\* An allowed trade (lib.rs:290-400) leaves a well-formed session, still
\* started from the same equity, and within the drawdown limit.
LEMMA TradedType ==
    ASSUME NEW s \in Session, NEW t \in Trades, NEW price \in Word,
           NEW seconds, TradeAllowed(s, t, price, seconds)
    PROVE  LET d == Traded(s, t, price)
           IN  /\ d \in Session
               /\ d.status = "ACTIVE"
               /\ d.starting_equity = s.starting_equity
               /\ d.peak_equity = Larger(s.peak_equity, d.equity)
               /\ d.drawdown_bps = DrawdownFrom(d.peak_equity, d.equity)
               /\ d.drawdown_bps <= MAX_DRAWDOWN_BPS
<1> DEFINE f == Filled(s, t, price)
           m == mark_equity(f)
           d == Traded(s, t, price)
<1>1. /\ f \in Session
      /\ f.status = "ACTIVE"
      /\ f.starting_equity = s.starting_equity
      /\ f.peak_equity = s.peak_equity
  BY FilledType DEF TradeAllowed, Unwritten
<1>2. d = [m EXCEPT !.trade_count = @ + 1]
  BY DEF Traded, Filled
<1>3. d.equity = EquityAt(f, f.last_price)
  BY <1>1, <1>2 DEF mark_equity, Session
<1>4. Fits(EquityAt(f, f.last_price)) /\ d.drawdown_bps <= MAX_DRAWDOWN_BPS
  BY <1>3 DEF TradeAllowed
<1> HIDE DEF f, d
<1>5. /\ m \in Session
      /\ m.equity = EquityAt(f, f.last_price)
      /\ m.peak_equity = Larger(f.peak_equity, m.equity)
      /\ m.drawdown_bps = DrawdownFrom(m.peak_equity, m.equity)
      /\ m.status = f.status
      /\ m.starting_equity = f.starting_equity
  BY <1>1, <1>4, MarkEquity
<1> HIDE DEF m
<1>6. d \in Session
  BY <1>2, <1>5 DEF Session
<1>7. /\ d.equity = m.equity
      /\ d.peak_equity = m.peak_equity
      /\ d.drawdown_bps = m.drawdown_bps
      /\ d.status = m.status
      /\ d.starting_equity = m.starting_equity
  BY <1>2, <1>5 DEF Session
<1>8. QED
  BY <1>1, <1>4, <1>5, <1>6, <1>7 DEF d

LEMMA TypeInit == Init => TypeOK
<1> SUFFICES ASSUME Init PROVE TypeOK
  OBVIOUS
<1> USE SyndicateAssumption, SessionAssumption, MathAssumption
<1>1. 0 \in Word
  OBVIOUS
<1>2. PoolTypeOK
  <2>1. pool \in Pool /\ receipt \in [Nonces -> Receipt]
    BY <1>1 DEF Init, Pool, AbsentPool, Receipt, NoReceipt
  <2>2. QED
    BY <1>1, <2>1 DEF Init, PoolTypeOK
<1>3. SessionsTypeOK
  BY <1>1, StartedSessionType DEF Init, SessionsTypeOK, Places
<1>4. EnvTypeOK
  <2>1. oracle \in [Feeds -> Int \X Int]
    BY DEF Init, Feeds
  <2>2. age \in [Feeds -> 0 .. ORACLE_MAX_AGE + 1]
    BY DEF Init
  <2>3. QED
    BY <2>1, <2>2 DEF Init, EnvTypeOK
<1>5. QED
  BY <1>2, <1>3, <1>4 DEF TypeOK

-----------------------------------------------------------------------------
(* Every step keeps the state well formed *)

LEMMA ExpiredType ==
    ASSUME NEW s \in Session, NEW seconds
    PROVE  Expired(s, seconds) \in Session /\ Finalized(s) \in Session
  BY DEF Expired, Finalized, Session, SessionStatus

LEMMA SetLiveType ==
    ASSUME SessionsTypeOK, NEW n \in Nonces, NEW s \in Session,
           SetLive(n, s), UNCHANGED <<place, left, tasks>>
    PROVE  SessionsTypeOK'
  BY DEF SessionsTypeOK, SetLive

LEMMA LiveType ==
    ASSUME SessionsTypeOK, NEW n \in Nonces
    PROVE  Live(n) \in Session
  BY DEF SessionsTypeOK, Live

LEMMA DepositType ==
    ASSUME TypeOK, NEW u \in Users, NEW amount \in Amounts, Deposit(u, amount)
    PROVE  TypeOK'
<1> DEFINE issued == shares_for_deposit(amount, pool.total_shares, vault)
<1>1. PoolTypeOK
  BY DEF TypeOK
<1>2. amount \in Nat
  BY SyndicateAssumption
<1>3. /\ issued \in Nat
      /\ wallet[u] >= amount
      /\ vault + amount \in Word
      /\ shares[u] + issued \in Word
      /\ pool.total_shares + issued \in Word
      /\ wallet' = [wallet EXCEPT ![u] = @ - amount]
      /\ vault' = vault + amount
      /\ joined' = joined \cup {u}
      /\ shares' = [shares EXCEPT ![u] = @ + issued]
      /\ pool' = [pool EXCEPT !.total_shares = @ + issued,
                              !.backer_count = BackersWith(u)]
      /\ UNCHANGED <<claimed, supply, receipt>>
      /\ UNCHANGED <<sessionVars, envVars>>
  BY DEF Deposit
<1> HIDE DEF issued
<1>4. pool' \in Pool
  <2> DEFINE count == BackersWith(u)
  <2>1. pool \in Pool
    BY <1>1 DEF PoolTypeOK
  <2>2. count \in Nat
    BY <2>1 DEF Pool, BackersWith
  <2>3. pool' = [pool EXCEPT !.total_shares = pool.total_shares + issued,
                             !.backer_count = count]
    BY <1>3, <2>1 DEF Pool
  <2> HIDE DEF count
  <2>4. QED
    BY <1>3, <2>1, <2>2, <2>3 DEF Pool
<1>5. wallet' \in [Users -> Word] /\ shares' \in [Users -> Word]
  BY <1>1, <1>2, <1>3 DEF PoolTypeOK
<1>6. PoolTypeOK'
  BY <1>1, <1>3, <1>4, <1>5 DEF PoolTypeOK
<1>7. QED
  BY <1>3, <1>6 DEF TypeOK, SessionsTypeOK, EnvTypeOK, sessionVars, envVars

LEMMA WithdrawType ==
    ASSUME TypeOK, NEW u \in Users, NEW n \in 1 .. shares[u], Withdraw(u, n)
    PROVE  TypeOK'
<1> DEFINE amount == tokens_for_withdrawal(n, pool.total_shares, vault)
<1>1. PoolTypeOK
  BY DEF TypeOK
<1>2. n \in Nat
  OBVIOUS
<1>3. /\ amount \in Nat
      /\ n <= shares[u]
      /\ n <= pool.total_shares
      /\ amount <= vault
      /\ wallet[u] + amount \in Word
      /\ vault' = vault - amount
      /\ wallet' = [wallet EXCEPT ![u] = @ + amount]
      /\ shares' = [shares EXCEPT ![u] = @ - n]
      /\ pool' = [pool EXCEPT !.total_shares = @ - n]
      /\ UNCHANGED <<claimed, supply, joined, receipt>>
      /\ UNCHANGED <<sessionVars, envVars>>
  BY DEF Withdraw
<1> HIDE DEF amount
<1>4. pool' \in Pool
  BY <1>1, <1>2, <1>3 DEF PoolTypeOK, Pool
<1>5. /\ wallet' \in [Users -> Word]
      /\ shares' \in [Users -> Word]
      /\ vault' \in Word
  BY <1>1, <1>2, <1>3 DEF PoolTypeOK
<1>6. PoolTypeOK'
  BY <1>1, <1>3, <1>4, <1>5 DEF PoolTypeOK
<1>7. QED
  BY <1>3, <1>6 DEF TypeOK, SessionsTypeOK, EnvTypeOK, sessionVars, envVars

\* Handlers that touch only the pool's wallets and vault.
LEMMA WalletsType ==
    ASSUME TypeOK,
           \/ InitializeConfig
           \/ CreateSyndicate
           \/ \E u \in Users : ClaimFusd(u)
           \/ \E u \in Users, amount \in Amounts : DirectTransfer(u, amount)
    PROVE  TypeOK'
<1> USE SyndicateAssumption, MathAssumption
<1>1. PoolTypeOK /\ SessionsTypeOK /\ EnvTypeOK
  BY DEF TypeOK
<1>2. CASE InitializeConfig
  BY <1>1, <1>2 DEF InitializeConfig, TypeOK, PoolTypeOK, SessionsTypeOK,
                    EnvTypeOK, poolVars, sessionVars
<1>3. CASE CreateSyndicate
  <2>1. pool' \in Pool
    <3>1. truncated(SHARE_SCALE) \in Word
      BY TruncatedType
    <3>2. 0 \in Word
      OBVIOUS
    <3>3. QED
      BY <1>3, <3>1, <3>2 DEF CreateSyndicate, AbsentPool, Pool
  <2>2. QED
    BY <1>1, <1>3, <2>1 DEF CreateSyndicate, TypeOK, PoolTypeOK,
                            SessionsTypeOK, EnvTypeOK, sessionVars, envVars
<1>4. ASSUME NEW u \in Users, ClaimFusd(u)
      PROVE  TypeOK'
  <2>1. wallet' \in [Users -> Word] /\ claimed' \subseteq Users
    BY <1>1, <1>4 DEF ClaimFusd, PoolTypeOK
  <2>2. QED
    BY <1>1, <1>4, <2>1 DEF ClaimFusd, TypeOK, PoolTypeOK,
                            SessionsTypeOK, EnvTypeOK, sessionVars, envVars
<1>5. ASSUME NEW u \in Users, NEW amount \in Amounts,
             DirectTransfer(u, amount)
      PROVE  TypeOK'
  <2>1. wallet' \in [Users -> Word]
    BY <1>1, <1>5 DEF DirectTransfer, PoolTypeOK
  <2>2. QED
    BY <1>1, <1>5, <2>1 DEF DirectTransfer, TypeOK, PoolTypeOK,
                            SessionsTypeOK, EnvTypeOK, sessionVars, envVars
<1>6. QED
  BY <1>2, <1>3, <1>4, <1>5

\* Handlers that touch the copies of a session.
LEMMA SessionsType ==
    ASSUME TypeOK, NEW n \in Nonces,
           \/ DelegateSession(n)
           \/ ScheduleExpiry(n)
           \/ \E t \in Trades : Trade(n, t)
           \/ ExpireSession(n)
           \/ CrankRuns(n)
           \/ FinalizeSession(n)
           \/ CommitLands(n)
    PROVE  TypeOK'
<1>1. PoolTypeOK /\ SessionsTypeOK /\ EnvTypeOK
  BY DEF TypeOK
<1>2. /\ UNCHANGED <<poolVars, envVars>>
      /\ SessionsTypeOK'
  <2>1. CASE DelegateSession(n)
    BY <1>1, <2>1 DEF DelegateSession, SessionsTypeOK, Places
  <2>2. CASE ScheduleExpiry(n)
    <3>1. {0, SESSION_SECONDS} \subseteq 0 .. SESSION_SECONDS
      BY SessionAssumption
    <3>2. QED
      BY <1>1, <2>2, <3>1 DEF ScheduleExpiry, SessionsTypeOK
  <2>3. CASE \E t \in Trades : Trade(n, t)
    <3>1. PICK t \in Trades : Trade(n, t)
      BY <2>3
    <3>2. OraclePrice(t.asset) \in Word
      BY <3>1 DEF Trade, OracleUsable
    <3>3. Traded(Live(n), t, OraclePrice(t.asset)) \in Session
      BY <1>1, <3>1, <3>2, LiveType, TradedType DEF Trade
    <3>4. QED
      BY <1>1, <3>1, <3>3, SetLiveType DEF Trade
  <2>4. CASE ExpireSession(n)
    <3>1. Expired(Live(n), left[n]) \in Session
      BY <1>1, LiveType, ExpiredType
    <3>2. QED
      BY <1>1, <2>4, <3>1, SetLiveType DEF ExpireSession
  <2>5. CASE CrankRuns(n)
    <3>1. Expired(er[n], left[n]) \in Session
      BY <1>1, ExpiredType DEF SessionsTypeOK
    <3>2. QED
      BY <1>1, <2>5, <3>1 DEF CrankRuns, SessionsTypeOK
  <2>6. CASE FinalizeSession(n)
    <3>1. Finalized(er[n]) \in Session
      BY <1>1, ExpiredType DEF SessionsTypeOK
    <3>2. QED
      BY <1>1, <2>6, <3>1 DEF FinalizeSession, SessionsTypeOK, Places
  <2>7. CASE CommitLands(n)
    <3>1. BlankSession \in Session
      BY StartedSessionType, MathAssumption
    <3>2. QED
      BY <1>1, <2>7, <3>1 DEF CommitLands, SessionsTypeOK, Places
  <2>8. QED
    BY <2>1, <2>2, <2>3, <2>4, <2>5, <2>6, <2>7
<1>3. QED
  BY <1>1, <1>2 DEF TypeOK, PoolTypeOK, EnvTypeOK, poolVars, envVars

LEMMA StartSessionType ==
    ASSUME TypeOK, NEW n \in Nonces, StartSession(n)
    PROVE  TypeOK'
<1>1. PoolTypeOK /\ SessionsTypeOK /\ EnvTypeOK
  BY DEF TypeOK
<1>2. n \in Nat
  BY SyndicateAssumption
<1>3. StartedSession(vault) \in Session
  BY <1>1, StartedSessionType DEF PoolTypeOK
<1>4. pool' \in Pool
  BY <1>1, <1>2 DEF StartSession, PoolTypeOK, Pool
<1>5. PoolTypeOK'
  BY <1>1, <1>4 DEF StartSession, PoolTypeOK
<1>6. left' \in [Nonces -> -1 .. SESSION_SECONDS]
  BY <1>1, SessionAssumption DEF StartSession, SessionsTypeOK
<1>7. SessionsTypeOK'
  BY <1>1, <1>3, <1>6 DEF StartSession, SessionsTypeOK, Places
<1>8. QED
  BY <1>1, <1>5, <1>7 DEF StartSession, TypeOK, EnvTypeOK, envVars

LEMMA EnvironmentType ==
    ASSUME TypeOK, Tick \/ \E a \in Feeds : OraclePublishes(a)
    PROVE  TypeOK'
<1>1. PoolTypeOK /\ SessionsTypeOK /\ EnvTypeOK
  BY DEF TypeOK
<1>2. CASE Tick
  <2>1. left' \in [Nonces -> -1 .. SESSION_SECONDS]
    BY <1>1, <1>2, SessionAssumption DEF Tick, SessionsTypeOK, Larger
  <2>2. tasks' \in [Nonces -> SUBSET (0 .. SESSION_SECONDS)]
    <3>1. ASSUME NEW n \in Nonces, NEW due \in tasks[n]
          PROVE  Larger(due - 1, 0) \in 0 .. SESSION_SECONDS
      <4>1. due \in 0 .. SESSION_SECONDS
        BY <1>1 DEF SessionsTypeOK
      <4>2. QED
        BY <4>1, SessionAssumption DEF Larger
    <3>2. QED
      BY <1>2, <3>1 DEF Tick
  <2>3. age' \in [Feeds -> 0 .. ORACLE_MAX_AGE + 1]
    BY <1>1, <1>2, SyndicateAssumption DEF Tick, EnvTypeOK, Smaller
  <2>4. QED
    BY <1>1, <1>2, <2>1, <2>2, <2>3
       DEF Tick, TypeOK, PoolTypeOK, SessionsTypeOK, EnvTypeOK, poolVars
<1>3. CASE \E a \in Feeds : OraclePublishes(a)
  <2>0. PICK a \in Feeds : OraclePublishes(a)
    BY <1>3
  <2>1. PICK q \in Quotes[a] :
           /\ oracle' = [oracle EXCEPT ![a] = q]
           /\ age' = [age EXCEPT ![a] = 0]
           /\ UNCHANGED <<poolVars, sessionVars, config>>
    BY <2>0 DEF OraclePublishes
  <2>2. q \in Int \X Int
    BY <2>0, <2>1, SyndicateAssumption DEF Feeds
  <2>3. EnvTypeOK'
    BY <1>1, <2>1, <2>2, SyndicateAssumption DEF EnvTypeOK
  <2>4. QED
    BY <1>1, <2>1, <2>3
       DEF TypeOK, PoolTypeOK, SessionsTypeOK, poolVars, sessionVars
<1>4. QED
  BY <1>2, <1>3

\* A settlement of words is made of words, but for a fee that the handler
\* checks against the trader's wallet.
LEMMA SettlementType ==
    ASSUME NEW start \in Word, NEW end \in Word, NEW total \in Nat \ {0},
           NEW high_water \in Word
    PROVE  LET s == calculate_settlement(start, end, total, high_water)
           IN  /\ s.mint_amount \in Word
               /\ s.burn_amount \in Word
               /\ s.fee_amount \in Nat
               /\ s.next_high_water \in Word
<1> DEFINE fee == PerformanceFee(start, end, total, high_water)
           s   == calculate_settlement(start, end, total, high_water)
<1>1. CASE end <= start
  BY <1>1 DEF calculate_settlement, LossSettlement
<1>2. CASE end > start
  <2>1. fee \in Nat
    BY <1>2, FeeBound
  <2>2. fee <= end - start
    BY <1>2, FeeBound
  <2>3. share_price(end - fee, total) \in Word
    <3> HIDE DEF fee
    <3>1. end - fee \in Nat
      BY <2>1, <2>2, <1>2
    <3>2. QED
      BY <3>1, SharePriceType
  <2>4. s = [mint_amount |-> end - start, burn_amount |-> 0,
             fee_amount |-> fee,
             next_high_water |->
                Larger(high_water, share_price(end - fee, total))]
    BY <1>2 DEF calculate_settlement, ProfitSettlement
  <2> HIDE DEF fee, s
  <2>5. end - start \in Word /\ 0 \in Word
    BY <1>2
  <2>6. /\ s.mint_amount \in Word
        /\ s.burn_amount \in Word
        /\ s.fee_amount \in Nat
        /\ s.next_high_water \in Word
    BY <2>1, <2>3, <2>4, <2>5 DEF Larger
  <2>7. QED
    BY <2>6 DEF s
<1>3. QED
  BY <1>1, <1>2

\* settle_session (lib.rs:433-515): its guard keeps every balance a word.
LEMMA SettleSessionType ==
    ASSUME TypeOK, NEW n \in Nonces, SettleSession(n)
    PROVE  TypeOK'
<1> DEFINE s == SettlementOf(n)
<1>1. PoolTypeOK /\ SessionsTypeOK /\ EnvTypeOK
  BY DEF TypeOK
<1>2. /\ pool \in Pool
      /\ base[n] \in Session
      /\ wallet \in [Users -> Word]
      /\ Trader \in Users
      /\ pool.total_shares \in Nat \ {0}
  BY <1>1, SyndicateAssumption
     DEF PoolTypeOK, SessionsTypeOK, SettleSession, Settleable, Pool
<1>3. /\ s.mint_amount \in Word
      /\ s.burn_amount \in Word
      /\ s.fee_amount \in Nat
      /\ s.next_high_water \in Word
  BY <1>2, SettlementType DEF SettlementOf, Session, Pool
<1>4. /\ s.burn_amount <= vault + s.mint_amount
      /\ s.fee_amount <= vault + s.mint_amount - s.burn_amount
      /\ vault + s.mint_amount \in Word
      /\ wallet[Trader] + s.fee_amount \in Word
      /\ pool.total_fees + s.fee_amount \in Word
      /\ supply' \in Word
      /\ vault' = vault + s.mint_amount - s.burn_amount - s.fee_amount
      /\ wallet' = [wallet EXCEPT ![Trader] = @ + s.fee_amount]
      /\ pool' = [pool EXCEPT
                    !.status = "IDLE",
                    !.high_water = s.next_high_water,
                    !.total_fees = @ + s.fee_amount,
                    !.session_count = @ + 1,
                    !.max_drawdown = Larger(@, base[n].drawdown_bps)]
      /\ receipt' = [receipt EXCEPT ![n] =
                       [done |-> TRUE,
                        gross_pnl |-> base[n].equity
                                        - base[n].starting_equity,
                        mint_amount |-> s.mint_amount,
                        burn_amount |-> s.burn_amount,
                        fee_amount |-> s.fee_amount]]
      /\ UNCHANGED <<claimed, joined, shares>>
      /\ UNCHANGED <<sessionVars, envVars>>
  BY DEF SettleSession, TokensSuffice
<1> HIDE DEF s
<1>5. s.fee_amount \in Word
  BY <1>2, <1>3, <1>4 DEF Pool
<1>6. vault' \in Word
  BY <1>1, <1>3, <1>4, <1>5 DEF PoolTypeOK
<1>7. wallet' \in [Users -> Word]
  BY <1>2, <1>3, <1>4
<1>8. pool' \in Pool
  <2> DEFINE drawdown == Larger(pool.max_drawdown, base[n].drawdown_bps)
             fees     == pool.total_fees + s.fee_amount
             count    == pool.session_count + 1
  <2>1. drawdown \in Nat /\ count \in Nat /\ fees \in Word
    BY <1>2, <1>4 DEF Larger, Pool, Session
  <2>2. pool' = [pool EXCEPT !.status = "IDLE",
                             !.high_water = s.next_high_water,
                             !.total_fees = fees,
                             !.session_count = count,
                             !.max_drawdown = drawdown]
    BY <1>2, <1>4 DEF Pool
  <2> HIDE DEF drawdown, fees, count
  <2>3. QED
    BY <1>2, <1>3, <2>1, <2>2 DEF Pool
<1>9. receipt' \in [Nonces -> Receipt]
  <2>1. base[n].equity - base[n].starting_equity \in Int
    BY <1>2 DEF Session
  <2>2. QED
    BY <1>1, <1>3, <1>4, <1>5, <2>1 DEF PoolTypeOK, Receipt
<1>10. PoolTypeOK'
  BY <1>1, <1>4, <1>6, <1>7, <1>8, <1>9 DEF PoolTypeOK
<1>11. QED
  BY <1>1, <1>4, <1>10 DEF TypeOK, SessionsTypeOK, EnvTypeOK, sessionVars,
                           envVars

LEMMA TypeStep == TypeOK /\ [Next]_vars => TypeOK'
<1> SUFFICES ASSUME TypeOK, [Next]_vars
             PROVE  TypeOK'
  OBVIOUS
<1>1. ASSUME NEW u \in Users, NEW amount \in Amounts, Deposit(u, amount)
      PROVE  TypeOK'
  BY <1>1, DepositType
<1>2. ASSUME NEW u \in Users, NEW n \in 1 .. shares[u], Withdraw(u, n)
      PROVE  TypeOK'
  BY <1>2, WithdrawType
<1>3. ASSUME NEW u \in Users, NEW amount \in Amounts, DirectTransfer(u, amount)
      PROVE  TypeOK'
  BY <1>3, WalletsType
<1>4. CASE \E u \in Users : ClaimFusd(u)
  BY <1>4, WalletsType
<1>5. CASE InitializeConfig \/ CreateSyndicate
  BY <1>5, WalletsType
<1>6. ASSUME NEW n \in Nonces, StartSession(n)
      PROVE  TypeOK'
  BY <1>6, StartSessionType
<1>7. ASSUME NEW n \in Nonces, SettleSession(n)
      PROVE  TypeOK'
  BY <1>7, SettleSessionType
<1>8. ASSUME NEW n \in Nonces,
             \/ DelegateSession(n)
             \/ ScheduleExpiry(n)
             \/ \E t \in Trades : Trade(n, t)
             \/ ExpireSession(n)
             \/ CrankRuns(n)
             \/ FinalizeSession(n)
             \/ CommitLands(n)
      PROVE  TypeOK'
  BY <1>8, SessionsType
<1>9. CASE Tick \/ \E a \in Feeds : OraclePublishes(a)
  BY <1>9, EnvironmentType
<1>10. CASE UNCHANGED vars
  BY <1>10 DEF TypeOK, PoolTypeOK, SessionsTypeOK, EnvTypeOK, vars, poolVars,
               sessionVars, envVars
<1>11. QED
  BY <1>1, <1>2, <1>3, <1>4, <1>5, <1>6, <1>7, <1>8, <1>9, <1>10 DEF Next

\* Every account keeps its shape and every amount stays a machine word,
\* whatever the wallets, the quotes and the limits.
THEOREM TypeCorrect == Spec => []TypeOK
  BY TypeInit, TypeStep, PTL DEF Spec

-----------------------------------------------------------------------------
(* The pool's books and the mint's *)

Fees == [n \in Nonces |-> receipt[n].fee_amount]
Results == [n \in Nonces |-> receipt[n].gross_pnl]

\* The books agree in every reachable state, because a receipt is blank until
\* its settlement and a pool is blank until it is created.
BooksInv ==
    /\ TypeOK
    /\ BooksAgree
    /\ FusdConserved
    /\ \A n \in Nonces : ~receipt[n].done => receipt[n] = NoReceipt
    /\ pool.status = "ABSENT" => pool = AbsentPool

LEMMA BooksInit == Init => BooksInv
<1> SUFFICES ASSUME Init PROVE BooksInv
  OBVIOUS
<1> USE SyndicateAssumption
<1>1. /\ SumOver(shares, Users) = 0
      /\ SumOver(wallet, Users) = 0
  BY SumOfZeros DEF Init
<1>2. SumOver(Fees, Nonces) = 0 /\ SumOver(Results, Nonces) = 0
  <2>1. \A n \in Nonces : Fees[n] = 0 /\ Results[n] = 0
    BY DEF Init, NoReceipt, Fees, Results
  <2>2. QED
    BY <2>1, SumOfZeros
<1>3. Settled = {} /\ Cardinality({}) = 0
  BY FS_EmptySet DEF Init, NoReceipt, Settled
<1>4. BooksAgree
  BY <1>1, <1>2, <1>3 DEF Init, AbsentPool, BooksAgree, Fees
<1>5. FusdConserved
  BY <1>1, <1>2, <1>3 DEF Init, FusdConserved, Results
<1>6. QED
  BY <1>4, <1>5, TypeInit DEF BooksInv, Init

\* The books' sums and counts are numbers.
LEMMA BooksType ==
    ASSUME TypeOK
    PROVE  /\ SumOver(shares, Users) \in Int
           /\ SumOver(wallet, Users) \in Int
           /\ SumOver(Fees, Nonces) \in Int
           /\ SumOver(Results, Nonces) \in Int
           /\ IsFiniteSet(joined) /\ Cardinality(joined) \in Nat
           /\ IsFiniteSet(claimed) /\ Cardinality(claimed) \in Nat
           /\ IsFiniteSet(Settled) /\ Cardinality(Settled) \in Nat
<1> USE SyndicateAssumption
<1>1. /\ wallet \in [Users -> Word]
      /\ shares \in [Users -> Word]
      /\ receipt \in [Nonces -> Receipt]
      /\ joined \subseteq Users
      /\ claimed \subseteq Users
  BY DEF TypeOK, PoolTypeOK
<1>2. /\ \A u \in Users : wallet[u] \in Int /\ shares[u] \in Int
      /\ \A n \in Nonces : Fees[n] \in Int /\ Results[n] \in Int
  BY <1>1 DEF Receipt, Fees, Results
<1>3. Settled \subseteq Nonces
  BY DEF Settled
<1>4. QED
  BY <1>1, <1>2, <1>3, SumType, FS_Subset, FS_CardinalityType

\* Steps that leave the books alone.
LEMMA BooksUntouched ==
    ASSUME BooksInv, TypeOK',
           UNCHANGED <<claimed, wallet, supply, vault, joined, shares, receipt>>,
           pool'.total_shares = pool.total_shares,
           pool'.backer_count = pool.backer_count,
           pool'.session_count = pool.session_count,
           pool'.total_fees = pool.total_fees,
           pool'.status # "ABSENT" \/ UNCHANGED pool
    PROVE  BooksInv'
<1>1. BooksAgree'
  BY DEF BooksInv, BooksAgree, Settled
<1>2. FusdConserved'
  BY DEF BooksInv, FusdConserved
<1>3. QED
  BY <1>1, <1>2 DEF BooksInv

LEMMA ClaimBooks ==
    ASSUME BooksInv, TypeOK', NEW u \in Users, ClaimFusd(u)
    PROVE  BooksInv'
<1> USE SyndicateAssumption
<1>1. /\ TypeOK
      /\ wallet \in [Users -> Word]
      /\ supply \in Int /\ vault \in Int
  BY DEF BooksInv, TypeOK, PoolTypeOK
<1>2. /\ u \notin claimed
      /\ claimed' = claimed \cup {u}
      /\ wallet' = [wallet EXCEPT ![u] = wallet[u] + FAUCET_AMOUNT]
      /\ supply' = supply + FAUCET_AMOUNT
      /\ UNCHANGED <<vault, pool, joined, shares, receipt>>
  BY DEF ClaimFusd
<1>3. /\ SumOver(wallet, Users) \in Int
      /\ SumOver(wallet', Users) = SumOver(wallet, Users) + FAUCET_AMOUNT
  <2>1. wallet \in [Users -> Int] /\ FAUCET_AMOUNT \in Int
    BY <1>1
  <2>2. QED
    BY <1>2, <2>1, SumAdds
<1>4. /\ Cardinality(claimed) \in Nat
      /\ Cardinality(claimed') = Cardinality(claimed) + 1
  BY <1>1, <1>2, BooksType, FS_AddElement
<1>5. FusdConserved'
  <2> DEFINE results == SumOver(Results, Nonces)
             count   == Cardinality(claimed)
  <2>1. /\ results \in Int
        /\ supply = FAUCET_AMOUNT * count + results
        /\ supply = SumOver(wallet, Users) + vault
    BY <1>1, BooksType DEF BooksInv, FusdConserved, Results
  <2>2. FAUCET_AMOUNT * (count + 1) = FAUCET_AMOUNT * count + FAUCET_AMOUNT
    BY <1>4
  <2>3. FAUCET_AMOUNT * count \in Int
    BY <1>4
  <2> HIDE DEF results, count
  <2>4. supply' = FAUCET_AMOUNT * (count + 1) + results
    BY <1>2, <2>1, <2>2, <2>3
  <2>5. supply' = SumOver(wallet', Users) + vault'
    BY <1>1, <1>2, <1>3, <2>1
  <2>6. QED
    BY <1>2, <1>4, <2>4, <2>5 DEF FusdConserved, results, count, Results
<1>6. BooksAgree'
  BY <1>2 DEF BooksInv, BooksAgree, Settled
<1>7. QED
  BY <1>2, <1>5, <1>6 DEF BooksInv

\* fUSD that goes between a wallet and the vault is neither made nor lost.
LEMMA TransferKeeps ==
    ASSUME BooksInv, NEW u \in Users, NEW amount \in Int,
           wallet' = [wallet EXCEPT ![u] = wallet[u] + amount],
           vault' = vault - amount,
           UNCHANGED <<claimed, supply, receipt>>
    PROVE  FusdConserved'
<1>1. /\ wallet \in [Users -> Int]
      /\ supply \in Int /\ vault \in Int
  BY DEF BooksInv, TypeOK, PoolTypeOK
<1>2. /\ SumOver(wallet, Users) \in Int
      /\ SumOver(wallet', Users) = SumOver(wallet, Users) + amount
  BY <1>1, SyndicateAssumption, SumAdds
<1>3. SumOver(wallet', Users) + vault' = SumOver(wallet, Users) + vault
  BY <1>1, <1>2
<1>4. QED
  BY <1>3 DEF BooksInv, FusdConserved

\* One member's shares and the pool's total change together.
LEMMA SharesAdd ==
    ASSUME BooksInv, NEW u \in Users, NEW n \in Int,
           shares' = [shares EXCEPT ![u] = shares[u] + n],
           pool'.total_shares = pool.total_shares + n
    PROVE  pool'.total_shares = SumOver(shares', Users)
<1>1. shares \in [Users -> Int]
  BY DEF BooksInv, TypeOK, PoolTypeOK
<1>2. SumOver(shares', Users) = SumOver(shares, Users) + n
  BY <1>1, SyndicateAssumption, SumAdds
<1>3. QED
  BY <1>2 DEF BooksInv, BooksAgree

LEMMA DepositBooks ==
    ASSUME BooksInv, TypeOK', NEW u \in Users, NEW amount \in Amounts,
           Deposit(u, amount)
    PROVE  BooksInv'
<1> DEFINE issued == shares_for_deposit(amount, pool.total_shares, vault)
<1>1. /\ TypeOK
      /\ pool \in Pool
      /\ joined \subseteq Users
      /\ amount \in Int
  BY SyndicateAssumption DEF BooksInv, TypeOK, PoolTypeOK
<1>2. /\ issued \in Nat
      /\ pool.status = "IDLE"
      /\ wallet' = [wallet EXCEPT ![u] = wallet[u] - amount]
      /\ vault' = vault + amount
      /\ joined' = joined \cup {u}
      /\ shares' = [shares EXCEPT ![u] = shares[u] + issued]
      /\ pool' = [pool EXCEPT !.total_shares = @ + issued,
                              !.backer_count = BackersWith(u)]
      /\ UNCHANGED <<claimed, supply, receipt>>
  BY DEF Deposit, PoolIdle
<1> HIDE DEF issued
<1>3. /\ pool'.total_shares = pool.total_shares + issued
      /\ pool'.backer_count = BackersWith(u)
      /\ pool'.session_count = pool.session_count
      /\ pool'.total_fees = pool.total_fees
      /\ pool'.status = "IDLE"
  BY <1>1, <1>2 DEF Pool
<1>4. FusdConserved'
  <2> DEFINE spent == 0 - amount
  <2>1. /\ spent \in Int
        /\ wallet[u] - amount = wallet[u] + spent
        /\ vault + amount = vault - spent
    BY <1>1 DEF BooksInv, TypeOK, PoolTypeOK
  <2> HIDE DEF spent
  <2>2. QED
    BY <1>2, <2>1, TransferKeeps
<1>5. pool'.total_shares = SumOver(shares', Users)
  <2>1. issued \in Int
    BY <1>2
  <2>2. QED
    BY <1>2, <1>3, <2>1, SharesAdd
<1>6. pool'.backer_count = Cardinality(joined')
  <2>1. CASE u \in joined
    <3>1. joined' = joined
      BY <2>1, <1>2
    <3>2. QED
      BY <2>1, <3>1, <1>3 DEF BackersWith, BooksInv, BooksAgree
  <2>2. CASE u \notin joined
    <3>1. Cardinality(joined') = Cardinality(joined) + 1
      BY <2>2, <1>1, <1>2, BooksType, FS_AddElement
    <3>2. QED
      BY <2>2, <3>1, <1>3 DEF BackersWith, BooksInv, BooksAgree
  <2>3. QED
    BY <2>1, <2>2
<1>7. BooksAgree'
  BY <1>2, <1>3, <1>5, <1>6 DEF BooksInv, BooksAgree, Settled
<1>8. QED
  BY <1>2, <1>3, <1>4, <1>7 DEF BooksInv

LEMMA WithdrawBooks ==
    ASSUME BooksInv, TypeOK', NEW u \in Users, NEW n \in 1 .. shares[u],
           Withdraw(u, n)
    PROVE  BooksInv'
<1> DEFINE amount == tokens_for_withdrawal(n, pool.total_shares, vault)
           less   == 0 - n
<1>1. /\ pool \in Pool
      /\ wallet \in [Users -> Word]
      /\ shares \in [Users -> Word]
      /\ vault \in Int
  BY DEF BooksInv, TypeOK, PoolTypeOK
<1>2. /\ amount \in Nat
      /\ pool.status = "IDLE"
      /\ vault' = vault - amount
      /\ wallet' = [wallet EXCEPT ![u] = wallet[u] + amount]
      /\ shares' = [shares EXCEPT ![u] = shares[u] - n]
      /\ pool' = [pool EXCEPT !.total_shares = @ - n]
      /\ UNCHANGED <<claimed, supply, joined, receipt>>
  BY DEF Withdraw, PoolIdle
<1> HIDE DEF amount
<1>3. /\ pool'.total_shares = pool.total_shares - n
      /\ pool'.backer_count = pool.backer_count
      /\ pool'.session_count = pool.session_count
      /\ pool'.total_fees = pool.total_fees
      /\ pool'.status = "IDLE"
      /\ pool.total_shares \in Int
  BY <1>1, <1>2 DEF Pool
<1>4. /\ less \in Int
      /\ shares[u] - n = shares[u] + less
      /\ pool.total_shares - n = pool.total_shares + less
  BY <1>1, <1>3
<1> HIDE DEF less
<1>5. FusdConserved'
  <2>1. amount \in Int
    BY <1>2
  <2>2. QED
    BY <1>2, <2>1, TransferKeeps
<1>6. pool'.total_shares = SumOver(shares', Users)
  BY <1>2, <1>3, <1>4, SharesAdd
<1>7. BooksAgree'
  BY <1>2, <1>3, <1>6 DEF BooksInv, BooksAgree, Settled
<1>8. QED
  BY <1>2, <1>3, <1>5, <1>7 DEF BooksInv

\* A settlement makes or destroys exactly the session's result.
LEMMA SettlementBalances ==
    ASSUME NEW start \in Nat, NEW end \in Nat, NEW total, NEW high_water
    PROVE  LET s == calculate_settlement(start, end, total, high_water)
           IN  s.mint_amount - s.burn_amount = end - start
<1>1. CASE end <= start
  BY <1>1 DEF calculate_settlement, LossSettlement
<1>2. CASE end > start
  <2> DEFINE fee == PerformanceFee(start, end, total, high_water)
  <2> HIDE DEF fee
  <2>1. QED
    BY <1>2 DEF calculate_settlement, ProfitSettlement, fee
<1>3. QED
  BY <1>1, <1>2

LEMMA SettleBooks ==
    ASSUME BooksInv, TypeOK', NEW n \in Nonces, SettleSession(n)
    PROVE  BooksInv'
<1> DEFINE s      == SettlementOf(n)
           fee    == s.fee_amount
           result == base[n].equity - base[n].starting_equity
<1> USE SyndicateAssumption
<1>1. /\ TypeOK
      /\ pool \in Pool
      /\ base[n] \in Session
      /\ wallet \in [Users -> Int]
      /\ receipt \in [Nonces -> Receipt]
      /\ vault \in Int /\ supply \in Int
      /\ pool.total_shares \in Nat \ {0}
  BY DEF BooksInv, TypeOK, PoolTypeOK, SessionsTypeOK, Pool, SettleSession,
         Settleable
<1>2. /\ s.mint_amount \in Int
      /\ s.burn_amount \in Int
      /\ fee \in Int
      /\ result \in Int
      /\ s.mint_amount - s.burn_amount = result
  <2>1. /\ base[n].starting_equity \in Word
        /\ base[n].equity \in Word
        /\ pool.high_water \in Word
    BY <1>1 DEF Session, Pool
  <2>2. s.mint_amount \in Word /\ s.burn_amount \in Word /\ fee \in Nat
    BY <1>1, <2>1, SettlementType DEF SettlementOf
  <2>3. s.mint_amount - s.burn_amount = result
    BY <2>1, SettlementBalances DEF SettlementOf
  <2> HIDE DEF s
  <2>4. QED
    BY <2>1, <2>2, <2>3
<1>3. /\ ~receipt[n].done
      /\ supply' = supply + s.mint_amount - s.burn_amount
      /\ vault' = vault + s.mint_amount - s.burn_amount - fee
      /\ wallet' = [wallet EXCEPT ![Trader] = wallet[Trader] + fee]
      /\ pool' = [pool EXCEPT
                    !.status = "IDLE",
                    !.high_water = s.next_high_water,
                    !.total_fees = @ + s.fee_amount,
                    !.session_count = @ + 1,
                    !.max_drawdown = Larger(@, base[n].drawdown_bps)]
      /\ receipt' = [receipt EXCEPT ![n] =
                       [done |-> TRUE,
                        gross_pnl |-> result,
                        mint_amount |-> s.mint_amount,
                        burn_amount |-> s.burn_amount,
                        fee_amount |-> fee]]
      /\ UNCHANGED <<claimed, joined, shares>>
  BY DEF SettleSession, Settleable
<1> HIDE DEF s, fee, result
<1>4. /\ supply' = supply + result
      /\ vault' = vault + result - fee
  BY <1>1, <1>2, <1>3
<1>5. /\ pool'.status = "IDLE"
      /\ pool'.total_shares = pool.total_shares
      /\ pool'.backer_count = pool.backer_count
      /\ pool'.session_count = pool.session_count + 1
      /\ pool'.total_fees = pool.total_fees + fee
  BY <1>1, <1>3 DEF Pool, fee
<1>6. receipt[n] = NoReceipt
  BY <1>3 DEF BooksInv
<1>7. /\ receipt'[n].done
      /\ receipt'[n].fee_amount = fee
      /\ receipt'[n].gross_pnl = result
      /\ \A m \in Nonces : m # n => receipt'[m] = receipt[m]
  BY <1>1, <1>3
<1>8. Fees' = [Fees EXCEPT ![n] = Fees[n] + fee]
  <2>1. Fees[n] + fee = fee
    BY <1>2, <1>6 DEF Fees, NoReceipt
  <2>2. Fees' = [m \in Nonces |-> IF m = n THEN fee ELSE receipt[m].fee_amount]
    BY <1>7 DEF Fees
  <2>3. QED
    BY <2>1, <2>2 DEF Fees
<1>9. Results' = [Results EXCEPT ![n] = Results[n] + result]
  <2>1. Results[n] + result = result
    BY <1>2, <1>6 DEF Results, NoReceipt
  <2>2. Results' =
            [m \in Nonces |-> IF m = n THEN result ELSE receipt[m].gross_pnl]
    BY <1>7 DEF Results
  <2>3. QED
    BY <2>1, <2>2 DEF Results
<1>10. Fees \in [Nonces -> Int] /\ Results \in [Nonces -> Int]
  BY <1>1 DEF Receipt, Fees, Results
<1>11. ASSUME NEW f \in [Nonces -> Int], NEW more \in Int
       PROVE  SumOver([f EXCEPT ![n] = f[n] + more], Nonces)
                 = SumOver(f, Nonces) + more
  BY SumAdds
<1>12. /\ SumOver(Fees', Nonces) = SumOver(Fees, Nonces) + fee
       /\ SumOver(Results', Nonces) = SumOver(Results, Nonces) + result
  BY <1>2, <1>8, <1>9, <1>10, <1>11
<1>13. SumOver(wallet', Users) = SumOver(wallet, Users) + fee
  <2>1. /\ IsFiniteSet(Users) /\ Trader \in Users
        /\ wallet \in [Users -> Int] /\ fee \in Int
    BY <1>1, <1>2
  <2>2. SumOver([wallet EXCEPT ![Trader] = wallet[Trader] + fee], Users)
           = SumOver(wallet, Users) + fee
    BY <2>1, SumAdds
  <2>3. QED
    BY <1>3, <2>2
<1>14. Cardinality(Settled') = Cardinality(Settled) + 1
  <2>1. Settled' = Settled \cup {n} /\ n \notin Settled
    BY <1>3, <1>7 DEF Settled
  <2>2. QED
    BY <2>1, <1>1, BooksType, FS_AddElement
<1>15. BooksAgree'
  BY <1>3, <1>5, <1>12, <1>14 DEF BooksInv, BooksAgree, Fees
<1>16. FusdConserved'
  <2> DEFINE owned   == SumOver(wallet, Users)
             results == SumOver(Results, Nonces)
             made    == FAUCET_AMOUNT * Cardinality(claimed)
  <2>1. /\ supply = owned + vault
        /\ supply = made + results
    BY DEF BooksInv, FusdConserved, Results
  <2>2. owned \in Int /\ results \in Int /\ made \in Int
    BY <1>1, BooksType
  <2> HIDE DEF owned, results, made
  <2>3. /\ supply' = (owned + fee) + vault'
        /\ supply' = made + (results + result)
    BY <1>1, <1>2, <1>4, <2>1, <2>2
  <2>4. QED
    BY <2>3, <1>3, <1>12, <1>13
       DEF FusdConserved, Results, owned, results, made
<1>17. \A m \in Nonces : ~receipt'[m].done => receipt'[m] = NoReceipt
  BY <1>7 DEF BooksInv
<1>18. QED
  BY <1>5, <1>15, <1>16, <1>17 DEF BooksInv

LEMMA BooksStep == BooksInv /\ [Next]_vars => BooksInv'
<1> SUFFICES ASSUME BooksInv, [Next]_vars
             PROVE  BooksInv'
  OBVIOUS
<1>1. TypeOK'
  BY TypeStep DEF BooksInv
<1>2. pool \in Pool
  BY DEF BooksInv, TypeOK, PoolTypeOK
<1>3. ASSUME NEW u \in Users, NEW amount \in Amounts, Deposit(u, amount)
      PROVE  BooksInv'
  BY <1>1, <1>3, DepositBooks
<1>4. ASSUME NEW u \in Users, NEW n \in 1 .. shares[u], Withdraw(u, n)
      PROVE  BooksInv'
  BY <1>1, <1>4, WithdrawBooks
<1>5. ASSUME NEW u \in Users, NEW amount \in Amounts, DirectTransfer(u, amount)
      PROVE  BooksInv'
  <2> DEFINE sent == 0 - amount
  <2>1. /\ sent \in Int
        /\ wallet' = [wallet EXCEPT ![u] = wallet[u] + sent]
        /\ vault' = vault - sent
        /\ UNCHANGED <<claimed, supply, pool, joined, shares, receipt>>
    <3>1. /\ wallet[u] - amount = wallet[u] + sent
          /\ vault + amount = vault - sent
          /\ sent \in Int
      BY SyndicateAssumption DEF BooksInv, TypeOK, PoolTypeOK
    <3> HIDE DEF sent
    <3>2. QED
      BY <1>5, <3>1 DEF DirectTransfer
  <2> HIDE DEF sent
  <2>2. FusdConserved'
    BY <2>1, TransferKeeps
  <2>3. BooksAgree'
    BY <2>1 DEF BooksInv, BooksAgree, Settled
  <2>4. QED
    BY <1>1, <2>1, <2>2, <2>3 DEF BooksInv
<1>6. ASSUME NEW u \in Users, ClaimFusd(u)
      PROVE  BooksInv'
  BY <1>1, <1>6, ClaimBooks
<1>7. ASSUME NEW n \in Nonces, SettleSession(n)
      PROVE  BooksInv'
  BY <1>1, <1>7, SettleBooks
<1>8. CASE CreateSyndicate
  <2>1. /\ pool'.total_shares = pool.total_shares
        /\ pool'.backer_count = pool.backer_count
        /\ pool'.session_count = pool.session_count
        /\ pool'.total_fees = pool.total_fees
        /\ pool'.status # "ABSENT"
    BY <1>8 DEF CreateSyndicate, BooksInv, AbsentPool
  <2>2. QED
    BY <1>1, <1>8, <2>1, BooksUntouched DEF CreateSyndicate
<1>9. ASSUME NEW n \in Nonces, StartSession(n)
      PROVE  BooksInv'
  <2>1. /\ pool'.total_shares = pool.total_shares
        /\ pool'.backer_count = pool.backer_count
        /\ pool'.session_count = pool.session_count
        /\ pool'.total_fees = pool.total_fees
        /\ pool'.status # "ABSENT"
    BY <1>2, <1>9 DEF StartSession, Pool
  <2>2. QED
    BY <1>1, <1>9, <2>1, BooksUntouched DEF StartSession
<1>10. CASE \/ InitializeConfig
            \/ Tick
            \/ \E a \in Feeds : OraclePublishes(a)
            \/ UNCHANGED vars
  <2>1. UNCHANGED poolVars
    BY <1>10 DEF InitializeConfig, Tick, OraclePublishes, vars
  <2>2. QED
    BY <1>1, <2>1, BooksUntouched DEF poolVars
<1>11. ASSUME NEW n \in Nonces,
              \/ DelegateSession(n)
              \/ ScheduleExpiry(n)
              \/ \E t \in Trades : Trade(n, t)
              \/ ExpireSession(n)
              \/ CrankRuns(n)
              \/ FinalizeSession(n)
              \/ CommitLands(n)
       PROVE  BooksInv'
  <2>1. UNCHANGED poolVars
    BY <1>11 DEF DelegateSession, ScheduleExpiry, Trade, ExpireSession,
                 CrankRuns, FinalizeSession, CommitLands
  <2>2. QED
    BY <1>1, <2>1, BooksUntouched DEF poolVars
<1>12. QED
  BY <1>3, <1>4, <1>5, <1>6, <1>7, <1>8, <1>9, <1>10, <1>11 DEF Next

LEMMA BooksInvariant == Spec => []BooksInv
  BY BooksInit, BooksStep, PTL DEF Spec

\* For any wallets and sessions, the totals that deposits, withdrawals and
\* settlements keep in the Syndicate account (lib.rs:108-236 and 433-515) are
\* the sums of the memberships and the receipts they summarise.
THEOREM BooksAlwaysAgree == Spec => []BooksAgree
<1>1. BooksInv => BooksAgree
  BY DEF BooksInv
<1>2. QED
  BY <1>1, BooksInvariant, PTL

\* For any wallets and sessions, the supply of fUSD is what the wallets and
\* the vault hold, and what the faucet gave and the sessions made or lost.
THEOREM FusdIsConserved == Spec => []FusdConserved
<1>1. BooksInv => FusdConserved
  BY DEF BooksInv
<1>2. QED
  BY <1>1, BooksInvariant, PTL
=============================================================================
