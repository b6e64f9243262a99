------------------------ MODULE SyndicateSafetyProofs ------------------------
(***************************************************************************)
(* The safety of a syndicate for any wallets, amounts, quotes and limits:  *)
(* the inductive invariant behind SharesAreBacked, SettlementIsFunded and  *)
(* OneOpenSession, the steps that keep it, what one step may never do, and *)
(* that the vault implements the abstract fund of BackedPool.              *)
(***************************************************************************)
EXTENDS SyndicateProofs

USE MathAssumption DEF Word, Fits

\* The marks of a session are those of its cash and positions, and a position
\* that was closed has no cost left.
SoundBook(s) ==
    /\ s.equity = EquityAt(s, s.last_price)
    /\ s.drawdown_bps = DrawdownFrom(s.peak_equity, s.equity)
    /\ s.drawdown_bps <= MAX_DRAWDOWN_BPS
    /\ s.trade_count <= MAX_TRADES
    /\ \A a \in Assets : s.quantity[a] = 0 => s.cost[a] = 0

\* A session never loses more than the drawdown limit under its peak, and its
\* peak is at least what it started with.
SoundSession(s) ==
    s.status # "NONE" =>
        /\ SoundBook(s)
        /\ s.starting_equity > 0
        /\ s.starting_equity <= s.peak_equity
        /\ s.equity <= s.peak_equity
        /\ (s.peak_equity - s.equity) * BPS_SCALE
             < (MAX_DRAWDOWN_BPS + 1) * s.peak_equity

\* Both copies of a session are sound and agree on what it started with; a
\* copy exists when the place says so.
SessionInv(n) ==
    /\ SoundSession(base[n])
    /\ SoundSession(er[n])
    /\ place[n] = "none" <=> base[n].status = "NONE"
    /\ place[n] \in {"er", "returning"} =>
         /\ er[n].status # "NONE"
         /\ er[n].starting_equity = base[n].starting_equity

\* A session that was never started has no receipt and is not the pool's.
PairInv(n) ==
    IF place[n] = "none" THEN ~receipt[n].done /\ ~Open(n)
                         ELSE receipt[n].done <=> ~Open(n)

\* A locked pool still holds its session's stake.
PoolInv ==
    /\ SharesAreBacked
    /\ pool.status = "ABSENT" => pool.total_shares = 0
    /\ pool.status = "ACTIVE" =>
         /\ pool.active_nonce \in Nonces
         /\ place[pool.active_nonce] # "none"
         /\ pool.total_shares > 0
         /\ vault >= base[pool.active_nonce].starting_equity

SafetyInv ==
    /\ TypeOK
    /\ PoolInv
    /\ \A n \in Nonces : SessionInv(n) /\ PairInv(n)

-----------------------------------------------------------------------------
(* Sound sessions *)

LEMMA StartedBook ==
    ASSUME NEW balance \in Nat \ {0}
    PROVE  SoundBook(StartedSession(balance))
<1> DEFINE s == StartedSession(balance)
<1>1. /\ s.cash = balance /\ s.equity = balance /\ s.peak_equity = balance
      /\ s.drawdown_bps = 0 /\ s.trade_count = 0
      /\ \A a \in Assets : /\ s.quantity[a] = 0 /\ s.cost[a] = 0
                           /\ s.last_price[a] = 0
  BY DEF StartedSession, BlankSession
<1> HIDE DEF s
<1>2. \A d \in Nat \ {0} : mul_div(0, 0, d) = 0 /\ 0 \div d = 0
  BY DEF mul_div
<1>3. position_value(0, 0) = 0
  BY <1>2, MathAssumption DEF position_value
<1>4. s.equity = EquityAt(s, s.last_price)
  BY <1>1, <1>3 DEF EquityAt, Assets
<1>5. DrawdownFrom(balance, balance) = 0
  <2>1. (balance - balance) * BPS_SCALE = 0
    BY MathAssumption
  <2>2. QED
    BY <1>2, <2>1 DEF DrawdownFrom, mul_div
<1>6. QED
  BY <1>1, <1>4, <1>5, SessionAssumption DEF SoundBook, s

\* Selling all of a position releases all of its cost (lib.rs:368-380).
LEMMA FilledCloses ==
    ASSUME NEW s \in Session, NEW t \in Trades, NEW price \in Word,
           RequestAllowed(s, t, price),
           \A a \in Assets : s.quantity[a] = 0 => s.cost[a] = 0
    PROVE  LET f == Filled(s, t, price)
           IN  \A a \in Assets : f.quantity[a] = 0 => f.cost[a] = 0
<1> DEFINE f    == Filled(s, t, price)
           a    == t.asset
           held == s.quantity[a]
           paid == s.cost[a]
<1>1. a \in Assets /\ t.quantity \in Nat \ {0} /\ t.side \in Sides
  BY TradeTypes DEF RequestAllowed
<1>2. held \in Nat /\ paid \in Nat
  BY <1>1 DEF Session
<1>3. ASSUME NEW b \in Assets, b # a
      PROVE  f.quantity[b] = s.quantity[b] /\ f.cost[b] = s.cost[b]
  BY <1>1, <1>3 DEF Filled, Bought, Sold, Session
<1>4. f.quantity[a] = 0 => f.cost[a] = 0
  <2>1. CASE t.side = "buy"
    <3>1. f.quantity[a] = held + t.quantity
      BY <1>1, <2>1 DEF Filled, Bought, Session
    <3> HIDE DEF f, held
    <3>2. f.quantity[a] # 0
      BY <1>1, <1>2, <3>1
    <3>3. QED
      BY <3>2
  <2>2. CASE t.side = "sell"
    <3>1. /\ f.quantity[a] = held - t.quantity
          /\ f.cost[a] = paid - mul_div(paid, t.quantity, held)
      BY <1>1, <2>2 DEF Filled, Sold, ReleasedCost, Session
    <3> HIDE DEF f, held, paid
    <3>2. ASSUME f.quantity[a] = 0
          PROVE  f.cost[a] = 0
      <4>1. held = t.quantity /\ held \in Nat \ {0}
        BY <1>1, <1>2, <3>1, <3>2
      <4>2. mul_div(paid, held, held) = paid
        BY <1>2, <4>1 DEF mul_div
      <4>3. QED
        BY <1>2, <3>1, <4>1, <4>2
    <3>3. QED
      BY <3>2
  <2>3. QED
    BY <1>1, <2>1, <2>2 DEF Sides
<1>5. QED
  BY <1>3, <1>4

LEMMA TradedBook ==
    ASSUME NEW s \in Session, SoundBook(s), NEW t \in Trades,
           NEW price \in Word, NEW seconds,
           TradeAllowed(s, t, price, seconds)
    PROVE  SoundBook(Traded(s, t, price))
<1> DEFINE f == Filled(s, t, price)
           d == Traded(s, t, price)
<1>1. /\ f \in Session /\ f.trade_count = s.trade_count
      /\ \A a \in Assets : f.quantity[a] = 0 => f.cost[a] = 0
  BY FilledType, FilledCloses DEF TradeAllowed, SoundBook, Unwritten
<1>2. d = [mark_equity(f) EXCEPT !.trade_count = @ + 1]
  BY DEF Traded, Filled
<1>3. /\ d.drawdown_bps = DrawdownFrom(d.peak_equity, d.equity)
      /\ d.drawdown_bps <= MAX_DRAWDOWN_BPS
  BY TradedType
<1> HIDE DEF f, d
<1>4. /\ d.cash = f.cash /\ d.quantity = f.quantity /\ d.cost = f.cost
      /\ d.last_price = f.last_price
      /\ d.equity = EquityAt(f, f.last_price)
      /\ d.trade_count = f.trade_count + 1
  BY <1>1, <1>2 DEF mark_equity, Session
<1>5. d.equity = EquityAt(d, d.last_price)
  BY <1>4 DEF EquityAt
<1>6. d.trade_count <= MAX_TRADES
  <2>1. s.trade_count < MAX_TRADES /\ s.trade_count \in Nat
    BY DEF TradeAllowed, RequestAllowed, Session
  <2>2. QED
    BY <1>1, <1>4, <2>1, SessionAssumption
<1>7. QED
  BY <1>1, <1>3, <1>4, <1>5, <1>6 DEF SoundBook, d

LEMMA StatusBook ==
    ASSUME NEW s \in Session, SoundBook(s), NEW status
    PROVE  SoundBook([s EXCEPT !.status = status])
<1> DEFINE d == [s EXCEPT !.status = status]
<1>1. /\ d.cash = s.cash /\ d.quantity = s.quantity /\ d.cost = s.cost
      /\ d.last_price = s.last_price /\ d.equity = s.equity
      /\ d.peak_equity = s.peak_equity /\ d.trade_count = s.trade_count
      /\ d.drawdown_bps = s.drawdown_bps
  BY DEF Session
<1> HIDE DEF d
<1>2. EquityAt(d, d.last_price) = EquityAt(s, s.last_price)
  BY <1>1 DEF EquityAt
<1>3. QED
  BY <1>1, <1>2 DEF SoundBook, d

LEMMA StartedSound ==
    ASSUME NEW balance \in Nat \ {0}
    PROVE  SoundSession(StartedSession(balance)) /\ SoundSession(BlankSession)
<1>1. SoundSession(BlankSession)
  BY DEF SoundSession, BlankSession
<1>2. (MAX_DRAWDOWN_BPS + 1) * balance > 0
  BY SessionAssumption
<1>3. (balance - balance) * BPS_SCALE = 0
  BY MathAssumption
<1>4. SoundSession(StartedSession(balance))
  <2> DEFINE s == StartedSession(balance)
  <2>1. /\ s.starting_equity = balance /\ s.peak_equity = balance
        /\ s.equity = balance
    BY DEF StartedSession, BlankSession
  <2>2. SoundBook(s)
    BY StartedBook
  <2> HIDE DEF s
  <2>3. SoundSession(s)
    BY <1>2, <1>3, <2>1, <2>2 DEF SoundSession
  <2>4. QED
    BY <2>3 DEF s
<1>5. QED
  BY <1>1, <1>4

\* A trade that is recorded leaves the session within its drawdown limit.
LEMMA TradedSound ==
    ASSUME NEW s \in Session, SoundSession(s), NEW t \in Trades,
           NEW price \in Word, NEW seconds,
           TradeAllowed(s, t, price, seconds)
    PROVE  SoundSession(Traded(s, t, price))
<1> DEFINE d == Traded(s, t, price)
<1>1. /\ d \in Session
      /\ d.starting_equity = s.starting_equity
      /\ d.peak_equity = Larger(s.peak_equity, d.equity)
      /\ d.drawdown_bps = DrawdownFrom(d.peak_equity, d.equity)
      /\ d.drawdown_bps <= MAX_DRAWDOWN_BPS
  BY TradedType
<1>2. /\ s.starting_equity > 0
      /\ s.starting_equity <= s.peak_equity
  BY DEF TradeAllowed, SoundSession
<1>3. s.peak_equity \in Nat /\ s.starting_equity \in Nat
  BY DEF Session
<1> HIDE DEF d
<1> DEFINE peak == d.peak_equity
           eq   == d.equity
           q    == mul_div(peak - eq, BPS_SCALE, peak)
<1>4. eq \in Nat /\ peak \in Nat
  BY <1>1 DEF Session
<1>5. /\ eq <= peak
      /\ s.starting_equity <= peak
      /\ peak # 0
  BY <1>1, <1>2, <1>3, <1>4 DEF Larger
<1>6. q <= MAX_DRAWDOWN_BPS
  BY <1>1, <1>5 DEF DrawdownFrom
<1> HIDE DEF peak, eq
<1>7. /\ q \in Nat
      /\ (peak - eq) * BPS_SCALE < (q + 1) * peak
  <2>1. peak - eq \in Nat /\ peak \in Nat \ {0} /\ BPS_SCALE \in Nat
    BY <1>4, <1>5, MathAssumption
  <2>2. QED
    BY <2>1, MulDivRoundsDown
<1> HIDE DEF q
<1>8. (q + 1) * peak <= (MAX_DRAWDOWN_BPS + 1) * peak
  <2>1. q + 1 <= MAX_DRAWDOWN_BPS + 1 /\ q + 1 \in Nat
          /\ MAX_DRAWDOWN_BPS + 1 \in Nat
    BY <1>6, <1>7, SessionAssumption
  <2>2. QED
    BY <2>1, <1>4, ProductsKeepOrder
<1>9. (peak - eq) * BPS_SCALE < (MAX_DRAWDOWN_BPS + 1) * peak
  <2>1. /\ (peak - eq) * BPS_SCALE \in Int
        /\ (q + 1) * peak \in Int
        /\ (MAX_DRAWDOWN_BPS + 1) * peak \in Int
    BY <1>4, <1>7, MathAssumption, SessionAssumption
  <2>2. QED
    BY <2>1, <1>7, <1>8
<1>10. SoundBook(d)
  BY TradedBook DEF TradeAllowed, SoundSession, d
<1>11. QED
  BY <1>1, <1>2, <1>5, <1>9, <1>10 DEF SoundSession, peak, eq, d

\* Freezing and finalizing change the status alone.
LEMMA StatusOnly ==
    ASSUME NEW s \in Session, NEW seconds
    PROVE  /\ Expired(s, seconds)
                = [s EXCEPT !.status = Expired(s, seconds).status]
           /\ Expired(s, seconds).status
                = (IF s.status = "ACTIVE" /\ seconds <= 0 THEN "FROZEN"
                                                          ELSE s.status)
           /\ Finalized(s) = [s EXCEPT !.status = "COMMITTING"]
           /\ Finalized(s).status = "COMMITTING"
           /\ Expired(s, seconds).starting_equity = s.starting_equity
           /\ Finalized(s).starting_equity = s.starting_equity
  BY DEF Expired, Finalized, Session

LEMMA StatusSound ==
    ASSUME NEW s \in Session, SoundSession(s), s.status # "NONE", NEW seconds
    PROVE  SoundSession(Expired(s, seconds)) /\ SoundSession(Finalized(s))
<1>1. SoundBook(Expired(s, seconds)) /\ SoundBook(Finalized(s))
  BY StatusBook DEF SoundSession, Expired, Finalized
<1>2. QED
  BY <1>1 DEF SoundSession, Expired, Finalized, Session

\* What a sound session ends with is more than nothing, and its loss is
\* within the limit of what it started with.
LEMMA SoundLoss ==
    ASSUME NEW s \in Session, SoundSession(s), s.status # "NONE"
    PROVE  /\ s.equity > 0
           /\ (s.starting_equity - s.equity) * BPS_SCALE
                < s.starting_equity * (MAX_DRAWDOWN_BPS + 1)
<1> DEFINE peak  == s.peak_equity
           start == s.starting_equity
           eq    == s.equity
           kept  == BPS_SCALE - (MAX_DRAWDOWN_BPS + 1)
<1>1. /\ start > 0 /\ start <= peak /\ eq <= peak
      /\ (peak - eq) * BPS_SCALE < (MAX_DRAWDOWN_BPS + 1) * peak
  BY DEF SoundSession
<1>2. peak \in Nat /\ start \in Nat /\ eq \in Nat
  BY DEF Session
<1>3. kept \in Nat /\ BPS_SCALE \in Nat /\ MAX_DRAWDOWN_BPS \in Nat
  BY MathAssumption, SessionAssumption
<1> HIDE DEF peak, start, eq
<1>4. kept * peak < eq * BPS_SCALE
  BY <1>1, <1>2, <1>3
<1> HIDE DEF kept
<1>5. kept * start <= kept * peak
  BY <1>1, <1>2, <1>3
<1>6. kept * start < eq * BPS_SCALE
  <2>1. kept * start \in Nat /\ kept * peak \in Nat /\ eq * BPS_SCALE \in Nat
    BY <1>2, <1>3
  <2>2. QED
    BY <2>1, <1>4, <1>5
<1>7. eq > 0
  BY <1>2, <1>3, <1>6
<1>8. (start - eq) * BPS_SCALE < start * (MAX_DRAWDOWN_BPS + 1)
  BY <1>2, <1>3, <1>6 DEF kept
<1>9. QED
  BY <1>7, <1>8 DEF eq, start

-----------------------------------------------------------------------------
(* Steps of a session keep both its copies sound, and freeze it for good *)

\* What a session's own steps leave to the pool.
SessionKept(n) ==
    /\ SessionInv(n)'
    /\ place'[n] = "none" <=> place[n] = "none"
    /\ base'[n].starting_equity = base[n].starting_equity
    /\ FrozenKept(n)

LEMMA SameLive ==
    ASSUME NEW s \in Session, NEW d, d = s
    PROVE  /\ d.status = s.status
           /\ d = [s EXCEPT !.status = d.status]
  BY DEF Session

LEMMA UntouchedSession ==
    ASSUME SessionsTypeOK, NEW n \in Nonces, SessionInv(n),
           place'[n] = place[n], base'[n] = base[n], er'[n] = er[n]
    PROVE  SessionKept(n)
<1>1. Live(n) \in Session /\ Live(n)' = Live(n)
  BY LiveType DEF Live
<1>2. FrozenKept(n)
  BY <1>1, SameLive DEF FrozenKept
<1>3. QED
  BY <1>2 DEF SessionKept, SessionInv

\* One copy is rewritten in place, by a trade or by a change of status.
LEMMA RewrittenSession ==
    ASSUME SessionsTypeOK, NEW n \in Nonces, SessionInv(n), place[n] # "none",
           NEW d \in Session, SoundSession(d), d.status # "NONE",
           d.starting_equity = Live(n).starting_equity,
           Live(n).status \in {"FROZEN", "COMMITTING"} =>
             /\ d.status \in {Live(n).status, "COMMITTING"}
             /\ d = [Live(n) EXCEPT !.status = d.status],
           \/ /\ place[n] = "base"
              /\ place'[n] = "base"
              /\ base'[n] = d
              /\ er'[n] = er[n]
           \/ /\ place[n] = "er"
              /\ place'[n] \in {"er", "returning"}
              /\ er'[n] = d
              /\ base'[n] = base[n]
    PROVE  SessionKept(n)
<1>1. Live(n)' = d
  BY DEF Live
<1>2. FrozenKept(n)
  BY <1>1 DEF FrozenKept
<1>3. SessionInv(n)' /\ base'[n].starting_equity = base[n].starting_equity
  BY DEF SessionInv, Live
<1>4. QED
  BY <1>2, <1>3 DEF SessionKept

\* The session moves to the other layer as it is.
LEMMA MovedSession ==
    ASSUME SessionsTypeOK, NEW n \in Nonces, SessionInv(n),
           \/ /\ place[n] = "base"
              /\ place'[n] = "er"
              /\ base'[n] = base[n]
              /\ er'[n] = base[n]
           \/ /\ place[n] = "returning"
              /\ place'[n] = "base"
              /\ base'[n] = er[n]
              /\ er'[n] = BlankSession
    PROVE  SessionKept(n)
<1>1. Live(n) \in Session /\ Live(n)' = Live(n)
  BY LiveType DEF Live
<1>2. FrozenKept(n)
  BY <1>1, SameLive DEF FrozenKept
<1>3. SoundSession(BlankSession)
  BY DEF SoundSession, BlankSession
<1>4. SessionInv(n)' /\ base'[n].starting_equity = base[n].starting_equity
  BY <1>3 DEF SessionInv
<1>5. QED
  BY <1>2, <1>4 DEF SessionKept

LEMMA StatusRewritten ==
    ASSUME NEW s \in Session, SoundSession(s), s.status # "NONE", NEW seconds,
           NEW d, d = Expired(s, seconds) \/ d = Finalized(s)
    PROVE  /\ d \in Session
           /\ SoundSession(d)
           /\ d.status # "NONE"
           /\ d.starting_equity = s.starting_equity
           /\ s.status \in {"FROZEN", "COMMITTING"} =>
                /\ d.status \in {s.status, "COMMITTING"}
                /\ d = [s EXCEPT !.status = d.status]
<1>1. d \in Session /\ SoundSession(d)
  BY ExpiredType, StatusSound
<1>2. d.starting_equity = s.starting_equity /\ d.status # "NONE"
  BY DEF Expired, Finalized, Session
<1>3. ASSUME s.status \in {"FROZEN", "COMMITTING"}
      PROVE  /\ d.status \in {s.status, "COMMITTING"}
             /\ d = [s EXCEPT !.status = d.status]
  <2>1. CASE d = Expired(s, seconds)
    <3>1. d = s
      BY <1>3, <2>1 DEF Expired
    <3>2. QED
      BY <1>3, <3>1, SameLive
  <2>2. CASE d = Finalized(s)
    BY <2>2 DEF Finalized, Session
  <2>3. QED
    BY <2>1, <2>2
<1>4. QED
  BY <1>1, <1>2, <1>3

LEMMA SessionStep ==
    ASSUME TypeOK, \A m \in Nonces : SessionInv(m), NEW n \in Nonces,
           \/ DelegateSession(n)
           \/ ScheduleExpiry(n)
           \/ \E t \in Trades : Trade(n, t)
           \/ ExpireSession(n)
           \/ CrankRuns(n)
           \/ FinalizeSession(n)
           \/ CommitLands(n)
    PROVE  UNCHANGED poolVars /\ \A m \in Nonces : SessionKept(m)
<1>1. SessionsTypeOK
  BY DEF TypeOK
<1>2. /\ place \in [Nonces -> Places]
      /\ base \in [Nonces -> Session]
      /\ er \in [Nonces -> Session]
  BY <1>1 DEF SessionsTypeOK
<1>3. Live(n) \in Session /\ (place[n] # "none" =>
                                SoundSession(Live(n)) /\ Live(n).status # "NONE")
  BY <1>1, <1>2, LiveType DEF SessionInv, Live, Places
<1>4. ASSUME NEW m \in Nonces, m # n
      PROVE  SessionKept(m)
  <2>1. place'[m] = place[m] /\ base'[m] = base[m] /\ er'[m] = er[m]
    BY <1>2, <1>4 DEF DelegateSession, ScheduleExpiry, Trade, ExpireSession,
                      CrankRuns, FinalizeSession, CommitLands, SetLive
  <2>2. QED
    BY <1>1, <2>1, UntouchedSession
<1>5. UNCHANGED poolVars
  BY DEF DelegateSession, ScheduleExpiry, Trade, ExpireSession, CrankRuns,
         FinalizeSession, CommitLands
<1>6. SessionKept(n)
  <2>1. CASE DelegateSession(n) \/ CommitLands(n)
    <3>1. \/ /\ place[n] = "base"
             /\ place'[n] = "er"
             /\ base'[n] = base[n]
             /\ er'[n] = base[n]
          \/ /\ place[n] = "returning"
             /\ place'[n] = "base"
             /\ base'[n] = er[n]
             /\ er'[n] = BlankSession
      BY <1>2, <2>1 DEF DelegateSession, CommitLands
    <3>2. QED
      BY <1>1, <3>1, MovedSession
  <2>2. CASE ScheduleExpiry(n)
    BY <1>1, <2>2, UntouchedSession DEF ScheduleExpiry
  <2>3. ASSUME NEW t \in Trades, Trade(n, t)
        PROVE  SessionKept(n)
    <3> DEFINE price == OraclePrice(t.asset)
               d     == Traded(Live(n), t, price)
    <3>1. price \in Word /\ TradeAllowed(Live(n), t, price, left[n])
      BY <2>3 DEF Trade, OracleUsable
    <3>2. place[n] # "none"
      BY <2>3 DEF Trade, Writable
    <3>3. SetLive(n, d) /\ place' = place
      BY <2>3 DEF Trade
    <3> HIDE DEF price
    <3>4. /\ d \in Session
          /\ d.status = "ACTIVE"
          /\ d.starting_equity = Live(n).starting_equity
          /\ SoundSession(d)
          /\ Live(n).status = "ACTIVE"
      BY <1>3, <3>1, <3>2, TradedType, TradedSound DEF TradeAllowed
    <3> HIDE DEF d
    <3>5. QED
      BY <1>1, <1>2, <3>2, <3>3, <3>4, RewrittenSession DEF SetLive
  <2>4. CASE ExpireSession(n)
    <3> DEFINE d == Expired(Live(n), left[n])
    <3>1. place[n] # "none" /\ SetLive(n, d) /\ place' = place
      BY <2>4 DEF ExpireSession, Writable
    <3>2. /\ d \in Session
          /\ SoundSession(d)
          /\ d.status # "NONE"
          /\ d.starting_equity = Live(n).starting_equity
          /\ Live(n).status \in {"FROZEN", "COMMITTING"} =>
               /\ d.status \in {Live(n).status, "COMMITTING"}
               /\ d = [Live(n) EXCEPT !.status = d.status]
      BY <1>3, <3>1, StatusRewritten
    <3> HIDE DEF d
    <3>3. QED
      BY <1>1, <1>2, <3>1, <3>2, RewrittenSession DEF SetLive
  <2>5. ASSUME CrankRuns(n) \/ FinalizeSession(n), place[n] = "er"
        PROVE  SessionKept(n)
    <3>1. Live(n) = er[n]
      BY <2>5 DEF Live
    <3>2. PICK d : /\ d = Expired(er[n], left[n]) \/ d = Finalized(er[n])
                   /\ er'[n] = d
                   /\ place'[n] \in {"er", "returning"}
                   /\ base'[n] = base[n]
      BY <1>2, <2>5 DEF CrankRuns, FinalizeSession
    <3>3. /\ d \in Session
          /\ SoundSession(d)
          /\ d.status # "NONE"
          /\ d.starting_equity = Live(n).starting_equity
          /\ Live(n).status \in {"FROZEN", "COMMITTING"} =>
               /\ d.status \in {Live(n).status, "COMMITTING"}
               /\ d = [Live(n) EXCEPT !.status = d.status]
      BY <1>3, <2>5, <3>1, <3>2, StatusRewritten
    <3>4. QED
      BY <1>1, <2>5, <3>2, <3>3, RewrittenSession
  <2>6. CASE CrankRuns(n) /\ place[n] # "er"
    BY <1>1, <2>6, UntouchedSession DEF CrankRuns
  <2>7. QED
    BY <2>1, <2>2, <2>3, <2>4, <2>5, <2>6 DEF FinalizeSession
<1>7. QED
  BY <1>4, <1>5, <1>6

-----------------------------------------------------------------------------
(* What the pool's steps do to its vault and its shares *)

\* New shares cost at least their part of the vault (lib.rs:99-143).
LEMMA DepositFacts ==
    ASSUME TypeOK, NEW u \in Users, NEW amount \in Amounts, Deposit(u, amount)
    PROVE  \E issued \in Nat \ {0} :
             /\ amount \in Nat \ {0}
             /\ pool.status = "IDLE"
             /\ vault' = vault + amount
             /\ pool'.total_shares = pool.total_shares + issued
             /\ pool.total_shares > 0 =>
                  issued * vault <= amount * pool.total_shares
             /\ pool'.status = pool.status
             /\ pool'.active_nonce = pool.active_nonce
             /\ pool'.high_water = pool.high_water
<1> DEFINE total  == pool.total_shares
           issued == shares_for_deposit(amount, total, vault)
<1>1. /\ amount \in Nat \ {0}
      /\ vault \in Nat
      /\ total \in Nat
      /\ pool \in Pool
  BY SyndicateAssumption DEF Deposit, TypeOK, PoolTypeOK, Pool
<1>2. /\ issued \in Nat \ {0}
      /\ total > 0 => vault > 0
      /\ vault' = vault + amount
      /\ pool' = [pool EXCEPT !.total_shares = @ + issued,
                              !.backer_count = BackersWith(u)]
      /\ pool.status = "IDLE"
  BY DEF Deposit, PoolIdle
<1>3. total > 0 => issued * vault <= amount * total
  BY <1>1, <1>2, MulDivRoundsDown DEF shares_for_deposit
<1> HIDE DEF issued
<1>4. /\ pool'.total_shares = total + issued
      /\ pool'.status = pool.status
      /\ pool'.active_nonce = pool.active_nonce
      /\ pool'.high_water = pool.high_water
  BY <1>1, <1>2 DEF Pool
<1>5. QED
  BY <1>1, <1>2, <1>3, <1>4

\* Redeemed shares fetch at most their part of the vault, and the shares that
\* stay keep something behind them (lib.rs:145-193).
LEMMA WithdrawFacts ==
    ASSUME TypeOK, SharesAreBacked,
           NEW u \in Users, NEW n \in 1 .. shares[u], Withdraw(u, n)
    PROVE  \E amount \in Nat \ {0} :
             /\ n \in Nat \ {0}
             /\ n <= pool.total_shares
             /\ amount <= vault
             /\ pool.status = "IDLE"
             /\ vault' = vault - amount
             /\ pool'.total_shares = pool.total_shares - n
             /\ amount * pool.total_shares <= n * vault
             /\ pool'.total_shares > 0 => vault' > 0
             /\ pool'.status = pool.status
             /\ pool'.active_nonce = pool.active_nonce
             /\ pool'.high_water = pool.high_water
<1> DEFINE total  == pool.total_shares
           amount == tokens_for_withdrawal(n, total, vault)
<1>1. /\ n \in Nat \ {0}
      /\ vault \in Nat
      /\ total \in Nat \ {0}
      /\ pool \in Pool
      /\ vault > 0
  BY DEF Withdraw, TypeOK, PoolTypeOK, Pool, SharesAreBacked
<1>2. /\ amount \in Nat \ {0}
      /\ amount <= vault
      /\ n <= total
      /\ vault' = vault - amount
      /\ pool' = [pool EXCEPT !.total_shares = @ - n]
      /\ pool.status = "IDLE"
  BY DEF Withdraw, PoolIdle
<1>3. amount * total <= n * vault
  BY <1>1, MulDivRoundsDown DEF tokens_for_withdrawal
<1> HIDE DEF amount
<1>4. /\ pool'.total_shares = total - n
      /\ pool'.status = pool.status
      /\ pool'.active_nonce = pool.active_nonce
      /\ pool'.high_water = pool.high_water
  BY <1>1, <1>2 DEF Pool
<1> HIDE DEF total
<1>5. ASSUME n < total PROVE amount < vault
  <2>1. SUFFICES ASSUME amount = vault PROVE FALSE
    BY <1>1, <1>2
  <2>2. n * vault < total * vault
    BY <1>1, <1>5
  <2>3. vault * total <= n * vault
    BY <1>3, <2>1
  <2>4. vault * total = total * vault
    BY <1>1
  <2>5. n * vault \in Nat /\ total * vault \in Nat
    BY <1>1
  <2>6. QED
    BY <2>2, <2>3, <2>4, <2>5
<1>6. pool'.total_shares > 0 => vault' > 0
  BY <1>1, <1>2, <1>4, <1>5
<1>7. QED
  BY <1>1, <1>2, <1>3, <1>4, <1>6 DEF total

\* A settlement can always be paid, moves the vault by the session's result,
\* and leaves something in it (lib.rs:433-515).
LEMMA SettlementFunded ==
    ASSUME SafetyInv, NEW n \in Nonces, Settleable(n)
    PROVE  LET s     == SettlementOf(n)
               start == base[n].starting_equity
               end   == base[n].equity
               kept  == vault + s.mint_amount - s.burn_amount - s.fee_amount
           IN  /\ TokensSuffice(n)
               /\ end > 0
               /\ kept \in Nat \ {0}
               /\ (vault - kept) * BPS_SCALE < start * (MAX_DRAWDOWN_BPS + 1)
               /\ \/ end > start /\ kept >= vault
                  \/ end <= start /\ kept = vault - (start - end)
<1> DEFINE start == base[n].starting_equity
           end   == base[n].equity
           s     == SettlementOf(n)
           total == pool.total_shares
           kept  == vault + s.mint_amount - s.burn_amount - s.fee_amount
<1>1. /\ base[n] \in Session
      /\ vault \in Nat
      /\ total \in Nat \ {0}
      /\ pool.high_water \in Nat
      /\ vault >= start
  BY DEF SafetyInv, TypeOK, PoolTypeOK, SessionsTypeOK, PoolInv, Settleable,
         Pool
<1>2. SoundSession(base[n]) /\ base[n].status # "NONE"
  BY DEF SafetyInv, SessionInv, Settleable
<1>3. /\ end \in Nat \ {0}
      /\ start \in Nat \ {0}
      /\ (start - end) * BPS_SCALE < start * (MAX_DRAWDOWN_BPS + 1)
  BY <1>1, <1>2, SoundLoss DEF Session, SoundSession
<1>4. s = calculate_settlement(start, end, total, pool.high_water)
  BY DEF SettlementOf
<1>5. CASE end <= start
  <2>1. s.mint_amount = 0 /\ s.burn_amount = start - end /\ s.fee_amount = 0
    BY <1>4, <1>5 DEF calculate_settlement, LossSettlement
  <2> HIDE DEF s, start, end
  <2>2. kept = vault - (start - end)
    BY <2>1, <1>1, <1>3
  <2>3. /\ kept \in Nat \ {0}
        /\ vault - kept = start - end
        /\ TokensSuffice(n)
    BY <2>1, <2>2, <1>1, <1>3, <1>5 DEF TokensSuffice, s
  <2> HIDE DEF kept
  <2>4. QED
    BY <2>2, <2>3, <1>3, <1>5 DEF kept, s, start, end
<1>6. CASE end > start
  <2> DEFINE mark == pool.high_water
             fee  == PerformanceFee(start, end, total, mark)
  <2>0. mark \in Nat
    BY <1>1
  <2>1. s = calculate_settlement(start, end, total, mark)
    BY <1>4
  <2> HIDE DEF s, start, end, total, mark
  <2>2. fee \in Nat /\ fee <= end - start
    <3>1. start \in Nat /\ end \in Nat /\ end >= start
      BY <1>3, <1>6
    <3>2. QED
      BY <3>1, <2>0, <1>1, FeeBound
  <2>3. s.mint_amount = end - start /\ s.burn_amount = 0 /\ s.fee_amount = fee
    <3>1. ~(end <= start)
      BY <1>3, <1>6
    <3>2. QED
      BY <2>1, <3>1 DEF calculate_settlement, ProfitSettlement
  <2> HIDE DEF fee
  <2>4. /\ kept \in Nat \ {0}
        /\ kept >= vault
        /\ TokensSuffice(n)
    BY <2>2, <2>3, <1>1, <1>3, <1>6 DEF TokensSuffice, s
  <2> HIDE DEF kept
  <2>5. (vault - kept) * BPS_SCALE <= 0
    BY <2>4, <1>1, MathAssumption
  <2>6. start * (MAX_DRAWDOWN_BPS + 1) > 0
    BY <1>3, SessionAssumption
  <2>7. (vault - kept) * BPS_SCALE < start * (MAX_DRAWDOWN_BPS + 1)
    <3>1. /\ (vault - kept) * BPS_SCALE \in Int
          /\ start * (MAX_DRAWDOWN_BPS + 1) \in Int
      BY <2>4, <1>1, <1>3, MathAssumption, SessionAssumption
    <3>2. QED
      BY <2>5, <2>6, <3>1
  <2>8. QED
    BY <2>4, <2>7, <1>3, <1>6 DEF kept, s, start, end
<1>7. QED
  BY <1>3, <1>5, <1>6

\* What settle_session writes, named.
LEMMA SettleFacts ==
    ASSUME SafetyInv, NEW n \in Nonces, SettleSession(n)
    PROVE  LET s     == SettlementOf(n)
               start == base[n].starting_equity
               end   == base[n].equity
           IN  /\ Open(n)
               /\ vault' \in Nat \ {0}
               /\ (vault - vault') * BPS_SCALE < start * (MAX_DRAWDOWN_BPS + 1)
               /\ vault' >= vault \/ supply' < supply
               /\ pool'.status = "IDLE"
               /\ pool'.total_shares = pool.total_shares
               /\ pool'.active_nonce = pool.active_nonce
               /\ pool'.high_water = s.next_high_water
               /\ receipt'[n].done
               /\ receipt'[n].fee_amount = s.fee_amount
               /\ \A m \in Nonces : m # n => receipt'[m] = receipt[m]
               /\ UNCHANGED sessionVars
<1> DEFINE s     == SettlementOf(n)
           start == base[n].starting_equity
           end   == base[n].equity
<1>1. /\ pool \in Pool
      /\ receipt \in [Nonces -> Receipt]
      /\ vault \in Nat
      /\ supply \in Nat
      /\ start \in Nat
      /\ end \in Nat
  BY DEF SafetyInv, TypeOK, PoolTypeOK, SessionsTypeOK, Session
<1>2. /\ Settleable(n)
      /\ supply' = supply + s.mint_amount - s.burn_amount
      /\ vault' = vault + s.mint_amount - s.burn_amount - s.fee_amount
      /\ pool' = [pool EXCEPT
                    !.status = "IDLE",
                    !.high_water = s.next_high_water,
                    !.total_fees = @ + s.fee_amount,
                    !.session_count = @ + 1,
                    !.max_drawdown = Larger(@, base[n].drawdown_bps)]
      /\ receipt' = [receipt EXCEPT ![n] =
                       [done |-> TRUE,
                        gross_pnl |-> base[n].equity
                                        - base[n].starting_equity,
                        mint_amount |-> s.mint_amount,
                        burn_amount |-> s.burn_amount,
                        fee_amount |-> s.fee_amount]]
      /\ UNCHANGED sessionVars
  BY DEF SettleSession
<1>3. /\ vault' \in Nat \ {0}
      /\ (vault - vault') * BPS_SCALE < start * (MAX_DRAWDOWN_BPS + 1)
      /\ \/ end > start /\ vault' >= vault
         \/ end <= start /\ vault' = vault - (start - end)
  BY <1>2, SettlementFunded
<1>4. end <= start =>
        /\ s.mint_amount = 0
        /\ s.burn_amount = start - end
  BY DEF SettlementOf, calculate_settlement, LossSettlement
<1> HIDE DEF s
<1>5. /\ pool'.status = "IDLE"
      /\ pool'.total_shares = pool.total_shares
      /\ pool'.active_nonce = pool.active_nonce
      /\ pool'.high_water = s.next_high_water
  BY <1>1, <1>2 DEF Pool
<1>6. /\ receipt'[n].done
      /\ receipt'[n].fee_amount = s.fee_amount
      /\ \A m \in Nonces : m # n => receipt'[m] = receipt[m]
  BY <1>1, <1>2
<1>7. vault' >= vault \/ supply' < supply
  <2> HIDE DEF start, end
  <2>1. CASE end > start
    BY <2>1, <1>1, <1>3
  <2>2. CASE end < start
    <3>1. s.mint_amount = 0 /\ s.burn_amount = start - end
      BY <2>2, <1>1, <1>4
    <3>2. supply' = supply + s.mint_amount - s.burn_amount
      BY <1>2
    <3>3. QED
      BY <3>1, <3>2, <2>2, <1>1
  <2>3. CASE end = start
    BY <2>3, <1>1, <1>3
  <2>4. QED
    BY <1>1, <2>1, <2>2, <2>3
<1>8. Open(n)
  BY <1>2 DEF Settleable, Open
<1>9. QED
  BY <1>2, <1>3, <1>5, <1>6, <1>7, <1>8 DEF s

-----------------------------------------------------------------------------
(* The invariant is inductive *)

LEMMA SafetyInit == Init => SafetyInv
<1> SUFFICES ASSUME Init PROVE SafetyInv
  OBVIOUS
<1>1. TypeOK
  BY TypeInit
<1>2. PoolInv
  BY DEF Init, PoolInv, SharesAreBacked, AbsentPool
<1>3. ASSUME NEW n \in Nonces PROVE SessionInv(n) /\ PairInv(n)
  BY DEF Init, SessionInv, SoundSession, BlankSession, PairInv, NoReceipt,
         Open, AbsentPool
<1>4. QED
  BY <1>1, <1>2, <1>3 DEF SafetyInv

\* Steps that leave the sessions and their receipts alone.
LEMMA PoolStepSafe ==
    ASSUME SafetyInv, TypeOK', UNCHANGED <<sessionVars, receipt>>, PoolInv',
           \A n \in Nonces : Open(n)' <=> Open(n)
    PROVE  SafetyInv'
<1>1. ASSUME NEW n \in Nonces PROVE SessionInv(n)' /\ PairInv(n)'
  BY DEF SafetyInv, SessionInv, PairInv, sessionVars
<1>2. QED
  BY <1>1 DEF SafetyInv

LEMMA DepositSafe ==
    ASSUME SafetyInv, TypeOK', NEW u \in Users, NEW amount \in Amounts,
           Deposit(u, amount)
    PROVE  SafetyInv'
<1>1. PICK issued \in Nat \ {0} :
         /\ amount \in Nat \ {0}
         /\ pool.status = "IDLE"
         /\ vault' = vault + amount
         /\ pool'.total_shares = pool.total_shares + issued
         /\ pool'.status = pool.status
         /\ pool'.active_nonce = pool.active_nonce
  BY DepositFacts DEF SafetyInv
<1>2. vault \in Nat
  BY DEF SafetyInv, TypeOK, PoolTypeOK
<1>3. PoolInv'
  BY <1>1, <1>2 DEF PoolInv, SharesAreBacked
<1>4. UNCHANGED <<sessionVars, receipt>>
  BY DEF Deposit
<1>5. QED
  BY <1>1, <1>3, <1>4, PoolStepSafe DEF Open

LEMMA WithdrawSafe ==
    ASSUME SafetyInv, TypeOK', NEW u \in Users, NEW n \in 1 .. shares[u],
           Withdraw(u, n)
    PROVE  SafetyInv'
<1>1. /\ pool.status = "IDLE"
      /\ pool'.total_shares > 0 => vault' > 0
      /\ pool'.status = pool.status
      /\ pool'.active_nonce = pool.active_nonce
  BY WithdrawFacts DEF SafetyInv, PoolInv
<1>2. PoolInv'
  BY <1>1 DEF PoolInv, SharesAreBacked
<1>3. UNCHANGED <<sessionVars, receipt>>
  BY DEF Withdraw
<1>4. QED
  BY <1>1, <1>2, <1>3, PoolStepSafe DEF Open

LEMMA WalletsSafe ==
    ASSUME SafetyInv, TypeOK',
           \/ InitializeConfig
           \/ CreateSyndicate
           \/ \E u \in Users : ClaimFusd(u)
           \/ \E u \in Users, amount \in Amounts : DirectTransfer(u, amount)
    PROVE  SafetyInv'
<1>1. UNCHANGED <<sessionVars, receipt>>
  BY DEF InitializeConfig, CreateSyndicate, ClaimFusd, DirectTransfer, poolVars
<1>2. PoolInv /\ vault \in Nat /\ pool \in Pool
  BY DEF SafetyInv, TypeOK, PoolTypeOK
<1>3. CASE CreateSyndicate
  <2>1. /\ pool.status = "ABSENT"
        /\ pool'.status = "IDLE"
        /\ pool'.total_shares = 0
    BY <1>3 DEF CreateSyndicate, AbsentPool
  <2>2. PoolInv'
    BY <2>1 DEF PoolInv, SharesAreBacked
  <2>3. QED
    BY <1>1, <2>1, <2>2, PoolStepSafe DEF Open
<1>4. CASE InitializeConfig \/ \E u \in Users : ClaimFusd(u)
  <2>1. UNCHANGED <<vault, pool>>
    BY <1>4 DEF InitializeConfig, ClaimFusd, poolVars
  <2>2. PoolInv'
    BY <1>1, <1>2, <2>1 DEF PoolInv, SharesAreBacked, sessionVars
  <2>3. QED
    BY <1>1, <2>1, <2>2, PoolStepSafe DEF Open
<1>5. ASSUME NEW u \in Users, NEW amount \in Amounts, DirectTransfer(u, amount)
      PROVE  SafetyInv'
  <2>1. UNCHANGED pool /\ vault' = vault + amount /\ amount \in Nat
    BY <1>5, SyndicateAssumption DEF DirectTransfer
  <2>2. \A n \in Nonces : base[n].starting_equity \in Nat
    BY DEF SafetyInv, TypeOK, SessionsTypeOK, Session
  <2>3. PoolInv'
    BY <1>1, <1>2, <2>1, <2>2 DEF PoolInv, SharesAreBacked, sessionVars
  <2>4. QED
    BY <1>1, <2>1, <2>3, PoolStepSafe DEF Open
<1>6. QED
  BY <1>3, <1>4, <1>5

LEMMA StartSessionSafe ==
    ASSUME SafetyInv, TypeOK', NEW n \in Nonces, StartSession(n)
    PROVE  /\ SafetyInv'
           /\ \A m \in Nonces : FrozenKept(m)
           /\ base'[n].starting_equity = vault
           /\ pool.status = "IDLE"
           /\ pool.total_shares > 0
           /\ vault > 0
           /\ pool' = [pool EXCEPT !.status = "ACTIVE", !.active_nonce = n]
           /\ UNCHANGED <<vault, supply, receipt>>
<1>1. /\ place \in [Nonces -> Places]
      /\ base \in [Nonces -> Session]
      /\ pool \in Pool
      /\ vault \in Nat
      /\ SessionsTypeOK
  BY DEF SafetyInv, TypeOK, PoolTypeOK, SessionsTypeOK
<1>2. /\ place[n] = "none"
      /\ pool.status = "IDLE"
      /\ vault > 0
      /\ pool.total_shares > 0
      /\ place' = [place EXCEPT ![n] = "base"]
      /\ base' = [base EXCEPT ![n] = StartedSession(vault)]
      /\ pool' = [pool EXCEPT !.status = "ACTIVE", !.active_nonce = n]
      /\ UNCHANGED <<vault, supply, receipt, er>>
  BY DEF StartSession, PoolIdle
<1>3. /\ pool'.status = "ACTIVE"
      /\ pool'.active_nonce = n
      /\ pool'.total_shares = pool.total_shares
  BY <1>1, <1>2, SyndicateAssumption DEF Pool
<1>4. /\ base'[n] = StartedSession(vault)
      /\ base'[n].status = "ACTIVE"
      /\ base'[n].starting_equity = vault
      /\ SoundSession(base'[n])
  <2>1. base'[n] = StartedSession(vault)
    BY <1>1, <1>2
  <2>2. /\ StartedSession(vault).status = "ACTIVE"
        /\ StartedSession(vault).starting_equity = vault
    BY DEF StartedSession, BlankSession
  <2>3. SoundSession(StartedSession(vault))
    BY <1>1, <1>2, StartedSound
  <2>4. QED
    BY <2>1, <2>2, <2>3
<1>5. PoolInv'
  BY <1>1, <1>2, <1>3, <1>4 DEF PoolInv, SharesAreBacked
<1>6. ASSUME NEW m \in Nonces, m # n
      PROVE  SessionInv(m)' /\ PairInv(m)' /\ FrozenKept(m)
  <2>1. place'[m] = place[m] /\ base'[m] = base[m] /\ er'[m] = er[m]
    BY <1>1, <1>2, <1>6
  <2>2. SessionKept(m)
    BY <1>1, <2>1, UntouchedSession DEF SafetyInv
  <2>3. PairInv(m)'
    BY <1>2, <1>3, <1>6, <2>1 DEF SafetyInv, PairInv, Open
  <2>4. QED
    BY <2>2, <2>3 DEF SessionKept
<1>7. SessionInv(n)' /\ PairInv(n)' /\ FrozenKept(n)
  <2>1. SessionInv(n)'
    BY <1>1, <1>2, <1>4 DEF SafetyInv, SessionInv
  <2>2. PairInv(n)'
    BY <1>1, <1>2, <1>3 DEF SafetyInv, PairInv, Open
  <2>3. FrozenKept(n)
    BY <1>2 DEF SafetyInv, SessionInv, FrozenKept, Live
  <2>4. QED
    BY <2>1, <2>2, <2>3
<1>8. SafetyInv'
  BY <1>5, <1>6, <1>7 DEF SafetyInv
<1>9. QED
  BY <1>2, <1>4, <1>6, <1>7, <1>8

LEMMA SettleSessionSafe ==
    ASSUME SafetyInv, TypeOK', NEW n \in Nonces, SettleSession(n)
    PROVE  SafetyInv'
<1>1. /\ Open(n)
      /\ vault' \in Nat \ {0}
      /\ pool'.status = "IDLE"
      /\ receipt'[n].done
      /\ \A m \in Nonces : m # n => receipt'[m] = receipt[m]
      /\ UNCHANGED sessionVars
  BY SettleFacts
<1>2. PoolInv'
  BY <1>1 DEF PoolInv, SharesAreBacked
<1>3. ASSUME NEW m \in Nonces PROVE SessionInv(m)' /\ PairInv(m)'
  <2>1. SessionInv(m)'
    BY <1>1 DEF SafetyInv, SessionInv, sessionVars
  <2>2. PairInv(m)'
    BY <1>1 DEF SafetyInv, PairInv, Open, sessionVars
  <2>3. QED
    BY <2>1, <2>2
<1>4. QED
  BY <1>2, <1>3 DEF SafetyInv

LEMMA SessionStepSafe ==
    ASSUME SafetyInv, TypeOK', UNCHANGED poolVars,
           \A m \in Nonces : SessionKept(m)
    PROVE  SafetyInv'
<1>1. PoolInv'
  BY DEF SafetyInv, PoolInv, SharesAreBacked, SessionKept, poolVars
<1>2. ASSUME NEW m \in Nonces PROVE SessionInv(m)' /\ PairInv(m)'
  BY DEF SafetyInv, PairInv, Open, SessionKept, poolVars
<1>3. QED
  BY <1>1, <1>2 DEF SafetyInv

LEMMA SafetyStep == SafetyInv /\ [Next]_vars => SafetyInv'
<1> SUFFICES ASSUME SafetyInv, [Next]_vars
             PROVE  SafetyInv'
  OBVIOUS
<1>0. TypeOK /\ TypeOK'
  BY TypeStep DEF SafetyInv
<1>1. ASSUME NEW u \in Users, NEW amount \in Amounts, Deposit(u, amount)
      PROVE  SafetyInv'
  BY <1>0, <1>1, DepositSafe
<1>2. ASSUME NEW u \in Users, NEW n \in 1 .. shares[u], Withdraw(u, n)
      PROVE  SafetyInv'
  BY <1>0, <1>2, WithdrawSafe
<1>3. CASE \/ InitializeConfig
           \/ CreateSyndicate
           \/ \E u \in Users : ClaimFusd(u)
           \/ \E u \in Users, amount \in Amounts : DirectTransfer(u, amount)
  BY <1>0, <1>3, WalletsSafe
<1>4. ASSUME NEW n \in Nonces, StartSession(n)
      PROVE  SafetyInv'
  BY <1>0, <1>4, StartSessionSafe
<1>5. ASSUME NEW n \in Nonces, SettleSession(n)
      PROVE  SafetyInv'
  BY <1>0, <1>5, SettleSessionSafe
<1>6. ASSUME NEW n \in Nonces,
             \/ DelegateSession(n)
             \/ ScheduleExpiry(n)
             \/ \E t \in Trades : Trade(n, t)
             \/ ExpireSession(n)
             \/ CrankRuns(n)
             \/ FinalizeSession(n)
             \/ CommitLands(n)
      PROVE  SafetyInv'
  <2>1. UNCHANGED poolVars /\ \A m \in Nonces : SessionKept(m)
    BY <1>0, <1>6, SessionStep DEF SafetyInv
  <2>2. QED
    BY <1>0, <2>1, SessionStepSafe
<1>7. ASSUME NEW a \in Feeds, OraclePublishes(a)
      PROVE  SafetyInv'
  <2>1. UNCHANGED <<poolVars, sessionVars>>
    BY <1>7 DEF OraclePublishes
  <2>2. PoolInv'
    BY <2>1 DEF SafetyInv, PoolInv, SharesAreBacked, poolVars, sessionVars
  <2>3. QED
    BY <1>0, <2>1, <2>2, PoolStepSafe DEF poolVars, Open
<1>8. CASE Tick \/ UNCHANGED vars
  <2>1. UNCHANGED <<poolVars, place, base, er>>
    BY <1>8 DEF Tick, vars, sessionVars
  <2>2. PoolInv'
    BY <2>1 DEF SafetyInv, PoolInv, SharesAreBacked, poolVars
  <2>3. ASSUME NEW n \in Nonces PROVE SessionInv(n)' /\ PairInv(n)'
    BY <2>1 DEF SafetyInv, SessionInv, PairInv, Open, poolVars
  <2>4. QED
    BY <1>0, <2>2, <2>3 DEF SafetyInv
<1>9. QED
  BY <1>1, <1>2, <1>3, <1>4, <1>5, <1>6, <1>7, <1>8 DEF Next

LEMMA SafetyInvariant == Spec => []SafetyInv
  BY SafetyInit, SafetyStep, PTL DEF Spec

-----------------------------------------------------------------------------
(* What it gives *)

\* Shares never lose their backing: the state in which every deposit fails
\* with InvalidVault cannot be reached.
THEOREM SharesStayBacked == Spec => []SharesAreBacked
<1>1. SafetyInv => SharesAreBacked
  BY DEF SafetyInv, PoolInv
<1>2. QED
  BY <1>1, SafetyInvariant, PTL

\* A session exists without a receipt exactly while it is the pool's open one.
THEOREM SessionsPairUp == Spec => []OneOpenSession
<1>1. SafetyInv => OneOpenSession
  BY DEF SafetyInv, PairInv, OneOpenSession
<1>2. QED
  BY <1>1, SafetyInvariant, PTL

\* settle_session (lib.rs:433-515) is never refused by the token program: the
\* vault holds the stake until then, and the result can be burnt or paid.
THEOREM SettlementAlwaysFunded == Spec => []SettlementIsFunded
<1>1. SafetyInv => SettlementIsFunded
  <2> SUFFICES ASSUME SafetyInv PROVE SettlementIsFunded
    OBVIOUS
  <2>1. ASSUME NEW n \in Nonces, Open(n)
        PROVE  vault >= Live(n).starting_equity
    BY <2>1 DEF SafetyInv, PoolInv, SessionInv, Open, Live
  <2>2. ASSUME NEW n \in Nonces, Settleable(n)
        PROVE  TokensSuffice(n)
    BY <2>2, SettlementFunded
  <2>3. QED
    BY <2>1, <2>2 DEF SettlementIsFunded
<1>2. QED
  BY <1>1, SafetyInvariant, PTL

-----------------------------------------------------------------------------
(* What one step may never do, and the fund that the vault implements *)

\* Every step, by what it does to the pool: the case analysis on Next that
\* the theorems share.
StepCases ==
    \/ \E u \in Users, amount \in Amounts : Deposit(u, amount)
    \/ \E u \in Users : \E n \in 1 .. shares[u] : Withdraw(u, n)
    \/ \E u \in Users, amount \in Amounts : DirectTransfer(u, amount)
    \/ \E n \in Nonces : StartSession(n)
    \/ \E n \in Nonces : SettleSession(n)
    \/ CreateSyndicate
    \/ /\ UNCHANGED <<vault, pool, receipt>>
       /\ \A m \in Nonces : SessionKept(m)

\* Sessions that a step does not touch keep their copies.
LEMMA SameSessions ==
    ASSUME SafetyInv, UNCHANGED <<place, base, er>>
    PROVE  \A m \in Nonces : SessionKept(m)
<1>1. SessionsTypeOK
  BY DEF SafetyInv, TypeOK
<1>2. QED
  BY <1>1, UntouchedSession DEF SafetyInv

LEMMA StepSplit ==
    ASSUME SafetyInv, [Next]_vars
    PROVE  StepCases
<1>1. ASSUME NEW n \in Nonces,
             \/ DelegateSession(n)
             \/ ScheduleExpiry(n)
             \/ \E t \in Trades : Trade(n, t)
             \/ ExpireSession(n)
             \/ CrankRuns(n)
             \/ FinalizeSession(n)
             \/ CommitLands(n)
      PROVE  StepCases
  <2>1. UNCHANGED poolVars /\ \A m \in Nonces : SessionKept(m)
    BY <1>1, SessionStep DEF SafetyInv
  <2>2. QED
    BY <2>1 DEF StepCases, poolVars
<1>2. CASE \/ InitializeConfig
           \/ \E u \in Users : ClaimFusd(u)
           \/ \E a \in Feeds : OraclePublishes(a)
           \/ Tick
           \/ UNCHANGED vars
  <2>1. UNCHANGED <<vault, pool, receipt, place, base, er>>
    BY <1>2 DEF InitializeConfig, ClaimFusd, OraclePublishes, Tick, vars,
                poolVars, sessionVars
  <2>2. QED
    BY <2>1, SameSessions DEF StepCases
<1>3. CASE \/ CreateSyndicate
           \/ \E u \in Users, amount \in Amounts : Deposit(u, amount)
           \/ \E u \in Users : \E n \in 1 .. shares[u] : Withdraw(u, n)
           \/ \E u \in Users, amount \in Amounts : DirectTransfer(u, amount)
           \/ \E n \in Nonces : StartSession(n) \/ SettleSession(n)
  BY <1>3 DEF StepCases
<1>4. QED
  BY <1>1, <1>2, <1>3 DEF Next

LEMMA FrozenStep ==
    ASSUME SafetyInv, [Next]_vars
    PROVE  \A n \in Nonces : FrozenKept(n)
<1>1. CASE \E n \in Nonces : StartSession(n)
  <2>1. TypeOK'
    BY TypeStep DEF SafetyInv
  <2>2. QED
    BY <1>1, <2>1, StartSessionSafe
<1>2. CASE /\ StepCases
           /\ ~ \E n \in Nonces : StartSession(n)
  <2>1. \A m \in Nonces : SessionKept(m)
    <3>1. CASE \A m \in Nonces : SessionKept(m)
      BY <3>1
    <3>2. CASE \/ \E u \in Users, amount \in Amounts : Deposit(u, amount)
               \/ \E u \in Users : \E n \in 1 .. shares[u] : Withdraw(u, n)
               \/ \E u \in Users, amount \in Amounts :
                    DirectTransfer(u, amount)
               \/ \E n \in Nonces : SettleSession(n)
               \/ CreateSyndicate
      <4>1. UNCHANGED <<place, base, er>>
        BY <3>2 DEF Deposit, Withdraw, DirectTransfer, SettleSession,
                    CreateSyndicate, sessionVars
      <4>2. QED
        BY <4>1, SameSessions
    <3>3. QED
      BY <1>2, <3>1, <3>2 DEF StepCases
  <2>2. QED
    BY <2>1 DEF SessionKept
<1>3. QED
  BY <1>1, <1>2, StepSplit

\* A frozen session's money, positions and marks never change again, through
\* commits, re-delegations and trades that race the expiry.
THEOREM FrozenStaysFinal == Spec => FrozenIsFinal
<1>1. SafetyInv /\ [Next]_vars => [\A n \in Nonces : FrozenKept(n)]_vars
  BY FrozenStep
<1>2. QED
  BY <1>1, SafetyInvariant, PTL DEF Spec, FrozenIsFinal

\* A settlement writes the receipt from the session as it was committed
\* (lib.rs:433-515), and no other step writes one.
LEMMA ReceiptStep ==
    ASSUME SafetyInv, ReceiptMatchesSession, [Next]_vars
    PROVE  ReceiptMatchesSession'
<1> DEFINE Matches(n, r, s) ==
               /\ s.status = "COMMITTING"
               /\ r.gross_pnl = s.equity - s.starting_equity
               /\ r.gross_pnl = r.mint_amount - r.burn_amount
<1>1. /\ receipt \in [Nonces -> Receipt]
      /\ base \in [Nonces -> Session]
      /\ \A n \in Nonces : Live(n) \in Session
  BY LiveType DEF SafetyInv, TypeOK, PoolTypeOK, SessionsTypeOK
<1>2. ASSUME NEW n \in Nonces, receipt[n].done
      PROVE  Matches(n, receipt[n], Live(n)')
  <2>1. Matches(n, receipt[n], Live(n))
    BY <1>2 DEF ReceiptMatchesSession, Settled
  <2>2. FrozenKept(n)
    BY FrozenStep
  <2>3. /\ Live(n)'.status = "COMMITTING"
        /\ Live(n)'.equity = Live(n).equity
        /\ Live(n)'.starting_equity = Live(n).starting_equity
    BY <1>1, <2>1, <2>2 DEF FrozenKept, Session
  <2>4. QED
    BY <2>1, <2>3
<1>3. ASSUME NEW n \in Nonces, SettleSession(n)
      PROVE  /\ Matches(n, receipt'[n], Live(n)')
             /\ \A m \in Nonces \ {n} : receipt'[m] = receipt[m]
  <2> DEFINE s     == SettlementOf(n)
             start == base[n].starting_equity
             end   == base[n].equity
             r     == [done |-> TRUE, gross_pnl |-> end - start,
                       mint_amount |-> s.mint_amount,
                       burn_amount |-> s.burn_amount,
                       fee_amount |-> s.fee_amount]
  <2>1. /\ receipt' = [receipt EXCEPT ![n] = r]
        /\ UNCHANGED sessionVars
        /\ place[n] = "base" /\ base[n].status = "COMMITTING"
    BY <1>3 DEF SettleSession, Settleable
  <2>2. Live(n)' = base[n]
    BY <2>1 DEF sessionVars, Live
  <2>3. start \in Nat /\ end \in Nat
    BY <1>1 DEF Session
  <2>4. s = calculate_settlement(start, end, pool.total_shares,
                                 pool.high_water)
    BY DEF SettlementOf
  <2>5. r.gross_pnl = end - start /\ r.mint_amount = s.mint_amount
          /\ r.burn_amount = s.burn_amount
    OBVIOUS
  <2>6. /\ receipt'[n] = r
        /\ \A m \in Nonces \ {n} : receipt'[m] = receipt[m]
    BY <1>1, <2>1
  <2> HIDE DEF s, r, start, end
  <2>7. end - start = s.mint_amount - s.burn_amount
    <3>1. CASE end <= start
      BY <2>3, <2>4, <3>1 DEF calculate_settlement, LossSettlement
    <3>2. CASE ~(end <= start)
      <4>1. s.mint_amount = end - start /\ s.burn_amount = 0
        BY <2>4, <3>2 DEF calculate_settlement, ProfitSettlement
      <4>2. QED
        BY <2>3, <4>1
    <3>3. QED
      BY <3>1, <3>2
  <2>8. QED
    BY <2>1, <2>2, <2>5, <2>6, <2>7 DEF start, end
<1>4. CASE receipt' = receipt
  BY <1>2, <1>4 DEF ReceiptMatchesSession, Settled
<1>5. CASE \E n \in Nonces : SettleSession(n)
  BY <1>2, <1>3, <1>5 DEF ReceiptMatchesSession, Settled
<1>6. CASE \/ \E u \in Users, amount \in Amounts : Deposit(u, amount)
           \/ \E u \in Users : \E n \in 1 .. shares[u] : Withdraw(u, n)
           \/ \E u \in Users, amount \in Amounts : DirectTransfer(u, amount)
           \/ \E n \in Nonces : StartSession(n)
           \/ CreateSyndicate
  <2>1. receipt' = receipt
    BY <1>6 DEF Deposit, Withdraw, DirectTransfer, StartSession,
                CreateSyndicate
  <2>2. QED
    BY <1>4, <2>1
<1>7. QED
  BY <1>4, <1>5, <1>6, StepSplit DEF StepCases

\* Whatever was delegated again, retried or repeated since: a receipt shows
\* what its session ended with, and the tokens that were made or burnt for it.
THEOREM ReceiptsMatch == Spec => []ReceiptMatchesSession
<1>1. Init => ReceiptMatchesSession
  BY DEF Init, ReceiptMatchesSession, Settled, NoReceipt
<1>2. SafetyInv /\ ReceiptMatchesSession /\ [Next]_vars
        => ReceiptMatchesSession'
  BY ReceiptStep
<1>3. QED
  BY <1>1, <1>2, SafetyInvariant, PTL DEF Spec

\* For any quotes, trades and limits: what a session shows as its equity, peak
\* and drawdown is what its cash and positions are worth at the prices that it
\* recorded (lib.rs:890-908), and no trade left it deeper than its limit.
THEOREM SessionsAreSound == Spec => []SessionIsSound
<1>1. SafetyInv => SessionIsSound
  <2> SUFFICES ASSUME SafetyInv, NEW n \in Nonces, Live(n).status # "NONE"
               PROVE  /\ SoundBook(Live(n))
                      /\ Live(n).peak_equity >= Live(n).equity
                      /\ Live(n).peak_equity >= Live(n).starting_equity
    BY DEF SessionIsSound, SoundBook
  <2>1. Live(n) \in Session /\ SoundSession(Live(n))
    BY LiveType DEF SafetyInv, TypeOK, SessionInv, Live
  <2>2. QED
    BY <2>1 DEF SoundSession, Session
<1>2. QED
  BY <1>1, SafetyInvariant, PTL

\* Only a losing settlement lowers what the other members' shares are worth.
THEOREM NobodyIsDiluted == Spec => NoDilution
<1> USE DEF SharesKeepValue
<1>1. ASSUME SafetyInv, [Next]_vars
      PROVE  SharesKeepValue
  <2>1. vault \in Nat /\ pool.total_shares \in Nat /\ SharesAreBacked
    BY <1>1 DEF SafetyInv, TypeOK, PoolTypeOK, Pool, PoolInv
  <2>2. ASSUME NEW u \in Users, NEW amount \in Amounts, Deposit(u, amount)
        PROVE  SharesKeepValue
    <3>1. PICK issued \in Nat \ {0} :
             /\ amount \in Nat \ {0}
             /\ vault' = vault + amount
             /\ pool'.total_shares = pool.total_shares + issued
             /\ pool.total_shares > 0 =>
                  issued * vault <= amount * pool.total_shares
      BY <1>1, <2>2, DepositFacts DEF SafetyInv
    <3> DEFINE total == pool.total_shares
    <3> HIDE DEF total
    <3>2. ASSUME total > 0, issued * vault <= amount * total, total \in Nat
          PROVE  (vault + amount) * total >= vault * (total + issued)
      BY <2>1, <3>1, <3>2
    <3>3. QED
      BY <2>1, <3>1, <3>2 DEF total
  <2>3. ASSUME NEW u \in Users, NEW n \in 1 .. shares[u], Withdraw(u, n)
        PROVE  SharesKeepValue
    <3>1. PICK amount \in Nat \ {0} :
             /\ n \in Nat \ {0}
             /\ vault' = vault - amount
             /\ pool'.total_shares = pool.total_shares - n
             /\ amount * pool.total_shares <= n * vault
      BY <1>1, <2>1, <2>3, WithdrawFacts DEF SafetyInv
    <3> DEFINE total == pool.total_shares
    <3> HIDE DEF total
    <3>2. ASSUME amount * total <= n * vault, total \in Nat
          PROVE  (vault - amount) * total >= vault * (total - n)
      BY <2>1, <3>1, <3>2
    <3>3. QED
      BY <2>1, <3>1, <3>2 DEF total
  <2>4. ASSUME NEW u \in Users, NEW amount \in Amounts,
               DirectTransfer(u, amount)
        PROVE  SharesKeepValue
    <3>1. pool' = pool /\ vault' = vault + amount /\ amount \in Nat
      BY <2>4, SyndicateAssumption DEF DirectTransfer
    <3>2. QED
      BY <2>1, <3>1
  <2>5. ASSUME NEW n \in Nonces, SettleSession(n)
        PROVE  SharesKeepValue
    <3>1. /\ Open(n)
          /\ vault' \in Nat
          /\ vault' >= vault \/ supply' < supply
          /\ pool'.status = "IDLE"
          /\ pool'.total_shares = pool.total_shares
      BY <1>1, <2>5, SettleFacts
    <3>2. ASSUME vault' >= vault
          PROVE  vault' * pool.total_shares >= vault * pool.total_shares
      BY <2>1, <3>1, <3>2, ProductsKeepOrder
    <3>3. /\ vault' * pool.total_shares \in Nat
          /\ vault * pool.total_shares \in Nat
      BY <2>1, <3>1
    <3>4. QED
      BY <3>1, <3>2, <3>3 DEF Open
  <2>6. CASE CreateSyndicate
    BY <1>1, <2>6 DEF CreateSyndicate, SafetyInv, PoolInv
  <2>7. ASSUME UNCHANGED vault, pool'.total_shares = pool.total_shares
        PROVE  SharesKeepValue
    <3>1. vault * pool.total_shares \in Nat
      BY <2>1
    <3>2. QED
      BY <2>7, <3>1
  <2>8. ASSUME NEW n \in Nonces, StartSession(n)
        PROVE  SharesKeepValue
    BY <2>1, <2>7, <2>8, <1>1 DEF StartSession, SafetyInv, TypeOK, PoolTypeOK, Pool
  <2>9. QED
    BY <1>1, <2>2, <2>3, <2>4, <2>5, <2>6, <2>7, <2>8, StepSplit DEF StepCases
<1>2. SafetyInv /\ [Next]_vars => [SharesKeepValue]_vars
  BY <1>1
<1>3. QED
  BY <1>2, SafetyInvariant, PTL DEF Spec, NoDilution

\* A settlement charges a fee only above the mark, and never lowers it.
LEMMA SettleFee ==
    ASSUME SafetyInv, NEW n \in Nonces, SettleSession(n)
    PROVE  FeesAboveMark
<1> DEFINE start == base[n].starting_equity
           end   == base[n].equity
           total == pool.total_shares
           mark  == pool.high_water
           fee   == receipt'[n].fee_amount
           s     == SettlementOf(n)
<1>1. /\ start \in Nat
      /\ end \in Nat
      /\ total \in Nat \ {0}
      /\ mark \in Nat
      /\ receipt[n].fee_amount \in Nat
  BY DEF SafetyInv, TypeOK, PoolTypeOK, SessionsTypeOK, Session, Pool, Receipt,
         SettleSession, Settleable
<1>2. /\ pool'.high_water = s.next_high_water
      /\ fee = s.fee_amount
      /\ \A m \in Nonces : m # n => receipt'[m] = receipt[m]
  BY SettleFacts
<1>3. s = calculate_settlement(start, end, total, mark)
  BY DEF SettlementOf
<1>4. ASSUME NEW m \in Nonces, m # n
      PROVE  ~(receipt'[m].fee_amount > receipt[m].fee_amount)
  <2>1. receipt[m].fee_amount \in Nat
    BY DEF SafetyInv, TypeOK, PoolTypeOK, Receipt
  <2>2. QED
    BY <1>2, <1>4, <2>1
<1> HIDE DEF start, end, total, mark, fee, s
<1>5. CASE end <= start
  <2>1. s.next_high_water = mark /\ s.fee_amount = 0
    BY <1>3, <1>5 DEF calculate_settlement, LossSettlement
  <2>2. ~(fee > receipt[n].fee_amount)
    BY <2>1, <1>1, <1>2
  <2>3. pool'.high_water >= mark
    BY <2>1, <1>1, <1>2
  <2>4. QED
    BY <1>4, <2>2, <2>3 DEF FeesAboveMark, mark, fee
<1>6. CASE end > start
  <2> DEFINE charge == PerformanceFee(start, end, total, mark)
             next   == share_price(end - charge, total)
  <2>1. s.next_high_water = Larger(mark, next) /\ s.fee_amount = charge
    <3>1. ~(end <= start)
      BY <1>1, <1>6
    <3>2. QED
      BY <1>3, <3>1 DEF calculate_settlement, ProfitSettlement
  <2>2. /\ charge \in Nat
        /\ charge <= end - start
        /\ charge * BPS_SCALE <= (end - start) * PERFORMANCE_FEE_BPS
    <3>1. end >= start
      BY <1>1, <1>6
    <3>2. QED
      BY <1>1, <3>1, FeeBound
  <2>3. charge > 0 => (end - charge) * SHARE_SCALE >= mark * total
    <3>1. end >= start
      BY <1>1, <1>6
    <3>2. QED
      BY <1>1, <3>1, FeeLeavesMark
  <2> HIDE DEF charge
  <2>4. next \in Nat
    <3>1. end - charge \in Nat
      BY <1>1, <1>6, <2>2
    <3>2. QED
      BY <3>1, <1>1, SharePriceType
  <2> HIDE DEF next
  <2>5. pool'.high_water >= mark
    BY <1>1, <1>2, <2>1, <2>4 DEF Larger
  <2>6. fee = charge
    BY <1>2, <2>1
  <2>7. ASSUME fee > receipt[n].fee_amount
        PROVE  /\ end > start
               /\ (end - fee) * SHARE_SCALE >= mark * total
               /\ fee * BPS_SCALE <= (end - start) * PERFORMANCE_FEE_BPS
    BY <1>1, <1>6, <2>2, <2>3, <2>6, <2>7
  <2>8. ASSUME NEW m \in Nonces,
               receipt'[m].fee_amount > receipt[m].fee_amount
        PROVE  m = n
    BY <1>4, <2>8
  <2>9. QED
    BY <2>5, <2>7, <2>8 DEF FeesAboveMark, start, end, total, mark, fee
<1>7. QED
  BY <1>1, <1>5, <1>6

\* A performance fee is charged only on value above the high-water price and
\* only as a part of the session's own profit; the mark never falls.
THEOREM FeesOnlyAboveHighWater == Spec => FeeOnlyAboveHighWater
<1>1. ASSUME SafetyInv, [Next]_vars
      PROVE  FeesAboveMark
  <2>1. /\ pool.high_water \in Nat
        /\ \A n \in Nonces : receipt[n].fee_amount \in Nat
        /\ pool \in Pool
    BY <1>1 DEF SafetyInv, TypeOK, PoolTypeOK, Pool, Receipt
  <2>2. ASSUME UNCHANGED receipt,
               pool.status # "ABSENT" => pool'.high_water = pool.high_water
        PROVE  FeesAboveMark
    BY <2>1, <2>2 DEF FeesAboveMark
  <2>3. ASSUME NEW u \in Users, NEW amount \in Amounts, Deposit(u, amount)
        PROVE  FeesAboveMark
    BY <1>1, <2>2, <2>3, DepositFacts DEF SafetyInv, Deposit
  <2>4. ASSUME NEW u \in Users, NEW n \in 1 .. shares[u], Withdraw(u, n)
        PROVE  FeesAboveMark
    BY <1>1, <2>2, <2>4, WithdrawFacts DEF SafetyInv, PoolInv, Withdraw
  <2>5. ASSUME NEW n \in Nonces, StartSession(n)
        PROVE  FeesAboveMark
    BY <2>1, <2>2, <2>5 DEF StartSession, Pool
  <2>6. ASSUME NEW n \in Nonces, SettleSession(n)
        PROVE  FeesAboveMark
    BY <1>1, <2>6, SettleFee
  <2>7. CASE CreateSyndicate
    BY <2>2, <2>7 DEF CreateSyndicate
  <2>8. CASE UNCHANGED <<pool, receipt>>
    BY <2>2, <2>8
  <2>9. QED
    BY <1>1, <2>3, <2>4, <2>5, <2>6, <2>7, <2>8, StepSplit
       DEF StepCases, DirectTransfer
<1>2. SafetyInv /\ [Next]_vars => [FeesAboveMark]_vars
  BY <1>1
<1>3. QED
  BY <1>2, SafetyInvariant, PTL DEF Spec, FeeOnlyAboveHighWater

-----------------------------------------------------------------------------
(* The vault implements the abstract fund *)

LEMMA FundInit == Init => Fund!Init
  BY DEF Init, Fund!Init, AbsentPool, Stake

\* A step that leaves the vault, the pool and every session's stake alone.
LEMMA FundStutters ==
    ASSUME SafetyInv, UNCHANGED <<vault, pool>>,
           \A m \in Nonces : base'[m].starting_equity = base[m].starting_equity
    PROVE  UNCHANGED Fund!poolVars
<1>1. Stake' = Stake
  BY DEF SafetyInv, PoolInv, Stake
<1>2. QED
  BY <1>1 DEF Fund!poolVars

LEMMA FundStep == SafetyInv /\ [Next]_vars => [Fund!Next]_(Fund!poolVars)
<1> SUFFICES ASSUME SafetyInv, [Next]_vars
             PROVE  Fund!Next \/ UNCHANGED Fund!poolVars
  OBVIOUS
<1>1. /\ vault \in Nat
      /\ pool \in Pool
      /\ pool.total_shares \in Nat
      /\ base \in [Nonces -> Session]
  BY DEF SafetyInv, TypeOK, PoolTypeOK, SessionsTypeOK, Pool
<1>2. ASSUME NEW u \in Users, NEW amount \in Amounts, Deposit(u, amount)
      PROVE  Fund!Next
  <2>1. PICK issued \in Nat \ {0} :
           /\ amount \in Nat \ {0}
           /\ pool.status = "IDLE"
           /\ vault' = vault + amount
           /\ pool'.total_shares = pool.total_shares + issued
           /\ pool.total_shares > 0 =>
                issued * vault <= amount * pool.total_shares
           /\ pool'.status = pool.status
    BY <1>2, DepositFacts DEF SafetyInv
  <2>2. Stake = 0 /\ Stake' = 0
    BY <2>1 DEF Stake
  <2>3. /\ pool'.total_shares - pool.total_shares = issued
        /\ vault' - vault = amount
    BY <1>1, <2>1
  <2>4. Fund!BuyIn
    BY <1>1, <2>1, <2>2, <2>3 DEF Fund!BuyIn
  <2>5. QED
    BY <2>4 DEF Fund!Next
<1>3. ASSUME NEW u \in Users, NEW n \in 1 .. shares[u], Withdraw(u, n)
      PROVE  Fund!Next
  <2>1. PICK amount \in Nat \ {0} :
           /\ n \in Nat \ {0}
           /\ n <= pool.total_shares
           /\ amount <= vault
           /\ pool.status = "IDLE"
           /\ vault' = vault - amount
           /\ pool'.total_shares = pool.total_shares - n
           /\ amount * pool.total_shares <= n * vault
           /\ pool'.total_shares > 0 => vault' > 0
           /\ pool'.status = pool.status
    BY <1>3, WithdrawFacts DEF SafetyInv, PoolInv
  <2>2. Stake = 0 /\ Stake' = 0
    BY <2>1 DEF Stake
  <2>3. /\ pool.total_shares - pool'.total_shares = n
        /\ vault - vault' = amount
    BY <1>1, <2>1
  <2>4. Fund!CashOut
    BY <1>1, <2>1, <2>2, <2>3 DEF Fund!CashOut
  <2>5. QED
    BY <2>4 DEF Fund!Next
<1>4. ASSUME NEW u \in Users, NEW amount \in Amounts, DirectTransfer(u, amount)
      PROVE  Fund!Next
  <2>1. /\ vault' = vault + amount
        /\ amount > 0
        /\ amount \in Nat
        /\ UNCHANGED <<pool, base>>
    BY <1>4, SyndicateAssumption DEF DirectTransfer, sessionVars
  <2>2. Fund!Gift
    BY <1>1, <2>1 DEF Fund!Gift, Stake
  <2>3. QED
    BY <2>2 DEF Fund!Next
<1>5. ASSUME NEW n \in Nonces, StartSession(n)
      PROVE  Fund!Next
  <2>1. TypeOK'
    BY TypeStep DEF SafetyInv
  <2>2. /\ base'[n].starting_equity = vault
        /\ pool.status = "IDLE"
        /\ pool.total_shares > 0
        /\ vault > 0
        /\ pool' = [pool EXCEPT !.status = "ACTIVE", !.active_nonce = n]
        /\ vault' = vault
    BY <1>5, <2>1, StartSessionSafe
  <2>3. /\ pool'.status = "ACTIVE"
        /\ pool'.active_nonce = n
        /\ pool'.total_shares = pool.total_shares
    BY <1>1, <2>2 DEF Pool
  <2>4. Stake = 0 /\ Stake' = vault
    BY <2>2, <2>3 DEF Stake
  <2>5. Fund!Lock
    BY <2>2, <2>3, <2>4 DEF Fund!Lock
  <2>6. QED
    BY <2>5 DEF Fund!Next
<1>6. ASSUME NEW n \in Nonces, SettleSession(n)
      PROVE  Fund!Next
  <2>1. /\ Open(n)
        /\ vault' \in Nat \ {0}
        /\ (vault - vault') * BPS_SCALE
             < base[n].starting_equity * (MAX_DRAWDOWN_BPS + 1)
        /\ pool'.status = "IDLE"
        /\ pool'.total_shares = pool.total_shares
    BY <1>6, SettleFacts
  <2>2. Stake = base[n].starting_equity /\ Stake' = 0
    BY <2>1 DEF Stake, Open
  <2>3. Stake > 0
    BY <1>6, <2>2 DEF SettleSession, Settleable
  <2>4. Fund!Release
    BY <2>1, <2>2, <2>3 DEF Fund!Release
  <2>5. QED
    BY <2>4 DEF Fund!Next
<1>7. CASE CreateSyndicate
  <2>1. /\ pool.status = "ABSENT"
        /\ pool'.status = "IDLE"
        /\ pool'.total_shares = 0
        /\ pool.total_shares = 0
        /\ vault' = vault
    BY <1>7 DEF CreateSyndicate, AbsentPool, SafetyInv, PoolInv
  <2>2. QED
    BY <2>1 DEF Fund!poolVars, Stake
<1>8. CASE /\ UNCHANGED <<vault, pool, receipt>>
           /\ \A m \in Nonces : SessionKept(m)
  BY <1>8, FundStutters DEF SessionKept
<1>9. QED
  BY <1>2, <1>3, <1>4, <1>5, <1>6, <1>7, <1>8, StepSplit DEF StepCases

\* The program's vault is a fund whose members buy in and cash out at no
\* better than the share price, locked while a session holds it at stake, and
\* that loses no more than the drawdown limit to a session.
THEOREM PoolImplementsFund == Spec => ImplementsBackedPool
<1>1. SafetyInv /\ [Next]_vars => [Fund!Next]_(Fund!poolVars)
  BY FundStep
<1>2. QED
  BY <1>1, FundInit, SafetyInvariant, PTL
     DEF Spec, ImplementsBackedPool, Fund!Spec
=============================================================================
