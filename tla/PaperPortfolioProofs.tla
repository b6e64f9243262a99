------------------------ MODULE PaperPortfolioProofs ------------------------
(***************************************************************************)
(* The paper exchange for any wallets, markets, prices, orders and fees:   *)
(* accounts keep their layout and account for every cent, no rounding of a *)
(* trade gains its owner anything, the ring of recent fills is the end of  *)
(* the history, and the chart undoes the fills of the ring rightly.        *)
(***************************************************************************)
EXTENDS PaperHistory, SumsProofs

USE PaperAssumption, PortfolioAssumption

-----------------------------------------------------------------------------
(* Arithmetic *)

LEMMA QuotientType ==
    ASSUME NEW a \in Nat, NEW d \in Nat \ {0}
    PROVE  /\ a \div d \in Nat
           /\ (a \div d) * d <= a
           /\ a < ((a \div d) + 1) * d
  OBVIOUS

\* Rounding up covers the whole, rounding down takes no more than it.
LEMMA NotionalRounds ==
    ASSUME NEW price \in Nat, NEW size \in Nat
    PROVE  /\ notional("buy", price, size) \in Nat
           /\ notional("sell", price, size) \in Nat
           /\ price * size <= notional("buy", price, size) * LOT
           /\ notional("sell", price, size) * LOT <= price * size
<1> DEFINE whole == price * size
           up    == (whole + (LOT - 1)) \div LOT
           down  == whole \div LOT
<1>1. whole \in Nat /\ whole + (LOT - 1) \in Nat
  OBVIOUS
<1>2. /\ notional("buy", price, size) = up
      /\ notional("sell", price, size) = down
  <2>1. whole + 0 = whole
    BY <1>1
  <2>2. QED
    BY <2>1 DEF notional
<1> HIDE DEF whole
<1>3. /\ up \in Nat /\ whole + (LOT - 1) < (up + 1) * LOT
      /\ down \in Nat /\ down * LOT <= whole
  BY <1>1, QuotientType
<1> HIDE DEF up, down
<1>4. whole <= up * LOT
  <2>1. (up + 1) * LOT = up * LOT + LOT /\ up * LOT \in Nat
    BY <1>3
  <2>2. QED
    BY <1>1, <1>3, <2>1
<1>5. QED
  BY <1>2, <1>3, <1>4 DEF whole

\* A sale takes out no more than the cost of its position, and all of it with
\* the last unit.
LEMMA SoldCost ==
    ASSUME NEW cost \in Nat, NEW quantity \in Nat \ {0}, NEW size \in Nat,
           size <= quantity
    PROVE  LET released == (cost * size) \div quantity
           IN  /\ released \in Nat
               /\ released <= cost
               /\ size = quantity => released = cost
<1> DEFINE released == (cost * size) \div quantity
<1>1. cost * size \in Nat
  OBVIOUS
<1>2. released \in Nat /\ released * quantity <= cost * size
  BY <1>1, QuotientType
<1> HIDE DEF released
<1>3. cost * size <= cost * quantity
  OBVIOUS
<1>4. released * quantity <= cost * quantity
  <2>1. /\ released * quantity \in Nat /\ cost * size \in Nat
        /\ cost * quantity \in Nat
    BY <1>2
  <2>2. QED
    BY <1>2, <1>3, <2>1
<1>5. released <= cost
  BY <1>2, <1>4
<1>6. (cost * quantity) \div quantity = cost
  OBVIOUS
<1>7. QED
  BY <1>2, <1>5, <1>6 DEF released

\* Numbers less than a ring apart have slots of their own.
LEMMA SlotsDiffer ==
    ASSUME NEW k \in Nat, NEW c \in Nat, NEW size \in Nat \ {0},
           k < c, c - k < size
    PROVE  k % size # c % size
<1> DEFINE q(n) == n \div size
           m(n) == n % size
<1>1. ASSUME NEW n \in Nat
      PROVE  q(n) \in Nat /\ m(n) \in Nat /\ n = q(n) * size + m(n)
  OBVIOUS
<1>2. /\ q(k) \in Nat /\ q(c) \in Nat /\ m(k) \in Nat /\ m(c) \in Nat
      /\ k = q(k) * size + m(k) /\ c = q(c) * size + m(c)
  BY <1>1
<1> HIDE DEF q, m
<1>3. SUFFICES ASSUME m(k) = m(c)
               PROVE  FALSE
  BY DEF m
<1>4. c - k = (q(c) - q(k)) * size
  BY <1>2, <1>3
<1>5. CASE q(c) - q(k) >= 1
  BY <1>2, <1>4, <1>5
<1>6. CASE q(c) - q(k) <= 0
  BY <1>2, <1>4, <1>6
<1>7. QED
  BY <1>2, <1>5, <1>6

-----------------------------------------------------------------------------
(* What one fill does to an account *)

\* The fields that a fill's cash and position movement leaves alone.
SameHistory(new, account) ==
    /\ new.opened = account.opened
    /\ new.start_equity = account.start_equity
    /\ new.trade_count = account.trade_count
    /\ new.trade_log = account.trade_log
    /\ new.recent_fills = account.recent_fills

\* A movement changes its own position only, keeps the books, leaves no cost
\* behind in an empty position, and takes at least the fee from its owner.
Fair(new, account, fill) ==
    /\ \A a \in ASSETS \ {fill.asset} :
         new.positions[a] = account.positions[a]
    /\ new.usdc + new.positions[fill.asset].cost - new.realized_pnl =
       account.usdc + account.positions[fill.asset].cost
         - account.realized_pnl
    /\ new.positions[fill.asset].quantity = 0 =>
         new.positions[fill.asset].cost = 0
    /\ WorthAt(new, fill.asset, fill.price) + fill.fee * LOT <=
       WorthAt(account, fill.asset, fill.price)

\* Cash, one position and the realized profit are written.
MoneyWritten(account, a, usdc, position, pnl) ==
    [account EXCEPT !.usdc = usdc, !.positions[a] = position,
                    !.realized_pnl = pnl]

LEMMA MoneyWrittenType ==
    ASSUME NEW account \in Account, NEW a \in ASSETS, NEW usdc \in Nat,
           NEW position \in Position, NEW pnl \in Int
    PROVE  LET new == MoneyWritten(account, a, usdc, position, pnl)
           IN  /\ new \in Account
               /\ SameHistory(new, account)
               /\ new.usdc = usdc /\ new.realized_pnl = pnl
               /\ new.positions[a] = position
               /\ \A b \in ASSETS \ {a} :
                    new.positions[b] = account.positions[b]
<1>1. account.positions \in [ASSETS -> Position]
  BY DEF Account
<1>2. [account.positions EXCEPT ![a] = position] \in [ASSETS -> Position]
  BY <1>1
<1>3. QED
  BY <1>1, <1>2 DEF Account, MoneyWritten, SameHistory

\* What the money of a fill comes to, as numbers.
LEMMA BuyIsFair ==
    ASSUME NEW usdc \in Nat, NEW quantity \in Nat, NEW price \in Nat,
           NEW size \in Nat, NEW gross \in Nat, NEW fee \in Nat,
           price * size <= gross * LOT
    PROVE  (usdc - (gross + fee)) * LOT + (quantity + size) * price + fee * LOT
             <= usdc * LOT + quantity * price
<1>1. /\ (usdc - (gross + fee)) * LOT = usdc * LOT - gross * LOT - fee * LOT
      /\ (quantity + size) * price = quantity * price + size * price
      /\ size * price = price * size
  OBVIOUS
<1>2. /\ usdc * LOT \in Nat /\ gross * LOT \in Nat /\ fee * LOT \in Nat
      /\ quantity * price \in Nat /\ price * size \in Nat
  OBVIOUS
<1>3. QED
  BY <1>1, <1>2

LEMMA SellIsFair ==
    ASSUME NEW usdc \in Nat, NEW quantity \in Nat, NEW price \in Nat,
           NEW size \in Nat, NEW gross \in Nat, NEW fee \in Nat,
           gross * LOT <= price * size
    PROVE  (usdc + (gross - fee)) * LOT + (quantity - size) * price + fee * LOT
             <= usdc * LOT + quantity * price
<1>1. /\ (usdc + (gross - fee)) * LOT = usdc * LOT + gross * LOT - fee * LOT
      /\ (quantity - size) * price = quantity * price - size * price
      /\ size * price = price * size
  OBVIOUS
<1>2. /\ usdc * LOT \in Nat /\ gross * LOT \in Nat /\ fee * LOT \in Nat
      /\ quantity * price \in Nat /\ price * size \in Nat
  OBVIOUS
<1>3. QED
  BY <1>1, <1>2

\* A fill that the program accepts.
Acceptable(account, fill) ==
    /\ fill \in Fill /\ fill.size > 0
    /\ Covered(account, fill)
    /\ Representable(account, fill)

LEMMA BoughtFair ==
    ASSUME NEW account \in Account, NEW fill, Acceptable(account, fill),
           fill.side = "buy"
    PROVE  /\ Bought(account, fill) \in Account
           /\ SameHistory(Bought(account, fill), account)
           /\ Fair(Bought(account, fill), account, fill)
<1> DEFINE a     == fill.asset
           size  == fill.size
           gross == notional("buy", fill.price, size)
           fee   == fill.fee
           old   == account.positions[a]
           cash  == account.usdc - (gross + fee)
           pos   == [quantity |-> old.quantity + size,
                     cost     |-> old.cost + (gross + fee)]
           new   == MoneyWritten(account, a, cash, pos, account.realized_pnl)
<1>1. /\ a \in ASSETS /\ size \in Nat /\ fee \in Nat /\ fill.price \in Nat
      /\ account.usdc \in Nat /\ account.realized_pnl \in Int
      /\ old.quantity \in Nat /\ old.cost \in Nat
  BY DEF Acceptable, Fill, Account, Position
<1>2. gross \in Nat /\ fill.price * size <= gross * LOT
  BY <1>1, NotionalRounds
<1>3. account.usdc >= gross + fee
  BY DEF Acceptable, Covered, GrossOf
<1>4. Bought(account, fill) = new
  BY <1>1 DEF Bought, GrossOf, MoneyWritten, Account
<1> HIDE DEF gross
<1>5. cash \in Nat
  BY <1>1, <1>2, <1>3
<1>6. pos \in Position /\ pos.quantity = old.quantity + size
        /\ pos.cost = old.cost + (gross + fee)
  BY <1>1, <1>2 DEF Position
<1> HIDE DEF pos, cash
<1>7. /\ new \in Account /\ SameHistory(new, account)
      /\ new.usdc = cash /\ new.realized_pnl = account.realized_pnl
      /\ new.positions[a] = pos
      /\ \A b \in ASSETS \ {a} : new.positions[b] = account.positions[b]
  <2> DEFINE pnl == account.realized_pnl
             w   == MoneyWritten(account, a, cash, pos, pnl)
  <2>1. /\ a \in ASSETS /\ cash \in Nat /\ pos \in Position /\ pnl \in Int
        /\ new = w
    BY <1>1, <1>5, <1>6
  <2> HIDE DEF pnl, new, a
  <2>2. /\ w \in Account /\ SameHistory(w, account)
        /\ w.usdc = cash /\ w.realized_pnl = pnl
        /\ w.positions[a] = pos
        /\ \A b \in ASSETS \ {a} : w.positions[b] = account.positions[b]
    BY <2>1, MoneyWrittenType
  <2> HIDE DEF w
  <2>3. QED
    BY <2>1, <2>2 DEF pnl, a
<1> HIDE DEF new
<1>8. new.usdc + new.positions[a].cost - new.realized_pnl =
        account.usdc + old.cost - account.realized_pnl
  BY <1>1, <1>2, <1>6, <1>7 DEF cash
<1>9. WorthAt(new, a, fill.price) + fee * LOT <=
        WorthAt(account, a, fill.price)
  BY <1>1, <1>2, <1>6, <1>7, BuyIsFair DEF WorthAt, cash
<1>10. new.positions[a].quantity # 0
  BY <1>1, <1>6, <1>7 DEF Acceptable
<1>11. QED
  BY <1>4, <1>7, <1>8, <1>9, <1>10 DEF Fair

LEMMA SoldFair ==
    ASSUME NEW account \in Account, NEW fill, Acceptable(account, fill),
           fill.side = "sell"
    PROVE  /\ Sold(account, fill) \in Account
           /\ SameHistory(Sold(account, fill), account)
           /\ Fair(Sold(account, fill), account, fill)
<1> DEFINE a     == fill.asset
           size  == fill.size
           gross == notional("sell", fill.price, size)
           fee   == fill.fee
           old   == account.positions[a]
           out   == sold_cost(old, size)
           cash  == account.usdc + (gross - fee)
           pos   == [quantity |-> old.quantity - size, cost |-> old.cost - out]
           pnl   == account.realized_pnl + (gross - fee) - out
           new   == MoneyWritten(account, a, cash, pos, pnl)
<1>1. /\ a \in ASSETS /\ size \in Nat /\ fee \in Nat /\ fill.price \in Nat
      /\ account.usdc \in Nat /\ account.realized_pnl \in Int
      /\ old.quantity \in Nat /\ old.cost \in Nat
  BY DEF Acceptable, Fill, Account, Position
<1>2. gross \in Nat /\ gross * LOT <= fill.price * size
  BY <1>1, NotionalRounds
<1>3. /\ old.quantity >= size /\ size > 0 /\ fee <= gross
  BY DEF Acceptable, Covered, Representable, GrossOf
<1>4. Sold(account, fill) = new
  BY <1>1 DEF Sold, GrossOf, MoneyWritten, Account
<1>5. /\ out \in Nat /\ out <= old.cost
      /\ old.quantity = size => out = old.cost
  <2>1. old.quantity \in Nat \ {0}
    BY <1>1, <1>3
  <2>2. QED
    BY <1>1, <1>3, <2>1, SoldCost DEF sold_cost
<1> HIDE DEF gross, out
<1>6. cash \in Nat /\ pnl \in Int
  BY <1>1, <1>2, <1>3, <1>5
<1>7. pos \in Position /\ pos.quantity = old.quantity - size
        /\ pos.cost = old.cost - out
  BY <1>1, <1>3, <1>5 DEF Position
<1> HIDE DEF pos, cash, pnl
<1>8. /\ new \in Account /\ SameHistory(new, account)
      /\ new.usdc = cash /\ new.realized_pnl = pnl
      /\ new.positions[a] = pos
      /\ \A b \in ASSETS \ {a} : new.positions[b] = account.positions[b]
  <2> DEFINE w == MoneyWritten(account, a, cash, pos, pnl)
  <2>1. /\ a \in ASSETS /\ cash \in Nat /\ pos \in Position /\ pnl \in Int
        /\ new = w
    BY <1>1, <1>6, <1>7
  <2> HIDE DEF new, a
  <2>2. /\ w \in Account /\ SameHistory(w, account)
        /\ w.usdc = cash /\ w.realized_pnl = pnl
        /\ w.positions[a] = pos
        /\ \A b \in ASSETS \ {a} : w.positions[b] = account.positions[b]
    BY <2>1, MoneyWrittenType
  <2> HIDE DEF w
  <2>3. QED
    BY <2>1, <2>2 DEF a
<1> HIDE DEF new
<1>9. new.usdc + new.positions[a].cost - new.realized_pnl =
        account.usdc + old.cost - account.realized_pnl
  BY <1>1, <1>2, <1>5, <1>7, <1>8 DEF cash, pnl
<1>10. WorthAt(new, a, fill.price) + fee * LOT <=
         WorthAt(account, a, fill.price)
  BY <1>1, <1>2, <1>7, <1>8, SellIsFair DEF WorthAt, cash
<1>11. new.positions[a].quantity = 0 => new.positions[a].cost = 0
  BY <1>1, <1>5, <1>7, <1>8
<1>12. QED
  BY <1>4, <1>8, <1>9, <1>10, <1>11 DEF Fair

-----------------------------------------------------------------------------
(* The history of fills and its ring *)

\* The ring holds the last fills of the history, each in the slot of its
\* number.
RingInv(account) ==
    /\ account.trade_count = Len(account.trade_log)
    /\ \A k \in Nat :
         k < account.trade_count /\ account.trade_count - k <= RECENT_FILLS =>
           account.recent_fills[k % RECENT_FILLS] = account.trade_log[k + 1]

LEMMA RecordedRing ==
    ASSUME NEW account \in Account, RingInv(account), NEW fill \in Fill
    PROVE  LET new == Recorded(account, fill)
           IN  /\ new \in Account
               /\ RingInv(new)
               /\ new.trade_log = Append(account.trade_log, fill)
               /\ new.opened = account.opened
               /\ new.start_equity = account.start_equity
               /\ new.usdc = account.usdc
               /\ new.realized_pnl = account.realized_pnl
               /\ new.positions = account.positions
<1> DEFINE new   == Recorded(account, fill)
           count == account.trade_count
           log   == account.trade_log
           ring  == account.recent_fills
           Slots == 0 .. RECENT_FILLS - 1
<1>1. /\ count \in Nat /\ log \in Seq(Fill) /\ count = Len(log)
      /\ ring \in [Slots -> Fill \cup {BlankFill}]
  BY DEF Account, RingInv
<1>2. \A k \in Nat : k % RECENT_FILLS \in Slots
  OBVIOUS
<1>3. /\ Append(log, fill) \in Seq(Fill)
      /\ Len(Append(log, fill)) = count + 1
      /\ Append(log, fill)[count + 1] = fill
      /\ \A k \in 1 .. count : Append(log, fill)[k] = log[k]
  BY <1>1
<1>4. /\ new.trade_log = Append(log, fill)
      /\ new.trade_count = count + 1
      /\ new.recent_fills = [ring EXCEPT ![count % RECENT_FILLS] = fill]
      /\ new.opened = account.opened
      /\ new.start_equity = account.start_equity
      /\ new.usdc = account.usdc
      /\ new.realized_pnl = account.realized_pnl
      /\ new.positions = account.positions
  BY DEF Recorded, Account
<1>5. new.recent_fills \in [Slots -> Fill \cup {BlankFill}]
  BY <1>1, <1>4
<1>6. new \in Account
  <2>1. new.trade_count \in Nat /\ new.trade_log \in Seq(Fill)
    BY <1>1, <1>3, <1>4
  <2>2. new = [account EXCEPT !.recent_fills = new.recent_fills,
                              !.trade_log = new.trade_log,
                              !.trade_count = new.trade_count]
    BY <1>4 DEF Recorded, Account
  <2> HIDE DEF new
  <2>3. QED
    BY <1>5, <2>1, <2>2 DEF Account
<1> HIDE DEF new
<1>7. ASSUME NEW k \in Nat, k < count + 1, count + 1 - k <= RECENT_FILLS
      PROVE  new.recent_fills[k % RECENT_FILLS] = new.trade_log[k + 1]
  <2>1. CASE k = count
    BY <1>1, <1>2, <1>3, <1>4, <2>1
  <2>2. CASE k # count
    <3>1. k < count /\ count - k < RECENT_FILLS
      BY <1>1, <1>7, <2>2
    <3>2. k % RECENT_FILLS # count % RECENT_FILLS
      BY <1>1, <3>1, SlotsDiffer
    <3>3. new.recent_fills[k % RECENT_FILLS] = ring[k % RECENT_FILLS]
      BY <1>1, <1>2, <1>4, <3>2
    <3>4. ring[k % RECENT_FILLS] = log[k + 1]
      <4>1. k < count /\ count - k <= RECENT_FILLS
        BY <1>1, <3>1
      <4>2. QED
        BY <4>1, Zenon DEF RingInv
    <3>5. k + 1 \in 1 .. count
      BY <1>1, <3>1
    <3>6. QED
      BY <1>3, <1>4, <3>3, <3>4, <3>5
  <2>3. QED
    BY <2>1, <2>2
<1>8. RingInv(new)
  <2>1. ASSUME NEW k \in Nat, k < new.trade_count,
               new.trade_count - k <= RECENT_FILLS
        PROVE  new.recent_fills[k % RECENT_FILLS] = new.trade_log[k + 1]
    <3>1. k < count + 1 /\ count + 1 - k <= RECENT_FILLS
      <4>1. new.trade_count = count + 1 /\ count \in Nat
        BY <1>1, <1>4
      <4> HIDE DEF count
      <4>2. QED
        BY <2>1, <4>1
    <3>2. QED
      BY <1>7, <3>1
  <2>2. new.trade_count = Len(new.trade_log)
    BY <1>3, <1>4
  <2>3. QED
    BY <2>1, <2>2 DEF RingInv
<1>9. QED
  BY <1>4, <1>6, <1>8 DEF new

-----------------------------------------------------------------------------
(* The books of an account *)

Costs(account) == [a \in ASSETS |-> account.positions[a].cost]

\* Cash, costs and realized profit come to what the account was opened with,
\* and an empty position has no cost.
Balanced(account) ==
    /\ account.usdc + SumOver(Costs(account), ASSETS) - account.realized_pnl =
         account.start_equity
    /\ \A a \in ASSETS :
         account.positions[a].quantity = 0 => account.positions[a].cost = 0

LEMMA FairBalances ==
    ASSUME NEW account \in Account, NEW new \in Account, NEW fill \in Fill,
           Fair(new, account, fill), Balanced(account),
           new.start_equity = account.start_equity
    PROVE  Balanced(new)
<1> DEFINE a      == fill.asset
           before == Costs(account)
           after  == Costs(new)
           more   == after[a] - before[a]
<1>1. a \in ASSETS
  BY DEF Fill
<1>2. /\ account.usdc \in Nat /\ new.usdc \in Nat
      /\ account.realized_pnl \in Int /\ new.realized_pnl \in Int
      /\ account.start_equity \in Nat
  BY DEF Account
<1>3. /\ before \in [ASSETS -> Int] /\ after \in [ASSETS -> Int]
      /\ before[a] = account.positions[a].cost
      /\ after[a] = new.positions[a].cost
  BY <1>1 DEF Account, Position, Costs
<1>4. \A b \in ASSETS \ {a} : after[b] = before[b]
  BY DEF Fair, Costs
<1>5. DOMAIN before = ASSETS /\ DOMAIN after = ASSETS
  BY DEF Costs
<1>6. /\ new.usdc + after[a] - new.realized_pnl =
           account.usdc + before[a] - account.realized_pnl
      /\ account.usdc + SumOver(before, ASSETS) - account.realized_pnl =
           account.start_equity
  BY <1>3 DEF Fair, Balanced
<1> HIDE DEF before, after
<1>7. /\ more \in Int
      /\ after = [before EXCEPT ![a] = before[a] + more]
  <2>1. before[a] + more = after[a] /\ more \in Int
    BY <1>1, <1>3
  <2>2. QED
    BY <2>1, <1>1, <1>3, <1>4
<1>8. ASSUME NEW f \in [ASSETS -> Int], NEW n \in Int
      PROVE  /\ SumOver(f, ASSETS) \in Int
             /\ SumOver([f EXCEPT ![a] = f[a] + n], ASSETS)
                  = SumOver(f, ASSETS) + n
  BY <1>1, SumAdds
<1>9. new.usdc + SumOver(after, ASSETS) - new.realized_pnl = new.start_equity
  <2> DEFINE total == SumOver(before, ASSETS)
  <2>1. total \in Int /\ SumOver(after, ASSETS) = total + more
    BY <1>3, <1>7, <1>8
  <2>2. before[a] \in Int /\ after[a] \in Int
    BY <1>1, <1>3
  <2>3. account.usdc + total - account.realized_pnl = new.start_equity
    BY <1>6
  <2>4. /\ more = after[a] - before[a]
        /\ new.usdc + after[a] - new.realized_pnl =
             account.usdc + before[a] - account.realized_pnl
    BY <1>6
  <2> HIDE DEF total, more, a
  <2>5. new.usdc + (total + more) - new.realized_pnl = new.start_equity
    BY <1>2, <1>7, <2>1, <2>2, <2>3, <2>4
  <2>6. QED
    BY <2>1, <2>5
<1>10. \A b \in ASSETS :
         new.positions[b].quantity = 0 => new.positions[b].cost = 0
  BY DEF Fair, Balanced
<1>11. QED
  BY <1>9, <1>10 DEF Balanced, after

-----------------------------------------------------------------------------
(* A whole trade: its money moves fairly, and it is written down *)

\* An account whose ring and books are right.
SoundAccount(account) == RingInv(account) /\ Balanced(account)

LEMMA TradedFair ==
    ASSUME NEW account \in Account, SoundAccount(account), NEW fill,
           Acceptable(account, fill)
    PROVE  LET new == Traded(account, fill)
           IN  /\ new \in Account
               /\ SoundAccount(new)
               /\ FairStep(account, new)
<1> DEFINE moved == IF fill.side = "buy" THEN Bought(account, fill)
                                         ELSE Sold(account, fill)
           new   == Recorded(moved, fill)
           log   == account.trade_log
<1>1. /\ fill \in Fill /\ fill.side \in Sides
      /\ log \in Seq(Fill)
  BY DEF Acceptable, Fill, Account
<1>2. /\ moved \in Account /\ SameHistory(moved, account)
      /\ Fair(moved, account, fill)
  BY <1>1, BoughtFair, SoldFair DEF Sides
<1>3. Traded(account, fill) = new
  BY DEF Traded
<1> HIDE DEF moved
<1>4. RingInv(moved)
  BY <1>2 DEF SameHistory, RingInv, SoundAccount
<1>5. /\ new \in Account /\ RingInv(new)
      /\ new.trade_log = Append(moved.trade_log, fill)
      /\ new.start_equity = moved.start_equity
      /\ new.usdc = moved.usdc
      /\ new.realized_pnl = moved.realized_pnl
      /\ new.positions = moved.positions
  BY <1>1, <1>2, <1>4, RecordedRing
<1> HIDE DEF new
<1>6. new.trade_log = Append(log, fill)
  BY <1>2, <1>5 DEF SameHistory
<1>7. new.trade_log[Len(new.trade_log)] = fill
  BY <1>1, <1>6
<1>8. Fair(new, account, fill)
  BY <1>2, <1>5 DEF Fair, WorthAt
<1>9. FairStep(account, new)
  BY <1>6, <1>7, <1>8 DEF FairStep, Fair
<1>10. Balanced(new)
  <2>1. new.start_equity = account.start_equity
    BY <1>2, <1>5 DEF SameHistory
  <2>2. QED
    BY <1>1, <1>5, <1>8, <2>1, FairBalances DEF SoundAccount
<1>11. QED
  BY <1>3, <1>5, <1>9, <1>10 DEF SoundAccount

-----------------------------------------------------------------------------
(* The program's steps *)

PortfolioInv == TypeOK /\ \A w \in WALLETS : SoundAccount(portfolios[w])

\* What a step does to the portfolios: each changes fairly, or is opened.
PortfoliosKept ==
    /\ portfolios' \in [WALLETS -> Account]
    /\ \A w \in WALLETS : SoundAccount(portfolios'[w])
    /\ TradesAreFair

LEMMA BlankAccountSound ==
    /\ BlankAccount \in Account /\ SoundAccount(BlankAccount)
    /\ OpenedAccount \in Account /\ SoundAccount(OpenedAccount)
<1>1. BlankAccount \in Account
  BY DEF BlankAccount, Account, Position
<1>2. OpenedAccount \in Account
  BY <1>1 DEF OpenedAccount, Account
<1>3. /\ BlankAccount.trade_count = 0 /\ BlankAccount.trade_log = <<>>
      /\ OpenedAccount.trade_count = 0 /\ OpenedAccount.trade_log = <<>>
  BY DEF BlankAccount, OpenedAccount
<1>4. RingInv(BlankAccount) /\ RingInv(OpenedAccount)
  BY <1>3 DEF RingInv
<1>5. /\ \A a \in ASSETS : Costs(BlankAccount)[a] = 0
      /\ Costs(OpenedAccount) = Costs(BlankAccount)
  BY DEF BlankAccount, OpenedAccount, Costs
<1>6. /\ SumOver(Costs(BlankAccount), ASSETS) = 0
      /\ SumOver(Costs(OpenedAccount), ASSETS) = 0
  BY <1>5, SumOfZeros
<1>7. Balanced(BlankAccount) /\ Balanced(OpenedAccount)
  BY <1>6 DEF Balanced, BlankAccount, OpenedAccount
<1>8. QED
  BY <1>1, <1>2, <1>4, <1>7 DEF SoundAccount

\* A fill is executed soon after its price was published, and not before.
Prompt(fill) ==
    /\ fill.price_at <= fill.executed_at + MAX_LEAD
    /\ fill.executed_at <= fill.price_at + MAX_AGE

\* What a trade enters into an account is a fill that can be taken.
LEMMA TradeIsAcceptable ==
    ASSUME PortfolioInv, NEW w \in WALLETS, NEW order \in Orders,
           NEW update \in PriceUpdates, TradePortfolio(w, order, update)
    PROVE  /\ portfolios[w].opened
           /\ \E fill :
                /\ Acceptable(portfolios[w], fill) /\ Prompt(fill)
                /\ portfolios' = [portfolios EXCEPT
                                      ![w] = Traded(portfolios[w], fill)]
<1> DEFINE fill == FillOf(order, update)
           new  == Traded(portfolios[w], fill)
<1>1. portfolios \in [WALLETS -> Account]
  BY DEF PortfolioInv, TypeOK
<1>2. /\ order.asset \in ASSETS /\ order.side \in Sides /\ order.size \in Nat
      /\ order.size > 0 /\ portfolios[w].opened
  BY DEF TradePortfolio, TradeAllowed, ValidOrder
<1>3. /\ fill.asset = order.asset /\ fill.side = order.side
      /\ fill.size = order.size
      /\ fill.price = price_to_cents(update.price, update.exponent)
      /\ fill.price_at = update.at /\ fill.executed_at = now
      /\ update.at \in Nat /\ now \in Nat
  BY DEF FillOf, PricedFill, PortfolioInv, TypeOK
<1>4. /\ Fits(fill.price) /\ Fits(fill.fee)
      /\ Covered(portfolios[w], fill) /\ Representable(portfolios[w], fill)
      /\ portfolios' = [portfolios EXCEPT ![w] = new]
  BY <1>3 DEF TradePortfolio, TradeAllowed, Usable, Representable
<1>5. fill.price \in Nat /\ fill.fee \in Nat
  BY <1>4 DEF Fits
<1>6. fill \in Fill
  <2>1. fill = [asset |-> fill.asset, side |-> fill.side, price |-> fill.price,
                size |-> fill.size, fee |-> fill.fee,
                price_at |-> fill.price_at,
                executed_at |-> fill.executed_at]
    BY DEF FillOf, PricedFill
  <2> HIDE DEF fill
  <2>2. QED
    BY <1>2, <1>3, <1>5, <2>1 DEF Fill
<1>7. Acceptable(portfolios[w], fill)
  BY <1>2, <1>3, <1>4, <1>6 DEF Acceptable
<1>8. Prompt(fill)
  <2>1. update.at <= now + MAX_LEAD /\ update.at + MAX_AGE >= now
    BY DEF TradePortfolio, TradeAllowed, Published, Usable
  <2> HIDE DEF fill
  <2>2. QED
    BY <1>3, <2>1 DEF Prompt
<1> HIDE DEF fill
<1>9. QED
  BY <1>2, <1>4, <1>7, <1>8

LEMMA TradeKept ==
    ASSUME PortfolioInv, NEW w \in WALLETS, NEW order \in Orders,
           NEW update \in PriceUpdates, TradePortfolio(w, order, update)
    PROVE  PortfoliosKept
<1>1. /\ portfolios \in [WALLETS -> Account]
      /\ \A v \in WALLETS : SoundAccount(portfolios[v])
  BY DEF PortfolioInv, TypeOK
<1>2. PICK fill :
        /\ Acceptable(portfolios[w], fill)
        /\ portfolios' = [portfolios EXCEPT ![w] = Traded(portfolios[w], fill)]
  BY TradeIsAcceptable
<1> DEFINE new == Traded(portfolios[w], fill)
<1>3. new \in Account /\ SoundAccount(new) /\ FairStep(portfolios[w], new)
  BY <1>1, <1>2, TradedFair
<1> HIDE DEF new
<1>4. portfolios' = [portfolios EXCEPT ![w] = new]
  BY <1>2 DEF new
<1>5. QED
  BY <1>1, <1>3, <1>4 DEF PortfoliosKept, TradesAreFair, FairStep

LEMMA PortfolioStep ==
    ASSUME PortfolioInv, [ProgramNext]_programVars
    PROVE  PortfolioInv' /\ TradesAreFair
<1>1. /\ admin \in WALLETS \cup {NoAdmin}
      /\ feeds \in [ASSETS -> FEEDS \cup {NoFeed}]
      /\ portfolios \in [WALLETS -> Account]
      /\ \A w \in WALLETS : SoundAccount(portfolios[w])
      /\ now \in Nat
  BY DEF PortfolioInv, TypeOK
<1>clock. now' \in Nat
  <2>1. CASE now' = now
    BY <1>1, <2>1
  <2>2. CASE now' = now + 1
    BY <1>1, <2>2
  <2>3. QED
    BY <2>1, <2>2
       DEF ProgramNext, InitializePaperExchange, ConfigurePaperMarket,
           OpenPortfolio, TradePortfolio, TimePasses, programVars
<1>2. CASE portfolios' = portfolios
  <2>1. /\ admin' \in WALLETS \cup {NoAdmin}
        /\ feeds' \in [ASSETS -> FEEDS \cup {NoFeed}]
    <3>1. ASSUME NEW w \in WALLETS, InitializePaperExchange(w)
          PROVE  /\ admin' \in WALLETS \cup {NoAdmin}
                 /\ feeds' \in [ASSETS -> FEEDS \cup {NoFeed}]
      BY <1>1, <3>1 DEF InitializePaperExchange
    <3>2. ASSUME NEW w \in WALLETS, NEW a \in ASSETS, NEW feed \in FEEDS,
                 ConfigurePaperMarket(w, a, feed)
          PROVE  /\ admin' \in WALLETS \cup {NoAdmin}
                 /\ feeds' \in [ASSETS -> FEEDS \cup {NoFeed}]
      BY <1>1, <3>2 DEF ConfigurePaperMarket
    <3>3. CASE UNCHANGED <<admin, feeds>>
      BY <1>1, <3>3
    <3>4. QED
      BY <3>1, <3>2, <3>3
         DEF ProgramNext, OpenPortfolio, TradePortfolio, TimePasses,
             programVars
  <2>2. TradesAreFair
    BY <1>2 DEF TradesAreFair, FairStep
  <2>3. QED
    BY <1>1, <1>clock, <1>2, <2>1, <2>2 DEF PortfolioInv, TypeOK
<1>3. ASSUME NEW w \in WALLETS, OpenPortfolio(w)
      PROVE  PortfoliosKept
  BY <1>1, <1>3, BlankAccountSound
     DEF OpenPortfolio, PortfoliosKept, TradesAreFair, FairStep
<1>4. ASSUME PortfoliosKept, UNCHANGED <<admin, feeds>>
      PROVE  PortfolioInv' /\ TradesAreFair
  BY <1>1, <1>clock, <1>4 DEF PortfoliosKept, PortfolioInv, TypeOK
<1>5. ASSUME NEW w \in WALLETS, NEW order \in Orders,
             NEW update \in PriceUpdates, TradePortfolio(w, order, update)
      PROVE  PortfoliosKept
  BY <1>5, TradeKept
<1>6. QED
  BY <1>2, <1>3, <1>4, <1>5
     DEF ProgramNext, InitializePaperExchange, ConfigurePaperMarket,
         OpenPortfolio, TradePortfolio, TimePasses, programVars

LEMMA PortfolioInit == ProgramInit => PortfolioInv
  BY BlankAccountSound DEF ProgramInit, PortfolioInv, TypeOK

LEMMA PortfolioInvariant == ProgramSpec => []PortfolioInv
<1>1. PortfolioInv /\ [ProgramNext]_programVars => PortfolioInv'
  BY PortfolioStep
<1>2. QED
  BY <1>1, PortfolioInit, PTL DEF ProgramSpec

-----------------------------------------------------------------------------
(* What the fills of a history come to *)

\* What a trade adds to a position and takes from cash.
LEMMA TradedMoves ==
    ASSUME NEW account \in Account, NEW fill, Acceptable(account, fill)
    PROVE  LET new   == Traded(account, fill)
               gross == notional(fill.side, fill.price, fill.size)
           IN  /\ new.usdc = account.usdc - signOf(fill) * gross - fill.fee
               /\ new.positions[fill.asset].quantity
                    = account.positions[fill.asset].quantity
                        + signOf(fill) * fill.size
               /\ \A a \in ASSETS \ {fill.asset} :
                    new.positions[a] = account.positions[a]
<1> DEFINE new   == Traded(account, fill)
           a     == fill.asset
           gross == notional(fill.side, fill.price, fill.size)
<1>1. /\ a \in ASSETS /\ fill.side \in {"buy", "sell"} /\ fill.size \in Nat
      /\ fill.price \in Nat /\ fill.fee \in Nat
  BY DEF Acceptable, Fill, Sides
<1>2. account.usdc \in Nat /\ account.positions[a].quantity \in Nat
  BY <1>1 DEF Account, Position
<1>3. gross \in Nat
  BY <1>1, NotionalRounds
<1>4. CASE fill.side = "buy"
  <2>1. /\ new.usdc = account.usdc - (gross + fill.fee)
        /\ new.positions[a].quantity
             = account.positions[a].quantity + fill.size
        /\ \A b \in ASSETS \ {a} : new.positions[b] = account.positions[b]
    BY <1>1, <1>4 DEF Traded, Recorded, Bought, GrossOf, Account
  <2>2. signOf(fill) = 1
    BY <1>4 DEF signOf
  <2> HIDE DEF new, gross
  <2>3. QED
    BY <1>1, <1>2, <1>3, <2>1, <2>2 DEF new, gross
<1>5. CASE fill.side = "sell"
  <2>1. /\ new.usdc = account.usdc + (gross - fill.fee)
        /\ new.positions[a].quantity
             = account.positions[a].quantity - fill.size
        /\ \A b \in ASSETS \ {a} : new.positions[b] = account.positions[b]
    BY <1>1, <1>5 DEF Traded, Recorded, Sold, GrossOf, Account
  <2>2. signOf(fill) = -1
    BY <1>5 DEF signOf
  <2> HIDE DEF new, gross
  <2>3. QED
    BY <1>1, <1>2, <1>3, <2>1, <2>2 DEF new, gross
<1>6. QED
  BY <1>1, <1>4, <1>5

\* The browser rounds to the nearest cent, the program against the owner.
LEMMA CostIsNearGross ==
    ASSUME NEW fill \in Fill
    PROVE  LET gross == notional(fill.side, fill.price, fill.size)
           IN  /\ gross \in Nat /\ costOf(fill) \in Nat
               /\ signOf(fill) * gross - signOf(fill) * costOf(fill) \in {0, 1}
<1> DEFINE whole == fill.price * fill.size
           up    == (whole + (LOT - 1)) \div LOT
           down  == whole \div LOT
           near  == (2 * whole + LOT) \div (2 * LOT)
<1>1. /\ fill.price \in Nat /\ fill.size \in Nat
      /\ fill.side \in {"buy", "sell"}
  BY DEF Fill, Sides
<1>2. whole \in Nat /\ 2 * fill.price * fill.size = 2 * whole
  BY <1>1
<1>3. /\ notional("buy", fill.price, fill.size) = up
      /\ notional("sell", fill.price, fill.size) = down
      /\ costOf(fill) = near
  <2>1. whole + 0 = whole
    BY <1>2
  <2>2. QED
    BY <1>2, <2>1 DEF notional, costOf
<1> HIDE DEF whole
<1>4. /\ up \in Nat /\ up * LOT <= whole + (LOT - 1)
      /\ whole + (LOT - 1) < (up + 1) * LOT
  BY <1>2, QuotientType
<1>5. down \in Nat /\ down * LOT <= whole /\ whole < (down + 1) * LOT
  BY <1>2, QuotientType
<1>6. /\ near \in Nat /\ near * (2 * LOT) <= 2 * whole + LOT
      /\ 2 * whole + LOT < (near + 1) * (2 * LOT)
  <2>1. 2 * whole + LOT \in Nat /\ 2 * LOT \in Nat \ {0}
    BY <1>2
  <2>2. QED
    BY <2>1, QuotientType
<1> HIDE DEF up, down, near
<1>7. up - near \in {0, 1}
  <2> DEFINE u == up * LOT
             n == near * LOT
  <2>1. /\ (up + 1) * LOT = u + LOT
        /\ near * (2 * LOT) = 2 * n
        /\ (near + 1) * (2 * LOT) = 2 * n + 2 * LOT
        /\ u \in Nat /\ n \in Nat
    BY <1>4, <1>6
  <2>2. (up - near) * LOT = u - n
    BY <1>4, <1>6
  <2> HIDE DEF u, n
  <2>3. u - n < 2 * LOT /\ n - u < LOT
    BY <1>2, <1>4, <1>6, <2>1
  <2>4. up - near < 2
    <3>1. SUFFICES ASSUME up - near >= 2
                   PROVE  FALSE
      BY <1>4, <1>6
    <3>2. (up - near) * LOT >= 2 * LOT
      BY <1>4, <1>6, <3>1
    <3>3. QED
      BY <2>1, <2>2, <2>3, <3>2
  <2>5. up - near > -1
    <3>1. SUFFICES ASSUME near - up >= 1
                   PROVE  FALSE
      BY <1>4, <1>6
    <3>2. (near - up) * LOT >= LOT /\ (near - up) * LOT = n - u
      BY <1>4, <1>6, <3>1 DEF n, u
    <3>3. QED
      BY <2>1, <2>3, <3>2
  <2>6. QED
    BY <1>4, <1>6, <2>4, <2>5
<1>8. near - down \in {0, 1}
  <2> DEFINE d == down * LOT
             n == near * LOT
  <2>1. /\ (down + 1) * LOT = d + LOT
        /\ near * (2 * LOT) = 2 * n
        /\ (near + 1) * (2 * LOT) = 2 * n + 2 * LOT
        /\ d \in Nat /\ n \in Nat
    BY <1>5, <1>6
  <2>2. (near - down) * LOT = n - d
    BY <1>5, <1>6
  <2> HIDE DEF d, n
  <2>3. n - d < 2 * LOT /\ d - n < LOT
    BY <1>2, <1>5, <1>6, <2>1
  <2>4. near - down < 2
    <3>1. SUFFICES ASSUME near - down >= 2
                   PROVE  FALSE
      BY <1>5, <1>6
    <3>2. (near - down) * LOT >= 2 * LOT
      BY <1>5, <1>6, <3>1
    <3>3. QED
      BY <2>1, <2>2, <2>3, <3>2
  <2>5. near - down > -1
    <3>1. SUFFICES ASSUME down - near >= 1
                   PROVE  FALSE
      BY <1>5, <1>6
    <3>2. (down - near) * LOT >= LOT /\ (down - near) * LOT = d - n
      BY <1>5, <1>6, <3>1 DEF n, d
    <3>3. QED
      BY <2>1, <2>3, <3>2
  <2>6. QED
    BY <1>5, <1>6, <2>4, <2>5
<1> DEFINE gross == notional(fill.side, fill.price, fill.size)
           sign  == signOf(fill)
<1>9. CASE fill.side = "buy"
  <2>1. gross = up /\ sign = 1
    BY <1>3, <1>9 DEF signOf
  <2> HIDE DEF gross, sign
  <2>2. /\ gross \in Nat /\ costOf(fill) \in Nat
        /\ sign * gross - sign * costOf(fill) \in {0, 1}
    BY <1>3, <1>4, <1>6, <1>7, <2>1
  <2>3. QED
    BY <2>2 DEF gross, sign
<1>10. CASE fill.side = "sell"
  <2>1. gross = down /\ sign = -1
    BY <1>3, <1>10 DEF signOf
  <2> HIDE DEF gross, sign
  <2>2. /\ gross \in Nat /\ costOf(fill) \in Nat
        /\ sign * gross - sign * costOf(fill) \in {0, 1}
    BY <1>3, <1>5, <1>6, <1>8, <2>1
  <2>3. QED
    BY <2>2 DEF gross, sign
<1> HIDE DEF gross, sign
<1>11. fill.side = "buy" \/ fill.side = "sell"
  BY <1>1
<1>12. /\ gross \in Nat /\ costOf(fill) \in Nat
       /\ sign * gross - sign * costOf(fill) \in {0, 1}
  BY <1>9, <1>10, <1>11 DEF gross, sign
<1>13. QED
  BY <1>12 DEF gross, sign

\* What the fills of a history take from cash, what they add to a position,
\* what the browser gives back for them, and their fees.
PaidOf(log)     == [i \in DOMAIN log |-> Paid(log[i])]
MovedOf(log, a) == [i \in DOMAIN log |-> Moved(log[i], a)]
CostsOf(log)    == [i \in DOMAIN log |-> signOf(log[i]) * costOf(log[i])]
PaidFees(log)   == [i \in DOMAIN log |-> log[i].fee]

LEMMA FillAmounts ==
    ASSUME NEW fill \in Fill
    PROVE  /\ Paid(fill) \in Int /\ fill.fee \in Nat
           /\ signOf(fill) * costOf(fill) \in Int
           /\ Paid(fill) - (signOf(fill) * costOf(fill) + fill.fee) \in {0, 1}
           /\ \A a \in ASSETS : Moved(fill, a) \in Int
<1> DEFINE gross == notional(fill.side, fill.price, fill.size)
           sign  == signOf(fill)
           cost  == costOf(fill)
<1>1. /\ fill.fee \in Nat /\ fill.size \in Nat /\ sign \in {1, -1}
  BY DEF Fill, signOf
<1>2. gross \in Nat /\ cost \in Nat /\ sign * gross - sign * cost \in {0, 1}
  BY CostIsNearGross
<1>3. Paid(fill) = sign * gross + fill.fee
  BY DEF Paid, GrossOf
<1>4. \A a \in ASSETS :
        Moved(fill, a) = 0 \/ Moved(fill, a) = sign * fill.size
  BY DEF Moved
<1> HIDE DEF gross, sign, cost
<1>5. sign * gross \in Int /\ sign * cost \in Int /\ sign * fill.size \in Int
  BY <1>1, <1>2
<1>6. Paid(fill) - (sign * cost + fill.fee) = sign * gross - sign * cost
  BY <1>1, <1>3, <1>5
<1>7. /\ Paid(fill) \in Int /\ sign * cost \in Int
      /\ Paid(fill) - (sign * cost + fill.fee) \in {0, 1}
  BY <1>1, <1>2, <1>3, <1>5, <1>6
<1>8. \A a \in ASSETS : Moved(fill, a) \in Int
  <2> SUFFICES ASSUME NEW a \in ASSETS
               PROVE  Moved(fill, a) \in Int
    OBVIOUS
  <2>1. Moved(fill, a) = 0 \/ Moved(fill, a) = sign * fill.size
    BY <1>4
  <2>2. 0 \in Int
    OBVIOUS
  <2>3. QED
    BY <1>5, <2>1, <2>2, Zenon
<1>9. QED
  BY <1>1, <1>7, <1>8 DEF sign, cost

LEMMA HistoryAmounts ==
    ASSUME NEW log \in Seq(Fill)
    PROVE  \A i \in DOMAIN log :
              /\ PaidOf(log)[i] \in Int
              /\ CostsOf(log)[i] \in Int
              /\ PaidFees(log)[i] \in Nat
              /\ PaidOf(log)[i] - (CostsOf(log)[i] + PaidFees(log)[i])
                   \in {0, 1}
              /\ \A a \in ASSETS : MovedOf(log, a)[i] \in Int
<1> SUFFICES ASSUME NEW i \in DOMAIN log
             PROVE  /\ PaidOf(log)[i] \in Int
                    /\ CostsOf(log)[i] \in Int
                    /\ PaidFees(log)[i] \in Nat
                    /\ PaidOf(log)[i] - (CostsOf(log)[i] + PaidFees(log)[i])
                         \in {0, 1}
                    /\ \A a \in ASSETS : MovedOf(log, a)[i] \in Int
  OBVIOUS
<1> DEFINE fill == log[i]
<1>1. fill \in Fill
  OBVIOUS
<1>2. /\ PaidOf(log)[i] = Paid(fill)
      /\ CostsOf(log)[i] = signOf(fill) * costOf(fill)
      /\ PaidFees(log)[i] = fill.fee
      /\ \A a \in ASSETS : MovedOf(log, a)[i] = Moved(fill, a)
  BY DEF PaidOf, CostsOf, PaidFees, MovedOf
<1> HIDE DEF fill
<1>3. QED
  BY <1>1, <1>2, FillAmounts

\* The sum over a longer sequence of values.
LEMMA SumAppends ==
    ASSUME NEW m \in Nat, NEW f, NEW g, \A i \in 1 .. m : f[i] \in Int,
           \A i \in 1 .. m : g[i] = f[i], g[m + 1] \in Int
    PROVE  /\ SumOver(f, 1 .. m) \in Int
           /\ SumOver(g, 1 .. m + 1) = SumOver(f, 1 .. m) + g[m + 1]
<1> DEFINE S == 1 .. m + 1
           T == 1 .. m
<1>1. /\ IsFiniteSet(S) /\ IsFiniteSet(T) /\ m + 1 \in S
      /\ S \ {m + 1} = T
  <2>1. m + 1 \in S /\ S \ {m + 1} = T
    OBVIOUS
  <2>2. 1 \in Int /\ m \in Int /\ m + 1 \in Int
    OBVIOUS
  <2>3. QED
    BY <2>1, <2>2, FS_Interval
<1>2. \A i \in S : g[i] \in Int
  OBVIOUS
<1>3. (\A i \in T : g[i] = f[i]) /\ (\A i \in T : f[i] \in Int)
  OBVIOUS
<1> HIDE DEF S, T
<1>4. SumOver(g, S) = g[m + 1] + SumOver(g, T)
  <2>1. \A e \in S : SumOver(g, S) = g[e] + SumOver(g, S \ {e})
    BY <1>1, <1>2, SumWithout
  <2>2. QED
    BY <1>1, <2>1
<1>5. SumOver(g, T) = SumOver(f, T) /\ SumOver(f, T) \in Int
  BY <1>1, <1>3, SameSum, SumType
<1>6. QED
  BY <1>4, <1>5 DEF S, T

\* An open portfolio holds what its history comes to, and every fill of it
\* was made soon after its price was published.
AccountsFor(account) ==
    LET log == account.trade_log
    IN  /\ account.usdc = START_USDC - SumOver(PaidOf(log), DOMAIN log)
        /\ \A a \in ASSETS :
             account.positions[a].quantity
               = SumOver(MovedOf(log, a), DOMAIN log)
        /\ \A i \in DOMAIN log : Prompt(log[i])

LEMMA OpenedAccountsFor == AccountsFor(OpenedAccount)
<1>1. /\ OpenedAccount.trade_log = <<>> /\ OpenedAccount.usdc = START_USDC
      /\ \A a \in ASSETS : OpenedAccount.positions[a].quantity = 0
  BY DEF OpenedAccount, BlankAccount
<1>2. DOMAIN <<>> = {}
  OBVIOUS
<1>3. \A f : SumOver(f, {}) = 0
  BY SumOfNothing
<1>4. START_USDC - 0 = START_USDC
  OBVIOUS
<1>5. QED
  BY <1>1, <1>2, <1>3, <1>4 DEF AccountsFor

LEMMA TradedAccountsFor ==
    ASSUME NEW account \in Account, AccountsFor(account), NEW fill,
           Acceptable(account, fill), Prompt(fill)
    PROVE  AccountsFor(Traded(account, fill))
<1> DEFINE new   == Traded(account, fill)
           log   == account.trade_log
           m     == Len(log)
           long  == Append(log, fill)
           gross == notional(fill.side, fill.price, fill.size)
<1>1. /\ log \in Seq(Fill) /\ m \in Nat /\ fill \in Fill
      /\ account.usdc \in Nat /\ fill.asset \in ASSETS
      /\ \A a \in ASSETS : account.positions[a].quantity \in Nat
  BY DEF Account, Acceptable, Fill, Position
<1>2. new.trade_log = long
  BY DEF Traded, Recorded, Bought, Sold, Account
<1>3. /\ new.usdc = account.usdc - signOf(fill) * gross - fill.fee
      /\ new.positions[fill.asset].quantity
           = account.positions[fill.asset].quantity + signOf(fill) * fill.size
      /\ \A a \in ASSETS \ {fill.asset} :
           new.positions[a] = account.positions[a]
  BY TradedMoves
<1>4. /\ DOMAIN log = 1 .. m /\ DOMAIN long = 1 .. m + 1
      /\ long[m + 1] = fill /\ \A i \in 1 .. m : long[i] = log[i]
      /\ long \in Seq(Fill)
  BY <1>1
<1>5. /\ account.usdc = START_USDC - SumOver(PaidOf(log), 1 .. m)
      /\ \A a \in ASSETS :
           account.positions[a].quantity = SumOver(MovedOf(log, a), 1 .. m)
      /\ \A i \in 1 .. m : Prompt(log[i])
  BY <1>4 DEF AccountsFor
<1>6. /\ Paid(fill) = signOf(fill) * gross + fill.fee
      /\ Paid(fill) \in Int /\ fill.fee \in Nat /\ gross \in Nat
      /\ signOf(fill) \in {1, -1} /\ fill.size \in Nat
      /\ \A a \in ASSETS : Moved(fill, a) \in Int
  BY <1>1, FillAmounts, CostIsNearGross DEF Paid, GrossOf, signOf, Fill
<1> HIDE DEF new, log, m, long, gross
<1>7. new.usdc = START_USDC - SumOver(PaidOf(long), 1 .. m + 1)
  <2> DEFINE f == PaidOf(log)
             g == PaidOf(long)
             old == SumOver(f, 1 .. m)
  <2>1. /\ \A i \in 1 .. m : f[i] \in Int
        /\ \A i \in 1 .. m : g[i] = f[i]
        /\ g[m + 1] = Paid(fill)
    BY <1>1, <1>4, HistoryAmounts DEF PaidOf
  <2> HIDE DEF f, g
  <2>2. old \in Int /\ SumOver(g, 1 .. m + 1) = old + Paid(fill)
    <3>1. g[m + 1] \in Int
      BY <1>6, <2>1
    <3>2. /\ SumOver(f, 1 .. m) \in Int
          /\ SumOver(g, 1 .. m + 1) = SumOver(f, 1 .. m) + g[m + 1]
      BY <1>1, <2>1, <3>1, SumAppends
    <3>3. QED
      BY <2>1, <3>2
  <2>3. account.usdc = START_USDC - old
    BY <1>5 DEF f
  <2>4. signOf(fill) * gross \in Int
    BY <1>6
  <2> DEFINE charged == signOf(fill) * gross
  <2>5. /\ charged \in Int /\ Paid(fill) = charged + fill.fee
        /\ new.usdc = account.usdc - charged - fill.fee
    BY <1>3, <1>6, <2>4
  <2> HIDE DEF old, charged
  <2>6. new.usdc = START_USDC - (old + Paid(fill))
    BY <1>1, <1>6, <2>2, <2>3, <2>5
  <2>7. QED
    BY <2>2, <2>6 DEF g
<1>8. ASSUME NEW a \in ASSETS
      PROVE  new.positions[a].quantity
               = SumOver(MovedOf(long, a), 1 .. m + 1)
  <2> DEFINE f == MovedOf(log, a)
             g == MovedOf(long, a)
             old == SumOver(f, 1 .. m)
  <2>1. /\ \A i \in 1 .. m : f[i] \in Int
        /\ \A i \in 1 .. m : g[i] = f[i]
        /\ g[m + 1] = Moved(fill, a) /\ Moved(fill, a) \in Int
    <3>1. \A i \in 1 .. m : f[i] \in Int
      BY <1>1, <1>4, HistoryAmounts
    <3>2. \A i \in 1 .. m : f[i] = Moved(log[i], a) /\ i \in 1 .. m + 1
      BY <1>1, <1>4 DEF MovedOf
    <3>3. \A i \in 1 .. m + 1 : g[i] = Moved(long[i], a)
      BY <1>4 DEF MovedOf
    <3>4. m + 1 \in 1 .. m + 1
      BY <1>1
    <3> HIDE DEF f, g
    <3>5. QED
      BY <1>4, <1>6, <3>1, <3>2, <3>3, <3>4
  <2> HIDE DEF f, g
  <2>2. old \in Int /\ SumOver(g, 1 .. m + 1) = old + Moved(fill, a)
    <3>1. g[m + 1] \in Int
      BY <2>1
    <3>2. /\ SumOver(f, 1 .. m) \in Int
          /\ SumOver(g, 1 .. m + 1) = SumOver(f, 1 .. m) + g[m + 1]
      BY <1>1, <2>1, <3>1, SumAppends
    <3>3. QED
      BY <2>1, <3>2
  <2>3. account.positions[a].quantity = old
    BY <1>5 DEF f
  <2>4. new.positions[a].quantity = old + Moved(fill, a)
    <3>1. CASE a = fill.asset
      BY <1>3, <2>3, <3>1 DEF Moved
    <3>2. CASE a # fill.asset
      <4>1. Moved(fill, a) = 0 /\ new.positions[a] = account.positions[a]
        BY <1>3, <3>2 DEF Moved
      <4>2. QED
        BY <2>2, <2>3, <4>1
    <3>3. QED
      BY <3>1, <3>2
  <2>5. QED
    BY <2>2, <2>4 DEF g
<1>9. \A i \in 1 .. m + 1 : Prompt(long[i])
  <2>1. ASSUME NEW i \in 1 .. m + 1
        PROVE  Prompt(long[i])
    <3>1. i = m + 1 \/ i \in 1 .. m
      BY <1>1
    <3>2. QED
      BY <1>4, <1>5, <3>1
  <2>2. QED
    BY <2>1
<1>10. QED
  BY <1>2, <1>4, <1>7, <1>8, <1>9 DEF AccountsFor, new

\* What the ring shows is the end of the history.
LEMMA ShownFill ==
    ASSUME NEW account \in Account, RingInv(account),
           NEW k \in 1 .. Len(Snapshot(account))
    PROVE  LET m == Len(account.trade_log)
           IN  /\ k <= m
               /\ Snapshot(account)[k].id = m - (k - 1)
               /\ Snapshot(account)[k].fill = account.trade_log[m - k + 1]
<1> DEFINE count == account.trade_count
           shown == IF count < RECENT_FILLS THEN count ELSE RECENT_FILLS
<1>1. count \in Nat /\ count = Len(account.trade_log)
  BY DEF Account, RingInv
<1>2. k \in 1 .. shown
  BY <1>1 DEF Snapshot
<1>3. /\ count - k \in Nat /\ count - k < count /\ k <= count
      /\ count - (count - k) <= RECENT_FILLS
  BY <1>1, <1>2
<1>4. /\ Snapshot(account)[k].id = count - (k - 1)
      /\ Snapshot(account)[k].fill
           = account.recent_fills[(count - k) % RECENT_FILLS]
  BY <1>2 DEF Snapshot
<1> HIDE DEF count
<1>5. account.recent_fills[(count - k) % RECENT_FILLS]
        = account.trade_log[count - k + 1]
  BY <1>3 DEF RingInv, count
<1>6. QED
  BY <1>1, <1>3, <1>4, <1>5

\* What the chart undoes at a time that the ring reaches back to are the fills
\* of the history that were published after it, numbered from its end.
LEMMA LaterIsPublishedAfter ==
    ASSUME NEW account \in Account, RingInv(account), NEW t \in Nat,
           Covers(account, t)
    PROVE  LET log   == account.trade_log
               m     == Len(log)
               later == Later(account, t)
           IN  /\ IsFiniteSet(later) /\ m \in Nat
               /\ \A k \in later :
                    /\ k \in 1 .. m
                    /\ Snapshot(account)[k].fill = log[m + 1 - k]
               /\ PublishedAfter(log, t) = {m + 1 - k : k \in later}
<1> DEFINE log   == account.trade_log
           m     == Len(log)
           later == Later(account, t)
           shown == IF m < RECENT_FILLS THEN m ELSE RECENT_FILLS
<1>1. /\ log \in Seq(Fill) /\ m \in Nat /\ account.trade_count = m
      /\ \A i \in DOMAIN log : log[i].price_at \in Nat
  <2>1. \A f \in Fill : f.price_at \in Nat
    BY DEF Fill
  <2>2. log \in Seq(Fill) /\ account.trade_count = m
    BY DEF Account, RingInv
  <2>3. QED
    BY <2>1, <2>2
<1>2. /\ DOMAIN Snapshot(account) = 1 .. shown /\ shown \in Nat
      /\ Len(Snapshot(account)) = shown
  BY <1>1 DEF Snapshot
<1>3. ASSUME NEW k \in 1 .. shown
      PROVE  /\ k \in 1 .. m
             /\ Snapshot(account)[k].fill = log[m + 1 - k]
  <2>1. /\ k <= m
        /\ Snapshot(account)[k].fill = log[m - k + 1]
    BY <1>2, <1>3, ShownFill
  <2>2. k \in 1 .. m /\ m - k + 1 = m + 1 - k
    BY <1>1, <1>2, <2>1
  <2>3. QED
    BY <2>1, <2>2
<1>4. later = {k \in 1 .. shown : Snapshot(account)[k].fill.price_at > t}
  BY <1>2 DEF Later
<1>5. IsFiniteSet(later)
  <2>1. IsFiniteSet(1 .. shown)
    BY <1>2, FS_Interval
  <2>2. QED
    BY <1>4, <2>1, FS_Subset
<1>6. \A i \in PublishedAfter(log, t) : i > m - RECENT_FILLS
  BY DEF Covers
<1>7. DOMAIN log = 1 .. m
  BY <1>1
<1> HIDE DEF log, m, later
<1>8. PublishedAfter(log, t) = {m + 1 - k : k \in later}
  <2>1. ASSUME NEW i \in PublishedAfter(log, t)
        PROVE  i \in {m + 1 - k : k \in later}
    <3>1. i \in 1 .. m /\ log[i].price_at > t /\ i > m - RECENT_FILLS
      BY <1>6, <1>7 DEF PublishedAfter
    <3>2. m + 1 - i \in 1 .. shown /\ m + 1 - (m + 1 - i) = i
      BY <1>1, <3>1
    <3>3. m + 1 - i \in later
      BY <1>3, <1>4, <3>1, <3>2
    <3>4. QED
      BY <3>2, <3>3
  <2>2. ASSUME NEW k \in later
        PROVE  m + 1 - k \in PublishedAfter(log, t)
    <3>1. k \in 1 .. m /\ log[m + 1 - k].price_at > t
      BY <1>3, <1>4
    <3>2. m + 1 - k \in 1 .. m
      BY <1>1, <3>1
    <3>3. QED
      BY <1>7, <3>1, <3>2 DEF PublishedAfter
  <2>3. QED
    BY <2>1, <2>2
<1>9. QED
  BY <1>1, <1>3, <1>4, <1>5, <1>8 DEF log, m, later

\* A sum over what the chart undoes is one over the history.
LEMMA UndoneSum ==
    ASSUME NEW m \in Nat, NEW later, IsFiniteSet(later),
           \A k \in later : k \in 1 .. m,
           NEW f, NEW g, \A k \in later : f[k] = g[m + 1 - k],
           \A i \in 1 .. m : g[i] \in Int
    PROVE  SumOver(f, later) = SumOver(g, {m + 1 - k : k \in later})
<1> DEFINE b == [k \in later |-> m + 1 - k]
<1>1. /\ \A k \in later : b[k] = m + 1 - k
      /\ {b[k] : k \in later} = {m + 1 - k : k \in later}
  OBVIOUS
<1>2. \A k \in later : m + 1 - k \in 1 .. m
  OBVIOUS
<1>3. \A k \in later : f[k] \in Int /\ g[b[k]] = f[k]
  BY <1>1, <1>2
<1>4. \A x, y \in later : b[x] = b[y] => x = y
  BY <1>1
<1> HIDE DEF b
<1>5. SumOver(g, {b[k] : k \in later}) = SumOver(f, later)
  BY <1>3, <1>4, SumRenumbered
<1>6. QED
  BY <1>1, <1>5

\* A sum over some of the fills may be taken from all of them.
LEMMA PartSum ==
    ASSUME NEW S, IsFiniteSet(S), NEW f, \A x \in S : f[x] \in Int,
           NEW T, T \subseteq S, NEW g, \A x \in T : g[x] = f[x]
    PROVE  SumOver(g, T) = SumOver(f, T) /\ SumOver(f, T) \in Int
<1>1. IsFiniteSet(T) /\ \A x \in T : f[x] \in Int
  BY FS_Subset
<1>2. QED
  BY <1>1, SameSum, SumType

\* What undoing at the browser's cost misses is the fees, and a cent per fill.
LEMMA RoundingAddsUp ==
    ASSUME NEW log \in Seq(Fill), NEW U, U \subseteq DOMAIN log
    PROVE  LET paid  == SumOver(PaidOf(log), U)
               costs == SumOver(CostsOf(log), U)
               fees  == SumOver(PaidFees(log), U)
           IN  /\ paid \in Int /\ costs \in Int /\ fees \in Int
               /\ paid - costs - fees \in 0 .. Cardinality(U)
<1> DEFINE P == PaidOf(log)
           C == CostsOf(log)
           F == PaidFees(log)
           B == [i \in U |-> C[i] + F[i]]
           R == [i \in U |-> P[i] - (C[i] + F[i])]
<1>1. IsFiniteSet(U) /\ Cardinality(U) \in Nat
  <2>1. DOMAIN log = 1 .. Len(log) /\ Len(log) \in Nat
    OBVIOUS
  <2>2. IsFiniteSet(DOMAIN log)
    BY <2>1, FS_Interval
  <2>3. QED
    BY <2>2, FS_Subset, FS_CardinalityType
<1>2. \A i \in U : /\ P[i] \in Int /\ C[i] \in Int /\ F[i] \in Int
                   /\ P[i] - (C[i] + F[i]) \in {0, 1}
  <2>1. \A n \in Nat : n \in Int
    OBVIOUS
  <2>2. QED
    BY <2>1, HistoryAmounts
<1> HIDE DEF P, C, F
<1>3. \A i \in U : /\ B[i] = C[i] + F[i] /\ B[i] \in Int
                   /\ R[i] \in {0, 1} /\ R[i] \in Int
                   /\ P[i] = B[i] + R[i]
  BY <1>2
<1> HIDE DEF B, R
<1>4. SumOver(B, U) = SumOver(C, U) + SumOver(F, U)
  BY <1>1, <1>2, <1>3, SumOfBoth
<1>5. SumOver(P, U) = SumOver(B, U) + SumOver(R, U)
  BY <1>1, <1>2, <1>3, SumOfBoth
<1>6. SumOver(R, U) \in 0 .. Cardinality(U)
  BY <1>1, <1>3, SumCounts
<1>7. SumOver(P, U) \in Int /\ SumOver(C, U) \in Int /\ SumOver(F, U) \in Int
  BY <1>1, <1>2, SumType
<1> DEFINE paid == SumOver(P, U)
           costs == SumOver(C, U)
           fees == SumOver(F, U)
           more == SumOver(R, U)
<1>8. /\ paid = costs + fees + more /\ more \in 0 .. Cardinality(U)
      /\ paid \in Int /\ costs \in Int /\ fees \in Int
  BY <1>4, <1>5, <1>6, <1>7
<1> HIDE DEF paid, costs, fees, more
<1>9. paid - costs - fees \in 0 .. Cardinality(U)
  BY <1>1, <1>8
<1>10. QED
  BY <1>8, <1>9 DEF paid, costs, fees, P, C, F

LEMMA HistoryUndone ==
    ASSUME NEW account \in Account, RingInv(account), AccountsFor(account),
           NEW t \in Nat, Covers(account, t)
    PROVE  UndoesTrades(account, t)
<1> DEFINE log   == account.trade_log
           m     == Len(log)
           D     == DOMAIN log
           U     == PublishedAfter(log, t)
           made  == D \ U
           later == Later(account, t)
           trade(k) == Snapshot(account)[k].fill
           back  == [k \in later |-> signOf(trade(k)) * costOf(trade(k))]
           off(a) == [k \in later |-> Moved(trade(k), a)]
<1>1. /\ log \in Seq(Fill) /\ D = 1 .. m
      /\ account.usdc \in Nat
      /\ \A a \in ASSETS : account.positions[a].quantity \in Nat
  BY DEF Account, Position
<1>2. /\ IsFiniteSet(later) /\ m \in Nat
      /\ \A k \in later : k \in 1 .. m /\ trade(k) = log[m + 1 - k]
      /\ U = {m + 1 - k : k \in later}
  BY LaterIsPublishedAfter
<1>3. /\ portfolioHistory(account, t).cash
           = account.usdc + SumOver(back, later)
      /\ \A a \in ASSETS :
           portfolioHistory(account, t).quantity[a]
             = account.positions[a].quantity - SumOver(off(a), later)
  BY DEF portfolioHistory
<1>4. U \subseteq D /\ made \subseteq D /\ IsFiniteSet(D)
  <2>1. IsFiniteSet(1 .. m)
    BY <1>2, FS_Interval
  <2>2. QED
    BY <1>1, <2>1 DEF PublishedAfter
<1>5. \A i \in D : /\ PaidOf(log)[i] \in Int /\ CostsOf(log)[i] \in Int
                   /\ PaidFees(log)[i] \in Nat
                   /\ \A a \in ASSETS : MovedOf(log, a)[i] \in Int
  BY <1>1, HistoryAmounts
<1>6. \A k \in later :
        /\ m + 1 - k \in D
        /\ back[k] = CostsOf(log)[m + 1 - k]
        /\ \A a \in ASSETS : off(a)[k] = MovedOf(log, a)[m + 1 - k]
  <2>1. ASSUME NEW k \in later
        PROVE  m + 1 - k \in D /\ trade(k) = log[m + 1 - k]
    BY <1>1, <1>2
  <2>2. QED
    BY <2>1 DEF CostsOf, MovedOf
<1>7. /\ account.usdc = START_USDC - SumOver(PaidOf(log), D)
      /\ \A a \in ASSETS :
           account.positions[a].quantity = SumOver(MovedOf(log, a), D)
  BY DEF AccountsFor
<1>8. /\ CashAfter(log, made)
           = START_USDC - SumOver([i \in made |-> Paid(log[i])], made)
      /\ FeesOf(log, U) = SumOver([i \in U |-> log[i].fee], U)
      /\ \A a \in ASSETS :
           QuantityAfter(log, made, a)
             = SumOver([i \in made |-> Moved(log[i], a)], made)
  BY DEF CashAfter, FeesOf, QuantityAfter
<1>9. /\ \A i \in made : [j \in made |-> Paid(log[j])][i] = PaidOf(log)[i]
      /\ \A i \in U : [j \in U |-> log[j].fee][i] = PaidFees(log)[i]
      /\ \A a \in ASSETS : \A i \in made :
           [j \in made |-> Moved(log[j], a)][i] = MovedOf(log, a)[i]
  BY <1>4 DEF PaidOf, PaidFees, MovedOf
<1> DEFINE paidMade == [j \in made |-> Paid(log[j])]
           feesU    == [j \in U |-> log[j].fee]
           movedMade(a) == [j \in made |-> Moved(log[j], a)]
<1> HIDE DEF log, m, D, U, later, trade, back, off, made
<1>10. ASSUME NEW a \in ASSETS
       PROVE  portfolioHistory(account, t).quantity[a]
                = QuantityAfter(log, made, a)
  <2> DEFINE g == MovedOf(log, a)
             f == off(a)
             h == movedMade(a)
  <2>1. /\ \A i \in D : g[i] \in Int
        /\ \A k \in later : f[k] = g[m + 1 - k]
        /\ \A i \in made : h[i] = g[i]
    BY <1>5, <1>6, <1>9
  <2>2. /\ portfolioHistory(account, t).quantity[a]
             = account.positions[a].quantity - SumOver(f, later)
        /\ account.positions[a].quantity = SumOver(g, D)
        /\ QuantityAfter(log, made, a) = SumOver(h, made)
    BY <1>3, <1>7, <1>8
  <2> HIDE DEF f, g, h
  <2>3. SumOver(f, later) = SumOver(g, U)
    BY <1>1, <1>2, <2>1, UndoneSum
  <2>4. SumOver(h, made) = SumOver(g, made)
    BY <1>4, <2>1, PartSum
  <2>5. /\ SumOver(g, D) = SumOver(g, U) + SumOver(g, made)
        /\ SumOver(g, U) \in Int /\ SumOver(g, made) \in Int
    <3>1. \A T : T \subseteq D =>
             /\ SumOver(g, T) \in Int /\ SumOver(g, D \ T) \in Int
             /\ SumOver(g, D) = SumOver(g, T) + SumOver(g, D \ T)
      BY <1>4, <2>1, SumSplits
    <3>2. QED
      BY <1>4, <3>1 DEF made
  <2>6. QED
    BY <2>2, <2>3, <2>4, <2>5
<1>11. CashAfter(log, made) - portfolioHistory(account, t).cash
         - FeesOf(log, U) \in 0 .. Cardinality(U)
  <2> DEFINE P == PaidOf(log)
             C == CostsOf(log)
             F == PaidFees(log)
  <2>1. SumOver(back, later) = SumOver(C, U)
    <3>1. \A i \in 1 .. m : C[i] \in Int
      BY <1>1, <1>5
    <3> HIDE DEF C
    <3>2. \A k \in later : back[k] = C[m + 1 - k]
      BY <1>6 DEF C
    <3>3. QED
      BY <1>2, <3>1, <3>2, UndoneSum
  <2>2. /\ SumOver(P, D) = SumOver(P, U) + SumOver(P, made)
        /\ SumOver(P, U) \in Int /\ SumOver(P, made) \in Int
        /\ SumOver(paidMade, made) = SumOver(P, made)
    <3>1. /\ \A i \in D : P[i] \in Int
          /\ \A i \in made : paidMade[i] = P[i]
      BY <1>5, <1>9
    <3> HIDE DEF P, paidMade
    <3>2. \A T : T \subseteq D =>
             /\ SumOver(P, T) \in Int /\ SumOver(P, D \ T) \in Int
             /\ SumOver(P, D) = SumOver(P, T) + SumOver(P, D \ T)
      BY <1>4, <3>1, SumSplits
    <3>3. SumOver(paidMade, made) = SumOver(P, made)
      BY <1>4, <3>1, PartSum
    <3>4. QED
      BY <1>4, <3>2, <3>3 DEF made
  <2>3. SumOver(feesU, U) = SumOver(F, U)
    <3>1. /\ \A i \in D : F[i] \in Int
          /\ \A i \in U : feesU[i] = F[i]
      BY <1>5, <1>9
    <3> HIDE DEF F, feesU
    <3>2. QED
      BY <1>4, <3>1, PartSum
  <2>4. /\ SumOver(P, U) \in Int /\ SumOver(C, U) \in Int
        /\ SumOver(F, U) \in Int
        /\ SumOver(P, U) - SumOver(C, U) - SumOver(F, U)
             \in 0 .. Cardinality(U)
    BY <1>1, <1>4, RoundingAddsUp DEF D
  <2>5. /\ CashAfter(log, made) = START_USDC - SumOver(paidMade, made)
        /\ FeesOf(log, U) = SumOver(feesU, U)
        /\ portfolioHistory(account, t).cash
             = account.usdc + SumOver(back, later)
        /\ account.usdc = START_USDC - SumOver(P, D)
    BY <1>3, <1>7, <1>8
  <2> DEFINE pu == SumOver(P, U)
             pm == SumOver(P, made)
             cu == SumOver(C, U)
             fu == SumOver(F, U)
  <2>6. /\ pu \in Int /\ pm \in Int /\ cu \in Int /\ fu \in Int
        /\ pu - cu - fu \in 0 .. Cardinality(U)
        /\ CashAfter(log, made) = START_USDC - pm
        /\ FeesOf(log, U) = fu
        /\ portfolioHistory(account, t).cash = START_USDC - (pu + pm) + cu
    BY <2>1, <2>2, <2>3, <2>4, <2>5
  <2> HIDE DEF P, C, F, pu, pm, cu, fu
  <2>7. CashAfter(log, made) - portfolioHistory(account, t).cash
          - FeesOf(log, U) = pu - cu - fu
    BY <2>6
  <2>8. QED
    BY <2>6, <2>7
<1>12. QED
  BY <1>10, <1>11 DEF UndoesTrades, log, U, made, D

LEMMA NearlyExecuted ==
    ASSUME NEW account \in Account, AccountsFor(account), NEW t \in Nat
    PROVE  LET log == account.trade_log
           IN  NearlyExecutedBy(log, DOMAIN log \ PublishedAfter(log, t), t)
<1> DEFINE log == account.trade_log
<1>1. /\ \A i \in DOMAIN log :
           log[i].price_at \in Nat /\ log[i].executed_at \in Nat
      /\ \A i \in DOMAIN log : Prompt(log[i])
  <2>1. \A f \in Fill : f.price_at \in Nat /\ f.executed_at \in Nat
    BY DEF Fill
  <2>2. log \in Seq(Fill)
    BY DEF Account
  <2>3. QED
    BY <2>1, <2>2 DEF AccountsFor
<1> HIDE DEF log
<1>2. ASSUME NEW i \in DOMAIN log
      PROVE  /\ log[i].executed_at + MAX_LEAD <= t =>
                  ~(log[i].price_at > t)
             /\ ~(log[i].price_at > t) =>
                  log[i].executed_at <= t + MAX_AGE
  <2>1. /\ log[i].price_at <= log[i].executed_at + MAX_LEAD
        /\ log[i].executed_at <= log[i].price_at + MAX_AGE
        /\ log[i].price_at \in Nat /\ log[i].executed_at \in Nat
    BY <1>1 DEF Prompt
  <2>2. QED
    BY <2>1
<1>3. QED
  BY <1>2 DEF NearlyExecutedBy, PublishedAfter, log

-----------------------------------------------------------------------------
(* What follows *)

\* Every account keeps the layout of paper_account.rs, whatever is traded.
THEOREM TypeCorrect == ProgramSpec => []TypeOK
<1>1. PortfolioInv => TypeOK
  BY DEF PortfolioInv
<1>2. QED
  BY <1>1, PortfolioInvariant, PTL

\* For any price, size, fee and history (trade_portfolio.rs): an open
\* portfolio changes by appended fills only, each keeps the books, and no
\* rounding gains its owner anything at the price that was traded on.
THEOREM TradesStayFair == ProgramSpec => TradeIsFair
<1>1. PortfolioInv /\ [ProgramNext]_programVars => [TradesAreFair]_programVars
  BY PortfolioStep
<1>2. QED
  BY <1>1, PortfolioInvariant, PTL DEF ProgramSpec, TradeIsFair

\* For a ring of any size, and however often it was overwritten: what
\* paper-account.ts reads from it is the end of the history.
THEOREM SnapshotsAreRecent == ProgramSpec => []SnapshotIsRecent
<1>1. PortfolioInv => SnapshotIsRecent
  <2> SUFFICES ASSUME PortfolioInv, NEW w \in WALLETS,
                      NEW k \in DOMAIN Snapshot(portfolios[w])
               PROVE  LET shown   == Snapshot(portfolios[w])
                          history == portfolios[w].trade_log
                      IN  /\ shown[k].id = Len(history) - (k - 1)
                          /\ shown[k].fill = history[shown[k].id]
    BY DEF SnapshotIsRecent
  <2> DEFINE account == portfolios[w]
             m       == Len(account.trade_log)
  <2>1. account \in Account /\ RingInv(account) /\ m \in Nat
    BY DEF PortfolioInv, TypeOK, Account, SoundAccount
  <2>2. k \in 1 .. Len(Snapshot(account))
    BY <2>1 DEF Snapshot, Account
  <2> HIDE DEF account, m
  <2>3. /\ Snapshot(account)[k].id = m - (k - 1)
        /\ Snapshot(account)[k].fill = account.trade_log[m - k + 1]
    BY <2>1, <2>2, ShownFill DEF m
  <2>4. m - k + 1 = m - (k - 1)
    BY <2>1, <2>2
  <2>5. QED
    BY <2>3, <2>4 DEF account, m
<1>2. QED
  BY <1>1, PortfolioInvariant, PTL

\* For any markets, prices and fees, and however the rounding falls
\* (trade_portfolio.rs): cash, costs and realized profit account for every
\* cent of an open portfolio, and a position sold in parts leaves no cost.
THEOREM BooksStayBalanced == ProgramSpec => []BooksBalance
<1>1. PortfolioInv => BooksBalance
  BY DEF PortfolioInv, SoundAccount, Balanced, Costs, BooksBalance, Opened
<1>2. QED
  BY <1>1, PortfolioInvariant, PTL

\* Every open portfolio is what its history comes to.
HistoryInv ==
    /\ PortfolioInv
    /\ \A w \in Opened : AccountsFor(portfolios[w])

LEMMA HistoryStep ==
    ASSUME HistoryInv, [ProgramNext]_programVars
    PROVE  HistoryInv'
<1>1. /\ PortfolioInv /\ portfolios \in [WALLETS -> Account]
      /\ \A w \in WALLETS : portfolios[w].opened => AccountsFor(portfolios[w])
  BY DEF HistoryInv, PortfolioInv, TypeOK, Opened
<1>2. PortfolioInv'
  BY <1>1, PortfolioStep
<1>3. SUFFICES ASSUME NEW w \in WALLETS, portfolios'[w].opened
               PROVE  AccountsFor(portfolios'[w])
  BY <1>2 DEF HistoryInv, Opened
<1>4. CASE portfolios'[w] = portfolios[w]
  BY <1>1, <1>3, <1>4
<1>5. ASSUME NEW v \in WALLETS, OpenPortfolio(v)
      PROVE  AccountsFor(portfolios'[w])
  BY <1>1, <1>4, <1>5, OpenedAccountsFor DEF OpenPortfolio
<1>6. ASSUME NEW v \in WALLETS, NEW order \in Orders,
             NEW update \in PriceUpdates, TradePortfolio(v, order, update)
      PROVE  AccountsFor(portfolios'[w])
  <2>1. portfolios[v].opened
    BY <1>1, <1>6, TradeIsAcceptable
  <2>2. PICK fill :
          /\ Acceptable(portfolios[v], fill) /\ Prompt(fill)
          /\ portfolios' = [portfolios EXCEPT
                                ![v] = Traded(portfolios[v], fill)]
    BY <1>1, <1>6, TradeIsAcceptable
  <2>3. AccountsFor(Traded(portfolios[v], fill))
    BY <1>1, <2>1, <2>2, TradedAccountsFor
  <2>4. QED
    BY <1>1, <1>4, <2>2, <2>3
<1>7. CASE UNCHANGED portfolios
  BY <1>4, <1>7
<1>8. QED
  BY <1>5, <1>6, <1>7
     DEF ProgramNext, InitializePaperExchange, ConfigurePaperMarket,
         TimePasses, programVars

\* For any ring, markets, prices and times (paper-analytics.ts:35-55): at a
\* point that the ring reaches back to, the chart has every position, and the
\* cash but for fees and a cent per trade, of a portfolio that made the fills
\* published by then; and those are the fills executed by then, but for fills
\* made at older prices within MAX_AGE after it.
THEOREM ChartUndoesTrades == ProgramSpec => []HistoryUndoesTrades
<1>1. ProgramInit => HistoryInv
  <2>1. ASSUME ProgramInit, NEW w \in WALLETS
        PROVE  ~portfolios[w].opened
    BY <2>1 DEF ProgramInit, BlankAccount
  <2>2. QED
    BY <2>1, PortfolioInit DEF HistoryInv, Opened
<1>2. HistoryInv /\ [ProgramNext]_programVars => HistoryInv'
  BY HistoryStep
<1>3. HistoryInv => HistoryUndoesTrades
  <2>1. ASSUME HistoryInv, NEW w \in Opened, NEW t \in 0 .. now,
               Covers(portfolios[w], t)
        PROVE  LET log == portfolios[w].trade_log
               IN  /\ UndoesTrades(portfolios[w], t)
                   /\ NearlyExecutedBy(
                        log, DOMAIN log \ PublishedAfter(log, t), t)
    <3>1. /\ portfolios[w] \in Account /\ RingInv(portfolios[w])
          /\ AccountsFor(portfolios[w]) /\ t \in Nat
      BY <2>1 DEF HistoryInv, PortfolioInv, TypeOK, SoundAccount, Opened
    <3>2. QED
      BY <2>1, <3>1, HistoryUndone, NearlyExecuted
  <2>2. QED
    BY <2>1 DEF HistoryUndoesTrades
<1>4. QED
  BY <1>1, <1>2, <1>3, PTL DEF ProgramSpec
=============================================================================
