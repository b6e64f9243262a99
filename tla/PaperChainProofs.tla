-------------------------- MODULE PaperChainProofs --------------------------
(***************************************************************************)
(* The browser's side of paper trading for any wallets, orders and number  *)
(* of overlapping reads and transactions: no quote is filled twice, and    *)
(* what is on display is a state of the displayed portfolio that never     *)
(* goes back to an earlier one.                                            *)
(***************************************************************************)
EXTENDS PaperChain, PaperPortfolioProofs

USE PaperChainAssumption

-----------------------------------------------------------------------------
(* Types *)

Owners == WALLETS \cup {NoWallet}

Stages == {"approval", "sent", "refreshing", "done", "failed"}

Run ==
    [kind : {"open", "trade"}, owner : Owners, address : Owners,
     order : Orders \cup {"no order"}, quote : Nat, stage : Stages,
     tx : {"none", "flying", "landed", "vanished"}]

Read ==
    [gen : Nat, owner : WALLETS, run : Nat, served : BOOLEAN,
     account : Account]

Hook ==
    [status : {"disconnected", "loading", "ready", "none", "error"},
     address : Owners, snapshot : Account, busy : BOOLEAN]

\* A transaction was signed by a wallet, and a trade has an order.
SignedRun(run) ==
    /\ run.stage = "sent" \/ run.tx = "flying" => run.owner \in WALLETS
    /\ run.kind = "trade" => run.order \in Orders

HookTypeOK ==
    /\ hook \in Hook
    /\ generation \in Nat
    /\ reads \subseteq Read

RunsTypeOK ==
    /\ runs \in Seq(Run)
    /\ \A i \in Runs : SignedRun(runs[i])

DeskTypeOK ==
    /\ quotes \subseteq [id : Nat \ {0}, order : Orders]
    /\ next_id \in Nat \ {0}
    /\ pending \in Nat

ChainTypeOK ==
    /\ wallet \in Owners
    /\ HookTypeOK /\ RunsTypeOK /\ DeskTypeOK

-----------------------------------------------------------------------------
(* The invariant of the fills *)

Ended == {"done", "failed"}

\* A quote that is being filled is the pending one; once its fill has ended
\* it is gone, and its id is not given again.
FillsInv ==
    /\ \A q \in quotes : q.id < next_id
    /\ \A i \in Runs :
         /\ runs[i].quote < next_id
         /\ runs[i].quote # 0 =>
              IF runs[i].stage \in Ended
              THEN \A q \in quotes : q.id # runs[i].quote
              ELSE pending = runs[i].quote
    /\ QuoteFillsOnce

\* A run that is refreshing has at most one read, and no other run has any.
RefreshInv ==
    /\ \A read \in reads :
         read.run # 0 => /\ read.run \in Runs
                         /\ runs[read.run].stage = "refreshing"
    /\ \A read, other \in reads :
         read.run # 0 /\ read.run = other.run => read = other

-----------------------------------------------------------------------------
(* The invariant of the reads *)

LogOf(w) == portfolios[w].trade_log

\* An account that was read is what its portfolio was at some time.
Earlier(account, w) ==
    /\ account.trade_count = Len(account.trade_log)
    /\ IsPrefix(account.trade_log, LogOf(w))

\* Of the reads under way the newest has a number of its own; what it read
\* is not older than what is on display of the same portfolio.
ReadsInv ==
    /\ \A read \in reads :
         /\ read.gen <= generation
         /\ read.served => Earlier(read.account, read.owner)
         /\ Newest(read) /\ read.served /\ hook.address = read.owner =>
              hook.snapshot.trade_count <= read.account.trade_count
    /\ \A read, other \in reads : read.gen = other.gen => read = other
    /\ hook.address # NoWallet => Earlier(hook.snapshot, hook.address)

\* The ledger: its own invariant, and a portfolio that was not opened has no
\* history.
LedgerInv ==
    /\ PortfolioInv
    /\ \A w \in WALLETS : ~portfolios[w].opened => LogOf(w) = <<>>

ChainInv == ChainTypeOK /\ LedgerInv /\ FillsInv /\ RefreshInv /\ ReadsInv

-----------------------------------------------------------------------------
(* The ledger's steps *)

\* What happens to the portfolios in a step: no history is rewritten.
LogsGrow ==
    \A w \in WALLETS :
        /\ LogOf(w) \in Seq(Fill) /\ LogOf(w)' \in Seq(Fill)
        /\ IsPrefix(LogOf(w), LogOf(w)')

LEMMA PrefixReflexive ==
    ASSUME NEW s \in Seq(Fill)
    PROVE  IsPrefix(s, s)
  BY DEF IsPrefix

LEMMA PrefixOfAppended ==
    ASSUME NEW s \in Seq(Fill), NEW fill \in Fill
    PROVE  IsPrefix(s, Append(s, fill))
  BY DEF IsPrefix

LEMMA PrefixExtends ==
    ASSUME NEW s \in Seq(Fill), NEW t \in Seq(Fill), NEW u \in Seq(Fill),
           IsPrefix(s, t), IsPrefix(t, u)
    PROVE  IsPrefix(s, u)
<1>1. Len(s) \in Nat /\ Len(t) \in Nat /\ Len(u) \in Nat
      /\ Len(s) <= Len(t) /\ Len(t) <= Len(u)
  BY DEF IsPrefix
<1>2. \A k \in 1 .. Len(s) : s[k] = t[k]
  <2> SUFFICES ASSUME NEW k \in 1 .. Len(s)
               PROVE  s[k] = t[k]
    OBVIOUS
  <2>1. SubSeq(s, 1, Len(s))[k] = s[k] /\ SubSeq(t, 1, Len(s))[k] = t[k]
    BY <1>1
  <2>2. QED
    BY <2>1 DEF IsPrefix
<1>3. \A k \in 1 .. Len(t) : t[k] = u[k]
  <2> SUFFICES ASSUME NEW k \in 1 .. Len(t)
               PROVE  t[k] = u[k]
    OBVIOUS
  <2>1. SubSeq(t, 1, Len(t))[k] = t[k] /\ SubSeq(u, 1, Len(t))[k] = u[k]
    BY <1>1
  <2>2. QED
    BY <2>1 DEF IsPrefix
<1>4. SubSeq(s, 1, Len(s)) = SubSeq(u, 1, Len(s))
  BY <1>1, <1>2, <1>3
<1>5. QED
  BY <1>1, <1>4 DEF IsPrefix

LEMMA TradedStaysOpen ==
    ASSUME NEW account \in Account, NEW fill
    PROVE  /\ Traded(account, fill).opened = account.opened
           /\ Traded(account, fill).trade_log = Append(account.trade_log, fill)
  BY DEF Traded, Recorded, Bought, Sold, Account

LEMMA LedgerStep ==
    ASSUME LedgerInv,
           \/ UNCHANGED programVars
           \/ \E w \in WALLETS : OpenPortfolio(w)
           \/ \E w \in WALLETS, order \in Orders, update \in PriceUpdates :
                  TradePortfolio(w, order, update)
    PROVE  LedgerInv' /\ LogsGrow
<1>1. PortfolioInv'
  <2>1. [ProgramNext]_programVars
    BY DEF ProgramNext
  <2>2. QED
    BY <2>1, PortfolioStep DEF LedgerInv
<1>2. /\ portfolios \in [WALLETS -> Account]
      /\ portfolios' \in [WALLETS -> Account]
  BY <1>1 DEF LedgerInv, PortfolioInv, TypeOK
<1>3. \A w \in WALLETS : LogOf(w) \in Seq(Fill) /\ LogOf(w)' \in Seq(Fill)
  BY <1>2 DEF LogOf, Account
<1>4. SUFFICES ASSUME NEW w \in WALLETS
               PROVE  /\ ~portfolios'[w].opened => LogOf(w)' = <<>>
                      /\ IsPrefix(LogOf(w), LogOf(w)')
  BY <1>1, <1>3 DEF LedgerInv, LogsGrow, LogOf
<1>5. CASE portfolios'[w] = portfolios[w]
  BY <1>3, <1>5, PrefixReflexive DEF LedgerInv, LogOf
<1>6. CASE OpenPortfolio(w)
  <2>1. portfolios'[w] = OpenedAccount /\ ~portfolios[w].opened
    BY <1>2, <1>6 DEF OpenPortfolio
  <2>2. OpenedAccount.opened /\ OpenedAccount.trade_log = <<>>
    BY DEF OpenedAccount, BlankAccount
  <2>3. LogOf(w) = <<>> /\ LogOf(w)' = <<>>
    BY <2>1, <2>2 DEF LedgerInv, LogOf
  <2>4. QED
    BY <1>3, <2>1, <2>2, <2>3, PrefixReflexive
<1>7. ASSUME NEW order \in Orders, NEW update \in PriceUpdates,
             TradePortfolio(w, order, update)
      PROVE  /\ ~portfolios'[w].opened => LogOf(w)' = <<>>
             /\ IsPrefix(LogOf(w), LogOf(w)')
  <2> DEFINE fill == FillOf(order, update)
  <2>1. portfolios'[w] = Traded(portfolios[w], fill) /\ portfolios[w].opened
    BY <1>2, <1>7 DEF TradePortfolio, TradeAllowed
  <2> HIDE DEF fill
  <2>2. portfolios'[w].opened /\ LogOf(w)' = Append(LogOf(w), fill)
    BY <1>2, <2>1, TradedStaysOpen DEF LogOf
  <2>3. fill \in Fill
    <3>1. Append(LogOf(w), fill) \in Seq(Fill)
      BY <1>3, <2>2
    <3>2. Len(LogOf(w)) + 1 \in DOMAIN Append(LogOf(w), fill)
          /\ Append(LogOf(w), fill)[Len(LogOf(w)) + 1] = fill
      BY <1>3
    <3>3. QED
      BY <3>1, <3>2
  <2>4. QED
    BY <1>3, <2>2, <2>3, PrefixOfAppended
<1>8. QED
  BY <1>2, <1>5, <1>6, <1>7 DEF OpenPortfolio, TradePortfolio, programVars

-----------------------------------------------------------------------------
(* How a step changes the runs *)

\* Run i goes on to a stage; nothing else of any run changes but its tx.
RunGoes(i, stage, tx) ==
    /\ runs' \in Seq(Run) /\ Len(runs') = Len(runs)
    /\ \A j \in Runs : j # i => runs'[j] = runs[j]
    /\ runs'[i] = [runs[i] EXCEPT !.stage = stage, !.tx = tx]

RunAdded(run) ==
    /\ runs' \in Seq(Run) /\ Len(runs') = Len(runs) + 1
    /\ \A j \in Runs : runs'[j] = runs[j]
    /\ runs'[Len(runs) + 1] = run

LEMMA RunWritten ==
    ASSUME RunsTypeOK, NEW i \in Runs, NEW stage \in Stages,
           NEW tx \in {"none", "flying", "landed", "vanished"},
           runs' = [runs EXCEPT ![i] = [runs[i] EXCEPT !.stage = stage,
                                                       !.tx = tx]]
    PROVE  RunGoes(i, stage, tx)
<1> DEFINE run == [runs[i] EXCEPT !.stage = stage, !.tx = tx]
<1>1. runs \in Seq(Run) /\ runs[i] \in Run /\ i \in 1 .. Len(runs)
  BY DEF RunsTypeOK, Runs
<1>2. run \in Run
  BY <1>1 DEF Run
<1> HIDE DEF run
<1>3. runs' = [runs EXCEPT ![i] = run]
  BY DEF run
<1>4. /\ runs' \in Seq(Run) /\ Len(runs') = Len(runs)
      /\ \A j \in Runs : j # i => runs'[j] = runs[j]
      /\ runs'[i] = run
  BY <1>1, <1>2, <1>3 DEF Runs
<1>5. QED
  BY <1>4 DEF RunGoes, run

LEMMA StageWritten ==
    ASSUME RunsTypeOK, NEW i \in Runs, NEW stage \in Stages,
           runs' = [runs EXCEPT ![i].stage = stage]
    PROVE  RunGoes(i, stage, runs[i].tx)
<1>1. runs[i] \in Run
  BY DEF RunsTypeOK, Runs
<1>2. [runs[i] EXCEPT !.stage = stage] =
        [runs[i] EXCEPT !.stage = stage, !.tx = runs[i].tx]
  BY <1>1 DEF Run
<1>3. runs[i].tx \in {"none", "flying", "landed", "vanished"}
  BY <1>1 DEF Run
<1>4. runs' = [runs EXCEPT ![i] = [runs[i] EXCEPT !.stage = stage,
                                                  !.tx = runs[i].tx]]
  BY <1>2
<1>5. QED
  BY <1>3, <1>4, RunWritten

LEMMA TxWritten ==
    ASSUME RunsTypeOK, NEW i \in Runs,
           NEW tx \in {"landed", "vanished"},
           runs' = [runs EXCEPT ![i].tx = tx]
    PROVE  RunGoes(i, runs[i].stage, tx)
<1>1. runs[i] \in Run
  BY DEF RunsTypeOK, Runs
<1>2. [runs[i] EXCEPT !.tx = tx] =
        [runs[i] EXCEPT !.stage = runs[i].stage, !.tx = tx]
  BY <1>1 DEF Run
<1>3. runs[i].stage \in Stages
  BY <1>1 DEF Run
<1>4. runs' = [runs EXCEPT ![i] = [runs[i] EXCEPT !.stage = runs[i].stage,
                                                  !.tx = tx]]
  BY <1>2
<1>5. QED
  BY <1>3, <1>4, RunWritten

\* The fields of a run that has gone on.
LEMMA RunGone ==
    ASSUME RunsTypeOK, NEW i \in Runs, NEW stage, NEW tx,
           RunGoes(i, stage, tx)
    PROVE  /\ Runs' = Runs
           /\ runs'[i].stage = stage /\ runs'[i].tx = tx
           /\ \A j \in Runs :
                /\ runs'[j].quote = runs[j].quote
                /\ runs'[j].owner = runs[j].owner
                /\ runs'[j].kind = runs[j].kind
                /\ runs'[j].order = runs[j].order
                /\ j # i => runs'[j].stage = runs[j].stage
<1>1. runs \in Seq(Run) /\ runs[i] \in Run
  BY DEF RunsTypeOK, Runs
<1>2. Runs = 1 .. Len(runs) /\ Runs' = 1 .. Len(runs')
  BY <1>1 DEF Runs, RunGoes
<1>3. /\ runs'[i].stage = stage /\ runs'[i].tx = tx
      /\ runs'[i].quote = runs[i].quote /\ runs'[i].owner = runs[i].owner
      /\ runs'[i].kind = runs[i].kind /\ runs'[i].order = runs[i].order
  BY <1>1 DEF RunGoes, Run
<1>4. \A j \in Runs : j # i => runs'[j] = runs[j]
  BY DEF RunGoes
<1>5. Runs' = Runs
  BY <1>2 DEF RunGoes
<1>6. QED
  BY <1>3, <1>4, <1>5

NewRun(kind, order, quote) ==
    [kind |-> kind, owner |-> wallet, address |-> hook.address,
     order |-> order, quote |-> quote, stage |-> "approval", tx |-> "none"]

LEMMA Appended ==
    ASSUME NEW T, NEW s \in Seq(T), NEW t \in T
    PROVE  /\ Append(s, t) \in Seq(T) /\ Len(s) \in Nat
           /\ Len(Append(s, t)) = Len(s) + 1
           /\ Append(s, t)[Len(s) + 1] = t
           /\ \A j \in DOMAIN s : Append(s, t)[j] = s[j]
           /\ DOMAIN Append(s, t) = DOMAIN s \cup {Len(s) + 1}
           /\ Len(s) + 1 \notin DOMAIN s
<1>1. DOMAIN s = 1 .. Len(s) /\ Len(s) \in Nat
  OBVIOUS
<1>2. /\ Append(s, t) \in Seq(T)
      /\ Len(Append(s, t)) = Len(s) + 1
      /\ Append(s, t)[Len(s) + 1] = t
      /\ \A j \in 1 .. Len(s) : Append(s, t)[j] = s[j]
  OBVIOUS
<1>3. DOMAIN Append(s, t) = 1 .. Len(s) + 1
  BY <1>2
<1>4. QED
  BY <1>1, <1>2, <1>3

LEMMA RunAppended ==
    ASSUME RunsTypeOK, NEW added \in Run, SignedRun(added),
           runs' = Append(runs, added)
    PROVE  /\ RunAdded(added)
           /\ Runs' = Runs \cup {Len(runs) + 1} /\ Len(runs) + 1 \notin Runs
           /\ RunsTypeOK'
<1>1. runs \in Seq(Run) /\ \A i \in Runs : SignedRun(runs[i])
  BY DEF RunsTypeOK
<1>2. /\ runs' \in Seq(Run)
      /\ Len(runs') = Len(runs) + 1
      /\ runs'[Len(runs) + 1] = added
      /\ \A j \in DOMAIN runs : runs'[j] = runs[j]
      /\ DOMAIN runs' = DOMAIN runs \cup {Len(runs) + 1}
      /\ Len(runs) + 1 \notin DOMAIN runs
  <2> DEFINE r == runs
  <2>1. r \in Seq(Run)
    BY <1>1
  <2> HIDE DEF r
  <2>2. /\ Append(r, added) \in Seq(Run)
        /\ Len(Append(r, added)) = Len(r) + 1
        /\ Append(r, added)[Len(r) + 1] = added
        /\ \A j \in DOMAIN r : Append(r, added)[j] = r[j]
        /\ DOMAIN Append(r, added) = DOMAIN r \cup {Len(r) + 1}
        /\ Len(r) + 1 \notin DOMAIN r
    BY <2>1, Appended
  <2>3. QED
    BY <2>2 DEF r
<1>3. QED
  BY <1>1, <1>2 DEF RunAdded, RunsTypeOK, Runs

LEMMA RunStarted ==
    ASSUME ChainTypeOK, NEW kind, NEW order, NEW quote \in Nat,
           \/ kind = "open" /\ order = "no order"
           \/ kind = "trade" /\ order \in Orders,
           StartsRun(kind, order, quote)
    PROVE  /\ RunAdded(NewRun(kind, order, quote))
           /\ Runs' = Runs \cup {Len(runs) + 1} /\ Len(runs) + 1 \notin Runs
           /\ RunsTypeOK'
<1>1. NewRun(kind, order, quote) \in Run
  BY DEF ChainTypeOK, HookTypeOK, Hook, NewRun, Run, Stages
<1>2. runs' = Append(runs, NewRun(kind, order, quote))
  BY DEF StartsRun, NewRun
<1>3. SignedRun(NewRun(kind, order, quote))
  BY DEF NewRun, SignedRun
<1>4. QED
  BY <1>1, <1>2, <1>3, RunAppended DEF ChainTypeOK

-----------------------------------------------------------------------------
(* Every step keeps the types *)

LEMMA RunGoneTypes ==
    ASSUME RunsTypeOK, NEW i \in Runs, NEW stage, NEW tx,
           RunGoes(i, stage, tx),
           stage = "sent" \/ tx = "flying" => runs[i].owner \in WALLETS
    PROVE  RunsTypeOK'
<1>1. \A j \in Runs : SignedRun(runs[j])
  BY DEF RunsTypeOK
<1>2. /\ Runs' = Runs
      /\ runs'[i].stage = stage /\ runs'[i].tx = tx
      /\ runs'[i].owner = runs[i].owner /\ runs'[i].kind = runs[i].kind
      /\ runs'[i].order = runs[i].order
  BY RunGone
<1>3. ASSUME NEW j \in Runs
      PROVE  SignedRun(runs'[j])
  <2>1. CASE j = i
    BY <1>1, <1>2, <2>1 DEF SignedRun
  <2>2. CASE j # i
    <3>1. runs'[j] = runs[j]
      BY <2>2 DEF RunGoes
    <3>2. QED
      BY <1>1, <3>1
  <2>3. QED
    BY <2>1, <2>2
<1>4. runs' \in Seq(Run)
  BY DEF RunGoes
<1>5. QED
  BY <1>2, <1>3, <1>4 DEF RunsTypeOK

NewRead(owner, n) ==
    [gen |-> generation + 1, owner |-> owner, run |-> n, served |-> FALSE,
     account |-> BlankAccount]

LEMMA ReadStarted ==
    ASSUME HookTypeOK, NEW owner \in WALLETS, NEW n \in Nat,
           StartsRead(owner, n), hook' \in Hook
    PROVE  HookTypeOK'
<1>1. generation \in Nat /\ reads \subseteq Read
  BY DEF HookTypeOK
<1>2. BlankAccount \in Account
  BY BlankAccountSound
<1>3. NewRead(owner, n) \in Read
  BY <1>1, <1>2 DEF NewRead, Read
<1>4. generation' \in Nat /\ reads' \subseteq Read
  <2>1. generation' = generation + 1 /\ reads' = reads \cup {NewRead(owner, n)}
    BY DEF StartsRead, NewRead
  <2>2. QED
    BY <1>1, <1>3, <2>1
<1>5. QED
  BY <1>4 DEF HookTypeOK

LEMMA HookKinds ==
    ASSUME hook \in Hook
    PROVE  /\ Loading(hook) \in Hook
           /\ \A b \in BOOLEAN : [hook EXCEPT !.busy = b] \in Hook
           /\ Disconnected \in Hook
           /\ \A owner \in WALLETS, account \in Account :
                Loaded(owner, account) \in Hook
<1>1. /\ hook.address \in Owners /\ hook.snapshot \in Account
      /\ hook.busy \in BOOLEAN
      /\ hook.status \in {"disconnected", "loading", "ready", "none", "error"}
  BY DEF Hook
<1>2. Loading(hook) \in Hook
  BY DEF Loading, Hook
<1>3. ASSUME NEW b \in BOOLEAN
      PROVE  [hook EXCEPT !.busy = b] \in Hook
  BY <1>3 DEF Hook
<1>4. Disconnected \in Hook
  <2>1. BlankAccount \in Account
    BY BlankAccountSound
  <2>2. QED
    BY <2>1 DEF Disconnected, Hook, Owners
<1>5. ASSUME NEW owner \in WALLETS, NEW account \in Account
      PROVE  Loaded(owner, account) \in Hook
  BY <1>5 DEF Loaded, Hook, Owners
<1>6. QED
  BY <1>2, <1>3, <1>4, <1>5

LEMMA FailedStep ==
    ASSUME ChainTypeOK, NEW i \in Runs, Failed(i)
    PROVE  /\ RunGoes(i, "failed", runs[i].tx)
           /\ runs[i].tx = "flying" => runs[i].owner \in WALLETS
           /\ hook' = [hook EXCEPT !.busy = FALSE]
           /\ Released(runs[i].quote, FALSE)
           /\ UNCHANGED <<programVars, wallet, generation, reads, next_id>>
<1>1. RunsTypeOK /\ SignedRun(runs[i])
  BY DEF ChainTypeOK, RunsTypeOK
<1>2. RunGoes(i, "failed", runs[i].tx)
  BY <1>1, StageWritten DEF Failed, Stages
<1>3. QED
  BY <1>1, <1>2 DEF Failed, SignedRun

LEMMA ReleasedTypes ==
    ASSUME DeskTypeOK, NEW quote, NEW ok, Released(quote, ok),
           next_id' \in Nat \ {0}
    PROVE  DeskTypeOK'
  BY DEF DeskTypeOK, Released

\* What the end of a read does to the run that asked for it.
LEMMA RunEndsEffect ==
    ASSUME ChainInv, NEW read \in reads, RunEnds(read)
    PROVE  \/ /\ read.run = 0
              /\ UNCHANGED <<runs, quotes, pending>>
           \/ /\ read.run \in Runs /\ runs[read.run].stage = "refreshing"
              /\ RunGoes(read.run, "done", runs[read.run].tx)
              /\ Released(runs[read.run].quote, TRUE)
              /\ RunsTypeOK'
<1> DEFINE i == read.run
<1>1. CASE i = 0
  BY <1>1 DEF RunEnds
<1>2. CASE i # 0
  <2>1. i \in Runs /\ runs[i].stage = "refreshing"
    BY <1>2 DEF ChainInv, RefreshInv
  <2>2. /\ runs' = [runs EXCEPT ![i].stage = "done"]
        /\ Released(runs[i].quote, TRUE)
    BY <1>2 DEF RunEnds
  <2>3. RunsTypeOK /\ SignedRun(runs[i])
    BY <2>1 DEF ChainInv, ChainTypeOK, RunsTypeOK
  <2> HIDE DEF i
  <2>4. RunGoes(i, "done", runs[i].tx)
    BY <2>1, <2>2, <2>3, StageWritten DEF Stages
  <2>5. RunsTypeOK'
    BY <2>1, <2>3, <2>4, RunGoneTypes DEF SignedRun
  <2>6. QED
    BY <2>1, <2>2, <2>4, <2>5 DEF i
<1>3. QED
  BY <1>1, <1>2

LEMMA SyncedId ==
    ASSUME DeskTypeOK, NEW account \in Account,
           Synced(account) \/ UNCHANGED <<desk, next_id>>
    PROVE  next_id' \in Nat \ {0} /\ next_id <= next_id'
<1>1. account.trade_count \in Nat /\ next_id \in Nat \ {0}
  BY DEF DeskTypeOK, Account
<1>2. QED
  BY <1>1 DEF Synced

\* What a read that returns does to the display and the desk.
LEMMA ReadReturnsEffect ==
    ASSUME ChainInv, NEW read \in reads, ReadReturns(read)
    PROVE  /\ read.served /\ reads' = reads \ {read}
           /\ UNCHANGED <<programVars, wallet, generation>>
           /\ \/ Newest(read) /\ hook' = Loaded(read.owner, read.account)
              \/ hook' = hook
              \/ hook' = [hook EXCEPT !.busy = FALSE]
           /\ next_id' \in Nat \ {0} /\ next_id <= next_id'
           /\ RunEnds(read)
<1>1. read \in Read /\ DeskTypeOK
  BY DEF ChainInv, ChainTypeOK, HookTypeOK
<1>2. read.account \in Account
  BY <1>1 DEF Read
<1>3. Synced(read.account) \/ UNCHANGED <<desk, next_id>>
  BY DEF ReadReturns, Shows
<1>4. next_id' \in Nat \ {0} /\ next_id <= next_id'
  BY <1>1, <1>2, <1>3, SyncedId
<1>5. QED
  BY <1>4 DEF ReadReturns, Shows

LEMMA ReadFailsEffect ==
    ASSUME ChainInv, NEW read \in reads, ReadFails(read)
    PROVE  /\ reads' = reads \ {read}
           /\ UNCHANGED <<programVars, wallet, generation, next_id>>
           /\ hook' \in Hook
           /\ hook'.address = hook.address /\ hook'.snapshot = hook.snapshot
           /\ RunEnds(read)
<1>1. /\ hook.address \in Owners /\ hook.snapshot \in Account
      /\ hook.busy \in BOOLEAN /\ hook \in Hook
      /\ hook.status \in {"disconnected", "loading", "ready", "none", "error"}
  BY DEF ChainInv, ChainTypeOK, HookTypeOK, Hook
<1>2. /\ hook' \in Hook
      /\ hook'.address = hook.address /\ hook'.snapshot = hook.snapshot
  <2> DEFINE status == IF Newest(read) THEN "error" ELSE hook.status
             busy   == IF read.run = 0 THEN hook.busy ELSE FALSE
  <2>1. hook' = [hook EXCEPT !.status = status, !.busy = busy]
    BY DEF ReadFails
  <2>2. /\ status \in {"disconnected", "loading", "ready", "none", "error"}
        /\ busy \in BOOLEAN
    BY <1>1
  <2> HIDE DEF status, busy
  <2>3. QED
    BY <1>1, <2>1, <2>2 DEF Hook
<1>3. QED
  BY <1>2 DEF ReadFails

\* A read that is served gets the account as it is now.
LEMMA ReadServedEffect ==
    ASSUME ChainInv, NEW read \in reads, ReadServed(read)
    PROVE  \E served \in Read :
             /\ served.gen = read.gen /\ served.owner = read.owner
             /\ served.run = read.run /\ served.served
             /\ served.account = portfolios[read.owner]
             /\ reads' = (reads \ {read}) \cup {served}
<1> DEFINE served == [read EXCEPT !.served = TRUE,
                                  !.account = portfolios[read.owner]]
<1>1. read \in Read /\ portfolios \in [WALLETS -> Account]
  BY DEF ChainInv, ChainTypeOK, HookTypeOK, LedgerInv, PortfolioInv, TypeOK
<1>2. portfolios[read.owner] \in Account
  BY <1>1 DEF Read
<1>3. /\ served \in Read
      /\ served.gen = read.gen /\ served.owner = read.owner
      /\ served.run = read.run /\ served.served
      /\ served.account = portfolios[read.owner]
  BY <1>1, <1>2 DEF Read
<1>4. reads' = (reads \ {read}) \cup {served}
  BY DEF ReadServed
<1> HIDE DEF served
<1>5. QED
  BY <1>3, <1>4

\* A transaction asked for with the wallet and the portfolio of now.
LEMMA StartsRunEffect ==
    ASSUME ChainInv, NEW kind, NEW order, NEW quote \in Nat,
           \/ kind = "open" /\ order = "no order"
           \/ kind = "trade" /\ order \in Orders,
           StartsRun(kind, order, quote)
    PROVE  /\ RunAdded(NewRun(kind, order, quote))
           /\ Runs' = Runs \cup {Len(runs) + 1} /\ Len(runs) + 1 \notin Runs
           /\ RunsTypeOK' /\ HookTypeOK' /\ wallet' \in Owners
           /\ UNCHANGED <<programVars, generation, reads>>
           /\ hook'.address = hook.address /\ hook'.snapshot = hook.snapshot
<1>1. ChainTypeOK /\ hook \in Hook
  BY DEF ChainInv, ChainTypeOK, HookTypeOK
<1>2. /\ hook' = [hook EXCEPT !.busy = TRUE]
      /\ UNCHANGED <<programVars, wallet, generation, reads>>
  BY DEF StartsRun
<1>3. /\ hook' \in Hook
      /\ hook'.address = hook.address /\ hook'.snapshot = hook.snapshot
  BY <1>1, <1>2 DEF Hook
<1>4. HookTypeOK' /\ wallet' \in Owners
  BY <1>1, <1>2, <1>3 DEF ChainTypeOK, HookTypeOK
<1>5. QED
  BY <1>1, <1>2, <1>3, <1>4, RunStarted

LEMMA UserTypes ==
    ASSUME ChainInv, UserStep
    PROVE  ChainTypeOK'
<1>1. ChainTypeOK /\ wallet \in Owners /\ HookTypeOK /\ RunsTypeOK /\ DeskTypeOK
      /\ hook \in Hook
  BY DEF ChainInv, ChainTypeOK, HookTypeOK
<1>2. ASSUME NEW w \in Owners, Switch(w)
      PROVE  ChainTypeOK'
  <2>1. wallet' \in Owners /\ RunsTypeOK' /\ DeskTypeOK'
    BY <1>1, <1>2 DEF Switch, RunsTypeOK, Runs, DeskTypeOK, deskVars
  <2>2. HookTypeOK'
    <3>1. CASE w = NoWallet
      <4>1. generation' = generation + 1 /\ hook' = Disconnected
            /\ reads' = reads
        BY <1>2, <3>1 DEF Switch
      <4>2. QED
        BY <1>1, <4>1, HookKinds DEF HookTypeOK
    <3>2. CASE w # NoWallet
      <4>1. w \in WALLETS /\ StartsRead(w, 0) /\ hook' = Loading(hook)
        BY <1>2, <3>2 DEF Switch, Owners
      <4>2. QED
        BY <1>1, <4>1, HookKinds, ReadStarted
    <3>3. QED
      BY <3>1, <3>2
  <2>3. QED
    BY <2>1, <2>2 DEF ChainTypeOK
<1>3. CASE Retry
  <2>1. wallet' \in Owners /\ RunsTypeOK' /\ DeskTypeOK'
    BY <1>1, <1>3 DEF Retry, RunsTypeOK, Runs, DeskTypeOK, deskVars
  <2>2. wallet \in WALLETS /\ StartsRead(wallet, 0) /\ hook' = Loading(hook)
    BY <1>1, <1>3 DEF Retry, Owners
  <2>3. HookTypeOK'
    BY <1>1, <2>2, HookKinds, ReadStarted
  <2>4. QED
    BY <2>1, <2>3 DEF ChainTypeOK
<1>4. ASSUME NEW kind, NEW order,
             \/ kind = "open" /\ order = "no order"
             \/ kind = "trade" /\ order \in Orders,
             StartsRun(kind, order, 0), UNCHANGED deskVars
      PROVE  ChainTypeOK'
  <2>1. DeskTypeOK'
    BY <1>1, <1>4 DEF DeskTypeOK, deskVars
  <2>2. QED
    BY <1>4, <2>1, StartsRunEffect DEF ChainTypeOK
<1>5. CASE Open
  BY <1>4, <1>5 DEF Open
<1>6. ASSUME NEW order \in MarketOrders, SubmitMarket(order)
      PROVE  ChainTypeOK'
  BY <1>4, <1>6 DEF SubmitMarket
<1>7. ASSUME NEW order \in QuoteOrders, PlaceQuote(order)
      PROVE  ChainTypeOK'
  <2>1. DeskTypeOK'
    BY <1>1, <1>7 DEF PlaceQuote, DeskTypeOK
  <2>2. QED
    BY <1>1, <1>7, <2>1
       DEF PlaceQuote, ChainTypeOK, HookTypeOK, RunsTypeOK, Runs, hookVars
<1>8. ASSUME NEW q \in quotes, CancelQuote(q)
      PROVE  ChainTypeOK'
  <2>1. DeskTypeOK'
    BY <1>1, <1>8 DEF CancelQuote, DeskTypeOK
  <2>2. QED
    BY <1>1, <1>8, <2>1
       DEF CancelQuote, ChainTypeOK, HookTypeOK, RunsTypeOK, Runs, hookVars
<1>9. QED
  BY <1>2, <1>3, <1>5, <1>6, <1>7, <1>8 DEF UserStep, Owners

\* The steps that move one run on and leave the desk alone.
RunMoves(i) ==
    WalletApproves(i) \/ TxConfirmed(i) \/ TxLands(i) \/ TxVanishes(i)

LEMMA RunMovesEffect ==
    ASSUME ChainInv, NEW i \in Runs, RunMoves(i)
    PROVE  /\ \E stage, tx :
                /\ RunGoes(i, stage, tx)
                /\ stage \in Ended <=> runs[i].stage \in Ended
                /\ runs[i].stage = "refreshing" => stage = "refreshing"
           /\ RunsTypeOK'
           /\ UNCHANGED <<wallet, deskVars>>
<1>1. RunsTypeOK /\ SignedRun(runs[i]) /\ runs[i] \in Run
  BY DEF ChainInv, ChainTypeOK, RunsTypeOK, Runs
<1>2. CASE WalletApproves(i)
  <2>1. /\ runs[i].stage = "approval" /\ runs[i].owner \in WALLETS
        /\ runs' = [runs EXCEPT ![i] = [runs[i] EXCEPT !.stage = "sent",
                                                        !.tx = "flying"]]
    BY <1>1, <1>2 DEF WalletApproves, Run, Owners
  <2>2. RunGoes(i, "sent", "flying")
    BY <1>1, <2>1, RunWritten DEF Stages
  <2>3. RunsTypeOK'
    BY <1>1, <2>1, <2>2, RunGoneTypes
  <2>4. QED
    BY <1>2, <2>1, <2>2, <2>3 DEF WalletApproves, Ended
<1>3. CASE TxConfirmed(i)
  <2>1. runs[i].stage = "sent" /\ runs' = [runs EXCEPT ![i].stage = "refreshing"]
    BY <1>3 DEF TxConfirmed
  <2>2. RunGoes(i, "refreshing", runs[i].tx)
    BY <1>1, <2>1, StageWritten DEF Stages
  <2>3. RunsTypeOK'
    BY <1>1, <2>2, RunGoneTypes DEF SignedRun
  <2>4. QED
    BY <1>3, <2>1, <2>2, <2>3 DEF TxConfirmed, Ended
<1>4. CASE TxLands(i) \/ TxVanishes(i)
  <2>1. PICK tx \in {"landed", "vanished"} : runs' = [runs EXCEPT ![i].tx = tx]
    BY <1>4 DEF TxLands, TxVanishes
  <2>2. RunGoes(i, runs[i].stage, tx)
    BY <1>1, <2>1, TxWritten
  <2>3. RunsTypeOK'
    BY <1>1, <2>2, RunGoneTypes DEF SignedRun
  <2>4. QED
    BY <1>4, <2>2, <2>3 DEF TxLands, TxVanishes
<1>5. QED
  BY <1>2, <1>3, <1>4 DEF RunMoves

LEMMA TxConfirmedHook ==
    ASSUME ChainInv, NEW i \in Runs, TxConfirmed(i)
    PROVE  /\ runs[i].owner \in WALLETS /\ i \in Nat
           /\ StartsRead(runs[i].owner, i) /\ hook' = Loading(hook)
           /\ HookTypeOK'
<1>1. /\ RunsTypeOK /\ SignedRun(runs[i]) /\ HookTypeOK /\ hook \in Hook
      /\ i \in Nat
  BY DEF ChainInv, ChainTypeOK, HookTypeOK, RunsTypeOK, Runs
<1>2. runs[i].owner \in WALLETS
  BY <1>1 DEF TxConfirmed, SignedRun
<1>3. StartsRead(runs[i].owner, i) /\ hook' = Loading(hook)
  BY DEF TxConfirmed
<1>4. HookTypeOK'
  BY <1>1, <1>2, <1>3, HookKinds, ReadStarted
<1>5. QED
  BY <1>1, <1>2, <1>3, <1>4

LEMMA TypesStep ==
    ASSUME ChainInv, [Next]_vars
    PROVE  ChainTypeOK'
<1>1. ChainTypeOK /\ wallet \in Owners /\ HookTypeOK /\ RunsTypeOK /\ DeskTypeOK
      /\ hook \in Hook /\ reads \subseteq Read /\ generation \in Nat
  BY DEF ChainInv, ChainTypeOK, HookTypeOK
<1>2. ASSUME NEW q \in quotes, FillQuote(q)
      PROVE  ChainTypeOK'
  <2>1. q.order \in Orders /\ q.id \in Nat
    BY <1>1 DEF DeskTypeOK
  <2>2. DeskTypeOK'
    BY <1>1, <1>2, <2>1 DEF FillQuote, DeskTypeOK
  <2>3. QED
    BY <1>2, <2>1, <2>2, StartsRunEffect DEF FillQuote, ChainTypeOK
<1>3. ASSUME NEW i \in Runs, RunMoves(i)
      PROVE  ChainTypeOK'
  <2>1. HookTypeOK'
    <3>1. CASE TxConfirmed(i)
      BY <3>1, TxConfirmedHook
    <3>2. CASE ~TxConfirmed(i)
      BY <1>1, <1>3, <3>2
         DEF RunMoves, WalletApproves, TxLands, TxVanishes, hookVars, HookTypeOK
    <3>3. QED
      BY <3>1, <3>2
  <2>2. RunsTypeOK' /\ UNCHANGED <<wallet, deskVars>>
    BY <1>3, RunMovesEffect
  <2>3. QED
    BY <1>1, <2>1, <2>2 DEF ChainTypeOK, DeskTypeOK, deskVars
<1>4. ASSUME NEW i \in Runs, Failed(i)
      PROVE  ChainTypeOK'
  <2>1. /\ RunGoes(i, "failed", runs[i].tx)
        /\ runs[i].tx = "flying" => runs[i].owner \in WALLETS
        /\ hook' = [hook EXCEPT !.busy = FALSE]
        /\ Released(runs[i].quote, FALSE)
        /\ UNCHANGED <<wallet, generation, reads, next_id>>
    BY <1>1, <1>4, FailedStep
  <2>2. RunsTypeOK'
    BY <1>1, <2>1, RunGoneTypes
  <2>3. HookTypeOK'
    BY <1>1, <2>1, HookKinds DEF HookTypeOK
  <2>4. DeskTypeOK'
    BY <1>1, <2>1, ReleasedTypes DEF DeskTypeOK
  <2>5. QED
    BY <1>1, <2>1, <2>2, <2>3, <2>4 DEF ChainTypeOK
<1>5. ASSUME NEW read \in reads, ReadServed(read)
      PROVE  ChainTypeOK'
  <2>1. reads' \subseteq Read
    BY <1>1, <1>5, ReadServedEffect
  <2>2. QED
    BY <1>1, <1>5, <2>1
       DEF ReadServed, ChainTypeOK, HookTypeOK, RunsTypeOK, Runs, DeskTypeOK,
           deskVars
<1>6. ASSUME NEW read \in reads, RunEnds(read), next_id' \in Nat \ {0}
      PROVE  RunsTypeOK' /\ DeskTypeOK'
  <2>1. CASE UNCHANGED <<runs, quotes, pending>>
    BY <1>1, <1>6, <2>1 DEF RunsTypeOK, Runs, DeskTypeOK
  <2>2. CASE RunsTypeOK' /\ Released(runs[read.run].quote, TRUE)
    BY <1>1, <1>6, <2>2, ReleasedTypes
  <2>3. QED
    BY <1>6, <2>1, <2>2, RunEndsEffect
<1>7. ASSUME NEW read \in reads, ReadReturns(read)
      PROVE  ChainTypeOK'
  <2>1. read.owner \in WALLETS /\ read.account \in Account
    BY <1>1 DEF Read
  <2>2. hook' \in Hook
    BY <1>1, <1>7, <2>1, ReadReturnsEffect, HookKinds
  <2>3. HookTypeOK' /\ wallet' \in Owners
    BY <1>1, <1>7, <2>2, ReadReturnsEffect DEF HookTypeOK
  <2>4. QED
    BY <1>6, <1>7, <2>3, ReadReturnsEffect DEF ChainTypeOK
<1>8. ASSUME NEW read \in reads, ReadFails(read)
      PROVE  ChainTypeOK'
  <2>1. HookTypeOK' /\ wallet' \in Owners
    BY <1>1, <1>8, ReadFailsEffect DEF HookTypeOK
  <2>2. next_id' \in Nat \ {0} /\ RunEnds(read)
    BY <1>1, <1>8, ReadFailsEffect DEF DeskTypeOK
  <2>3. QED
    BY <1>6, <2>1, <2>2 DEF ChainTypeOK
<1>9. CASE UNCHANGED vars
  BY <1>1, <1>9
     DEF vars, chainVars, hookVars, deskVars, ChainTypeOK, HookTypeOK,
         RunsTypeOK, Runs, DeskTypeOK
<1>10. QED
  BY <1>2, <1>3, <1>4, <1>5, <1>7, <1>8, <1>9, UserTypes
     DEF Next, HookStep, WalletAnswers, RunMoves, TxUnclear, WalletRejects

-----------------------------------------------------------------------------
(* No quote is filled twice *)

RunFacts ==
    /\ RunsTypeOK /\ DeskTypeOK
    /\ \A i \in Runs : runs[i].quote \in Nat /\ runs[i].stage \in Stages
    /\ next_id \in Nat \ {0} /\ pending \in Nat
    /\ \A q \in quotes : q.id \in Nat \ {0}

LEMMA RunFactsHold ==
    ASSUME ChainInv
    PROVE  RunFacts
<1>1. RunsTypeOK /\ DeskTypeOK
  BY DEF ChainInv, ChainTypeOK
<1>2. \A i \in Runs : runs[i] \in Run
  BY <1>1 DEF RunsTypeOK, Runs
<1>3. \A i \in Runs : runs[i].quote \in Nat /\ runs[i].stage \in Stages
  BY <1>2 DEF Run
<1>4. QED
  BY <1>1, <1>3 DEF RunFacts, DeskTypeOK

\* A run that goes on without ending, and quotes that come or go.
LEMMA QuietFills ==
    ASSUME ChainInv, NEW i \in Runs, NEW stage, NEW tx,
           RunGoes(i, stage, tx),
           stage \in Ended <=> runs[i].stage \in Ended,
           UNCHANGED <<quotes, next_id, pending>>
    PROVE  FillsInv'
<1>1. RunFacts /\ FillsInv
  BY RunFactsHold DEF ChainInv
<1>2. /\ Runs' = Runs
      /\ \A j \in Runs :
           /\ runs'[j].quote = runs[j].quote
           /\ runs'[j].stage \in Ended <=> runs[j].stage \in Ended
  BY <1>1, RunGone DEF RunFacts
<1>3. QED
  BY <1>1, <1>2 DEF FillsInv, QuoteFillsOnce

\* A run that ends takes its quote with it.
LEMMA ReleasedFills ==
    ASSUME ChainInv, NEW i \in Runs, NEW stage \in Ended, NEW tx, NEW ok,
           runs[i].stage \notin Ended,
           RunGoes(i, stage, tx),
           Released(runs[i].quote, ok),
           next_id' \in Nat, next_id <= next_id'
    PROVE  FillsInv'
<1>1. RunFacts /\ FillsInv
  BY RunFactsHold DEF ChainInv
<1>2. /\ Runs' = Runs /\ runs'[i].stage = stage
      /\ \A j \in Runs :
           /\ runs'[j].quote = runs[j].quote
           /\ j # i => runs'[j].stage = runs[j].stage
  BY <1>1, RunGone DEF RunFacts
<1>3. /\ quotes' = {q \in quotes : q.id # runs[i].quote}
      /\ runs[i].quote # 0 => pending' = 0
      /\ runs[i].quote = 0 => pending' = pending
  BY DEF Released
<1>4. ASSUME NEW j \in Runs
      PROVE  /\ runs'[j].quote < next_id'
             /\ runs'[j].quote # 0 =>
                  IF runs'[j].stage \in Ended
                  THEN \A q \in quotes' : q.id # runs'[j].quote
                  ELSE pending' = runs'[j].quote
  <2>1. runs'[j].quote < next_id'
    BY <1>1, <1>2 DEF RunFacts, FillsInv
  <2>2. CASE j = i
    BY <1>2, <1>3, <2>1, <2>2
  <2>3. CASE j # i /\ runs[j].stage \in Ended
    BY <1>1, <1>2, <1>3, <2>1, <2>3 DEF FillsInv
  <2>4. CASE j # i /\ runs[j].stage \notin Ended /\ runs[j].quote # 0
    <3>1. pending = runs[j].quote
      BY <1>1, <2>4 DEF FillsInv
    <3>2. runs[i].quote = 0
      <4>1. SUFFICES ASSUME runs[i].quote # 0
                     PROVE  FALSE
        OBVIOUS
      <4>2. pending = runs[i].quote
        BY <1>1, <4>1 DEF FillsInv
      <4>3. QED
        BY <1>1, <2>4, <3>1, <4>1, <4>2 DEF FillsInv, QuoteFillsOnce
    <3>3. QED
      BY <1>2, <1>3, <2>1, <2>4, <3>1, <3>2
  <2>5. QED
    BY <1>2, <2>1, <2>2, <2>3, <2>4
<1>5. \A q \in quotes' : q.id < next_id'
  BY <1>1, <1>3 DEF RunFacts, FillsInv
<1>6. QuoteFillsOnce'
  BY <1>1, <1>2 DEF FillsInv, QuoteFillsOnce
<1>7. QED
  BY <1>2, <1>4, <1>5, <1>6 DEF FillsInv

\* A run that is added fills no quote, or one while none is pending.
LEMMA AddedFills ==
    ASSUME ChainInv, NEW kind, NEW order, NEW quote \in Nat,
           RunAdded(NewRun(kind, order, quote)),
           Runs' = Runs \cup {Len(runs) + 1}, Len(runs) + 1 \notin Runs,
           UNCHANGED <<quotes, next_id>>,
           \/ quote = 0 /\ pending' = pending
           \/ /\ pending = 0 /\ pending' = quote
              /\ \E q \in quotes : q.id = quote
    PROVE  FillsInv'
<1> DEFINE n == Len(runs) + 1
<1>1. RunFacts /\ FillsInv
  BY RunFactsHold DEF ChainInv
<1>2. /\ \A j \in Runs : runs'[j] = runs[j]
      /\ runs'[n].quote = quote /\ runs'[n].stage = "approval"
  BY DEF RunAdded, NewRun
<1>3. n \notin Runs /\ Runs' = Runs \cup {n}
  OBVIOUS
<1> HIDE DEF n
<1>4. "approval" \notin Ended
  BY DEF Ended
<1>5. CASE quote = 0 /\ pending' = pending
  BY <1>1, <1>2, <1>3, <1>4, <1>5 DEF FillsInv, QuoteFillsOnce, RunFacts
<1>6. ASSUME pending = 0, pending' = quote, NEW q \in quotes, q.id = quote
      PROVE  FillsInv'
  <2>1. quote # 0 /\ quote < next_id
    BY <1>1, <1>6 DEF RunFacts, FillsInv
  <2>2. \A j \in Runs : runs[j].quote # 0 =>
          runs[j].stage \in Ended /\ runs[j].quote # quote
    BY <1>1, <1>6 DEF FillsInv
  <2>3. QuoteFillsOnce'
    BY <1>1, <1>2, <1>3, <2>1, <2>2 DEF FillsInv, QuoteFillsOnce
  <2>4. \A j \in Runs' :
          /\ runs'[j].quote < next_id'
          /\ runs'[j].quote # 0 =>
               IF runs'[j].stage \in Ended
               THEN \A r \in quotes' : r.id # runs'[j].quote
               ELSE pending' = runs'[j].quote
    BY <1>1, <1>2, <1>3, <1>4, <1>6, <2>1, <2>2 DEF FillsInv
  <2>5. QED
    BY <1>1, <2>3, <2>4 DEF FillsInv
<1>7. QED
  BY <1>5, <1>6

LEMMA EndedFills ==
    ASSUME ChainInv, NEW read \in reads, RunEnds(read),
           next_id' \in Nat, next_id <= next_id'
    PROVE  FillsInv'
<1>1. RunFacts /\ FillsInv
  BY RunFactsHold DEF ChainInv
<1>2. CASE UNCHANGED <<runs, quotes, pending>>
  BY <1>1, <1>2 DEF FillsInv, QuoteFillsOnce, Runs, RunFacts
<1>3. CASE /\ read.run \in Runs /\ runs[read.run].stage = "refreshing"
           /\ RunGoes(read.run, "done", runs[read.run].tx)
           /\ Released(runs[read.run].quote, TRUE)
  <2>1. "done" \in Ended /\ "refreshing" \notin Ended
    BY DEF Ended
  <2>2. QED
    BY <1>3, <2>1, ReleasedFills
<1>4. QED
  BY <1>2, <1>3, RunEndsEffect

LEMMA FillsStep ==
    ASSUME ChainInv, [Next]_vars
    PROVE  FillsInv'
<1>1. RunFacts /\ FillsInv
  BY RunFactsHold DEF ChainInv
<1>2. CASE UNCHANGED <<runs, quotes, next_id, pending>>
  BY <1>1, <1>2 DEF FillsInv, QuoteFillsOnce, Runs
<1>3. ASSUME NEW q \in quotes, FillQuote(q)
      PROVE  FillsInv'
  <2>1. /\ q.order \in Orders /\ q.id \in Nat
        /\ StartsRun("trade", q.order, q.id)
        /\ pending = 0 /\ pending' = q.id
        /\ UNCHANGED <<quotes, next_id>>
    BY <1>1, <1>3 DEF FillQuote, NoFillUnderWay, RunFacts, DeskTypeOK
  <2>2. /\ RunAdded(NewRun("trade", q.order, q.id))
        /\ Runs' = Runs \cup {Len(runs) + 1} /\ Len(runs) + 1 \notin Runs
    BY <2>1, StartsRunEffect
  <2>3. QED
    BY <2>1, <2>2, AddedFills
<1>4. ASSUME NEW kind, NEW order,
             \/ kind = "open" /\ order = "no order"
             \/ kind = "trade" /\ order \in Orders,
             StartsRun(kind, order, 0), UNCHANGED deskVars
      PROVE  FillsInv'
  <2>1. /\ RunAdded(NewRun(kind, order, 0))
        /\ Runs' = Runs \cup {Len(runs) + 1} /\ Len(runs) + 1 \notin Runs
    BY <1>4, StartsRunEffect
  <2>2. UNCHANGED <<quotes, next_id>> /\ pending' = pending
    BY <1>4 DEF deskVars
  <2>3. QED
    BY <2>1, <2>2, AddedFills
<1>5. CASE Open \/ \E order \in MarketOrders : SubmitMarket(order)
  BY <1>4, <1>5 DEF Open, SubmitMarket
<1>6. ASSUME NEW order \in QuoteOrders, PlaceQuote(order)
      PROVE  FillsInv'
  <2>1. /\ quotes' = quotes \cup {[id |-> next_id, order |-> order]}
        /\ next_id' = next_id + 1 /\ UNCHANGED <<runs, pending>>
    BY <1>6 DEF PlaceQuote
  <2>2. /\ \A q \in quotes' : q.id < next_id'
        /\ \A q \in quotes' : q \in quotes \/ q.id = next_id
    BY <1>1, <2>1 DEF FillsInv, RunFacts
  <2>3. \A i \in Runs : runs[i].quote < next_id /\ runs[i].quote < next_id'
    BY <1>1, <2>1 DEF FillsInv, RunFacts
  <2>4. QED
    BY <1>1, <2>1, <2>2, <2>3 DEF FillsInv, QuoteFillsOnce, Runs, RunFacts
<1>7. ASSUME NEW q \in quotes, CancelQuote(q)
      PROVE  FillsInv'
  BY <1>1, <1>7 DEF CancelQuote, FillsInv, QuoteFillsOnce, Runs
<1>8. ASSUME NEW i \in Runs, RunMoves(i)
      PROVE  FillsInv'
  <2>1. PICK stage, tx :
          RunGoes(i, stage, tx) /\ (stage \in Ended <=> runs[i].stage \in Ended)
    BY <1>8, RunMovesEffect
  <2>2. UNCHANGED <<quotes, next_id, pending>>
    BY <1>8, RunMovesEffect DEF deskVars
  <2>3. QED
    BY <2>1, <2>2, QuietFills
<1>9. ASSUME NEW i \in Runs, Failed(i), runs[i].stage \notin Ended
      PROVE  FillsInv'
  <2>1. /\ RunGoes(i, "failed", runs[i].tx)
        /\ Released(runs[i].quote, FALSE)
        /\ next_id' = next_id
    BY <1>9, FailedStep DEF ChainInv
  <2>2. "failed" \in Ended /\ next_id \in Nat /\ next_id <= next_id'
    BY <1>1, <2>1 DEF Ended, RunFacts
  <2>3. QED
    BY <1>9, <2>1, <2>2, ReleasedFills
<1>10. ASSUME NEW i \in Runs, WalletRejects(i) \/ TxUnclear(i)
       PROVE  Failed(i) /\ runs[i].stage \notin Ended
  BY <1>10 DEF WalletRejects, TxUnclear, Ended
<1>11. ASSUME NEW read \in reads, ReadReturns(read) \/ ReadFails(read)
       PROVE  FillsInv'
  <2>1. RunEnds(read) /\ next_id' \in Nat /\ next_id <= next_id'
    BY <1>1, <1>11, ReadReturnsEffect, ReadFailsEffect DEF RunFacts
  <2>2. QED
    BY <2>1, EndedFills
<1>12. QED
  BY <1>2, <1>3, <1>5, <1>6, <1>7, <1>8, <1>9, <1>10, <1>11
     DEF Next, UserStep, HookStep, WalletAnswers, RunMoves, Switch, Retry,
         ReadServed, vars, chainVars, deskVars

LEMMA RefreshStep ==
    ASSUME ChainInv, [Next]_vars
    PROVE  RefreshInv'
<1>1. RunFacts /\ RefreshInv /\ reads \subseteq Read
  BY RunFactsHold DEF ChainInv, ChainTypeOK, HookTypeOK
<1>2. ASSUME \A j \in Runs : runs[j].stage = "refreshing" =>
                j \in Runs' /\ runs'[j].stage = "refreshing",
             \/ reads' = reads
             \/ \E owner : StartsRead(owner, 0)
      PROVE  RefreshInv'
  <2>1. \A r \in reads' : r.run # 0 => r \in reads
    BY <1>2 DEF StartsRead
  <2>2. QED
    BY <1>1, <1>2, <2>1 DEF RefreshInv
<1>3. CASE /\ runs' = runs
           /\ \/ reads' = reads
              \/ \E owner : StartsRead(owner, 0)
  BY <1>2, <1>3 DEF Runs
<1>4. ASSUME NEW kind, NEW order, NEW quote \in Nat,
             \/ kind = "open" /\ order = "no order"
             \/ kind = "trade" /\ order \in Orders,
             StartsRun(kind, order, quote)
      PROVE  RefreshInv'
  <2>1. /\ RunAdded(NewRun(kind, order, quote))
        /\ Runs' = Runs \cup {Len(runs) + 1} /\ reads' = reads
    BY <1>4, StartsRunEffect
  <2>2. QED
    BY <1>2, <2>1 DEF RunAdded
<1>5. CASE \/ Open
           \/ \E order \in MarketOrders : SubmitMarket(order)
           \/ \E q \in quotes : FillQuote(q)
  <2>1. \A q \in quotes : q.id \in Nat /\ q.order \in Orders
    BY <1>1 DEF RunFacts, DeskTypeOK
  <2>2. QED
    BY <1>4, <1>5, <2>1 DEF Open, SubmitMarket, FillQuote
<1>6. ASSUME NEW i \in Runs, RunMoves(i)
      PROVE  RefreshInv'
  <2>1. PICK stage, tx :
          /\ RunGoes(i, stage, tx)
          /\ runs[i].stage = "refreshing" => stage = "refreshing"
    BY <1>6, RunMovesEffect
  <2>2. /\ Runs' = Runs
        /\ \A j \in Runs : runs[j].stage = "refreshing" =>
              runs'[j].stage = "refreshing"
    BY <1>1, <2>1, RunGone DEF RunFacts
  <2>3. CASE TxConfirmed(i)
    <3>1. /\ runs[i].stage = "sent" /\ i # 0
          /\ reads' = reads \cup {NewRead(runs[i].owner, i)}
      BY <1>1, <2>3 DEF TxConfirmed, StartsRead, NewRead, RunFacts, RunsTypeOK,
                        Runs
    <3>2. runs'[i].stage = "refreshing"
      <4>1. runs' = [runs EXCEPT ![i].stage = "refreshing"]
        BY <2>3 DEF TxConfirmed
      <4>2. RunGoes(i, "refreshing", runs[i].tx)
        BY <1>1, <4>1, StageWritten DEF RunFacts, Stages
      <4>3. QED
        BY <1>1, <4>2, RunGone DEF RunFacts
    <3>3. \A r \in reads : r.run # i
      BY <1>1, <3>1 DEF RefreshInv
    <3>4. NewRead(runs[i].owner, i).run = i
      BY DEF NewRead
    <3>5. QED
      BY <1>1, <2>2, <3>1, <3>2, <3>3, <3>4 DEF RefreshInv
  <2>4. CASE ~TxConfirmed(i)
    <3>1. reads' = reads
      BY <1>6, <2>4 DEF RunMoves, WalletApproves, TxLands, TxVanishes, hookVars
    <3>2. QED
      BY <1>2, <2>2, <3>1
  <2>5. QED
    BY <2>3, <2>4
<1>7. ASSUME NEW i \in Runs, WalletRejects(i) \/ TxUnclear(i)
      PROVE  RefreshInv'
  <2>1. Failed(i) /\ runs[i].stage # "refreshing"
    BY <1>7 DEF WalletRejects, TxUnclear
  <2>2. RunGoes(i, "failed", runs[i].tx) /\ reads' = reads
    BY <2>1, FailedStep DEF ChainInv
  <2>3. QED
    BY <1>1, <1>2, <2>1, <2>2, RunGone DEF RunFacts
<1>8. ASSUME NEW read \in reads, ReadServed(read)
      PROVE  RefreshInv'
  <2>1. PICK served :
          /\ served.run = read.run
          /\ reads' = (reads \ {read}) \cup {served}
    BY <1>8, ReadServedEffect
  <2>2. runs' = runs
    BY <1>8 DEF ReadServed
  <2>3. QED
    BY <1>1, <2>1, <2>2 DEF RefreshInv, Runs
<1>9. ASSUME NEW read \in reads, ReadReturns(read) \/ ReadFails(read)
      PROVE  RefreshInv'
  <2>1. RunEnds(read) /\ reads' = reads \ {read}
    BY <1>9, ReadReturnsEffect, ReadFailsEffect
  <2>2. CASE UNCHANGED runs
    BY <1>1, <2>1, <2>2 DEF RefreshInv, Runs
  <2>3. CASE read.run \in Runs /\ RunGoes(read.run, "done", runs[read.run].tx)
    <3>1. /\ Runs' = Runs
          /\ \A j \in Runs : j # read.run => runs'[j].stage = runs[j].stage
      BY <1>1, <2>3, RunGone DEF RunFacts
    <3>2. \A r \in reads' : r.run # 0 => r.run # read.run
      BY <1>1, <2>1 DEF RefreshInv
    <3>3. QED
      BY <1>1, <2>1, <3>1, <3>2 DEF RefreshInv
  <2>4. QED
    BY <2>1, <2>2, <2>3, RunEndsEffect
<1>10. QED
  BY <1>3, <1>5, <1>6, <1>7, <1>8, <1>9
     DEF Next, UserStep, HookStep, WalletAnswers, RunMoves, Switch, Retry,
         PlaceQuote, CancelQuote, vars, chainVars, hookVars

-----------------------------------------------------------------------------
(* What is on display is true, and never goes back *)

LEMMA EarlierStays ==
    ASSUME LogsGrow, NEW w \in WALLETS, NEW account \in Account,
           Earlier(account, w)
    PROVE  /\ account.trade_count = Len(account.trade_log)
           /\ IsPrefix(account.trade_log, portfolios'[w].trade_log)
<1>1. /\ account.trade_log \in Seq(Fill)
      /\ LogOf(w) \in Seq(Fill) /\ LogOf(w)' \in Seq(Fill)
      /\ IsPrefix(LogOf(w), LogOf(w)')
  BY DEF LogsGrow, Account
<1>2. QED
  BY <1>1, PrefixExtends DEF Earlier, LogOf

ReadFacts ==
    /\ generation \in Nat
    /\ \A read \in reads :
         /\ read.gen \in Nat /\ read.owner \in WALLETS
         /\ read.account \in Account /\ read.account.trade_count \in Nat
    /\ hook.address \in Owners /\ hook.snapshot \in Account
    /\ hook.snapshot.trade_count \in Nat

LEMMA ReadFactsHold ==
    ASSUME ChainInv
    PROVE  ReadFacts
<1>1. generation \in Nat /\ reads \subseteq Read /\ hook \in Hook
  BY DEF ChainInv, ChainTypeOK, HookTypeOK
<1>2. \A read \in reads :
        read.gen \in Nat /\ read.owner \in WALLETS /\ read.account \in Account
  BY <1>1 DEF Read
<1>3. hook.address \in Owners /\ hook.snapshot \in Account
  BY <1>1 DEF Hook
<1>4. \A account \in Account : account.trade_count \in Nat
  BY DEF Account
<1>5. QED
  BY <1>1, <1>2, <1>3, <1>4 DEF ReadFacts

\* In every step, accounts that were read stay earlier states, and so does
\* what stays on display.
EarlierKept ==
    /\ \A read \in reads : read.served =>
         /\ read.account.trade_count = Len(read.account.trade_log)
         /\ IsPrefix(read.account.trade_log,
                     portfolios'[read.owner].trade_log)
    /\ hook.address # NoWallet =>
         /\ hook.snapshot.trade_count = Len(hook.snapshot.trade_log)
         /\ IsPrefix(hook.snapshot.trade_log,
                    portfolios'[hook.address].trade_log)

LEMMA EarlierIsKept ==
    ASSUME ChainInv, LogsGrow
    PROVE  EarlierKept
<1>1. ReadFacts /\ ReadsInv
  BY ReadFactsHold DEF ChainInv
<1>2. ASSUME NEW read \in reads, read.served
      PROVE  /\ read.account.trade_count = Len(read.account.trade_log)
             /\ IsPrefix(read.account.trade_log,
                     portfolios'[read.owner].trade_log)
  <2>1. /\ read.owner \in WALLETS /\ read.account \in Account
        /\ Earlier(read.account, read.owner)
    BY <1>1, <1>2 DEF ReadFacts, ReadsInv
  <2>2. QED
    BY <2>1, EarlierStays
<1>3. ASSUME hook.address # NoWallet
      PROVE  /\ hook.snapshot.trade_count = Len(hook.snapshot.trade_log)
             /\ IsPrefix(hook.snapshot.trade_log,
                    portfolios'[hook.address].trade_log)
  <2>1. /\ hook.address \in WALLETS /\ hook.snapshot \in Account
        /\ Earlier(hook.snapshot, hook.address)
    BY <1>1, <1>3 DEF ReadFacts, ReadsInv, Owners
  <2>2. QED
    BY <2>1, EarlierStays
<1>4. QED
  BY <1>2, <1>3 DEF EarlierKept

\* The display stays, or is cleared.
ShownStays ==
    \/ hook'.address = NoWallet
    \/ hook'.address = hook.address /\ hook'.snapshot = hook.snapshot

LEMMA FewerReads ==
    ASSUME ChainInv, LogsGrow, ShownStays, reads' \subseteq reads,
           generation' \in Nat, generation <= generation'
    PROVE  ReadsInv' /\ NeverOlder
<1>1. ReadFacts /\ ReadsInv /\ EarlierKept
  BY ReadFactsHold, EarlierIsKept DEF ChainInv
<1>2. ASSUME NEW read \in reads'
      PROVE  /\ read.gen <= generation'
             /\ read.served => /\ read.account.trade_count
                                   = Len(read.account.trade_log)
                               /\ IsPrefix(read.account.trade_log,
                                           portfolios'[read.owner].trade_log)
             /\ read.gen = generation' /\ read.served
                  /\ hook'.address = read.owner =>
                  hook'.snapshot.trade_count <= read.account.trade_count
  <2>1. read \in reads /\ read.gen \in Nat /\ generation \in Nat
        /\ read.gen <= generation /\ read.owner # NoWallet
    BY <1>1, <1>2 DEF ReadFacts, ReadsInv
  <2>2. read.gen = generation' => read.gen = generation
    BY <2>1
  <2>3. QED
    BY <1>1, <2>1, <2>2 DEF ReadsInv, Newest, EarlierKept, ShownStays
<1>3. hook'.address # NoWallet =>
        /\ hook'.snapshot.trade_count = Len(hook'.snapshot.trade_log)
        /\ IsPrefix(hook'.snapshot.trade_log,
                    portfolios'[hook'.address].trade_log)
  BY <1>1 DEF ShownStays, EarlierKept
<1>4. NeverOlder
  BY <1>1 DEF ShownStays, NeverOlder, ReadFacts
<1>5. QED
  BY <1>1, <1>2, <1>3, <1>4 DEF ReadsInv, Newest, Earlier, LogOf

LEMMA AnotherRead ==
    ASSUME ChainInv, LogsGrow, ShownStays, NEW owner \in WALLETS,
           NEW n \in Nat, StartsRead(owner, n)
    PROVE  ReadsInv' /\ NeverOlder
<1>1. ReadFacts /\ ReadsInv /\ EarlierKept
  BY ReadFactsHold, EarlierIsKept DEF ChainInv
<1>2. /\ generation' = generation + 1
      /\ reads' = reads \cup {NewRead(owner, n)}
  BY DEF StartsRead, NewRead
<1>3. /\ NewRead(owner, n).gen = generation + 1
      /\ ~NewRead(owner, n).served
  BY DEF NewRead
<1>4. \A read \in reads : read.gen # generation + 1 /\ read.gen <= generation + 1
  BY <1>1 DEF ReadFacts, ReadsInv
<1>5. \A read \in reads' :
        /\ read.gen <= generation'
        /\ read.served => /\ read.account.trade_count
                              = Len(read.account.trade_log)
                          /\ IsPrefix(read.account.trade_log,
                                      portfolios'[read.owner].trade_log)
        /\ ~(read.gen = generation' /\ read.served)
  BY <1>1, <1>2, <1>3, <1>4 DEF EarlierKept, ReadFacts
<1>6. \A read, other \in reads' : read.gen = other.gen => read = other
  BY <1>1, <1>2, <1>3, <1>4 DEF ReadsInv
<1>7. hook'.address # NoWallet =>
        /\ hook'.snapshot.trade_count = Len(hook'.snapshot.trade_log)
        /\ IsPrefix(hook'.snapshot.trade_log,
                    portfolios'[hook'.address].trade_log)
  BY <1>1 DEF ShownStays, EarlierKept
<1>8. NeverOlder
  BY <1>1 DEF ShownStays, NeverOlder, ReadFacts
<1>9. QED
  BY <1>5, <1>6, <1>7, <1>8 DEF ReadsInv, Newest, Earlier, LogOf

LEMMA ServedRead ==
    ASSUME ChainInv, NEW read \in reads, ReadServed(read)
    PROVE  ReadsInv' /\ NeverOlder
<1>1. ReadFacts /\ ReadsInv /\ PortfolioInv /\ read.owner \in WALLETS
  BY ReadFactsHold DEF ChainInv, LedgerInv, ReadFacts
<1>2. PICK served :
        /\ served.gen = read.gen /\ served.owner = read.owner
        /\ served.served /\ served.account = portfolios[read.owner]
        /\ reads' = (reads \ {read}) \cup {served}
  BY ReadServedEffect
<1>3. UNCHANGED <<portfolios, hook, generation>>
  BY DEF ReadServed, programVars
<1>4. /\ portfolios[read.owner] \in Account
      /\ portfolios[read.owner].trade_count = Len(LogOf(read.owner))
      /\ LogOf(read.owner) \in Seq(Fill)
  BY <1>1 DEF PortfolioInv, TypeOK, SoundAccount, RingInv, LogOf, Account
<1>5. Earlier(served.account, served.owner)
  BY <1>2, <1>4, PrefixReflexive DEF Earlier, LogOf
<1>6. hook.address = served.owner =>
        hook.snapshot.trade_count <= served.account.trade_count
  BY <1>1, <1>2, <1>4 DEF ReadsInv, Earlier, IsPrefix, LogOf
<1>7. \A r \in reads' :
        /\ r.gen <= generation
        /\ r.served => Earlier(r.account, r.owner)
        /\ r.gen = generation /\ r.served /\ hook.address = r.owner =>
             hook.snapshot.trade_count <= r.account.trade_count
  BY <1>1, <1>2, <1>5, <1>6 DEF ReadsInv, Newest
<1>8. \A r, other \in reads' : r.gen = other.gen => r = other
  BY <1>1, <1>2 DEF ReadsInv
<1>9. NeverOlder
  BY <1>1, <1>3 DEF NeverOlder, ReadFacts
<1>10. QED
  BY <1>1, <1>3, <1>7, <1>8, <1>9 DEF ReadsInv, Newest, Earlier, LogOf

LEMMA ShownRead ==
    ASSUME ChainInv, LogsGrow, NEW read \in reads, Newest(read), read.served,
           hook' = Loaded(read.owner, read.account),
           reads' = reads \ {read}, generation' = generation
    PROVE  ReadsInv' /\ NeverOlder
<1>1. ReadFacts /\ ReadsInv /\ EarlierKept
  BY ReadFactsHold, EarlierIsKept DEF ChainInv
<1>2. hook'.address = read.owner /\ hook'.snapshot = read.account
  BY DEF Loaded
<1>3. \A r \in reads' :
        /\ r.gen <= generation' /\ r.gen # generation'
        /\ r.served => /\ r.account.trade_count = Len(r.account.trade_log)
                       /\ IsPrefix(r.account.trade_log,
                                   portfolios'[r.owner].trade_log)
  BY <1>1 DEF ReadsInv, Newest, EarlierKept
<1>4. \A r, other \in reads' : r.gen = other.gen => r = other
  BY <1>1 DEF ReadsInv
<1>5. /\ hook'.snapshot.trade_count = Len(hook'.snapshot.trade_log)
      /\ IsPrefix(hook'.snapshot.trade_log,
                  portfolios'[hook'.address].trade_log)
  BY <1>1, <1>2 DEF EarlierKept
<1>6. NeverOlder
  BY <1>1, <1>2 DEF NeverOlder, ReadsInv, ReadFacts
<1>7. QED
  BY <1>3, <1>4, <1>5, <1>6 DEF ReadsInv, Newest, Earlier, LogOf

LEMMA LedgerMoves ==
    ASSUME ChainInv, [Next]_vars
    PROVE  LedgerInv' /\ LogsGrow
<1>1. LedgerInv /\ RunsTypeOK
  BY DEF ChainInv, ChainTypeOK
<1>2. ASSUME NEW i \in Runs, TxLands(i)
      PROVE  LedgerInv' /\ LogsGrow
  <2>1. SignedRun(runs[i]) /\ runs[i].owner \in WALLETS
    BY <1>1, <1>2 DEF RunsTypeOK, SignedRun, TxLands
  <2>2. \/ OpenPortfolio(runs[i].owner)
        \/ /\ runs[i].order \in Orders
           /\ \E update \in PriceUpdates :
                 TradePortfolio(runs[i].owner, runs[i].order, update)
    BY <1>2, <2>1 DEF TxLands, SignedRun
  <2>3. QED
    BY <1>1, <2>1, <2>2, LedgerStep
<1>3. CASE UNCHANGED programVars
  BY <1>1, <1>3, LedgerStep
<1>4. ASSUME [Next]_vars, ~\E i \in Runs : TxLands(i)
      PROVE  UNCHANGED programVars
  BY <1>4 DEF Next, UserStep, HookStep, WalletAnswers, Switch, Retry, Open,
              SubmitMarket, PlaceQuote, CancelQuote, FillQuote, StartsRun,
              WalletApproves, WalletRejects, TxConfirmed, TxUnclear, Failed,
              ReadServed, ReadReturns, ReadFails, TxVanishes, vars
<1>5. QED
  BY <1>2, <1>3, <1>4

LEMMA ReadsStep ==
    ASSUME ChainInv, [Next]_vars
    PROVE  ReadsInv' /\ NeverOlder
<1>1. LogsGrow /\ ReadFacts /\ generation <= generation
      /\ wallet \in Owners /\ hook \in Hook
  BY LedgerMoves, ReadFactsHold
     DEF ReadFacts, ChainInv, ChainTypeOK, HookTypeOK
<1>2. CASE UNCHANGED <<hook, generation, reads>>
  BY <1>1, <1>2, FewerReads DEF ShownStays, ReadFacts
<1>3. /\ Loading(hook).address = hook.address
      /\ Loading(hook).snapshot = hook.snapshot
      /\ [hook EXCEPT !.busy = FALSE].address = hook.address
      /\ [hook EXCEPT !.busy = FALSE].snapshot = hook.snapshot
  BY <1>1 DEF Loading, Hook
<1>4. ASSUME NEW w \in Owners, Switch(w)
      PROVE  ReadsInv' /\ NeverOlder
  <2>1. CASE w = NoWallet
    <3>1. /\ hook' = Disconnected /\ generation' = generation + 1
          /\ reads' = reads
      BY <1>4, <2>1 DEF Switch
    <3>2. ShownStays
      BY <3>1 DEF ShownStays, Disconnected
    <3>3. generation' \in Nat /\ generation <= generation'
      BY <1>1, <3>1 DEF ReadFacts
    <3>4. QED
      BY <1>1, <3>1, <3>2, <3>3, FewerReads
  <2>2. CASE w # NoWallet
    <3>1. w \in WALLETS /\ StartsRead(w, 0) /\ hook' = Loading(hook)
      BY <1>4, <2>2 DEF Switch, Owners
    <3>2. ShownStays
      BY <1>3, <3>1 DEF ShownStays
    <3>3. QED
      BY <1>1, <3>1, <3>2, AnotherRead
  <2>3. QED
    BY <2>1, <2>2
<1>5. CASE Retry
  <2>1. wallet \in WALLETS /\ StartsRead(wallet, 0) /\ hook' = Loading(hook)
    BY <1>1, <1>5 DEF Retry, Owners
  <2>2. ShownStays
    BY <1>3, <2>1 DEF ShownStays
  <2>3. QED
    BY <1>1, <2>1, <2>2, AnotherRead
<1>6. ASSUME NEW i \in Runs, TxConfirmed(i)
      PROVE  ReadsInv' /\ NeverOlder
  <2>1. /\ runs[i].owner \in WALLETS /\ i \in Nat
        /\ StartsRead(runs[i].owner, i) /\ hook' = Loading(hook)
    BY <1>6, TxConfirmedHook
  <2>2. ShownStays
    BY <1>3, <2>1 DEF ShownStays
  <2>3. QED
    BY <1>1, <2>1, <2>2, AnotherRead
<1>7. ASSUME NEW i \in Runs, Failed(i)
      PROVE  ReadsInv' /\ NeverOlder
  <2>1. hook' = [hook EXCEPT !.busy = FALSE] /\ UNCHANGED <<generation, reads>>
    BY <1>7 DEF Failed
  <2>2. ShownStays
    BY <1>3, <2>1 DEF ShownStays
  <2>3. QED
    BY <1>1, <2>1, <2>2, FewerReads DEF ReadFacts
<1>8. ASSUME NEW kind, NEW order, NEW quote \in Nat,
             \/ kind = "open" /\ order = "no order"
             \/ kind = "trade" /\ order \in Orders,
             StartsRun(kind, order, quote)
      PROVE  ReadsInv' /\ NeverOlder
  <2>1. /\ hook'.address = hook.address /\ hook'.snapshot = hook.snapshot
        /\ UNCHANGED <<generation, reads>>
    BY <1>8, StartsRunEffect
  <2>2. QED
    BY <1>1, <2>1, FewerReads DEF ReadFacts, ShownStays
<1>9. CASE \/ Open
           \/ \E order \in MarketOrders : SubmitMarket(order)
           \/ \E q \in quotes : FillQuote(q)
  <2>1. \A q \in quotes : q.id \in Nat /\ q.order \in Orders
    BY DEF ChainInv, ChainTypeOK, DeskTypeOK
  <2>2. QED
    BY <1>8, <1>9, <2>1 DEF Open, SubmitMarket, FillQuote
<1>10. ASSUME NEW read \in reads, ReadReturns(read)
       PROVE  ReadsInv' /\ NeverOlder
  <2>1. read.served /\ reads' = reads \ {read} /\ generation' = generation
    BY <1>10, ReadReturnsEffect
  <2>2. CASE Newest(read) /\ hook' = Loaded(read.owner, read.account)
    BY <1>1, <2>1, <2>2, ShownRead
  <2>3. CASE hook' = hook \/ hook' = [hook EXCEPT !.busy = FALSE]
    BY <1>1, <1>3, <2>1, <2>3, FewerReads DEF ReadFacts, ShownStays
  <2>4. QED
    BY <1>10, <2>2, <2>3, ReadReturnsEffect
<1>11. ASSUME NEW read \in reads, ReadFails(read)
       PROVE  ReadsInv' /\ NeverOlder
  <2>1. /\ reads' = reads \ {read} /\ generation' = generation
        /\ hook'.address = hook.address /\ hook'.snapshot = hook.snapshot
    BY <1>11, ReadFailsEffect
  <2>2. QED
    BY <1>1, <2>1, FewerReads DEF ReadFacts, ShownStays
<1>12. QED
  BY <1>2, <1>4, <1>5, <1>6, <1>7, <1>9, <1>10, <1>11, ServedRead
     DEF Next, UserStep, HookStep, WalletAnswers, PlaceQuote, CancelQuote,
         WalletApproves, WalletRejects, TxUnclear, TxLands, TxVanishes,
         Owners, vars, chainVars, hookVars

-----------------------------------------------------------------------------
(* The invariant holds, and what follows from it *)

LEMMA ChainInit == Init => ChainInv
<1> SUFFICES ASSUME Init
             PROVE  ChainInv
  OBVIOUS
<1>1. /\ BlankAccount \in Account /\ SoundAccount(BlankAccount)
      /\ OpenedAccount \in Account /\ SoundAccount(OpenedAccount)
  BY BlankAccountSound
<1>2. BlankAccount.trade_log = <<>> /\ OpenedAccount.trade_log = <<>>
  BY DEF BlankAccount, OpenedAccount
<1>3. admin \in WALLETS /\ feeds \in [ASSETS -> FEEDS] /\ now = 0
  BY DEF Init, Deployed
<1>4. \A w \in WALLETS : portfolios[w] \in {BlankAccount, OpenedAccount}
  BY DEF Init, Deployed
<1>5. portfolios \in [WALLETS -> Account]
  BY <1>1, <1>4 DEF Init, Deployed
<1>6. LedgerInv
  BY <1>1, <1>2, <1>3, <1>4, <1>5
     DEF LedgerInv, PortfolioInv, TypeOK, LogOf
<1>7. ChainTypeOK
  <2>1. HookTypeOK
    BY <1>1 DEF Init, HookTypeOK, Hook, Disconnected, Owners
  <2>2. RunsTypeOK /\ DeskTypeOK
    BY DEF Init, RunsTypeOK, DeskTypeOK, Runs
  <2>3. QED
    BY <2>1, <2>2 DEF Init, ChainTypeOK, Owners
<1>8. FillsInv /\ RefreshInv
  BY DEF Init, FillsInv, RefreshInv, QuoteFillsOnce, Runs
<1>9. ReadsInv
  BY DEF Init, ReadsInv, Disconnected
<1>10. QED
  BY <1>6, <1>7, <1>8, <1>9 DEF ChainInv

LEMMA ChainStep ==
    ASSUME ChainInv, [Next]_vars
    PROVE  ChainInv'
  BY TypesStep, LedgerMoves, FillsStep, RefreshStep, ReadsStep DEF ChainInv

LEMMA ChainInvariant == Spec => []ChainInv
<1>1. ChainInv /\ [Next]_vars => ChainInv'
  BY ChainStep
<1>2. QED
  BY <1>1, ChainInit, PTL DEF Spec

\* For any number of quotes, fills and refreshes (the pendingFill of
\* paper-trading-desk.tsx): a quote is sent to the wallet once, although every
\* refresh that ends clears the hook's busy flag.
THEOREM FillsHappenOnce == Spec => []QuoteFillsOnce
<1>1. ChainInv => QuoteFillsOnce
  BY DEF ChainInv, FillsInv
<1>2. QED
  BY <1>1, ChainInvariant, PTL

\* For any wallets and any overlap of switches, reads and transactions
\* (refresh in use-paper-chain.ts): the history on display is a beginning of
\* the history of the portfolio whose address is displayed with it.
THEOREM DisplayIsOnChain == Spec => []ShownIsOnChain
<1>1. ChainInv => ShownIsOnChain
  BY DEF ChainInv, ReadsInv, Earlier, LogOf, ShownIsOnChain
<1>2. QED
  BY <1>1, ChainInvariant, PTL

\* For any number of overlapping reads that return in any order, or fail (the
\* request counter of refresh in use-paper-chain.ts): as long as one portfolio
\* stays on display, no earlier state of it replaces a later one.
THEOREM DisplayNeverGoesBack == Spec => ShownNeverGoesBack
<1>1. ChainInv /\ [Next]_vars => [NeverOlder]_vars
  BY ReadsStep
<1>2. QED
  BY <1>1, ChainInvariant, PTL DEF Spec, ShownNeverGoesBack
=============================================================================
