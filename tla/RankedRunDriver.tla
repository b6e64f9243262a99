-------------------------- MODULE RankedRunDriver --------------------------
(***************************************************************************)
(* The browser's ranked-run driver (ranked-run.ts) on top of the program.  *)
(* It starts a run, sends one transaction per tick with the temporary      *)
(* session key, finalizes, and waits for the base layer's record.          *)
(*                                                                         *)
(* A transaction that was sent may land at any later time, or never; its   *)
(* confirmation may fail although it landed.  After an error the driver    *)
(* reads the account until a deadline, and never sends the transaction     *)
(* again.  The wallet's owner may act on the run at any time.              *)
(***************************************************************************)
EXTENDS RankedRun, FiniteSets

CONSTANTS MAX_OWNER_TICKS     \* bound on the ticks the owner takes

ASSUME DriverAssumption == MAX_OWNER_TICKS \in Nat

Kinds == {"start", "advance", "finalize"}

VARIABLES
    stage,        \* where the driver's code is
    driver_tick,  \* ticks the driver knows to have been taken
    sent,         \* transactions the driver has sent
    flying,       \* those that may still land, as [kind, id]
    landed,       \* has the transaction sent last been executed
    result,       \* the record the driver returned
    owner_ticks   \* ticks the owner took with the wallet's own key

driverVars == <<stage, driver_tick, sent, flying, landed, result, owner_ticks>>

vars == <<place, ledger, rollup, expired, stage, driver_tick, sent, flying,
          landed, result, owner_ticks>>

Stages == {"approval", "start sent", "start unclear", "delegating",
           "executing", "advance sent", "advance unclear",
           "finalize sent", "finalize unclear", "settling",
           "complete", "failed"}

Ended == stage \in {"complete", "failed"}

DriverInit ==
    /\ stage = "approval"
    /\ driver_tick = 0
    /\ sent = 0
    /\ flying = {}
    /\ landed = FALSE
    /\ result = BlankRun
    /\ owner_ticks = 0

Init == ProgramInit /\ DriverInit

-----------------------------------------------------------------------------
(* Sending, and what a send or a polling loop may come to *)

Send(kind, from, to) ==
    /\ stage = from
    /\ stage' = to
    /\ sent' = sent + 1
    /\ flying' = flying \cup {[kind |-> kind, id |-> sent + 1]}
    /\ landed' = FALSE
    /\ UNCHANGED <<programVars, driver_tick, result, owner_ticks>>

\* The driver's code goes on; it writes nothing to the chain.
GoesOn(from, to) ==
    /\ stage = from
    /\ stage' = to
    /\ UNCHANGED <<programVars, sent, flying, landed, owner_ticks>>

\* The await on sendTransaction returns.
Confirmed(from, to) == landed /\ GoesOn(from, to) /\ UNCHANGED result

\* It throws: the program refused the transaction, it was lost, or only its
\* confirmation was.  Nothing tells the driver which.
Unclear(from, to) == GoesOn(from, to) /\ UNCHANGED <<driver_tick, result>>

\* A polling loop runs into its deadline, or a read in it throws.
GivesUp(from) == GoesOn(from, "failed") /\ UNCHANGED <<driver_tick, result>>

-----------------------------------------------------------------------------
(* startAndExecuteRankedRun *)

SendStart == Send("start", "approval", "start sent")

StartConfirmed ==
    Confirmed("start sent", "delegating") /\ UNCHANGED driver_tick

StartUnclear == Unclear("start sent", "start unclear")

\* resolveRankedRunEr finds the ER, and executeRankedRun reads the account.
ErResolved ==
    /\ place = "er"
    /\ rollup.status = "ACTIVE"
    /\ GoesOn("start unclear", "executing")
         \/ GoesOn("delegating", "executing")
    /\ driver_tick' = rollup.tick
    /\ UNCHANGED result

\* The router's deadline, or no active account on the ER any more.
ErUnresolved == GivesUp("delegating") \/ GivesUp("start unclear")

-----------------------------------------------------------------------------
(* executeRankedRun *)

SendAdvance ==
    driver_tick < RUN_TICKS /\ Send("advance", "executing", "advance sent")

AdvanceConfirmed ==
    /\ Confirmed("advance sent", "executing")
    /\ driver_tick' = driver_tick + 1

\* Slip (see TicksInStep): the driver sends the tick again without reading.
AdvanceResent == Unclear("advance sent", "executing")

AdvanceUnclear == Unclear("advance sent", "advance unclear")

\* waitForErTick: the account shows the tick, whoever took it.  The ER's RPC
\* also serves an account that it has given back; while the account is being
\* committed its owner is the delegation program and the read finds nothing.
TickSeen ==
    /\ place \in {"er", "base"}
    /\ Current.tick >= driver_tick + 1
    /\ GoesOn("advance unclear", "executing")
    /\ driver_tick' = driver_tick + 1
    /\ UNCHANGED result

\* Slip (see DriverEnds): the polling has no deadline.
TickAwaited == stage = "advance unclear" /\ UNCHANGED vars

TickNotSeen == GivesUp("advance unclear")

SendFinalize ==
    driver_tick >= RUN_TICKS /\ Send("finalize", "executing", "finalize sent")

FinalizeConfirmed ==
    Confirmed("finalize sent", "settling") /\ UNCHANGED driver_tick

FinalizeUnclear == Unclear("finalize sent", "finalize unclear")

-----------------------------------------------------------------------------
(* waitForRankedRunSettlement *)

\* The record is checked before it is believed.
Verified(run) == run.tick = RUN_TICKS /\ run.final_score <= BPS

\* Slip (see CompleteIsSettled): the record is read from the ER.
SettlementOnEr == Current

Settlement == IF place = "base" THEN ledger ELSE BlankRun

SettlementFound == Settlement.status = "SETTLED" /\ Verified(Settlement)

SettlementSeen ==
    /\ SettlementFound
    /\ GoesOn("finalize unclear", "settling")
    /\ UNCHANGED <<driver_tick, result>>

SettlementNotSeen == GivesUp("finalize unclear") \/ GivesUp("settling")

Completes ==
    /\ SettlementFound
    /\ GoesOn("settling", "complete")
    /\ result' = Settlement
    /\ UNCHANGED driver_tick

DriverStep ==
    \/ SendStart \/ StartConfirmed \/ StartUnclear \/ ErResolved
    \/ ErUnresolved \/ SendAdvance \/ AdvanceConfirmed \/ AdvanceUnclear
    \/ TickSeen \/ TickNotSeen \/ SendFinalize \/ FinalizeConfirmed
    \/ FinalizeUnclear \/ SettlementSeen \/ SettlementNotSeen \/ Completes

-----------------------------------------------------------------------------
(* The network and the chain *)

\* One wallet-approved transaction creates the run and delegates it.
StartAndDelegate ==
    \E s \in Strategies :
        /\ place = "absent"
        /\ ValidStrategy(s)
        /\ place' = "er"
        /\ ledger' = StartedRun(s)
        /\ rollup' = StartedRun(s)
        /\ UNCHANGED expired

Instruction(kind) ==
    \/ kind = "start" /\ StartAndDelegate
    \/ kind = "advance" /\ AdvanceRankedRun("session_signer")
    \/ kind = "finalize" /\ FinalizeRankedRun("session_signer")

\* A transaction in flight is executed; only the last one is awaited.
Lands(tx) ==
    /\ Instruction(tx.kind)
    /\ flying' = flying \ {tx}
    /\ landed' = (landed \/ tx.id = sent)
    /\ UNCHANGED <<stage, driver_tick, sent, result, owner_ticks>>

\* It is refused by the program, dropped, or too old to be executed.
Vanishes(tx) ==
    /\ flying' = flying \ {tx}
    /\ UNCHANGED <<programVars, stage, driver_tick, sent, landed, result,
                   owner_ticks>>

OwnerAdvances ==
    /\ owner_ticks < MAX_OWNER_TICKS
    /\ AdvanceRankedRun("authority")
    /\ owner_ticks' = owner_ticks + 1
    /\ UNCHANGED <<stage, driver_tick, sent, flying, landed, result>>

OwnerFinalizes ==
    FinalizeRankedRun("authority") /\ UNCHANGED driverVars

ChainCommits == CommitLands /\ UNCHANGED driverVars

KeyExpires == Expires /\ UNCHANGED driverVars

Next ==
    \/ DriverStep
    \/ \E tx \in flying : Lands(tx) \/ Vanishes(tx)
    \/ OwnerAdvances
    \/ OwnerFinalizes
    \/ ChainCommits
    \/ KeyExpires

Spec == Init /\ [][Next]_vars

-----------------------------------------------------------------------------
(* Properties *)

AdvancesInFlight == {tx \in flying : tx.kind = "advance"}

\* Whatever was lost, late or confirmed twice, the driver never reports a
\* tick that was not taken, and the run never takes one that the driver or
\* the owner did not ask for: each tick is sent once.
TicksInStep ==
    stage = "executing" =>
        /\ driver_tick <= Current.tick
        /\ Current.tick <= driver_tick + owner_ticks
        /\ Cardinality(AdvancesInFlight) <= owner_ticks

\* The driver reports a run as complete only with the record that the base
\* layer keeps, settled, and that no transaction still in flight can change.
CompleteIsSettled ==
    stage = "complete" =>
        /\ place = "base"
        /\ ledger.status = "SETTLED"
        /\ result = ledger

\* The browser's code goes on: its awaits return or throw, its loops have
\* deadlines.
DriverGoesOn == WF_vars(DriverStep)

\* The driver always comes to an end, completed or failed, so that the page
\* becomes usable again, even if every transaction is lost.
DriverEnds == DriverGoesOn => <>Ended

\* The owner keeps sending the missing ticks, and the ER commits.
OwnerGoesOn ==
    /\ WF_vars(OwnerAdvances)
    /\ WF_vars(OwnerFinalizes)
    /\ WF_vars(ChainCommits)

\* advance_ranked_run.rs:32, "the wallet owner can still rescue a run": a
\* delegated run is settled by its owner although its driver failed at any
\* point and its session key expired.
OwnerCanRescue ==
    OwnerGoesOn =>
        (place = "er" ~> place = "base" /\ ledger.status = "SETTLED")
=============================================================================
