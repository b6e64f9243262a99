----------------------------- MODULE RankedRun -----------------------------
(***************************************************************************)
(* The ranked-run instructions of the Result Registry, acting on one run   *)
(* account.  The base layer and the Ephemeral Rollup each hold a copy of   *)
(* it; only one of the two may be written at a time.                       *)
(***************************************************************************)
EXTENDS RankedRunBook

Actors == {"authority", "session_signer"}

Places == {"absent", "base", "er", "committing"}

VARIABLES
    place,       \* which layer owns the account
    ledger,      \* the base layer's copy
    rollup,      \* the Ephemeral Rollup's copy
    expired      \* has the clock passed expires_at

programVars == <<place, ledger, rollup, expired>>

ProgramInit ==
    /\ place = "absent"
    /\ ledger = BlankRun
    /\ rollup = BlankRun
    /\ expired = FALSE

\* The copy that instructions see.
Current == IF place \in {"er", "committing"} THEN rollup ELSE ledger

-----------------------------------------------------------------------------
(* Base layer *)

\* start_ranked_run: the account is created, once, with a valid strategy.
StartRankedRun(s) ==
    /\ place = "absent"
    /\ ValidStrategy(s)
    /\ place' = "base"
    /\ ledger' = StartedRun(s)
    /\ UNCHANGED <<rollup, expired>>

Delegable(run) == run.status = "ACTIVE" /\ ~expired

\* delegate_ranked_run: the authority hands an active run to the ER.
DelegateRankedRun ==
    /\ place = "base"
    /\ Delegable(ledger)
    /\ place' = "er"
    /\ rollup' = ledger
    /\ UNCHANGED <<ledger, expired>>

\* The program itself does not demand that a run be delegated before it
\* advances: it writes whichever copy its layer owns.
Written(run) ==
    IF place = "er" THEN rollup' = run /\ UNCHANGED ledger
                    ELSE ledger' = run /\ UNCHANGED rollup

-----------------------------------------------------------------------------
(* Either layer *)

\* Slip (see OwnerCanRescue): the wallet's authority expires too.
MayActInTime(actor) == ~expired

MayAct(actor) == actor = "authority" \/ ~expired

Advanceable(actor) ==
    /\ place \in {"base", "er"}
    /\ Current.status = "ACTIVE"
    /\ MayAct(actor)
    /\ Current.tick < RUN_TICKS

\* advance_ranked_run: one tick of the market.
AdvanceRankedRun(actor) ==
    /\ Advanceable(actor)
    /\ \E noise \in Noises, event \in Events, fills \in BOOLEAN :
         /\ TickSucceeds(Current, noise, event, fills)
         /\ Written(Advanced(Current, noise, event, fills))
    /\ UNCHANGED <<place, expired>>

\* Slip (see SettledIsFinal): the run need not have reached its end.
FinalizableEarly == Current.status = "ACTIVE" /\ Current.tick > 0

Finalizable == Current.status = "ACTIVE" /\ Current.tick = RUN_TICKS

\* finalize_ranked_run: the score is fixed in the ER's copy, and the account
\* is scheduled to be committed and given back.  The commit is the ER's own:
\* the same call on the base layer fails, whoever signs it.
FinalizeRankedRun(actor) ==
    /\ place = "er"
    /\ Finalizable
    /\ rollup' = Scored(rollup)
    /\ place' = "committing"
    /\ UNCHANGED <<ledger, expired>>

\* The ER's commit arrives: the base layer takes the ER's copy over and owns
\* the account again.
CommitLands ==
    /\ place = "committing"
    /\ ledger' = rollup
    /\ place' = "base"
    /\ UNCHANGED <<rollup, expired>>

Expires ==
    /\ place # "absent"
    /\ ~expired
    /\ expired' = TRUE
    /\ UNCHANGED <<place, ledger, rollup>>

ProgramNext ==
    \/ \E s \in Strategies : StartRankedRun(s)
    \/ DelegateRankedRun
    \/ \E actor \in Actors : AdvanceRankedRun(actor)
    \/ \E actor \in Actors : FinalizeRankedRun(actor)
    \/ CommitLands
    \/ Expires

ProgramSpec == ProgramInit /\ [][ProgramNext]_programVars

-----------------------------------------------------------------------------
(* Properties *)

\* Every copy of the account is well formed, every amount a natural number:
\* the layout of ranked_run.rs.
TypeOK ==
    /\ place \in Places
    /\ ledger \in Run
    /\ rollup \in Run
    /\ expired \in BOOLEAN

Running == place \in {"base", "er"} /\ Current.status = "ACTIVE"

\* No tick of any market reverts: the orders that a refresh left standing can
\* still be paid when a later tick fills them, so that a run never gets stuck
\* between its ticks.
TicksNeverRevert ==
    Running /\ Current.tick < RUN_TICKS =>
        \A noise \in Noises, event \in Events, fills \in BOOLEAN :
            TickSucceeds(Current, noise, event, fills)

\* Money is only moved between cash, inventory and realized profit, and an
\* empty inventory has no cost left: rounding a lot's cost loses nothing.
BooksBalance ==
    Current.status # "NONE" =>
        /\ Current.quote + Current.inventory_cost - Current.realized_pnl =
             StartingEquity
        /\ Current.base = 0 => Current.inventory_cost = 0
        /\ Current.base <= larger(STARTING_BASE,
                                  Current.strategy.max_inventory_milli)

\* A final score is within its scale and belongs to a run that took all its
\* ticks; liquidity counts every tick that had an order to fill.
ScoreIsEarned ==
    /\ Current.fill_count <= Current.liquidity_ticks
    /\ Current.liquidity_ticks <= Current.tick
    /\ Current.status = "SETTLED" =>
         Current.tick = RUN_TICKS /\ Current.final_score <= BPS

ResultKept ==
    /\ Current.status = "SETTLED" => Current' = Current
    /\ Current'.tick \in {Current.tick, Current.tick + 1}
    /\ ledger' # ledger /\ place = "committing" =>
         ledger'.status = "SETTLED" /\ ledger'.tick = RUN_TICKS

\* A run takes its ticks one by one through both layers; what the ER gives
\* back is settled; and a settled run never changes again, whatever is sent
\* to either layer.
SettledIsFinal == [][ResultKept]_programVars
=============================================================================
