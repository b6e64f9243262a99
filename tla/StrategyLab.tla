----------------------------- MODULE StrategyLab -----------------------------
(***************************************************************************)
(* The browser's own strategy lab (simulation-lab.tsx): the engine's ticks *)
(* on a timer, the debrief of a finished run, the private history in       *)
(* localStorage (storage.ts), and the publication of a result in the       *)
(* Result Registry (registry.ts, submit_result.rs).                        *)
(*                                                                         *)
(* Hashing and sending are asynchronous: the calls under way outlive the   *)
(* dialog that made them, and a dialog that is opened again begins afresh  *)
(* beside them.  A hash is modelled by what it is taken of.                *)
(***************************************************************************)
EXTENDS BrowserEngine

CONSTANTS
    SIM_SCENARIOS,
    SIM_STRATEGIES,
    FIRST_SCENARIO, FIRST_STRATEGY,    \* what the lab opens with
    LOCAL_RUN_LIMIT,
    MAX_COMPLETED,      \* bound on the runs that are completed
    MAX_SUBMITTED,      \* bound on the submissions
    MAX_OPENED          \* bound on the dialogs that are opened

ASSUME StrategyLabAssumption ==
    /\ \A s \in SIM_SCENARIOS : s.ticks \in Nat
    /\ FIRST_SCENARIO \in SIM_SCENARIOS
    /\ FIRST_STRATEGY \in SIM_STRATEGIES
    /\ LOCAL_RUN_LIMIT \in Nat \ {0}

NoCommitment == [score |-> -1]

ClosedDialog == [commitment |-> NoCommitment, status |-> "none", busy |-> FALSE]

VARIABLES
    sim_scenario, sim_strategy, sim_state,
    sim_running,
    dismissed,
    run_id,         \* completedRunId, 0 when there is none
    dialog,         \* the state of the mounted Results
    hashing,        \* calls of verify under way, with what they closed over
    sending,        \* calls of commit under way
    history,        \* the runs in localStorage
    registry,       \* ResultRecord accounts
    clock           \* orders ids, completion times, nonces and dialogs

simVars == <<sim_scenario, sim_strategy, sim_state, sim_running>>

debriefVars == <<dismissed, run_id, dialog>>

callVars == <<hashing, sending, clock>>

strategyLabVars == <<simVars, debriefVars, callVars, history, registry>>

StrategyLabInit ==
    /\ sim_scenario = FIRST_SCENARIO /\ sim_strategy = FIRST_STRATEGY
    /\ sim_state = createSimulation(sim_scenario, sim_strategy)
    /\ sim_running = FALSE /\ dismissed = FALSE /\ run_id = 0
    /\ dialog = ClosedDialog
    /\ hashing = {} /\ sending = {} /\ history = {} /\ registry = {}
    /\ clock = [completed |-> 0, saved |-> 0, submitted |-> 0, opened |-> 0]

finished == sim_state.tick >= sim_scenario.ticks

\* The dialog is modal: with it open, nothing behind it can be used.
DialogOpen == finished /\ ~dismissed

-----------------------------------------------------------------------------
(* The simulation *)

reset(scenario, strategy) ==
    /\ sim_running' = FALSE /\ dismissed' = FALSE /\ run_id' = 0
    /\ sim_state' = createSimulation(scenario, strategy)
    /\ dialog' = ClosedDialog
    /\ UNCHANGED <<callVars, history, registry>>

SimTick ==
    /\ sim_running /\ ~finished
    /\ sim_state' = stepSimulation(sim_state, sim_scenario, sim_strategy)
    /\ UNCHANGED <<sim_scenario, sim_strategy, sim_running, debriefVars,
                   callVars, history, registry>>

RunToggled ==
    /\ ~finished
    /\ sim_running' = ~sim_running
    /\ UNCHANGED <<sim_scenario, sim_strategy, sim_state, debriefVars,
                   callVars, history, registry>>

\* The drawer's choice, at any time; of the sandbox as well.
Selected ==
    /\ ~DialogOpen
    /\ \E s \in SIM_SCENARIOS :
         sim_scenario' = s /\ reset(s, sim_strategy)
    /\ UNCHANGED sim_strategy

Updated ==
    /\ ~DialogOpen /\ ~(sim_running /\ ~finished)
    /\ \E s \in SIM_STRATEGIES : sim_strategy' = s /\ reset(sim_scenario, s)
    /\ UNCHANGED sim_scenario

\* The reset button, and "Run again" in the dialog.
ResetClicked ==
    /\ DialogOpen => run_id # 0
    /\ reset(sim_scenario, sim_strategy)
    /\ UNCHANGED <<sim_scenario, sim_strategy>>

-----------------------------------------------------------------------------
(* The private history *)

submittingRuns(runs) == {r \in runs : r.status = "submitting"}

newest(runs, n) ==
    {r \in runs : Cardinality({o \in runs : o.completedAt > r.completedAt}) < n}

\* Runs that are being submitted are kept, then the newest of the others.
saveLocalRun(run) ==
    LET next == {r \in history : r.id # run.id} \cup {run}
        kept == submittingRuns(next)
    IN  history' = kept \cup newest(next \ kept,
                                    LOCAL_RUN_LIMIT - Cardinality(kept))

\* The whole list is written again with this run's status changed.
updateLocalRun(id, status, address) ==
    history' = {IF r.id = id THEN [r EXCEPT !.status = status,
                                            !.address = address]
                             ELSE r : r \in history}

-----------------------------------------------------------------------------
(* The debrief *)

getPnlBps(state) ==
    rounded((state.equity - state.startingEquity) * 10000,
            state.startingEquity)

createResultCommitment(scenario, strategy, state) ==
    [scenario |-> scenario, strategy |-> strategy,
     score |-> scoreRun(state, scenario, strategy),
     pnl_bps |-> getPnlBps(state), drawdown |-> state.maxDrawdownBps,
     fills |-> state.fills, equity |-> state.equity, tick |-> state.tick]

verify ==
    /\ hashing' = hashing \cup {[id |-> run_id', dialog |-> clock'.opened,
                                 scenario |-> sim_scenario,
                                 strategy |-> sim_strategy,
                                 state |-> sim_state]}
    /\ dialog' = [dialog EXCEPT !.busy = TRUE]

\* Two timers of no delay: the run gets its id, and with it is verified.
RunIdentified ==
    /\ DialogOpen /\ run_id = 0
    /\ clock.completed < MAX_COMPLETED
    /\ clock.opened < MAX_OPENED
    /\ clock' = [clock EXCEPT !.completed = @ + 1, !.opened = @ + 1]
    /\ run_id' = clock'.completed
    /\ verify
    /\ UNCHANGED <<simVars, dismissed, sending, history, registry>>

\* The button of a dialog whose verification has failed.
VerifiedAgain ==
    /\ DialogOpen /\ run_id # 0
    /\ ~dialog.busy /\ dialog.commitment = NoCommitment
    /\ UNCHANGED <<run_id, clock>>
    /\ verify
    /\ UNCHANGED <<simVars, dismissed, sending, history, registry>>

DialogDismissed ==
    /\ DialogOpen /\ run_id # 0
    /\ dismissed' = TRUE
    /\ dialog' = ClosedDialog
    /\ UNCHANGED <<simVars, run_id, callVars, history, registry>>

\* "View results": the dialog is mounted once more, knows nothing of what the
\* one before it did, and verifies the run again.
ResultsViewed ==
    /\ finished /\ dismissed
    /\ clock.opened < MAX_OPENED
    /\ clock' = [clock EXCEPT !.opened = @ + 1]
    /\ dismissed' = FALSE
    /\ UNCHANGED run_id
    /\ verify
    /\ UNCHANGED <<simVars, sending, history, registry>>

\* Is the dialog that made a call still mounted?
Shows(call) ==
    DialogOpen /\ run_id = call.id /\ clock.opened = call.dialog

\* Slip (see HistoryIsTruthful): the lab's state is read after the hashing.
HashedLate(call) ==
    createResultCommitment(sim_scenario, sim_strategy, sim_state)

Hashed(call) ==
    createResultCommitment(call.scenario, call.strategy, call.state)

VerifyReturns(call) ==
    /\ hashing' = hashing \ {call}
    /\ clock' = [clock EXCEPT !.saved = @ + 1]
    /\ saveLocalRun([id |-> call.id, completedAt |-> clock'.saved,
                     commitment |-> Hashed(call), status |-> "local",
                     address |-> 0])
    /\ dialog' = IF Shows(call)
                 THEN [commitment |-> Hashed(call), status |-> "local",
                       busy |-> FALSE]
                 ELSE dialog
    /\ UNCHANGED <<simVars, dismissed, run_id, sending, registry>>

\* There is no Web Crypto, or the storage is full.
VerifyFails(call) ==
    /\ hashing' = hashing \ {call}
    /\ dialog' = IF Shows(call) THEN [dialog EXCEPT !.busy = FALSE] ELSE dialog
    /\ UNCHANGED <<simVars, dismissed, run_id, sending, clock, history,
                   registry>>

-----------------------------------------------------------------------------
(* The publication of a result *)

\* commit: a new nonce, and so a new address, for every attempt.
CommitClicked ==
    /\ DialogOpen
    /\ dialog.commitment # NoCommitment
    /\ ~dialog.busy /\ dialog.status # "committed"
    /\ clock.submitted < MAX_SUBMITTED
    /\ clock' = [clock EXCEPT !.submitted = @ + 1]
    /\ sending' = sending \cup {[id |-> run_id, dialog |-> clock.opened,
                                 address |-> clock'.submitted,
                                 commitment |-> dialog.commitment]}
    /\ updateLocalRun(run_id, "submitting", 0)
    /\ dialog' = [dialog EXCEPT !.busy = TRUE]
    /\ UNCHANGED <<simVars, dismissed, run_id, hashing, registry>>

MAX_SCORE == 10000

\* submit_result creates the account; a record is never changed.
SubmitResult(call) ==
    /\ call.commitment.score \in 0 .. MAX_SCORE
    /\ \A r \in registry : r.address # call.address
    /\ registry' = registry \cup
         {[address |-> call.address, commitment |-> call.commitment]}

CommitEnds(call, status, address) ==
    /\ sending' = sending \ {call}
    /\ updateLocalRun(call.id, status, address)
    /\ dialog' = IF Shows(call)
                 THEN [dialog EXCEPT !.status = status, !.busy = FALSE]
                 ELSE dialog
    /\ UNCHANGED <<simVars, dismissed, run_id, hashing, clock>>

CommitReturns(call) ==
    SubmitResult(call) /\ CommitEnds(call, "committed", call.address)

\* send throws, whether or not the transaction landed.
CommitThrows(call) ==
    /\ SubmitResult(call) \/ UNCHANGED registry
    /\ CommitEnds(call, "failed", 0)

StrategyLabNext ==
    \/ SimTick \/ RunToggled \/ Selected \/ Updated \/ ResetClicked
    \/ RunIdentified \/ VerifiedAgain \/ CommitClicked
    \/ DialogDismissed \/ ResultsViewed
    \/ \E call \in hashing : VerifyReturns(call) \/ VerifyFails(call)
    \/ \E call \in sending : CommitReturns(call) \/ CommitThrows(call)

StrategyLabSpec == StrategyLabInit /\ [][StrategyLabNext]_strategyLabVars

-----------------------------------------------------------------------------
(* Properties *)

ResultOf(scenario, strategy) ==
    createResultCommitment(scenario, strategy,
        simulationAt(scenario, strategy)[scenario.ticks])

\* Whatever is hashed or sent while the lab has gone on to another market,
\* another strategy or another run, and however often a debrief is closed and
\* opened (each saves its run once more): every run of the history and every
\* record of the registry is the whole run of its scenario and its strategy; a
\* run that the history calls committed is on record; and the history lists a
\* run once and stays within its limit.
HistoryIsTruthful ==
    /\ \A r \in history \cup registry :
         r.commitment = ResultOf(r.commitment.scenario, r.commitment.strategy)
    /\ \A r \in history : r.status = "committed" =>
         [address |-> r.address, commitment |-> r.commitment] \in registry
    /\ \A r, o \in history : r.id = o.id => r = o
    /\ Cardinality(history) <= LOCAL_RUN_LIMIT
=============================================================================
