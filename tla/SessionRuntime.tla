--------------------------- MODULE SessionRuntime ---------------------------
(***************************************************************************)
(* A verified session: the Result Registry's session instructions on both  *)
(* layers, the browser's MagicBlockRuntime (runtime.ts), and between them  *)
(* a transport.  The repository has the transport's interface and the      *)
(* instructions that it is to send (session.ts), but no implementation:    *)
(* here a call sends its transactions one by one, and returns only after   *)
(* they were executed or throws at any time.                               *)
(*                                                                         *)
(* A state's hash is modelled by the state.                                *)
(***************************************************************************)
EXTENDS BrowserEngine

CONSTANTS
    SCENARIO,      \* what the session runs
    STRATEGY,
    Nothing,       \* no state, no transaction
    Forged         \* a hash that belongs to no state of the run

ASSUME SessionRuntimeAssumption == SCENARIO.ticks \in 1 .. 60

VARIABLES
    session_place,   \* which layer owns the session account
    session_base,    \* the base layer's copy
    session_er,      \* the Ephemeral Rollup's copy
    key_expired,     \* has the clock passed expires_at
    mode,            \* status.mode of the runtime
    shown,           \* its last known state
    outcome,         \* the result of finish
    call,            \* the transport call that it awaits
    acked,           \* ticks that the transport knows to be executed
    awaited,         \* the transaction that the transport awaits
    in_flight        \* transactions sent and neither executed nor dropped

accountVars == <<session_place, session_base, session_er, key_expired>>

runtimeVars == <<mode, shown, outcome>>

transportVars == <<call, acked, awaited, in_flight>>

sessionVars == <<accountVars, runtimeVars, transportVars>>

Replay == simulationAt(SCENARIO, STRATEGY)

Last == SCENARIO.ticks

ASSUME NothingIsNoState == \A t \in 0 .. Last : Replay[t] # Nothing

NoSession == [status |-> "NONE", tick |-> 0, state_hash |-> Nothing]

SessionInit ==
    /\ session_place = "none"
    /\ session_base = NoSession /\ session_er = NoSession
    /\ key_expired = FALSE
    /\ mode = "idle" /\ shown = Nothing /\ outcome = Nothing
    /\ call = "none" /\ acked = 0 /\ awaited = Nothing /\ in_flight = {}

-----------------------------------------------------------------------------
(* The session account *)

CurrentSession ==
    IF session_place \in {"er", "committing"} THEN session_er
                                              ELSE session_base

InitializeSession ==
    /\ session_place = "none"
    /\ ~key_expired
    /\ session_place' = "base"
    /\ session_base' =
         [status |-> "ACTIVE", tick |-> 0, state_hash |-> Replay[0]]
    /\ UNCHANGED <<session_er, key_expired>>

DelegateSession ==
    /\ session_place = "base"
    /\ session_base.status = "ACTIVE"
    /\ ~key_expired
    /\ session_place' = "er"
    /\ session_er' = session_base
    /\ UNCHANGED <<session_base, key_expired>>

SessionSigner(actor) == actor = "authority" \/ ~key_expired

\* Slip (see SettledIsOnRecord): a tick may be recorded again.
TickUpTo(tick) == tick <= CurrentSession.tick + 1 /\ tick <= Last

TickInOrder(tick) == tick = CurrentSession.tick + 1 /\ tick <= Last

\* The program demands no delegation: it writes the copy of its layer.
AdvanceSession(actor, tick, state_hash) ==
    /\ session_place \in {"base", "er"}
    /\ CurrentSession.status = "ACTIVE"
    /\ SessionSigner(actor)
    /\ TickInOrder(tick)
    /\ LET advanced == [CurrentSession EXCEPT !.tick = tick,
                                              !.state_hash = state_hash]
       IN  IF session_place = "er"
           THEN session_er' = advanced /\ UNCHANGED session_base
           ELSE session_base' = advanced /\ UNCHANGED session_er
    /\ UNCHANGED <<session_place, key_expired>>

\* The status is changed in memory and written at Anchor's exit only, after
\* the handler's commit CPI has changed the owner: the copy that is committed
\* may have either status, or the write fails and reverts the whole
\* transaction (finalize_ranked_run.rs:21-24, lib.rs:420-421).
FinalizeSession(actor) ==
    /\ session_place = "er"
    /\ session_er.status = "ACTIVE"
    /\ SessionSigner(actor)
    /\ session_er.tick = Last
    /\ \/ /\ \E status \in {"ACTIVE", "SETTLED"} :
              session_er' = [session_er EXCEPT !.status = status]
          /\ session_place' = "committing"
          /\ UNCHANGED <<session_base, key_expired>>
       \/ UNCHANGED accountVars

SessionCommits ==
    /\ session_place = "committing"
    /\ session_base' = session_er
    /\ session_place' = "base"
    /\ UNCHANGED <<session_er, key_expired, runtimeVars, transportVars>>

SessionExpires ==
    /\ session_place # "none"
    /\ ~key_expired
    /\ key_expired' = TRUE
    /\ UNCHANGED <<session_place, session_base, session_er, runtimeVars,
                   transportVars>>

\* The wallet's own transactions, which need not carry the runtime's hashes.
OwnerDelegatesSession ==
    DelegateSession /\ UNCHANGED <<runtimeVars, transportVars>>

OwnerAdvancesSession ==
    /\ \E tick \in {CurrentSession.tick, CurrentSession.tick + 1} :
         AdvanceSession("authority", tick, Forged)
    /\ UNCHANGED <<runtimeVars, transportVars>>

OwnerFinalizesSession ==
    FinalizeSession("authority") /\ UNCHANGED <<runtimeVars, transportVars>>

-----------------------------------------------------------------------------
(* The transport *)

Tx(kind, tick) == [kind |-> kind, tick |-> tick]

Sends(txs, last) ==
    /\ in_flight' = in_flight \cup txs
    /\ awaited' = last

Executes(tx) ==
    \/ tx.kind = "initialize" /\ InitializeSession
    \/ tx.kind = "delegate" /\ DelegateSession
    \/ /\ tx.kind = "advance"
       /\ AdvanceSession("session_signer", tx.tick, Replay[tx.tick])
    \/ tx.kind = "finalize" /\ FinalizeSession("session_signer")

\* A transaction is executed; the one that is awaited is acknowledged.  A
\* finalization that was reverted leaves the session where it is, and the
\* transport may try it again.
SessionTxLands(tx) ==
    /\ Executes(tx)
    /\ in_flight' = in_flight \ {tx}
    /\ awaited' = IF awaited = tx THEN Nothing ELSE awaited
    /\ acked' = IF awaited = tx /\ tx.kind = "advance" THEN tx.tick
                                                       ELSE acked
    /\ UNCHANGED <<call, runtimeVars>>

SessionTxVanishes(tx) ==
    /\ in_flight' = in_flight \ {tx}
    /\ UNCHANGED <<call, acked, awaited, runtimeVars, accountVars>>

\* finish sends the ticks that are left, and then the finalization.
FinishContinues ==
    /\ call = "finish"
    /\ awaited = Nothing
    /\ session_place = "er"
    /\ LET tx == IF acked < Last THEN Tx("advance", acked + 1)
                                 ELSE Tx("finalize", 0)
       IN  Sends({tx}, tx)
    /\ UNCHANGED <<call, acked, runtimeVars, accountVars>>

-----------------------------------------------------------------------------
(* MagicBlockRuntime *)

Awaits(kind) ==
    /\ call = "none"
    /\ outcome = Nothing
    /\ call' = kind

Returns(kind) == call = kind /\ awaited = Nothing /\ call' = "none"

\* A call may throw whatever became of what it sent.
Throws(kind) ==
    /\ call = kind
    /\ call' = "none"
    /\ awaited' = Nothing
    /\ mode' = "local-fallback"
    /\ UNCHANGED <<acked, in_flight, accountVars>>

CallStart ==
    /\ mode = "idle"
    /\ Awaits("start")
    /\ mode' = "starting"
    /\ Sends({Tx("initialize", 0), Tx("delegate", 0)}, Tx("delegate", 0))
    /\ UNCHANGED <<shown, outcome, acked, accountVars>>

StartReturns ==
    /\ Returns("start")
    /\ mode' = "active"
    /\ shown' = Replay[0]
    /\ UNCHANGED <<outcome, acked, awaited, in_flight, accountVars>>

StartThrows == Throws("start") /\ shown' = Replay[0] /\ UNCHANGED outcome

stepped(s) == stepSimulation(s, SCENARIO, STRATEGY)

\* The builder turns the engine's next state into an instruction; past the
\* end, the last one once more.
CallStep ==
    /\ mode = "active"
    /\ Awaits("step")
    /\ LET tx == Tx("advance", stepped(shown).tick) IN Sends({tx}, tx)
    /\ UNCHANGED <<acked, runtimeVars, accountVars>>

StepReturns ==
    /\ Returns("step")
    /\ shown' = stepped(shown)
    /\ UNCHANGED <<mode, outcome, acked, awaited, in_flight, accountVars>>

\* Slip (see ImplementsLocalRuntime): the local run is not caught up.
StartedOver(completed) == createSimulation(SCENARIO, STRATEGY)

\* restoreFallback: started again and stepped to the last known tick.
Restored(completed) ==
    LET local[t \in 0 .. completed] ==
            IF t = 0 THEN createSimulation(SCENARIO, STRATEGY)
            ELSE stepped(local[t - 1])
    IN  local[completed]

StepThrows ==
    /\ Throws("step")
    /\ shown' = stepped(Restored(shown.tick))
    /\ UNCHANGED outcome

FallbackStep ==
    /\ mode = "local-fallback" /\ call = "none" /\ outcome = Nothing
    /\ shown' = stepped(shown)
    /\ UNCHANGED <<mode, outcome, transportVars, accountVars>>

CallFinish ==
    /\ mode = "active"
    /\ Awaits("finish")
    /\ UNCHANGED <<acked, awaited, in_flight, runtimeVars, accountVars>>

\* The commit has reached the base layer and the router shows no delegation.
FinishReturns ==
    /\ Returns("finish")
    /\ acked = Last /\ session_place = "base"
    /\ outcome' = Replay[Last] /\ shown' = outcome'
    /\ mode' = "settled"
    /\ UNCHANGED <<acked, awaited, in_flight, accountVars>>

FinishThrows ==
    /\ Throws("finish")
    /\ shown' = Restored(shown.tick)
    /\ outcome' = Replay[Last]

FallbackFinish ==
    /\ mode = "local-fallback" /\ call = "none" /\ outcome = Nothing
    /\ outcome' = Replay[Last]
    /\ UNCHANGED <<mode, shown, transportVars, accountVars>>

SessionNext ==
    \/ SessionCommits \/ SessionExpires
    \/ OwnerDelegatesSession \/ OwnerAdvancesSession \/ OwnerFinalizesSession
    \/ \E tx \in in_flight : SessionTxLands(tx) \/ SessionTxVanishes(tx)
    \/ FinishContinues
    \/ CallStart \/ StartReturns \/ StartThrows
    \/ CallStep \/ StepReturns \/ StepThrows \/ FallbackStep
    \/ CallFinish \/ FinishReturns \/ FinishThrows \/ FallbackFinish

SessionSpec == SessionInit /\ [][SessionNext]_sessionVars

-----------------------------------------------------------------------------
(* Properties *)

Local == INSTANCE LocalRuntime WITH state <- shown, result <- outcome

\* runtime.ts:14, the UI depends on the contract only: whatever is lost,
\* late or done by others, what MagicBlockRuntime shows is a run of the local
\* runtime, tick by tick, through every fallback.
ImplementsLocalRuntime == Local!LocalSpec

\* runtime.ts:79, a run that was continued locally is "never verified": a run
\* that is reported as settled was recorded with all its ticks and the hash of
\* its result, and nobody can change that record any more.
SettledIsOnRecord ==
    mode = "settled" =>
        /\ CurrentSession.tick = Last
        /\ CurrentSession.state_hash = outcome
=============================================================================
