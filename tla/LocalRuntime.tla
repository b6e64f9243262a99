---------------------------- MODULE LocalRuntime ----------------------------
(***************************************************************************)
(* The contract of a simulation runtime, as the local one keeps it: a      *)
(* session is started, stepped tick by tick, and finished with the result  *)
(* of the whole run.  runtime.ts promises that another runtime can take    *)
(* its place "without changing pricing, scoring, or UI state handling".    *)
(***************************************************************************)
EXTENDS BrowserEngine

CONSTANTS SCENARIO, STRATEGY, Nothing

VARIABLES state, result

LocalInit == state = Nothing /\ result = Nothing

Start ==
    /\ state = Nothing
    /\ state' = createSimulation(SCENARIO, STRATEGY)
    /\ UNCHANGED result

Step ==
    /\ state # Nothing
    /\ state' = stepSimulation(state, SCENARIO, STRATEGY)
    /\ UNCHANGED result

\* Whether the runtime's own state goes to the end as well is left open.
Finish ==
    /\ state # Nothing
    /\ result' = simulationAt(SCENARIO, STRATEGY)[SCENARIO.ticks]
    /\ state' \in {state, result'}

LocalSpec ==
    LocalInit /\ [][Start \/ Step \/ Finish]_<<state, result>>
=============================================================================
