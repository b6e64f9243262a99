------------------------------ MODULE RankedLab ------------------------------
(***************************************************************************)
(* The Strategy Lab of the page (ranked-strategy-lab.tsx, app/page.tsx):   *)
(* it starts ranked runs and shows what their driver calls back with.  An  *)
(* action is the code from one await to the next; a run goes on after the  *)
(* page has replaced the lab that started it, and then calls nobody back   *)
(* but the page.                                                           *)
(*                                                                         *)
(* What the driver does on chain is RankedRunDriver; here a run is where   *)
(* startAndExecuteRankedRun is, and its ticks.                             *)
(***************************************************************************)
EXTENDS Integers, Sequences

CONSTANTS
    SCENARIOS,
    STRATEGIES,
    DEFAULT_SCENARIO,
    DEFAULT_STRATEGY,
    LAB_TICKS,          \* ticks of a run
    MAX_STARTED,        \* bound on the runs that are started
    MAX_MOUNTS          \* bound on the labs that the page mounts

ASSUME RankedLabAssumption ==
    /\ DEFAULT_SCENARIO \in SCENARIOS
    /\ DEFAULT_STRATEGY \in STRATEGIES
    /\ LAB_TICKS \in Nat \ {0}

NoRun == 0

VARIABLES
    lab_scenario, lab_strategy,     \* the controls of the lab
    lab_stage, lab_tick,
    lab_address,                    \* the run whose account is linked
    lab_run,                        \* the run whose result is shown
    lab_snapshots,                  \* the accounts that the chart is drawn of
    lab_debrief,                    \* is the debrief open?
    lab_mount,                      \* which lab is mounted
    page_scenario, page_busy,       \* the page's own state
    started                         \* the calls of startAndExecuteRankedRun

presentation == <<lab_run, lab_address, lab_snapshots, lab_tick, lab_stage,
                  lab_debrief>>

controls == <<lab_scenario, lab_strategy, lab_mount, page_scenario>>

labVars == <<presentation, controls, page_busy, started>>

LabInit ==
    /\ lab_scenario = DEFAULT_SCENARIO /\ lab_strategy = DEFAULT_STRATEGY
    /\ page_scenario = lab_scenario
    /\ lab_run = NoRun /\ lab_address = NoRun /\ lab_snapshots = <<>>
    /\ lab_tick = 0 /\ lab_stage = "idle" /\ lab_debrief = FALSE
    /\ lab_mount = 1 /\ page_busy = FALSE /\ started = <<>>

busy == lab_stage \notin {"idle", "complete"}

Cleared ==
    /\ lab_run' = NoRun /\ lab_address' = NoRun /\ lab_snapshots' = <<>>
    /\ lab_tick' = 0 /\ lab_stage' = "idle" /\ lab_debrief' = FALSE

-----------------------------------------------------------------------------
(* The user *)

\* start: the plan is built (keys, addresses) before the driver's first
\* callback, and until then the stage is still idle: the user may change the
\* controls or start once more, and two runs then call back into one lab.
StartClicked ==
    /\ ~busy
    /\ Len(started) < MAX_STARTED
    /\ Cleared
    /\ page_busy' = TRUE
    /\ started' = Append(started,
         [at |-> "preparing", tick |-> 0, mount |-> lab_mount,
          scenario |-> lab_scenario, strategy |-> lab_strategy])
    /\ UNCHANGED controls

ParameterChanged ==
    /\ ~busy
    /\ \E s \in STRATEGIES : lab_strategy' = s
    /\ Cleared
    /\ UNCHANGED <<lab_scenario, lab_mount, page_scenario, page_busy, started>>

ScenarioSelected ==
    /\ ~busy
    /\ \E s \in SCENARIOS : lab_scenario' = s /\ page_scenario' = s
    /\ Cleared
    /\ UNCHANGED <<lab_strategy, lab_mount, page_busy, started>>

\* The page's own drawer: a new key mounts a new lab.
PageSelected ==
    /\ ~page_busy
    /\ lab_mount < MAX_MOUNTS
    /\ lab_mount' = lab_mount + 1
    /\ \E s \in SCENARIOS : lab_scenario' = s /\ page_scenario' = s
    /\ lab_strategy' = DEFAULT_STRATEGY
    /\ Cleared
    /\ UNCHANGED <<page_busy, started>>

\* The debrief's buttons: start afresh, or close it.
DebriefAnswered ==
    /\ lab_debrief
    /\ \/ Cleared
       \/ /\ lab_debrief' = FALSE
          /\ UNCHANGED <<lab_run, lab_address, lab_snapshots, lab_tick,
                         lab_stage>>
    /\ UNCHANGED <<controls, page_busy, started>>

-----------------------------------------------------------------------------
(* The driver's callbacks *)

Goes(n, from, to) ==
    /\ started[n].at = from
    /\ started' = [started EXCEPT ![n].at = to]

\* Slip (see DisplayIsOfThisLab): the page gives the lab no key, and a
\* selection clears the lab that is there.
Kept(n) == TRUE

\* React drops what a lab that has been replaced sets.
Mounted(n) == started[n].mount = lab_mount

\* onStage
Staged(n, stage) ==
    /\ IF Mounted(n) THEN lab_stage' = stage /\ lab_address' = n
                     ELSE UNCHANGED <<lab_stage, lab_address>>
    /\ UNCHANGED <<lab_run, lab_snapshots, lab_tick, lab_debrief, controls,
                   page_busy>>

StageReached(n) ==
    \/ Goes(n, "preparing", "approval") /\ Staged(n, "approval")
    \/ Goes(n, "approval", "delegating") /\ Staged(n, "delegating")
    \/ Goes(n, "delegating", "reading") /\ Staged(n, "executing")
    \/ /\ started[n].tick = LAB_TICKS
       /\ Goes(n, "executing", "settling")
       /\ Staged(n, "settling")

Snapshot(n, final) == [run |-> n, tick |-> started[n].tick, final |-> final]

appendRankedSnapshot(previous, next) ==
    IF previous # <<>> /\ previous[Len(previous)].tick = next.tick
    THEN [previous EXCEPT ![Len(previous)] = next]
    ELSE IF \E k \in DOMAIN previous : previous[k].tick = next.tick
    THEN previous
    ELSE Append(previous, next)

\* onSnapshot
Drawn(n, final) ==
    lab_snapshots' =
        IF Mounted(n)
        THEN appendRankedSnapshot(lab_snapshots, Snapshot(n, final))
        ELSE lab_snapshots

\* The account is read before the first tick, and again after each one, where
\* a failed or outdated read is skipped.
AccountRead(n) ==
    /\ \/ Goes(n, "reading", "executing") /\ Drawn(n, FALSE)
       \/ /\ Goes(n, "ticked", "executing")
          /\ Drawn(n, FALSE) \/ UNCHANGED lab_snapshots
    /\ UNCHANGED <<lab_run, lab_address, lab_tick, lab_stage, lab_debrief,
                   controls, page_busy>>

\* onTick
TickConfirmed(n) ==
    /\ started[n].at = "executing"
    /\ started[n].tick < LAB_TICKS
    /\ started' = [started EXCEPT ![n].at = "ticked", ![n].tick = @ + 1]
    /\ lab_tick' = IF Mounted(n) THEN started[n].tick + 1 ELSE lab_tick
    /\ UNCHANGED <<lab_run, lab_address, lab_snapshots, lab_stage, lab_debrief,
                   controls, page_busy>>

\* The base layer's settled account has been read, and start returns.
RunCompletes(n) ==
    /\ Goes(n, "settling", "over")
    /\ Drawn(n, TRUE)
    /\ IF Mounted(n)
       THEN lab_run' = n /\ lab_stage' = "complete" /\ lab_debrief' = TRUE
       ELSE UNCHANGED <<lab_run, lab_stage, lab_debrief>>
    /\ page_busy' = FALSE
    /\ UNCHANGED <<lab_address, lab_tick, controls>>

RunFails(n) ==
    /\ started[n].at # "over"
    /\ started' = [started EXCEPT ![n].at = "over"]
    /\ lab_stage' = IF Mounted(n) THEN "idle" ELSE lab_stage
    /\ page_busy' = FALSE
    /\ UNCHANGED <<lab_run, lab_address, lab_snapshots, lab_tick, lab_debrief,
                   controls>>

LabNext ==
    \/ StartClicked \/ ParameterChanged \/ ScenarioSelected
    \/ PageSelected \/ DebriefAnswered
    \/ \E n \in DOMAIN started :
          \/ StageReached(n) \/ AccountRead(n) \/ TickConfirmed(n)
          \/ RunCompletes(n) \/ RunFails(n)

LabSpec == LabInit /\ [][LabNext]_labVars

-----------------------------------------------------------------------------
(* Properties *)

Displayed == {lab_address, lab_run} \cup
             {lab_snapshots[k].run : k \in DOMAIN lab_snapshots}

\* page.tsx:151, a selection in the page's drawer mounts a new lab: whatever
\* runs are started on top of each other, fail or go on after their lab was
\* replaced, all that a lab shows, chart, link and result, is of runs that
\* were started in it; its chart has one point per tick; the debrief is of a
\* run that was executed to its last tick; and its scenario is the page's.
DisplayIsOfThisLab ==
    /\ \A n \in Displayed \ {NoRun} : started[n].mount = lab_mount
    /\ \A j, k \in DOMAIN lab_snapshots :
         lab_snapshots[j].tick = lab_snapshots[k].tick => j = k
    /\ lab_debrief => lab_run # NoRun
    /\ lab_run # NoRun =>
         started[lab_run].at = "over" /\ started[lab_run].tick = LAB_TICKS
    /\ lab_scenario = page_scenario
=============================================================================
