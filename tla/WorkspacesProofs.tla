-------------------------- MODULE WorkspacesProofs --------------------------
(***************************************************************************)
(* What holds of the page's workspaces for any scenarios, strategies,      *)
(* lengths and numbers of runs: the browser's engine and the runs of it,   *)
(* the Strategy Lab of ranked runs, the browser's own lab with its private *)
(* history, the verified session, and the leaderboards.                    *)
(***************************************************************************)
EXTENDS SessionRuntime, RankedLab, StrategyLab, Leaderboards, SumsProofs

-----------------------------------------------------------------------------
(* Runs of the engine *)

\* g holds the first n ticks of the strategy's run in the scenario.
RunsTo(g, scenario, strategy, n) ==
    g = [t \in 0 .. n |->
            IF t = 0 THEN createSimulation(scenario, strategy)
            ELSE stepSimulation(g[t - 1], scenario, strategy)]

LEMMA RunsToOnce ==
    ASSUME NEW scenario, NEW strategy, NEW m \in Nat, NEW n \in Nat,
           NEW g, NEW h,
           RunsTo(g, scenario, strategy, m), RunsTo(h, scenario, strategy, n)
    PROVE  \A t \in Nat : t <= m /\ t <= n => g[t] = h[t]
<1> DEFINE Bad == {t \in Nat : t <= m /\ t <= n /\ g[t] # h[t]}
<1>1. SUFFICES ASSUME Bad # {}
               PROVE  FALSE
  OBVIOUS
<1>2. PICK t \in Bad : \A u \in Bad : t <= u
  <2>1. Bad \subseteq Nat
    OBVIOUS
  <2> HIDE DEF Bad
  <2>2. QED
    BY <1>1, <2>1, SmallestNumber
<1>3. /\ g[t] = IF t = 0 THEN createSimulation(scenario, strategy)
                ELSE stepSimulation(g[t - 1], scenario, strategy)
      /\ h[t] = IF t = 0 THEN createSimulation(scenario, strategy)
                ELSE stepSimulation(h[t - 1], scenario, strategy)
  BY DEF RunsTo
<1>4. t # 0
  BY <1>3
<1>5. g[t - 1] = h[t - 1]
  BY <1>2, <1>4
<1>6. QED
  BY <1>3, <1>5

LEMMA RunsToExists ==
    ASSUME NEW scenario, NEW strategy, NEW n \in Nat
    PROVE  \E g : RunsTo(g, scenario, strategy, n)
<1> DEFINE Bad == {k \in Nat : ~ \E g : RunsTo(g, scenario, strategy, k)}
<1>1. SUFFICES ASSUME Bad # {}
               PROVE  FALSE
  OBVIOUS
<1>2. PICK k \in Bad : \A u \in Bad : k <= u
  <2>1. Bad \subseteq Nat
    OBVIOUS
  <2> HIDE DEF Bad
  <2>2. QED
    BY <1>1, <2>1, SmallestNumber
<1>3. k \in Nat
  OBVIOUS
<1>4. CASE k = 0
  <2> DEFINE h == [t \in 0 .. k |-> createSimulation(scenario, strategy)]
  <2>1. RunsTo(h, scenario, strategy, k)
    BY <1>4 DEF RunsTo
  <2>2. QED
    BY <2>1
<1>5. CASE k # 0
  <2>1. k - 1 \in Nat /\ k - 1 \notin Bad
    BY <1>2, <1>3, <1>5
  <2>2. PICK g : RunsTo(g, scenario, strategy, k - 1)
    BY <2>1
  <2> DEFINE h == [t \in 0 .. k |->
                      IF t < k THEN g[t]
                      ELSE stepSimulation(g[k - 1], scenario, strategy)]
  <2>3. ASSUME NEW t \in 0 .. k
        PROVE  h[t] = IF t = 0 THEN createSimulation(scenario, strategy)
                      ELSE stepSimulation(h[t - 1], scenario, strategy)
    <3>1. t = k \/ t \in 0 .. k - 1
      BY <1>3
    <3>2. CASE t = k
      BY <1>3, <1>5, <3>2
    <3>3. CASE t \in 0 .. k - 1
      <4>1. h[t] = g[t] /\ (t # 0 => h[t - 1] = g[t - 1])
        BY <1>3, <3>3
      <4>2. QED
        BY <2>2, <3>3, <4>1 DEF RunsTo
    <3>4. QED
      BY <3>1, <3>2, <3>3
  <2>4. RunsTo(h, scenario, strategy, k)
    <3>1. h = [t \in 0 .. k |-> h[t]]
      OBVIOUS
    <3> HIDE DEF h
    <3>2. QED
      BY <2>3, <3>1 DEF RunsTo
  <2>5. QED
    BY <2>4
<1>6. QED
  BY <1>4, <1>5

\* The functions that the engine and the fallback are defined by are runs.
LEMMA SimulationRuns ==
    ASSUME NEW scenario, NEW strategy, scenario.ticks \in Nat
    PROVE  RunsTo(simulationAt(scenario, strategy), scenario, strategy,
                  scenario.ticks)
<1> DEFINE n == scenario.ticks
<1>1. simulationAt(scenario, strategy)
        = CHOOSE g : RunsTo(g, scenario, strategy, n)
  BY DEF simulationAt, RunsTo
<1>2. \E g : RunsTo(g, scenario, strategy, n)
  BY RunsToExists
<1> HIDE DEF n
<1>3. QED
  BY <1>1, <1>2 DEF n

\* Every operation of a tick keeps the state's fields, and only the first one
\* touches its number.
LEMMA SteppedTick ==
    ASSUME NEW s, "tick" \in DOMAIN s, NEW scenario, NEW strategy,
           NEW next, next = stepSimulation(s, scenario, strategy)
    PROVE  /\ "tick" \in DOMAIN next
           /\ next.tick = IF s.tick >= scenario.ticks THEN s.tick
                          ELSE s.tick + 1
<1> DEFINE Ticks(x, n) == "tick" \in DOMAIN x /\ x.tick = n
<1>1. ASSUME NEW x, NEW price, NEW tick, Ticks(x, x.tick)
      PROVE  Ticks(requoted(x, tick, price, strategy), tick)
  BY <1>1 DEF requoted
<1>2. ASSUME NEW x, NEW n, NEW o, Ticks(x, n)
      PROVE  Ticks(bought(x, o), n) /\ Ticks(sold(x, o), n)
  BY <1>2 DEF bought, sold
<1>3. ASSUME NEW x, NEW n, NEW deviation, NEW flow, Ticks(x, n)
      PROVE  Ticks(filled(x, deviation, flow), n)
  <2> HIDE DEF Ticks
  <2>1. QED
    BY <1>2, <1>3 DEF filled
<1>4. ASSUME NEW x, NEW n, Ticks(x, n)
      PROVE  Ticks(marked(x), n)
  BY <1>4 DEF marked
<1>5. CASE s.tick >= scenario.ticks
  BY <1>5 DEF stepSimulation
<1>6. CASE ~(s.tick >= scenario.ticks)
  <2>1. Ticks(next, s.tick + 1)
    <3>1. Ticks(s, s.tick)
      OBVIOUS
    <3> HIDE DEF Ticks
    <3>2. QED
      BY <1>1, <1>3, <1>4, <1>6, <3>1 DEF stepSimulation
  <2>2. QED
    BY <1>6, <2>1
<1>7. QED
  BY <1>5, <1>6

LEMMA RunEquation ==
    ASSUME NEW scenario, NEW strategy, scenario.ticks \in Nat,
           NEW run, run = simulationAt(scenario, strategy),
           NEW t \in 0 .. scenario.ticks
    PROVE  run[t] = IF t = 0 THEN createSimulation(scenario, strategy)
                    ELSE stepSimulation(run[t - 1], scenario, strategy)
<1>1. RunsTo(run, scenario, strategy, scenario.ticks)
  BY SimulationRuns
<1>2. QED
  BY <1>1 DEF RunsTo

\* A run's states are numbered by its ticks.
LEMMA RunTicks ==
    ASSUME NEW scenario, NEW strategy, scenario.ticks \in Nat,
           NEW run, run = simulationAt(scenario, strategy)
    PROVE  \A t \in 0 .. scenario.ticks :
              "tick" \in DOMAIN run[t] /\ run[t].tick = t
<1> DEFINE n == scenario.ticks
           Bad == {t \in 0 .. n : ~("tick" \in DOMAIN run[t]
                                      /\ run[t].tick = t)}
<1>1. SUFFICES ASSUME Bad # {}
               PROVE  FALSE
  OBVIOUS
<1>2. PICK t \in Bad : \A u \in Bad : t <= u
  <2>1. Bad \subseteq Nat
    OBVIOUS
  <2> HIDE DEF Bad
  <2>2. QED
    BY <1>1, <2>1, SmallestNumber
<1>3. run[t] = IF t = 0 THEN createSimulation(scenario, strategy)
               ELSE stepSimulation(run[t - 1], scenario, strategy)
  BY RunEquation
<1>4. CASE t = 0
  BY <1>3, <1>4 DEF createSimulation
<1>5. CASE t # 0
  <2>1. t - 1 \in 0 .. n /\ t - 1 \notin Bad /\ ~(t - 1 >= n)
    BY <1>2, <1>5
  <2>2. "tick" \in DOMAIN run[t - 1] /\ run[t - 1].tick = t - 1
    BY <2>1
  <2>3. "tick" \in DOMAIN run[t] /\ run[t].tick = t
    BY <1>3, <1>5, <2>1, <2>2, SteppedTick
  <2>4. QED
    BY <2>3
<1>6. QED
  BY <1>4, <1>5

\* Past the end of a run a step changes nothing.
LEMMA RunStep ==
    ASSUME NEW scenario, NEW strategy, scenario.ticks \in Nat,
           NEW run, run = simulationAt(scenario, strategy),
           NEW t \in 0 .. scenario.ticks
    PROVE  stepSimulation(run[t], scenario, strategy)
             = run[IF t < scenario.ticks THEN t + 1 ELSE scenario.ticks]
<1> DEFINE n == scenario.ticks
<1>1. CASE t < n
  <2>1. t + 1 \in 0 .. n /\ (t + 1) - 1 = t /\ t + 1 # 0
    BY <1>1
  <2>2. run[t + 1] = stepSimulation(run[t], scenario, strategy)
    BY <2>1, RunEquation
  <2>3. QED
    BY <1>1, <2>2
<1>2. CASE ~(t < n)
  <2>1. t = n /\ run[t].tick >= n
    BY <1>2, RunTicks
  <2>2. QED
    BY <1>2, <2>1 DEF stepSimulation
<1>3. QED
  BY <1>1, <1>2

-----------------------------------------------------------------------------
(* The Strategy Lab of ranked runs: the inductive invariant *)

USE RankedLabAssumption

Places ==
    {"preparing", "approval", "delegating", "reading", "executing", "ticked",
     "settling", "over"}

StartedRun ==
    [at : Places, tick : Nat, mount : Nat,
     scenario : SCENARIOS, strategy : STRATEGIES]

Point == [run : Nat, tick : Nat, final : BOOLEAN]

LabTypes ==
    /\ started \in Seq(StartedRun)
    /\ lab_snapshots \in Seq(Point)
    /\ lab_mount \in Nat
    /\ lab_scenario \in SCENARIOS /\ lab_strategy \in STRATEGIES

OfThisLab(n) == n # NoRun => n \in DOMAIN started /\ Mounted(n)

PointPerTick(chart) ==
    \A j, k \in DOMAIN chart : chart[j].tick = chart[k].tick => j = k

ChartOfThisLab ==
    /\ \A k \in DOMAIN lab_snapshots : OfThisLab(lab_snapshots[k].run)
    /\ PointPerTick(lab_snapshots)

Executed(n) == n # NoRun =>
    started[n].at = "over" /\ started[n].tick = LAB_TICKS

LabInv ==
    /\ LabTypes
    /\ OfThisLab(lab_address) /\ OfThisLab(lab_run) /\ ChartOfThisLab
    /\ \A n \in DOMAIN started :
         started[n].at = "settling" => started[n].tick = LAB_TICKS
    /\ lab_debrief => lab_run # NoRun
    /\ Executed(lab_run)
    /\ lab_scenario = page_scenario

-----------------------------------------------------------------------------
(* The user *)

\* What is cleared shows nothing, in a new lab or in the same one.
LEMMA ClearedInv ==
    ASSUME LabInv, Cleared,
           started' = started
             \/ \E r \in StartedRun : /\ r.at = "preparing"
                                      /\ started' = Append(started, r),
           lab_mount' \in Nat, lab_scenario' \in SCENARIOS,
           lab_strategy' \in STRATEGIES, lab_scenario' = page_scenario'
    PROVE  LabInv'
<1>1. /\ lab_run' = NoRun /\ lab_address' = NoRun /\ lab_snapshots' = <<>>
      /\ lab_debrief' = FALSE
  BY DEF Cleared
<1>2. /\ started' \in Seq(StartedRun)
      /\ \A n \in DOMAIN started' :
           started'[n].at = "settling" => started'[n].tick = LAB_TICKS
  <2>1. /\ started \in Seq(StartedRun)
        /\ \A n \in DOMAIN started :
             started[n].at = "settling" => started[n].tick = LAB_TICKS
    BY DEF LabInv, LabTypes
  <2>2. ASSUME NEW r \in StartedRun, r.at = "preparing",
               started' = Append(started, r)
        PROVE  /\ started' \in Seq(StartedRun)
               /\ \A n \in DOMAIN started' :
                    started'[n].at = "settling" => started'[n].tick = LAB_TICKS
    <3>1. /\ Len(started) \in Nat /\ DOMAIN started = 1 .. Len(started)
          /\ DOMAIN started' = 1 .. Len(started) + 1
          /\ started'[Len(started) + 1] = r
          /\ \A n \in 1 .. Len(started) : started'[n] = started[n]
          /\ started' \in Seq(StartedRun)
      BY <2>1, <2>2
    <3>2. \A n \in DOMAIN started' :
            n = Len(started) + 1 \/ n \in 1 .. Len(started)
      BY <3>1
    <3>3. ASSUME NEW n \in DOMAIN started', started'[n].at = "settling"
          PROVE  started'[n].tick = LAB_TICKS
      <4>1. CASE n = Len(started) + 1
        BY <2>2, <3>1, <3>3, <4>1
      <4>2. CASE n \in 1 .. Len(started)
        BY <2>1, <3>1, <3>3, <4>2
      <4>3. QED
        BY <3>2, <4>1, <4>2
    <3>4. QED
      BY <3>1, <3>3
  <2>3. QED
    BY <2>1, <2>2
<1>3. LabTypes'
  BY <1>1, <1>2 DEF LabTypes
<1>4. ChartOfThisLab'
  BY <1>1 DEF ChartOfThisLab, PointPerTick
<1>5. QED
  BY <1>1, <1>2, <1>3, <1>4 DEF LabInv, OfThisLab, Executed

LEMMA UserInv ==
    ASSUME LabInv,
           \/ StartClicked \/ ParameterChanged \/ ScenarioSelected
           \/ PageSelected
    PROVE  LabInv'
<1>1. /\ lab_mount \in Nat /\ lab_scenario \in SCENARIOS
      /\ lab_strategy \in STRATEGIES /\ lab_scenario = page_scenario
  BY DEF LabInv, LabTypes
<1>2. CASE StartClicked
  <2> DEFINE r == [at |-> "preparing", tick |-> 0, mount |-> lab_mount,
                   scenario |-> lab_scenario, strategy |-> lab_strategy]
  <2>1. /\ Cleared /\ started' = Append(started, r)
        /\ UNCHANGED controls
    BY <1>2 DEF StartClicked
  <2>2. r \in StartedRun /\ r.at = "preparing"
    BY <1>1 DEF StartedRun, Places
  <2> HIDE DEF r
  <2>3. QED
    BY <1>1, <2>1, <2>2, ClearedInv DEF controls
<1>3. CASE ParameterChanged
  BY <1>1, <1>3, ClearedInv DEF ParameterChanged
<1>4. CASE ScenarioSelected
  BY <1>1, <1>4, ClearedInv DEF ScenarioSelected
<1>5. CASE PageSelected
  BY <1>1, <1>5, ClearedInv DEF PageSelected
<1>6. QED
  BY <1>2, <1>3, <1>4, <1>5

\* A step that changes nothing but closes the debrief, or not even that.
LEMMA ClosedInv ==
    ASSUME LabInv, lab_debrief' \in {FALSE, lab_debrief}, UNCHANGED controls,
           UNCHANGED <<lab_run, lab_address, lab_snapshots, started>>
    PROVE  LabInv'
<1>1. LabTypes'
  BY DEF LabInv, LabTypes, controls
<1>2. /\ \A n : OfThisLab(n) <=> OfThisLab(n)'
      /\ \A n : Executed(n) <=> Executed(n)'
  BY DEF controls, OfThisLab, Mounted, Executed
<1>3. OfThisLab(lab_address)' /\ OfThisLab(lab_run)' /\ Executed(lab_run)'
  BY DEF LabInv, controls, OfThisLab, Mounted, Executed
<1>4. ChartOfThisLab'
  BY <1>2 DEF LabInv, ChartOfThisLab, PointPerTick
<1>5. lab_debrief' => lab_run' # NoRun
  BY DEF LabInv
<1>6. lab_scenario' = page_scenario'
  BY DEF LabInv, controls
<1>7. \A n \in DOMAIN started' :
         started'[n].at = "settling" => started'[n].tick = LAB_TICKS
  BY DEF LabInv
<1>8. QED
  BY <1>1, <1>3, <1>4, <1>5, <1>6, <1>7 DEF LabInv

LEMMA AnsweredInv ==
    ASSUME LabInv, DebriefAnswered
    PROVE  LabInv'
<1>1. /\ lab_mount \in Nat /\ lab_scenario \in SCENARIOS
      /\ lab_strategy \in STRATEGIES /\ lab_scenario = page_scenario
  BY DEF LabInv, LabTypes
<1>2. CASE Cleared
  BY <1>1, <1>2, ClearedInv DEF DebriefAnswered, controls
<1>3. CASE ~Cleared
  BY <1>3, ClosedInv DEF DebriefAnswered
<1>4. QED
  BY <1>2, <1>3

-----------------------------------------------------------------------------
(* The driver's callbacks *)

\* appendRankedSnapshot: a tick that the chart has is replaced at its end or
\* left alone, so that no tick is drawn twice, in whatever order they come.
LEMMA DrawnOnce ==
    ASSUME NEW chart \in Seq(Point), NEW next \in Point, PointPerTick(chart),
           NEW drawn, drawn = appendRankedSnapshot(chart, next)
    PROVE  /\ drawn \in Seq(Point) /\ PointPerTick(drawn)
           /\ \A k \in DOMAIN drawn :
                \/ drawn[k] = next
                \/ k \in DOMAIN chart /\ drawn[k] = chart[k]
<1> DEFINE last == Len(chart)
<1>1. last \in Nat /\ DOMAIN chart = 1 .. last
  OBVIOUS
<1>2. CASE chart # <<>> /\ chart[last].tick = next.tick
  <2>1. drawn = [chart EXCEPT ![last] = next] /\ last \in DOMAIN chart
    BY <1>2 DEF appendRankedSnapshot
  <2>2. /\ drawn \in Seq(Point) /\ DOMAIN drawn = DOMAIN chart
        /\ drawn[last] = next
        /\ \A k \in DOMAIN chart : k # last => drawn[k] = chart[k]
    BY <2>1
  <2>3. \A k \in DOMAIN chart : drawn[k].tick = chart[k].tick
    BY <1>2, <2>2
  <2>4. QED
    BY <2>2, <2>3 DEF PointPerTick
<1>3. CASE \E k \in DOMAIN chart : chart[k].tick = next.tick
  BY <1>2, <1>3 DEF appendRankedSnapshot
<1>4. CASE ~ \E k \in DOMAIN chart : chart[k].tick = next.tick
  <2>1. drawn = Append(chart, next)
    <3>1. chart # <<>> => last \in DOMAIN chart
      OBVIOUS
    <3>2. ~(chart # <<>> /\ chart[last].tick = next.tick)
      BY <1>4, <3>1
    <3>3. QED
      BY <1>4, <3>2 DEF appendRankedSnapshot
  <2>2. /\ drawn \in Seq(Point) /\ DOMAIN drawn = 1 .. last + 1
        /\ drawn[last + 1] = next
        /\ \A k \in 1 .. last : drawn[k] = chart[k]
    BY <1>1, <2>1
  <2>3. ASSUME NEW j \in DOMAIN drawn, NEW k \in DOMAIN drawn,
               drawn[j].tick = drawn[k].tick
        PROVE  j = k
    <3>1. CASE j \in 1 .. last /\ k \in 1 .. last
      BY <1>1, <2>2, <2>3, <3>1 DEF PointPerTick
    <3>2. CASE j \in 1 .. last /\ k = last + 1
      BY <1>1, <1>4, <2>2, <2>3, <3>2
    <3>3. CASE j = last + 1 /\ k \in 1 .. last
      BY <1>1, <1>4, <2>2, <2>3, <3>3
    <3>4. QED
      BY <1>1, <2>2, <3>1, <3>2, <3>3
  <2>4. QED
    BY <1>1, <2>2, <2>3 DEF PointPerTick
<1>5. QED
  BY <1>2, <1>3, <1>4

Moves(n, to, tick) ==
    started' = [started EXCEPT ![n] = [started[n] EXCEPT !.at = to,
                                                         !.tick = tick]]

\* A callback of a run that goes on: only the lab that started it shows more
\* of it, its result when it is over and executed.
LEMMA CalledInv ==
    ASSUME LabInv, NEW n \in DOMAIN started, started[n].at # "over",
           NEW to \in Places, NEW tick \in Nat, Moves(n, to, tick),
           to = "settling" => tick = LAB_TICKS,
           UNCHANGED controls,
           \/ lab_snapshots' = lab_snapshots
           \/ \E final \in BOOLEAN : Drawn(n, final),
           lab_address' = lab_address \/ (Mounted(n) /\ lab_address' = n),
           \/ lab_run' = lab_run /\ lab_debrief' = lab_debrief
           \/ /\ Mounted(n) /\ lab_run' = n
              /\ to = "over" /\ tick = LAB_TICKS
    PROVE  LabInv'
<1>1. /\ started \in Seq(StartedRun) /\ started[n] \in StartedRun
      /\ n \in Nat \ {0}
  BY DEF LabInv, LabTypes
<1>2. /\ started' \in Seq(StartedRun) /\ DOMAIN started' = DOMAIN started
      /\ started'[n].at = to /\ started'[n].tick = tick
      /\ started'[n].mount = started[n].mount
      /\ \A m \in DOMAIN started : m # n => started'[m] = started[m]
  <2> DEFINE r == [started[n] EXCEPT !.at = to, !.tick = tick]
  <2>1. /\ r \in StartedRun /\ r.at = to /\ r.tick = tick
        /\ r.mount = started[n].mount
    BY <1>1 DEF StartedRun
  <2>2. started' = [started EXCEPT ![n] = r]
    BY DEF Moves
  <2> HIDE DEF r
  <2>3. QED
    BY <1>1, <2>1, <2>2
<1>3. /\ lab_mount' = lab_mount /\ lab_scenario' = lab_scenario
      /\ lab_strategy' = lab_strategy /\ page_scenario' = page_scenario
  BY DEF controls
<1>4. \A m : OfThisLab(m) => OfThisLab(m)'
  BY <1>2, <1>3 DEF OfThisLab, Mounted
<1>5. Mounted(n) => OfThisLab(n)
  BY DEF OfThisLab
<1>6. lab_snapshots' \in Seq(Point) /\ ChartOfThisLab'
  <2>1. /\ lab_snapshots \in Seq(Point) /\ PointPerTick(lab_snapshots)
        /\ \A k \in DOMAIN lab_snapshots : OfThisLab(lab_snapshots[k].run)
    BY DEF LabInv, LabTypes, ChartOfThisLab
  <2>2. CASE lab_snapshots' = lab_snapshots
    BY <1>4, <2>1, <2>2 DEF ChartOfThisLab, PointPerTick
  <2>3. ASSUME NEW final \in BOOLEAN, Drawn(n, final),
               lab_snapshots' # lab_snapshots
        PROVE  lab_snapshots' \in Seq(Point) /\ ChartOfThisLab'
    <3> DEFINE next == Snapshot(n, final)
               drawn == lab_snapshots'
    <3>1. next \in Point /\ next.run = n
      BY <1>1 DEF Snapshot, Point, StartedRun
    <3>2. Mounted(n) /\ drawn = appendRankedSnapshot(lab_snapshots, next)
      BY <2>3 DEF Drawn
    <3> HIDE DEF next, drawn
    <3>3. /\ drawn \in Seq(Point) /\ PointPerTick(drawn)
          /\ \A k \in DOMAIN drawn :
               \/ drawn[k] = next
               \/ k \in DOMAIN lab_snapshots /\ drawn[k] = lab_snapshots[k]
      BY <2>1, <3>1, <3>2, DrawnOnce
    <3>4. \A k \in DOMAIN drawn : OfThisLab(drawn[k].run)
      BY <1>5, <2>1, <3>1, <3>2, <3>3
    <3>5. /\ drawn \in Seq(Point) /\ PointPerTick(lab_snapshots)'
          /\ \A k \in DOMAIN lab_snapshots' :
                OfThisLab(lab_snapshots'[k].run)
      BY <3>3, <3>4 DEF drawn, PointPerTick
    <3>6. \A k \in DOMAIN lab_snapshots' : OfThisLab(lab_snapshots[k].run)'
      BY <1>2, <1>3, <3>5 DEF OfThisLab, Mounted
    <3>7. QED
      BY <3>5, <3>6 DEF drawn, ChartOfThisLab
  <2>4. QED
    BY <2>2, <2>3
<1>7. LabTypes'
  BY <1>2, <1>3, <1>6 DEF LabInv, LabTypes
<1>8. OfThisLab(lab_address)' /\ OfThisLab(lab_run)'
  BY <1>2, <1>3 DEF LabInv, OfThisLab, Mounted
<1>9. Executed(lab_run)' /\ (lab_debrief' => lab_run' # NoRun)
  <2>1. CASE lab_run' = lab_run /\ lab_debrief' = lab_debrief
    <3>1. lab_run # NoRun =>
            lab_run \in DOMAIN started /\ started[lab_run].at = "over"
      BY DEF LabInv, OfThisLab, Executed
    <3>2. lab_run # NoRun => lab_run # n
      BY <3>1
    <3>3. QED
      BY <1>2, <2>1, <3>1, <3>2 DEF LabInv, Executed
  <2>2. CASE lab_run' = n /\ to = "over" /\ tick = LAB_TICKS
    BY <1>1, <1>2, <2>2 DEF Executed, NoRun
  <2>3. QED
    BY <2>1, <2>2
<1>10. \A m \in DOMAIN started' :
          started'[m].at = "settling" => started'[m].tick = LAB_TICKS
  BY <1>2 DEF LabInv
<1>11. QED
  BY <1>3, <1>6, <1>7, <1>8, <1>9, <1>10 DEF LabInv

\* A run that moves on at the same tick.
LEMMA GoneTo ==
    ASSUME LabInv, NEW n \in DOMAIN started, NEW to,
           started' = [started EXCEPT ![n].at = to]
    PROVE  /\ Moves(n, to, started[n].tick) /\ started[n].tick \in Nat
           /\ started[n] \in StartedRun
<1>1. started[n] \in StartedRun
  BY DEF LabInv, LabTypes
<1>2. [started[n] EXCEPT !.at = to]
        = [started[n] EXCEPT !.at = to, !.tick = started[n].tick]
  BY <1>1 DEF StartedRun
<1>3. QED
  BY <1>1, <1>2 DEF Moves, StartedRun

LEMMA StageInv ==
    ASSUME LabInv, NEW n \in DOMAIN started, StageReached(n)
    PROVE  LabInv'
<1>1. PICK to \in {"approval", "delegating", "reading", "settling"} :
        /\ started[n].at # "over"
        /\ started' = [started EXCEPT ![n].at = to]
        /\ to = "settling" => started[n].tick = LAB_TICKS
        /\ \E stage : Staged(n, stage)
  BY DEF StageReached, Goes
<1>2. /\ lab_address' = lab_address \/ (Mounted(n) /\ lab_address' = n)
      /\ UNCHANGED <<lab_run, lab_snapshots, lab_debrief, controls>>
  BY <1>1 DEF Staged
<1>3. Moves(n, to, started[n].tick) /\ started[n].tick \in Nat
  BY <1>1, GoneTo
<1>4. to \in Places
  BY DEF Places
<1>5. QED
  BY <1>1, <1>2, <1>3, <1>4, CalledInv

LEMMA ReadInv ==
    ASSUME LabInv, NEW n \in DOMAIN started, AccountRead(n)
    PROVE  LabInv'
<1>1. /\ started[n].at # "over"
      /\ started' = [started EXCEPT ![n].at = "executing"]
      /\ Drawn(n, FALSE) \/ lab_snapshots' = lab_snapshots
      /\ UNCHANGED <<lab_run, lab_address, lab_debrief, controls>>
  BY DEF AccountRead, Goes
<1>2. Moves(n, "executing", started[n].tick) /\ started[n].tick \in Nat
  BY <1>1, GoneTo
<1>3. "executing" \in Places /\ FALSE \in BOOLEAN
  BY DEF Places
<1>4. QED
  BY <1>1, <1>2, <1>3, CalledInv

LEMMA TickInv ==
    ASSUME LabInv, NEW n \in DOMAIN started, TickConfirmed(n)
    PROVE  LabInv'
<1>1. /\ started[n].at = "executing"
      /\ started' = [started EXCEPT ![n].at = "ticked", ![n].tick = @ + 1]
      /\ UNCHANGED <<lab_run, lab_address, lab_snapshots, lab_debrief,
                     controls>>
  BY DEF TickConfirmed
<1>2. started[n] \in StartedRun /\ started \in Seq(StartedRun)
  BY DEF LabInv, LabTypes
<1>3. started[n].tick + 1 \in Nat /\ "ticked" \in Places
  BY <1>2 DEF StartedRun, Places
<1>4. Moves(n, "ticked", started[n].tick + 1)
  BY <1>1, <1>2 DEF Moves
<1>5. QED
  BY <1>1, <1>3, <1>4, CalledInv

LEMMA CompleteInv ==
    ASSUME LabInv, NEW n \in DOMAIN started, RunCompletes(n)
    PROVE  LabInv'
<1>1. /\ started[n].at = "settling"
      /\ started' = [started EXCEPT ![n].at = "over"]
      /\ Drawn(n, TRUE)
      /\ \/ Mounted(n) /\ lab_run' = n
         \/ lab_run' = lab_run /\ lab_debrief' = lab_debrief
      /\ UNCHANGED <<lab_address, controls>>
  BY DEF RunCompletes, Goes
<1>2. Moves(n, "over", started[n].tick) /\ started[n].tick \in Nat
  BY <1>1, GoneTo
<1>3. started[n].tick = LAB_TICKS
  BY <1>1 DEF LabInv
<1>4. "over" \in Places /\ TRUE \in BOOLEAN
  BY DEF Places
<1>5. QED
  BY <1>1, <1>2, <1>3, <1>4, CalledInv

LEMMA FailInv ==
    ASSUME LabInv, NEW n \in DOMAIN started, RunFails(n)
    PROVE  LabInv'
<1>1. /\ started[n].at # "over"
      /\ started' = [started EXCEPT ![n].at = "over"]
      /\ UNCHANGED <<lab_run, lab_address, lab_snapshots, lab_debrief,
                     controls>>
  BY DEF RunFails
<1>2. Moves(n, "over", started[n].tick) /\ started[n].tick \in Nat
  BY <1>1, GoneTo
<1>3. "over" \in Places
  BY DEF Places
<1>4. QED
  BY <1>1, <1>2, <1>3, CalledInv

-----------------------------------------------------------------------------
(* Every step *)

LEMMA LabInvInit == LabInit => LabInv
<1> SUFFICES ASSUME LabInit
             PROVE  LabInv
  OBVIOUS
<1>1. <<>> \in Seq(StartedRun) /\ <<>> \in Seq(Point)
  OBVIOUS
<1>2. LabTypes
  BY <1>1 DEF LabInit, LabTypes
<1>3. QED
  BY <1>2 DEF LabInit, LabInv, OfThisLab, ChartOfThisLab, PointPerTick,
              Executed

LEMMA LabInvNext == LabInv /\ [LabNext]_labVars => LabInv'
<1> SUFFICES ASSUME LabInv, [LabNext]_labVars
             PROVE  LabInv'
  OBVIOUS
<1>1. CASE \/ StartClicked \/ ParameterChanged \/ ScenarioSelected
           \/ PageSelected
  BY <1>1, UserInv
<1>2. CASE DebriefAnswered
  BY <1>2, AnsweredInv
<1>3. ASSUME NEW n \in DOMAIN started,
             \/ StageReached(n) \/ AccountRead(n) \/ TickConfirmed(n)
             \/ RunCompletes(n) \/ RunFails(n)
      PROVE  LabInv'
  BY <1>3, StageInv, ReadInv, TickInv, CompleteInv, FailInv
<1>4. CASE UNCHANGED labVars
  BY <1>4, ClosedInv DEF labVars, presentation
<1>5. QED
  BY <1>1, <1>2, <1>3, <1>4 DEF LabNext

\* For any scenarios, strategies, length of a run and number of runs and labs:
\* whatever runs are started on top of each other, change, fail or go on after
\* the page has replaced their lab (ranked-strategy-lab.tsx, app/page.tsx), a
\* lab shows runs that were started in it, each tick once, and opens the
\* debrief of a run that was executed to the end.
THEOREM DisplayAlwaysOfThisLab == LabSpec => []DisplayIsOfThisLab
<1>1. LabInv => DisplayIsOfThisLab
  <2> SUFFICES ASSUME LabInv
               PROVE  DisplayIsOfThisLab
    OBVIOUS
  <2>1. \A n \in Displayed : OfThisLab(n)
    BY DEF LabInv, ChartOfThisLab, Displayed
  <2>2. \A n \in Displayed \ {NoRun} : started[n].mount = lab_mount
    BY <2>1 DEF OfThisLab, Mounted
  <2>3. QED
    BY <2>2 DEF LabInv, ChartOfThisLab, PointPerTick, Executed,
                DisplayIsOfThisLab
<1>2. QED
  BY <1>1, LabInvInit, LabInvNext, PTL DEF LabSpec

-----------------------------------------------------------------------------
(* The browser's own lab: the inductive invariant *)

USE StrategyLabAssumption

FinalState(scenario, strategy) ==
    simulationAt(scenario, strategy)[scenario.ticks]

Results == {ResultOf(s, g) : s \in SIM_SCENARIOS, g \in SIM_STRATEGIES}

Statuses == {"none", "local", "submitting", "committed", "failed"}

Dialogs ==
    [commitment : Results \cup {NoCommitment}, status : Statuses,
     busy : BOOLEAN]

HashingCall ==
    {[id |-> n, dialog |-> m, scenario |-> s, strategy |-> g,
      state |-> FinalState(s, g)] :
        n \in Nat \ {0}, m \in Nat, s \in SIM_SCENARIOS,
        g \in SIM_STRATEGIES}

SendingCall ==
    [id : Nat \ {0}, dialog : Nat, address : Nat, commitment : Results]

Clocks == [completed : Nat, saved : Nat, submitted : Nat, opened : Nat]

SavedRun ==
    [id : Nat \ {0}, completedAt : Nat, commitment : Results,
     status : Statuses, address : Nat]

OnRecord == [address : Nat, commitment : Results]

\* A state of the whole lab: what was hashed was a finished run.
LabStateOK ==
    /\ sim_scenario \in SIM_SCENARIOS /\ sim_strategy \in SIM_STRATEGIES
    /\ \E t \in 0 .. sim_scenario.ticks :
          sim_state = simulationAt(sim_scenario, sim_strategy)[t]
    /\ run_id \in Nat /\ dismissed \in BOOLEAN
    /\ dialog \in Dialogs
    /\ clock \in Clocks
    /\ hashing \subseteq HashingCall /\ sending \subseteq SendingCall
    /\ history \subseteq SavedRun /\ registry \subseteq OnRecord
    /\ run_id = 0 => dialog.commitment = NoCommitment
    /\ run_id # 0 => finished
    /\ dismissed => run_id # 0

\* What is said to be the result of a run: by a call under way, by the
\* history, by the dialog, or by the lab itself.
Claimed(id, what) ==
    \/ \E c \in hashing : c.id = id /\ Hashed(c) = what
    \/ \E c \in sending \cup history : c.id = id /\ c.commitment = what
    \/ run_id = id /\ dialog.commitment = what /\ what # NoCommitment
    \/ run_id = id /\ id # 0 /\ ResultOf(sim_scenario, sim_strategy) = what

OneResultPerRun ==
    /\ \A id \in Nat, a \in Results : Claimed(id, a) => id <= clock.completed
    /\ \A id \in Nat, a, b \in Results :
          Claimed(id, a) /\ Claimed(id, b) => a = b

HistoryBounded ==
    /\ IsFiniteSet(history)
    /\ Cardinality(history) <= LOCAL_RUN_LIMIT
    /\ \A r \in history : r.completedAt <= clock.saved
    /\ \A r, o \in history : r.completedAt = o.completedAt => r = o
    /\ \A r, o \in history : r.id = o.id => r = o

CommittedOnRecord ==
    \A r \in history : r.status = "committed" =>
        [address |-> r.address, commitment |-> r.commitment] \in registry

HistoryInv ==
    LabStateOK /\ OneResultPerRun /\ HistoryBounded /\ CommittedOnRecord

-----------------------------------------------------------------------------
(* What is hashed *)

LEMMA ResultTrue ==
    ASSUME NEW what \in Results
    PROVE  what = ResultOf(what.scenario, what.strategy)
<1>1. PICK s \in SIM_SCENARIOS, g \in SIM_STRATEGIES : what = ResultOf(s, g)
  BY DEF Results
<1>2. what.scenario = s /\ what.strategy = g
  BY <1>1 DEF ResultOf, createResultCommitment
<1>3. QED
  BY <1>1, <1>2

LEMMA HashedTrue ==
    ASSUME NEW c \in HashingCall
    PROVE  /\ Hashed(c) = ResultOf(c.scenario, c.strategy)
           /\ Hashed(c) \in Results /\ c.id \in Nat \ {0}
<1>1. PICK n \in Nat \ {0}, m \in Nat, s \in SIM_SCENARIOS,
           g \in SIM_STRATEGIES :
        c = [id |-> n, dialog |-> m, scenario |-> s, strategy |-> g,
             state |-> FinalState(s, g)]
  BY DEF HashingCall
<1>2. /\ c.id = n /\ c.scenario = s /\ c.strategy = g
      /\ c.state = FinalState(s, g)
  BY <1>1
<1>3. Hashed(c) = ResultOf(s, g)
  BY <1>2 DEF Hashed, ResultOf, FinalState
<1>4. ResultOf(s, g) \in Results
  BY DEF Results
<1>5. QED
  BY <1>2, <1>3, <1>4

LEMMA FinishedIsFinal ==
    ASSUME LabStateOK, finished
    PROVE  sim_state = FinalState(sim_scenario, sim_strategy)
<1> DEFINE run == simulationAt(sim_scenario, sim_strategy)
           n == sim_scenario.ticks
<1>1. n \in Nat
  BY DEF LabStateOK
<1>2. PICK t \in 0 .. n : sim_state = run[t]
  BY DEF LabStateOK
<1>3. run[t].tick = t
  BY <1>1, RunTicks
<1>4. t >= n
  BY <1>2, <1>3 DEF finished
<1>5. t = n
  BY <1>1, <1>4
<1>6. QED
  BY <1>2, <1>5 DEF FinalState

\* verify hashes a finished run of the lab's scenario and strategy.
LEMMA VerifyCall ==
    ASSUME LabStateOK, finished, NEW id \in Nat \ {0}, NEW m \in Nat, NEW c,
           c = [id |-> id, dialog |-> m, scenario |-> sim_scenario,
                strategy |-> sim_strategy, state |-> sim_state]
    PROVE  /\ c \in HashingCall /\ c.id = id
           /\ Hashed(c) = ResultOf(sim_scenario, sim_strategy)
<1>1. c \in HashingCall
  BY FinishedIsFinal DEF HashingCall, LabStateOK
<1>2. c.id = id /\ c.scenario = sim_scenario /\ c.strategy = sim_strategy
  OBVIOUS
<1>3. QED
  BY <1>1, <1>2, HashedTrue

-----------------------------------------------------------------------------
(* The history's operations *)

\* Of runs that were completed at different times, no more than n are the n
\* newest.
LEMMA NewestAreFew ==
    ASSUME NEW runs, IsFiniteSet(runs), NEW n \in Nat,
           \A r \in runs : r.completedAt \in Nat,
           \A r, o \in runs : r.completedAt = o.completedAt => r = o
    PROVE  /\ newest(runs, n) \subseteq runs
           /\ IsFiniteSet(newest(runs, n))
           /\ Cardinality(newest(runs, n)) <= n
<1> DEFINE N == newest(runs, n)
           Times == {r.completedAt : r \in N}
<1>1. N \subseteq runs /\ IsFiniteSet(N)
  <2>1. N \subseteq runs
    BY DEF newest
  <2>2. QED
    BY <2>1, FS_Subset
<1>2. CASE N = {}
  BY <1>1, <1>2, FS_EmptySet
<1>3. CASE N # {}
  <2>1. Times \subseteq Nat /\ Times # {}
    BY <1>1, <1>3
  <2>2. PICK first \in Times : \A m \in Times : first <= m
    <3> HIDE DEF Times
    <3>1. QED
      BY <2>1, SmallestNumber
  <2>3. PICK r \in N : r.completedAt = first
    OBVIOUS
  <2> DEFINE Later == {o \in runs : o.completedAt > r.completedAt}
  <2>4. Cardinality(Later) < n
    BY <2>3 DEF newest
  <2>5. IsFiniteSet(Later) /\ Cardinality(Later) \in Nat
    BY FS_Subset, FS_CardinalityType
  <2>6. N \ {r} \subseteq Later
    <3> SUFFICES ASSUME NEW o \in N, o # r
                 PROVE  o.completedAt > r.completedAt
      BY <1>1
    <3>1. /\ o.completedAt \in Nat /\ r.completedAt \in Nat
          /\ o.completedAt # r.completedAt
      BY <1>1, <2>3
    <3>2. r.completedAt <= o.completedAt
      BY <2>2, <2>3
    <3>3. QED
      BY <3>1, <3>2
  <2>7. Cardinality(N \ {r}) <= Cardinality(Later)
    BY <2>5, <2>6, FS_Subset
  <2>8. Cardinality(N \ {r}) = Cardinality(N) - 1 /\ Cardinality(N) \in Nat
    BY <1>1, <2>3, FS_RemoveElement, FS_CardinalityType
  <2> HIDE DEF N, Later
  <2>9. QED
    BY <1>1, <2>4, <2>5, <2>7, <2>8 DEF N
<1>4. QED
  BY <1>2, <1>3

LEMMA SavedHistory ==
    ASSUME HistoryBounded, history \subseteq SavedRun,
           clock.saved \in Nat, clock'.saved = clock.saved + 1,
           NEW run \in SavedRun, run.status = "local",
           run.completedAt = clock.saved + 1, saveLocalRun(run)
    PROVE  /\ HistoryBounded'
           /\ \A r \in history' :
                 r = run \/ (r \in history /\ r.id # run.id)
<1> DEFINE others == {r \in history : r.id # run.id}
           kept == submittingRuns(others \cup {run})
           left == (others \cup {run}) \ kept
           room == LOCAL_RUN_LIMIT - Cardinality(kept)
           new == newest(left, room)
<1>1. history' = kept \cup new
  BY DEF saveLocalRun
<1>2. /\ kept \subseteq others /\ others \subseteq history
      /\ left \subseteq history \cup {run}
  BY DEF submittingRuns
<1>3. IsFiniteSet(history) /\ Cardinality(history) <= LOCAL_RUN_LIMIT
  BY DEF HistoryBounded
<1>4. IsFiniteSet(kept) /\ IsFiniteSet(left) /\ room \in Nat
  <2>1. IsFiniteSet(kept) /\ Cardinality(kept) <= Cardinality(history)
    BY <1>2, <1>3, FS_Subset
  <2>2. IsFiniteSet(history \cup {run})
    BY <1>3, FS_AddElement
  <2>3. IsFiniteSet(left)
    BY <1>2, <2>2, FS_Subset
  <2>4. Cardinality(kept) \in Nat /\ Cardinality(history) \in Nat
    BY <1>3, <2>1, FS_CardinalityType
  <2> HIDE DEF kept
  <2>5. QED
    BY <1>3, <2>1, <2>3, <2>4
<1>5. /\ \A r \in history \cup {run} :
           r.completedAt \in Nat /\ r.completedAt <= clock.saved + 1
      /\ \A r, o \in history \cup {run} :
           r.completedAt = o.completedAt => r = o
  <2>1. \A r \in history \cup {run} : r.completedAt \in Nat
    BY DEF SavedRun
  <2>2. \A r \in history : r.completedAt <= clock.saved
    BY DEF HistoryBounded
  <2>3. \A r \in history : r.completedAt # run.completedAt
    BY <2>1, <2>2
  <2>4. \A r, o \in history : r.completedAt = o.completedAt => r = o
    BY DEF HistoryBounded
  <2>5. QED
    BY <2>1, <2>2, <2>3, <2>4
<1>6. /\ new \subseteq left /\ IsFiniteSet(new) /\ Cardinality(new) <= room
  <2>1. /\ \A r \in left : r.completedAt \in Nat
        /\ \A r, o \in left : r.completedAt = o.completedAt => r = o
    BY <1>2, <1>5
  <2> HIDE DEF left, room
  <2>2. QED
    BY <1>4, <2>1, NewestAreFew
<1>7. \A r \in history' : r = run \/ r \in others
  BY <1>1, <1>2, <1>6
<1>8. IsFiniteSet(history') /\ Cardinality(history') <= LOCAL_RUN_LIMIT
  <2>1. /\ IsFiniteSet(kept \cup new)
        /\ Cardinality(kept \cup new)
             = Cardinality(kept) + Cardinality(new)
                 - Cardinality(kept \cap new)
    BY <1>4, <1>6, FS_Union
  <2>2. IsFiniteSet(kept \cap new)
    BY <1>4, FS_Subset
  <2>3. /\ Cardinality(kept) \in Nat /\ Cardinality(new) \in Nat
        /\ Cardinality(kept \cap new) \in Nat
    BY <1>4, <1>6, <2>2, FS_CardinalityType
  <2> HIDE DEF kept, new
  <2>4. QED
    BY <1>1, <1>6, <2>1, <2>3
<1>9. \A r, o \in history' : r.id = o.id => r = o
  <2>1. \A r, o \in history : r.id = o.id => r = o
    BY DEF HistoryBounded
  <2>2. QED
    BY <1>7, <2>1
<1> HIDE DEF others
<1>10. HistoryBounded'
  BY <1>2, <1>5, <1>7, <1>8, <1>9 DEF HistoryBounded
<1>11. QED
  BY <1>7, <1>10 DEF others

LEMMA UpdatedHistory ==
    ASSUME HistoryBounded, history \subseteq SavedRun,
           clock'.saved = clock.saved,
           NEW id, NEW status \in Statuses, NEW address \in Nat,
           updateLocalRun(id, status, address)
    PROVE  /\ HistoryBounded' /\ history' \subseteq SavedRun
           /\ \A q \in history' : \E r \in history :
                /\ q.id = r.id /\ q.commitment = r.commitment
                /\ IF r.id = id THEN q.status = status /\ q.address = address
                   ELSE q = r
<1> DEFINE new(r) == IF r.id = id
                     THEN [r EXCEPT !.status = status, !.address = address]
                     ELSE r
           f == [r \in history |-> new(r)]
<1>1. history' = {new(r) : r \in history}
  BY DEF updateLocalRun
<1>2. ASSUME NEW r \in history
      PROVE  /\ new(r) \in SavedRun
             /\ new(r).id = r.id /\ new(r).commitment = r.commitment
             /\ new(r).completedAt = r.completedAt
             /\ IF r.id = id
                THEN new(r).status = status /\ new(r).address = address
                ELSE new(r) = r
  <2>1. r \in SavedRun
    OBVIOUS
  <2>2. QED
    BY <2>1 DEF SavedRun
<1> HIDE DEF new
<1>3. f \in Surjection(history, history')
  BY <1>1 DEF Surjection
<1>4. IsFiniteSet(history') /\ Cardinality(history') <= LOCAL_RUN_LIMIT
  <2>1. /\ IsFiniteSet(history)
        /\ Cardinality(history) <= LOCAL_RUN_LIMIT
    BY DEF HistoryBounded
  <2>2. IsFiniteSet(history') /\ Cardinality(history') <= Cardinality(history)
    <3> HIDE DEF f
    <3>1. QED
      BY <1>3, <2>1, FS_Surjection
  <2>3. Cardinality(history') \in Nat /\ Cardinality(history) \in Nat
    BY <2>1, <2>2, FS_CardinalityType
  <2>4. QED
    BY <2>1, <2>2, <2>3
<1>5. /\ \A q \in history' : q.completedAt <= clock'.saved
      /\ \A q, o \in history' : q.completedAt = o.completedAt => q = o
      /\ \A q, o \in history' : q.id = o.id => q = o
  BY <1>1, <1>2 DEF HistoryBounded
<1>6. HistoryBounded'
  BY <1>4, <1>5 DEF HistoryBounded
<1>7. QED
  BY <1>1, <1>2, <1>6

-----------------------------------------------------------------------------
(* The lab's steps *)

LEMMA ClaimsKept ==
    ASSUME OneResultPerRun,
           clock.completed \in Nat, clock'.completed \in Nat,
           clock.completed <= clock'.completed,
           \A id \in Nat, a \in Results : Claimed(id, a)' => Claimed(id, a)
    PROVE  OneResultPerRun'
<1>1. \A id \in Nat, a \in Results : Claimed(id, a)' => id <= clock'.completed
  BY DEF OneResultPerRun
<1>2. \A id \in Nat, a, b \in Results :
         Claimed(id, a)' /\ Claimed(id, b)' => a = b
  BY DEF OneResultPerRun
<1>3. QED
  BY <1>1, <1>2 DEF OneResultPerRun

LEMMA HistoryTypes ==
    ASSUME LabStateOK
    PROVE  /\ clock.completed \in Nat /\ clock.saved \in Nat
           /\ clock.submitted \in Nat
           /\ \A c \in hashing : Hashed(c) \in Results /\ c.id \in Nat \ {0}
           /\ \A c \in sending \cup history :
                 c.commitment \in Results /\ c.id \in Nat \ {0}
           /\ dialog.commitment \in Results \cup {NoCommitment}
           /\ ResultOf(sim_scenario, sim_strategy) \in Results
<1>1. \A c \in hashing : Hashed(c) \in Results /\ c.id \in Nat \ {0}
  BY HashedTrue DEF LabStateOK
<1>2. \A c \in sending \cup history :
         c.commitment \in Results /\ c.id \in Nat \ {0}
  BY DEF LabStateOK, SendingCall, SavedRun
<1>3. ResultOf(sim_scenario, sim_strategy) \in Results
  BY DEF LabStateOK, Results
<1>4. QED
  BY <1>1, <1>2, <1>3 DEF LabStateOK, Dialogs, Clocks

\* A step of the simulation or of the dialog's buttons: it calls nobody, and
\* the run goes on, is dismissed, or is given up.
LEMMA UncalledInv ==
    ASSUME HistoryInv, LabStateOK', UNCHANGED <<callVars, history, registry>>,
           \/ run_id' = 0
           \/ /\ run_id' = run_id
              /\ run_id # 0 => sim_scenario' = sim_scenario
                               /\ sim_strategy' = sim_strategy
              /\ \/ dialog' = dialog /\ dismissed' = dismissed
                 \/ dialog' = ClosedDialog /\ dismissed' = TRUE
    PROVE  HistoryInv'
<1>1. /\ hashing' = hashing /\ sending' = sending /\ clock' = clock
      /\ history' = history /\ registry' = registry
  BY DEF callVars
<1>2. \A id \in Nat, a \in Results : Claimed(id, a)' => Claimed(id, a)
  <2> SUFFICES ASSUME NEW id \in Nat, NEW a \in Results, Claimed(id, a)'
               PROVE  Claimed(id, a)
    OBVIOUS
  <2>1. \A c \in hashing : Hashed(c)' = Hashed(c)
    BY DEF Hashed
  <2>2. CASE run_id' = id /\ id # 0
    <3>1. /\ sim_scenario' = sim_scenario /\ sim_strategy' = sim_strategy
          /\ run_id = id
          /\ dialog'.commitment \in {dialog.commitment, NoCommitment}
      BY <2>2 DEF ClosedDialog
    <3>2. QED
      BY <1>1, <2>1, <3>1 DEF Claimed
  <2>3. CASE ~(run_id' = id /\ id # 0)
    <3>1. ~(run_id' = id /\ dialog'.commitment = a /\ a # NoCommitment)
      BY <2>3 DEF LabStateOK
    <3>2. QED
      BY <1>1, <2>1, <2>3, <3>1 DEF Claimed
  <2>4. QED
    BY <2>2, <2>3
<1>3. OneResultPerRun'
  BY <1>1, <1>2, ClaimsKept, HistoryTypes DEF HistoryInv
<1>4. HistoryBounded' /\ CommittedOnRecord'
  BY <1>1 DEF HistoryInv, HistoryBounded, CommittedOnRecord
<1>5. QED
  BY <1>3, <1>4 DEF HistoryInv

LEMMA NoResultYet ==
    ClosedDialog \in Dialogs /\ ClosedDialog.commitment = NoCommitment
  BY DEF ClosedDialog, Dialogs, Statuses

LEMMA ResetState ==
    ASSUME LabStateOK, NEW s \in SIM_SCENARIOS, NEW g \in SIM_STRATEGIES,
           sim_scenario' = s, sim_strategy' = g, reset(s, g)
    PROVE  /\ LabStateOK' /\ run_id' = 0
           /\ UNCHANGED <<callVars, history, registry>>
<1>1. /\ run_id' = 0 /\ dialog' = ClosedDialog /\ dismissed' = FALSE
      /\ sim_state' = createSimulation(s, g)
      /\ UNCHANGED <<callVars, history, registry>>
  BY DEF reset
<1>2. \E t \in 0 .. s.ticks : sim_state' = simulationAt(s, g)[t]
  <2>1. 0 \in 0 .. s.ticks
    OBVIOUS
  <2>2. simulationAt(s, g)[0] = createSimulation(s, g)
    BY <2>1, RunEquation
  <2>3. QED
    BY <1>1, <2>1, <2>2
<1>3. LabStateOK'
  BY <1>1, <1>2, NoResultYet DEF LabStateOK, callVars
<1>4. QED
  BY <1>1, <1>3

LEMMA SimulationInv ==
    ASSUME HistoryInv,
           \/ SimTick \/ RunToggled \/ Selected \/ Updated \/ ResetClicked
    PROVE  HistoryInv'
<1>1. LabStateOK /\ sim_scenario.ticks \in Nat
  BY DEF HistoryInv, LabStateOK
<1>2. CASE Selected \/ Updated \/ ResetClicked
  <2>1. PICK s \in SIM_SCENARIOS, g \in SIM_STRATEGIES :
          sim_scenario' = s /\ sim_strategy' = g /\ reset(s, g)
    BY <1>1, <1>2 DEF Selected, Updated, ResetClicked, LabStateOK
  <2>2. /\ LabStateOK' /\ run_id' = 0
        /\ UNCHANGED <<callVars, history, registry>>
    BY <1>1, <2>1, ResetState
  <2>3. QED
    BY <2>2, UncalledInv
<1>3. CASE SimTick
  <2>1. /\ ~finished
        /\ sim_state' = stepSimulation(sim_state, sim_scenario, sim_strategy)
        /\ sim_scenario' = sim_scenario /\ sim_strategy' = sim_strategy
        /\ UNCHANGED <<debriefVars, callVars, history, registry>>
    BY <1>3 DEF SimTick
  <2>2. run_id = 0
    BY <1>1, <2>1 DEF LabStateOK
  <2>3. \E t \in 0 .. sim_scenario.ticks :
           sim_state' = simulationAt(sim_scenario, sim_strategy)[t]
    <3>1. PICK t \in 0 .. sim_scenario.ticks :
            sim_state = simulationAt(sim_scenario, sim_strategy)[t]
      BY <1>1 DEF LabStateOK
    <3>2. sim_state' = simulationAt(sim_scenario, sim_strategy)
                         [IF t < sim_scenario.ticks THEN t + 1
                          ELSE sim_scenario.ticks]
      BY <1>1, <2>1, <3>1, RunStep
    <3>3. QED
      BY <1>1, <3>2
  <2>4. LabStateOK'
    BY <1>1, <2>1, <2>2, <2>3 DEF LabStateOK, debriefVars, callVars
  <2>5. QED
    BY <2>1, <2>2, <2>4, UncalledInv DEF debriefVars
<1>4. CASE RunToggled
  <2>1. UNCHANGED <<sim_scenario, sim_strategy, sim_state, debriefVars,
                    callVars, history, registry>>
    BY <1>4 DEF RunToggled
  <2>2. LabStateOK'
    BY <1>1, <2>1 DEF LabStateOK, debriefVars, callVars, finished
  <2>3. QED
    BY <2>1, <2>2, UncalledInv DEF debriefVars
<1>5. QED
  BY <1>2, <1>3, <1>4

LEMMA DismissedInv ==
    ASSUME HistoryInv, DialogDismissed
    PROVE  HistoryInv'
<1>1. /\ LabStateOK /\ run_id # 0
      /\ dismissed' = TRUE /\ dialog' = ClosedDialog
      /\ UNCHANGED <<simVars, run_id, callVars, history, registry>>
  BY DEF HistoryInv, DialogDismissed
<1>2. LabStateOK'
  BY <1>1, NoResultYet DEF LabStateOK, simVars, callVars, finished
<1>3. QED
  BY <1>1, <1>2, UncalledInv DEF simVars

\* A run is verified when it gets its id, when that has failed, and in every
\* dialog that is opened on it again.
LEMMA VerifyInv ==
    ASSUME HistoryInv, RunIdentified \/ VerifiedAgain \/ ResultsViewed
    PROVE  HistoryInv'
<1> DEFINE id == run_id'
           new == [id |-> id, dialog |-> clock'.opened,
                   scenario |-> sim_scenario,
                   strategy |-> sim_strategy, state |-> sim_state]
<1>1. /\ LabStateOK /\ finished /\ dismissed' \in BOOLEAN
      /\ hashing' = hashing \cup {new}
      /\ dialog' = [dialog EXCEPT !.busy = TRUE]
      /\ UNCHANGED <<simVars, sending, history, registry>>
  BY DEF HistoryInv, LabStateOK, RunIdentified, VerifiedAgain, ResultsViewed,
         verify, DialogOpen
<1>2. /\ id \in Nat \ {0} /\ id <= clock'.completed
      /\ clock' \in Clocks
      /\ clock'.saved = clock.saved
      /\ clock.completed <= clock'.completed
      /\ dialog.commitment = NoCommitment \/ run_id = id
      /\ \A c \in hashing \cup sending \cup history :
           c.id # id \/ c.id = run_id
      /\ run_id \in {0, id}
  <2>1. CASE RunIdentified
    <3>1. /\ run_id = 0 /\ id = clock'.completed
          /\ clock' = [clock EXCEPT !.completed = clock.completed + 1,
                                    !.opened = clock.opened + 1]
      BY <2>1 DEF RunIdentified
    <3>2. clock \in Clocks
      BY <1>1 DEF LabStateOK
    <3> DEFINE completed == clock.completed + 1
               opened == clock.opened + 1
    <3>9. /\ completed \in Nat /\ opened \in Nat
          /\ clock.completed \in Nat /\ completed = clock.completed + 1
          /\ clock' = [clock EXCEPT !.completed = completed,
                                    !.opened = opened]
      BY <3>1, <3>2 DEF Clocks
    <3> HIDE DEF completed, opened
    <3>3. /\ clock' \in Clocks
          /\ clock'.completed = clock.completed + 1
          /\ clock'.saved = clock.saved /\ clock.completed \in Nat
      BY <3>2, <3>9 DEF Clocks
    <3>4. \A c \in hashing \cup sending \cup history :
             c.id \in Nat /\ c.id <= clock.completed
      BY <1>1, HistoryTypes DEF HistoryInv, OneResultPerRun, Claimed
    <3>5. dialog.commitment = NoCommitment
      BY <1>1, <3>1 DEF LabStateOK
    <3> HIDE DEF id
    <3>6. \A c \in hashing \cup sending \cup history : c.id # id
      BY <3>1, <3>3, <3>4
    <3>7. QED
      BY <3>1, <3>3, <3>5, <3>6
  <2>2. CASE VerifiedAgain \/ ResultsViewed
    <3>1. /\ id = run_id
          /\ clock' = clock
             \/ clock' = [clock EXCEPT !.opened = clock.opened + 1]
      BY <2>2 DEF VerifiedAgain, ResultsViewed
    <3>2. run_id # 0
      BY <1>1, <2>2 DEF VerifiedAgain, ResultsViewed, LabStateOK
    <3>3. /\ clock' \in Clocks /\ clock'.completed = clock.completed
          /\ clock'.saved = clock.saved /\ clock.completed \in Nat
      BY <1>1, <3>1 DEF LabStateOK, Clocks
    <3>4. run_id \in Nat /\ ResultOf(sim_scenario, sim_strategy) \in Results
      BY <1>1, HistoryTypes DEF LabStateOK
    <3>5. run_id <= clock.completed
      BY <3>2, <3>4 DEF HistoryInv, OneResultPerRun, Claimed
    <3>6. QED
      BY <3>1, <3>2, <3>3, <3>4, <3>5
  <2>3. QED
    BY <2>1, <2>2
<1>3. /\ new \in HashingCall /\ new.id = id
      /\ Hashed(new) = ResultOf(sim_scenario, sim_strategy)
  <2>1. clock'.opened \in Nat
    BY <1>2 DEF Clocks
  <2>2. QED
    BY <1>1, <1>2, <2>1, VerifyCall
<1>4. /\ sim_scenario' = sim_scenario /\ sim_strategy' = sim_strategy
      /\ sim_state' = sim_state
      /\ sending' = sending /\ history' = history /\ registry' = registry
  BY <1>1 DEF simVars
<1>5. dialog' \in Dialogs /\ dialog'.commitment = dialog.commitment
  BY <1>1 DEF LabStateOK, Dialogs
<1> HIDE DEF id, new
<1>6. LabStateOK'
  <2>1. run_id' \in Nat /\ run_id' # 0
    BY <1>2 DEF id
  <2>2. finished'
    BY <1>1, <1>4 DEF finished
  <2>3. hashing' \subseteq HashingCall
    BY <1>1, <1>3 DEF LabStateOK
  <2>4. dismissed => run_id # 0
    BY <1>1 DEF LabStateOK
  <2>5. QED
    BY <1>1, <1>2, <1>4, <1>5, <2>1, <2>2, <2>3, <2>4 DEF LabStateOK
<1>7. \A n \in Nat, a \in Results : Claimed(n, a)' =>
         Claimed(n, a) \/ (n = id /\ a = ResultOf(sim_scenario, sim_strategy))
  <2>1. \A c : Hashed(c)' = Hashed(c)
    BY DEF Hashed
  <2>2. QED
    BY <1>1, <1>2, <1>3, <1>4, <1>5, <2>1 DEF Claimed, id
<1>8. \A a \in Results : Claimed(id, a) =>
         a = ResultOf(sim_scenario, sim_strategy)
  <2> SUFFICES ASSUME NEW a \in Results, Claimed(id, a)
               PROVE  a = ResultOf(sim_scenario, sim_strategy)
    OBVIOUS
  <2>1. CASE run_id = id
    <3>1. /\ Claimed(id, ResultOf(sim_scenario, sim_strategy))
          /\ ResultOf(sim_scenario, sim_strategy) \in Results
      BY <1>1, <1>2, <2>1, HistoryTypes DEF Claimed
    <3>2. QED
      BY <1>2, <3>1 DEF HistoryInv, OneResultPerRun
  <2>2. CASE run_id # id
    BY <1>2, <2>2 DEF Claimed
  <2>3. QED
    BY <2>1, <2>2
<1>9. OneResultPerRun'
  <2>1. ASSUME NEW n \in Nat, NEW a \in Results, Claimed(n, a)'
        PROVE  n <= clock'.completed
    <3>1. CASE n = id
      BY <1>2, <3>1
    <3>2. CASE Claimed(n, a)
      <4>1. n <= clock.completed
        BY <3>2 DEF HistoryInv, OneResultPerRun
      <4>2. clock.completed \in Nat /\ clock'.completed \in Nat
        BY <1>1, <1>2 DEF LabStateOK, Clocks
      <4>3. QED
        BY <1>2, <4>1, <4>2
    <3>3. QED
      BY <1>7, <2>1, <3>1, <3>2
  <2>2. \A n \in Nat, a, b \in Results :
           Claimed(n, a)' /\ Claimed(n, b)' => a = b
    BY <1>7, <1>8 DEF HistoryInv, OneResultPerRun
  <2>3. QED
    BY <2>1, <2>2 DEF OneResultPerRun
<1>10. HistoryBounded' /\ CommittedOnRecord'
  BY <1>2, <1>4 DEF HistoryInv, HistoryBounded, CommittedOnRecord
<1>11. QED
  BY <1>6, <1>9, <1>10 DEF HistoryInv

LEMMA VerifiedInv ==
    ASSUME HistoryInv, NEW c \in hashing, VerifyReturns(c)
    PROVE  HistoryInv'
<1> DEFINE run == [id |-> c.id, completedAt |-> clock'.saved,
                   commitment |-> Hashed(c), status |-> "local",
                   address |-> 0]
           told == [commitment |-> Hashed(c), status |-> "local",
                    busy |-> FALSE]
<1>1. /\ LabStateOK /\ hashing' = hashing \ {c}
      /\ clock' = [clock EXCEPT !.saved = @ + 1]
      /\ saveLocalRun(run)
      /\ dialog' = IF Shows(c) THEN told ELSE dialog
      /\ UNCHANGED <<simVars, dismissed, run_id, sending, registry>>
  BY DEF HistoryInv, VerifyReturns
<1>2. /\ c \in HashingCall /\ Hashed(c) \in Results /\ c.id \in Nat \ {0}
  BY <1>1, HashedTrue DEF LabStateOK
<1>3. /\ clock' \in Clocks
      /\ clock'.saved = clock.saved + 1 /\ clock.saved \in Nat
      /\ clock'.completed = clock.completed /\ clock.completed \in Nat
  BY <1>1 DEF LabStateOK, Clocks
<1>4. /\ run \in SavedRun /\ run.id = c.id /\ run.status = "local"
      /\ run.commitment = Hashed(c) /\ run.completedAt = clock.saved + 1
  BY <1>2, <1>3 DEF SavedRun, Statuses
<1>5. /\ told \in Dialogs /\ told.commitment = Hashed(c)
      /\ told.busy = FALSE
  BY <1>2 DEF Dialogs, Statuses
<1> HIDE DEF run, told
<1>6. /\ HistoryBounded'
      /\ \A r \in history' : r = run \/ (r \in history /\ r.id # run.id)
  <2>1. HistoryBounded /\ history \subseteq SavedRun
    BY <1>1 DEF HistoryInv, LabStateOK
  <2>2. QED
    BY <1>1, <1>3, <1>4, <2>1, SavedHistory
<1>7. /\ sim_scenario' = sim_scenario /\ sim_strategy' = sim_strategy
      /\ sim_state' = sim_state /\ dismissed' = dismissed
      /\ run_id' = run_id /\ sending' = sending /\ registry' = registry
  BY <1>1 DEF simVars
<1>8. Shows(c) => run_id = c.id
  BY DEF Shows
<1>9. LabStateOK'
  <2>1. history' \subseteq SavedRun
    BY <1>1, <1>4, <1>6 DEF LabStateOK
  <2>2. /\ dialog' \in Dialogs
        /\ run_id = 0 => dialog'.commitment = NoCommitment
    BY <1>1, <1>2, <1>5, <1>8 DEF LabStateOK
  <2>3. finished' = finished
    BY <1>7 DEF finished
  <2>4. QED
    BY <1>1, <1>3, <1>7, <2>1, <2>2, <2>3 DEF LabStateOK
<1>10. \A n \in Nat, a \in Results : Claimed(n, a)' => Claimed(n, a)
  <2> SUFFICES ASSUME NEW n \in Nat, NEW a \in Results, Claimed(n, a)'
               PROVE  Claimed(n, a)
    OBVIOUS
  <2>1. \A d : Hashed(d)' = Hashed(d)
    BY DEF Hashed
  <2>2. Claimed(c.id, Hashed(c))
    BY DEF Claimed
  <2>3. CASE \E d \in history' : d.id = n /\ d.commitment = a
    BY <1>4, <1>6, <2>2, <2>3 DEF Claimed
  <2>4. CASE run_id' = n /\ dialog'.commitment = a /\ a # NoCommitment
    BY <1>1, <1>5, <1>7, <1>8, <2>2, <2>4 DEF Claimed
  <2>5. CASE \/ \E d \in hashing' : d.id = n /\ Hashed(d)' = a
             \/ \E d \in sending' : d.id = n /\ d.commitment = a
             \/ run_id' = n /\ n # 0
                  /\ ResultOf(sim_scenario', sim_strategy') = a
    BY <1>1, <1>7, <2>1, <2>5 DEF Claimed
  <2>6. QED
    BY <2>3, <2>4, <2>5 DEF Claimed
<1>11. OneResultPerRun'
  <2>1. clock.completed <= clock'.completed
    BY <1>3
  <2>2. QED
    BY <1>3, <1>10, <2>1, ClaimsKept DEF HistoryInv
<1>12. CommittedOnRecord'
  BY <1>4, <1>6, <1>7 DEF HistoryInv, CommittedOnRecord
<1>13. QED
  BY <1>6, <1>9, <1>11, <1>12 DEF HistoryInv

LEMMA UnverifiedInv ==
    ASSUME HistoryInv, NEW c \in hashing, VerifyFails(c)
    PROVE  HistoryInv'
<1>1. /\ LabStateOK /\ hashing' = hashing \ {c}
      /\ dialog' = IF Shows(c) THEN [dialog EXCEPT !.busy = FALSE] ELSE dialog
      /\ dismissed' = dismissed /\ run_id' = run_id /\ sending' = sending
      /\ clock' = clock /\ history' = history /\ registry' = registry
      /\ sim_scenario' = sim_scenario /\ sim_strategy' = sim_strategy
      /\ sim_state' = sim_state
  BY DEF HistoryInv, VerifyFails, simVars
<1>2. dialog' \in Dialogs /\ dialog'.commitment = dialog.commitment
  BY <1>1 DEF LabStateOK, Dialogs
<1>3. Shows(c) => run_id = c.id
  BY DEF Shows
<1>4. LabStateOK'
  BY <1>1, <1>2 DEF LabStateOK, finished
<1>5. \A n \in Nat, a \in Results : Claimed(n, a)' => Claimed(n, a)
  <2>1. \A d : Hashed(d)' = Hashed(d)
    BY DEF Hashed
  <2>2. QED
    BY <1>1, <1>2, <2>1 DEF Claimed
<1>6. OneResultPerRun'
  BY <1>1, <1>5, ClaimsKept, HistoryTypes DEF HistoryInv
<1>7. HistoryBounded' /\ CommittedOnRecord'
  BY <1>1 DEF HistoryInv, HistoryBounded, CommittedOnRecord
<1>8. QED
  BY <1>4, <1>6, <1>7 DEF HistoryInv

LEMMA CommittingInv ==
    ASSUME HistoryInv, CommitClicked
    PROVE  HistoryInv'
<1> DEFINE new == [id |-> run_id, dialog |-> clock.opened,
                   address |-> clock'.submitted,
                   commitment |-> dialog.commitment]
<1>1. /\ LabStateOK /\ finished /\ ~dismissed /\ ~dialog.busy
      /\ dialog.commitment # NoCommitment
      /\ clock' = [clock EXCEPT !.submitted = @ + 1]
      /\ sending' = sending \cup {new}
      /\ updateLocalRun(run_id, "submitting", 0)
      /\ dialog' = [dialog EXCEPT !.busy = TRUE]
      /\ dismissed' = dismissed /\ run_id' = run_id /\ hashing' = hashing
      /\ registry' = registry
      /\ sim_scenario' = sim_scenario /\ sim_strategy' = sim_strategy
      /\ sim_state' = sim_state
  BY DEF HistoryInv, CommitClicked, DialogOpen, simVars
<1>2. /\ clock' \in Clocks
      /\ clock'.saved = clock.saved
      /\ clock'.completed = clock.completed /\ clock.completed \in Nat
      /\ clock.opened \in Nat /\ clock'.submitted \in Nat
  BY <1>1 DEF LabStateOK, Clocks
<1>3. /\ dialog' \in Dialogs /\ dialog'.commitment = dialog.commitment
      /\ dialog'.busy = TRUE /\ dialog.commitment \in Results
  BY <1>1 DEF LabStateOK, Dialogs
<1>4. /\ new \in SendingCall /\ new.id = run_id
      /\ new.commitment = dialog.commitment
  BY <1>1, <1>2, <1>3 DEF SendingCall, LabStateOK
<1> HIDE DEF new
<1>5. /\ HistoryBounded' /\ history' \subseteq SavedRun
      /\ \A q \in history' : \E r \in history :
           /\ q.id = r.id /\ q.commitment = r.commitment
           /\ IF r.id = run_id THEN q.status = "submitting" /\ q.address = 0
              ELSE q = r
  <2>1. HistoryBounded /\ history \subseteq SavedRun
    BY <1>1 DEF HistoryInv, LabStateOK
  <2> DEFINE status == "submitting"
             address == 0
  <2>2. /\ status \in Statuses /\ address \in Nat
        /\ updateLocalRun(run_id, status, address)
    BY <1>1 DEF Statuses
  <2> HIDE DEF status, address
  <2>3. /\ HistoryBounded' /\ history' \subseteq SavedRun
        /\ \A q \in history' : \E r \in history :
             /\ q.id = r.id /\ q.commitment = r.commitment
             /\ IF r.id = run_id
                THEN q.status = status /\ q.address = address
                ELSE q = r
    BY <1>2, <2>1, <2>2, UpdatedHistory
  <2>4. QED
    BY <2>3 DEF status, address
<1>6. LabStateOK'
  BY <1>1, <1>2, <1>3, <1>4, <1>5 DEF LabStateOK, finished
<1>7. \A n \in Nat, a \in Results : Claimed(n, a)' => Claimed(n, a)
  <2>1. \A d : Hashed(d)' = Hashed(d)
    BY DEF Hashed
  <2>2. \A q \in history' :
           \E r \in history : q.id = r.id /\ q.commitment = r.commitment
    BY <1>5
  <2>3. QED
    BY <1>1, <1>3, <1>4, <2>1, <2>2 DEF Claimed
<1>8. OneResultPerRun'
  <2>1. clock.completed <= clock'.completed
    BY <1>2
  <2>2. QED
    BY <1>2, <1>7, <2>1, ClaimsKept DEF HistoryInv
<1>9. CommittedOnRecord'
  <2>1. ASSUME NEW q \in history', q.status = "committed"
        PROVE  [address |-> q.address, commitment |-> q.commitment]
                 \in registry
    BY <1>5, <2>1 DEF HistoryInv, CommittedOnRecord
  <2>2. QED
    BY <1>1, <2>1 DEF CommittedOnRecord
<1>10. QED
  BY <1>5, <1>6, <1>8, <1>9 DEF HistoryInv

\* However a submission ends: the runs that it was for are the runs of its
\* commitment, so that what is called committed is what was recorded.
LEMMA CommittedInv ==
    ASSUME HistoryInv, NEW c \in sending, NEW status \in Statuses,
           NEW address \in Nat, CommitEnds(c, status, address),
           registry \subseteq registry', registry' \subseteq OnRecord,
           status = "committed" =>
             [address |-> address, commitment |-> c.commitment] \in registry'
    PROVE  HistoryInv'
<1>1. /\ LabStateOK /\ sending' = sending \ {c}
      /\ updateLocalRun(c.id, status, address)
      /\ dialog' = IF Shows(c)
                   THEN [dialog EXCEPT !.status = status, !.busy = FALSE]
                   ELSE dialog
      /\ dismissed' = dismissed /\ run_id' = run_id /\ hashing' = hashing
      /\ clock' = clock
      /\ sim_scenario' = sim_scenario /\ sim_strategy' = sim_strategy
      /\ sim_state' = sim_state
  BY DEF HistoryInv, CommitEnds, simVars
<1>2. dialog' \in Dialogs /\ dialog'.commitment = dialog.commitment
  BY <1>1 DEF LabStateOK, Dialogs
<1>3. Shows(c) => run_id = c.id
  BY DEF Shows
<1>4. /\ HistoryBounded' /\ history' \subseteq SavedRun
      /\ \A q \in history' : \E r \in history :
           /\ q.id = r.id /\ q.commitment = r.commitment
           /\ IF r.id = c.id THEN q.status = status /\ q.address = address
              ELSE q = r
  <2>1. HistoryBounded /\ history \subseteq SavedRun
    BY <1>1 DEF HistoryInv, LabStateOK
  <2>2. clock'.saved = clock.saved
    BY <1>1
  <2>3. QED
    BY <1>1, <2>1, <2>2, UpdatedHistory
<1>5. LabStateOK'
  BY <1>1, <1>2, <1>4 DEF LabStateOK, finished
<1>6. \A n \in Nat, a \in Results : Claimed(n, a)' => Claimed(n, a)
  <2>1. \A d : Hashed(d)' = Hashed(d)
    BY DEF Hashed
  <2>2. \A q \in history' :
           \E r \in history : q.id = r.id /\ q.commitment = r.commitment
    BY <1>4
  <2>3. QED
    BY <1>1, <1>2, <2>1, <2>2 DEF Claimed
<1>7. OneResultPerRun'
  BY <1>1, <1>6, ClaimsKept, HistoryTypes DEF HistoryInv
<1>8. CommittedOnRecord'
  <2>1. ASSUME NEW q \in history', q.status = "committed"
        PROVE  [address |-> q.address, commitment |-> q.commitment]
                 \in registry'
    <3>1. PICK r \in history :
            /\ q.id = r.id /\ q.commitment = r.commitment
            /\ IF r.id = c.id THEN q.status = status /\ q.address = address
               ELSE q = r
      BY <1>4
    <3>2. CASE r.id = c.id
      <4>1. /\ Claimed(c.id, c.commitment) /\ Claimed(c.id, r.commitment)
            /\ c.id \in Nat /\ c.commitment \in Results
            /\ r.commitment \in Results
        BY <1>1, <3>2, HistoryTypes DEF Claimed
      <4>2. r.commitment = c.commitment
        BY <4>1 DEF HistoryInv, OneResultPerRun
      <4>3. QED
        BY <2>1, <3>1, <3>2, <4>2
    <3>3. CASE r.id # c.id
      BY <2>1, <3>1, <3>3 DEF HistoryInv, CommittedOnRecord
    <3>4. QED
      BY <3>2, <3>3
  <2>2. QED
    BY <2>1 DEF CommittedOnRecord
<1>9. QED
  BY <1>4, <1>5, <1>7, <1>8 DEF HistoryInv

LEMMA CommitInv ==
    ASSUME HistoryInv, NEW c \in sending, CommitReturns(c) \/ CommitThrows(c)
    PROVE  HistoryInv'
<1> DEFINE new == [address |-> c.address, commitment |-> c.commitment]
<1>1. /\ c.address \in Nat /\ c.commitment \in Results
      /\ registry \subseteq OnRecord
  BY DEF HistoryInv, LabStateOK, SendingCall
<1>2. new \in OnRecord
  BY <1>1 DEF OnRecord
<1>3. SubmitResult(c) => registry' = registry \cup {new}
  BY DEF SubmitResult
<1> HIDE DEF new
<1>4. CASE CommitReturns(c)
  <2>1. /\ CommitEnds(c, "committed", c.address) /\ new \in registry'
        /\ registry \subseteq registry' /\ registry' \subseteq OnRecord
    BY <1>1, <1>2, <1>3, <1>4 DEF CommitReturns
  <2>2. "committed" \in Statuses
    BY DEF Statuses
  <2>3. QED
    BY <1>1, <2>1, <2>2, CommittedInv DEF new
<1>5. CASE CommitThrows(c)
  <2>1. /\ CommitEnds(c, "failed", 0)
        /\ registry \subseteq registry' /\ registry' \subseteq OnRecord
    BY <1>1, <1>2, <1>3, <1>5 DEF CommitThrows
  <2>2. "failed" \in Statuses /\ 0 \in Nat
    BY DEF Statuses
  <2>3. QED
    BY <2>1, <2>2, CommittedInv
<1>6. QED
  BY <1>4, <1>5

LEMMA HistoryInit == StrategyLabInit => HistoryInv
<1> SUFFICES ASSUME StrategyLabInit
             PROVE  HistoryInv
  OBVIOUS
<1>1. /\ sim_scenario = FIRST_SCENARIO /\ sim_strategy = FIRST_STRATEGY
      /\ FIRST_SCENARIO \in SIM_SCENARIOS /\ FIRST_STRATEGY \in SIM_STRATEGIES
      /\ sim_state = createSimulation(sim_scenario, sim_strategy)
      /\ run_id = 0 /\ dismissed = FALSE /\ dialog = ClosedDialog
      /\ hashing = {} /\ sending = {} /\ history = {} /\ registry = {}
      /\ clock = [completed |-> 0, saved |-> 0, submitted |-> 0, opened |-> 0]
  BY DEF StrategyLabInit
<1>2. \E t \in 0 .. sim_scenario.ticks :
         sim_state = simulationAt(sim_scenario, sim_strategy)[t]
  <2>1. sim_scenario.ticks \in Nat /\ 0 \in 0 .. sim_scenario.ticks
    BY <1>1
  <2>2. simulationAt(sim_scenario, sim_strategy)[0]
          = createSimulation(sim_scenario, sim_strategy)
    BY <2>1, RunEquation
  <2>3. QED
    BY <1>1, <2>1, <2>2
<1>3. LabStateOK
  BY <1>1, <1>2, NoResultYet DEF LabStateOK, Clocks
<1>4. OneResultPerRun
  BY <1>1, NoResultYet DEF OneResultPerRun, Claimed
<1>5. HistoryBounded
  <2>1. IsFiniteSet({}) /\ Cardinality({}) = 0 /\ LOCAL_RUN_LIMIT \in Nat
    BY FS_EmptySet
  <2>2. QED
    BY <1>1, <2>1 DEF HistoryBounded
<1>6. CommittedOnRecord
  BY <1>1 DEF CommittedOnRecord
<1>7. QED
  BY <1>3, <1>4, <1>5, <1>6 DEF HistoryInv

LEMMA HistoryNext ==
    HistoryInv /\ [StrategyLabNext]_strategyLabVars => HistoryInv'
<1> SUFFICES ASSUME HistoryInv, [StrategyLabNext]_strategyLabVars
             PROVE  HistoryInv'
  OBVIOUS
<1>1. CASE SimTick \/ RunToggled \/ Selected \/ Updated \/ ResetClicked
  BY <1>1, SimulationInv
<1>2. CASE RunIdentified \/ VerifiedAgain \/ ResultsViewed
  BY <1>2, VerifyInv
<1>3. CASE DialogDismissed
  BY <1>3, DismissedInv
<1>4. CASE CommitClicked
  BY <1>4, CommittingInv
<1>5. ASSUME NEW c \in hashing, VerifyReturns(c) \/ VerifyFails(c)
      PROVE  HistoryInv'
  BY <1>5, VerifiedInv, UnverifiedInv
<1>6. ASSUME NEW c \in sending, CommitReturns(c) \/ CommitThrows(c)
      PROVE  HistoryInv'
  BY <1>6, CommitInv
<1>7. CASE UNCHANGED strategyLabVars
  <2>1. LabStateOK' /\ UNCHANGED <<callVars, history, registry>>
    BY <1>7 DEF strategyLabVars, simVars, debriefVars, callVars, HistoryInv,
                LabStateOK, finished
  <2>2. QED
    BY <1>7, <2>1, UncalledInv DEF strategyLabVars, simVars, debriefVars
<1>8. QED
  BY <1>1, <1>2, <1>3, <1>4, <1>5, <1>6, <1>7 DEF StrategyLabNext

\* For any markets, strategies, limit of the history and number of runs and
\* submissions: whatever is hashed or sent while the lab has gone on to other
\* things, and however often a debrief is opened again, every run of the
\* private history and every record of the registry is the whole run of its
\* scenario and its strategy, what is called committed is on record, and the
\* history lists a run once and stays within its limit (simulation-lab.tsx,
\* storage.ts, registry.ts, submit_result.rs).
THEOREM HistoryAlwaysTruthful == StrategyLabSpec => []HistoryIsTruthful
<1>1. HistoryInv => HistoryIsTruthful
  <2> SUFFICES ASSUME HistoryInv
               PROVE  HistoryIsTruthful
    OBVIOUS
  <2>1. \A r \in history \cup registry : r.commitment \in Results
    BY DEF HistoryInv, LabStateOK, SavedRun, OnRecord
  <2>2. QED
    BY <2>1, ResultTrue
       DEF HistoryInv, HistoryBounded, CommittedOnRecord, HistoryIsTruthful
<1>2. QED
  BY <1>1, HistoryInit, HistoryNext, PTL DEF StrategyLabSpec

-----------------------------------------------------------------------------
(* The record of a verified session: the inductive invariant *)

USE SessionRuntimeAssumption DEF Last

Hashes == {Nothing, Forged} \cup {Replay[t] : t \in Nat}

SessionCopy ==
    [status : {"NONE", "ACTIVE", "SETTLED"}, tick : Nat, state_hash : Hashes]

SessionPlaces == {"none", "base", "er", "committing"}

CopiesOK ==
    /\ session_place \in SessionPlaces
    /\ session_base \in SessionCopy
    /\ session_er \in SessionCopy

\* Once the transport has seen the last tick executed, the account has it,
\* and the hash that the transport sent with it.
AckedOnRecord ==
    acked = Last =>
        /\ session_place # "none"
        /\ CurrentSession.tick = Last
        /\ CurrentSession.state_hash = Replay[Last]

SettledWasAcked == mode = "settled" => acked = Last /\ outcome = Replay[Last]

RecordInv == CopiesOK /\ AckedOnRecord /\ SettledWasAcked

-----------------------------------------------------------------------------
(* The account's steps *)

\* What a step does to the account: it writes a sound copy, and one that
\* holds all its ticks keeps them.
AccountKept ==
    /\ CopiesOK'
    /\ session_place # "none" /\ CurrentSession.tick = Last =>
         /\ session_place' # "none"
         /\ CurrentSession'.tick = Last
         /\ CurrentSession'.state_hash = CurrentSession.state_hash

LEMMA UntouchedAccount ==
    ASSUME CopiesOK, UNCHANGED accountVars
    PROVE  AccountKept
  BY DEF AccountKept, CopiesOK, CurrentSession, accountVars

LEMMA CurrentCopy ==
    ASSUME CopiesOK
    PROVE  CurrentSession \in SessionCopy
  BY DEF CopiesOK, CurrentSession

\* advance_session: only the next tick is recorded, and none past the last.
LEMMA AdvanceKept ==
    ASSUME CopiesOK, NEW actor, NEW tick, NEW state_hash \in Hashes,
           AdvanceSession(actor, tick, state_hash)
    PROVE  /\ AccountKept
           /\ CurrentSession.tick < Last
           /\ tick \in Nat /\ tick <= Last
           /\ session_place' # "none"
           /\ CurrentSession'.tick = tick
           /\ CurrentSession'.state_hash = state_hash
<1> DEFINE was == CurrentSession
           now == [was EXCEPT !.tick = tick, !.state_hash = state_hash]
<1>1. was \in SessionCopy
  BY CurrentCopy
<1>2. /\ session_place \in {"base", "er"} /\ session_place' = session_place
      /\ tick = was.tick + 1 /\ tick <= Last
      /\ \/ /\ session_place = "er"
            /\ session_er' = now /\ session_base' = session_base
         \/ /\ session_place # "er"
            /\ session_base' = now /\ session_er' = session_er
  BY DEF AdvanceSession, TickInOrder
<1>3. tick \in Nat /\ was.tick < Last
  <2>1. was.tick \in Nat
    BY <1>1 DEF SessionCopy
  <2>2. QED
    BY <1>2, <2>1
<1>4. now \in SessionCopy /\ now.tick = tick /\ now.state_hash = state_hash
  BY <1>1, <1>3 DEF SessionCopy
<1> HIDE DEF now
<1>5. CurrentSession' = now /\ CopiesOK'
  BY <1>2, <1>4 DEF CurrentSession, CopiesOK
<1>6. was.tick # Last
  <2>1. was.tick \in Nat /\ Last \in Nat
    BY <1>1 DEF SessionCopy
  <2>2. QED
    BY <1>3, <2>1
<1>7. QED
  BY <1>2, <1>3, <1>4, <1>5, <1>6 DEF AccountKept

LEMMA FinalizeKept ==
    ASSUME CopiesOK, NEW actor, FinalizeSession(actor)
    PROVE  AccountKept
<1>1. ASSUME NEW status \in {"ACTIVE", "SETTLED"},
             session_er' = [session_er EXCEPT !.status = status],
             session_place' = "committing", session_base' = session_base
      PROVE  AccountKept
  <2>1. /\ session_er' \in SessionCopy
        /\ session_er'.tick = session_er.tick
        /\ session_er'.state_hash = session_er.state_hash
    BY <1>1 DEF CopiesOK, SessionCopy
  <2>2. session_place = "er"
    BY DEF FinalizeSession
  <2>3. QED
    BY <1>1, <2>1, <2>2
       DEF AccountKept, CopiesOK, SessionPlaces, CurrentSession
<1>2. CASE UNCHANGED accountVars
  BY <1>2, UntouchedAccount
<1>3. QED
  BY <1>1, <1>2 DEF FinalizeSession

LEMMA InitializeKept ==
    ASSUME CopiesOK, InitializeSession
    PROVE  AccountKept
<1>1. [status |-> "ACTIVE", tick |-> 0, state_hash |-> Replay[0]]
        \in SessionCopy
  BY DEF SessionCopy, Hashes
<1>2. QED
  BY <1>1 DEF InitializeSession, AccountKept, CopiesOK, SessionPlaces

LEMMA DelegateKept ==
    ASSUME CopiesOK, DelegateSession
    PROVE  AccountKept
  BY DEF DelegateSession, AccountKept, CopiesOK, SessionPlaces, CurrentSession

-----------------------------------------------------------------------------
(* Every step *)

\* A step that leaves the transport's acknowledgements and does not settle.
LEMMA KeptInv ==
    ASSUME RecordInv, AccountKept, acked' = acked,
           \/ mode' = mode /\ outcome' = outcome
           \/ mode' # "settled"
    PROVE  RecordInv'
<1>1. CopiesOK'
  BY DEF AccountKept
<1>2. AckedOnRecord'
  BY DEF RecordInv, AccountKept, AckedOnRecord
<1>3. SettledWasAcked'
  BY DEF RecordInv, SettledWasAcked
<1>4. QED
  BY <1>1, <1>2, <1>3 DEF RecordInv

LEMMA RecordInit == SessionInit => RecordInv
<1> SUFFICES ASSUME SessionInit
             PROVE  RecordInv
  OBVIOUS
<1>1. NoSession \in SessionCopy
  BY DEF NoSession, SessionCopy, Hashes
<1>2. acked # Last
  BY DEF SessionInit
<1>3. QED
  BY <1>1, <1>2 DEF SessionInit, RecordInv, CopiesOK, SessionPlaces,
                    AckedOnRecord, SettledWasAcked

LEMMA LandsRecorded ==
    ASSUME RecordInv, NEW tx \in in_flight, SessionTxLands(tx)
    PROVE  RecordInv'
<1>1. CopiesOK
  BY DEF RecordInv
<1>2. mode' = mode /\ outcome' = outcome
  BY DEF SessionTxLands, runtimeVars
<1>3. CASE tx.kind # "advance"
  <2>1. acked' = acked
    BY <1>3 DEF SessionTxLands
  <2>2. AccountKept
    BY <1>1, <1>3, InitializeKept, DelegateKept, FinalizeKept
       DEF SessionTxLands, Executes
  <2>3. QED
    BY <1>2, <2>1, <2>2, KeptInv
<1>4. CASE tx.kind = "advance"
  <2>1. AdvanceSession("session_signer", tx.tick, Replay[tx.tick])
    BY <1>4 DEF SessionTxLands, Executes
  <2>2. tx.tick \in Nat
    <3>1. CurrentSession.tick \in Nat
      BY <1>1, CurrentCopy DEF SessionCopy
    <3>2. QED
      BY <2>1, <3>1 DEF AdvanceSession, TickInOrder
  <2>3. Replay[tx.tick] \in Hashes
    BY <2>2 DEF Hashes
  <2>4. /\ AccountKept /\ CurrentSession.tick < Last
        /\ session_place' # "none"
        /\ CurrentSession'.tick = tx.tick
        /\ CurrentSession'.state_hash = Replay[tx.tick]
    BY <1>1, <2>1, <2>3, AdvanceKept
  <2>5. acked # Last
    <3>1. CurrentSession.tick # Last
      <4>1. CurrentSession.tick \in Nat /\ Last \in Nat
        BY <1>1, CurrentCopy DEF SessionCopy
      <4>2. QED
        BY <2>4, <4>1
    <3>2. QED
      BY <3>1 DEF RecordInv, AckedOnRecord
  <2>6. mode' # "settled"
    BY <1>2, <2>5 DEF RecordInv, SettledWasAcked
  <2>7. acked' = acked \/ acked' = tx.tick
    BY DEF SessionTxLands
  <2>8. QED
    BY <2>4, <2>5, <2>6, <2>7
       DEF RecordInv, AccountKept, AckedOnRecord, SettledWasAcked
<1>5. QED
  BY <1>3, <1>4

LEMMA RecordNext == RecordInv /\ [SessionNext]_sessionVars => RecordInv'
<1> SUFFICES ASSUME RecordInv, [SessionNext]_sessionVars
             PROVE  RecordInv'
  OBVIOUS
<1>1. CopiesOK
  BY DEF RecordInv
<1>2. CASE SessionCommits
  <2>1. AccountKept
    BY <1>1, <1>2 DEF SessionCommits, AccountKept, CopiesOK, SessionPlaces,
                      CurrentSession
  <2>2. QED
    BY <1>2, <2>1, KeptInv DEF SessionCommits, runtimeVars, transportVars
<1>3. CASE SessionExpires
  <2>1. AccountKept
    BY <1>1, <1>3 DEF SessionExpires, AccountKept, CopiesOK, CurrentSession
  <2>2. QED
    BY <1>3, <2>1, KeptInv DEF SessionExpires, runtimeVars, transportVars
<1>4. CASE OwnerDelegatesSession
  BY <1>1, <1>4, DelegateKept, KeptInv
     DEF OwnerDelegatesSession, runtimeVars, transportVars
<1>5. CASE OwnerAdvancesSession
  <2>1. Forged \in Hashes
    BY DEF Hashes
  <2>2. AccountKept
    BY <1>1, <1>5, <2>1, AdvanceKept DEF OwnerAdvancesSession
  <2>3. QED
    BY <1>5, <2>2, KeptInv DEF OwnerAdvancesSession, runtimeVars, transportVars
<1>6. CASE OwnerFinalizesSession
  BY <1>1, <1>6, FinalizeKept, KeptInv
     DEF OwnerFinalizesSession, runtimeVars, transportVars
<1>7. ASSUME NEW tx \in in_flight, SessionTxLands(tx) \/ SessionTxVanishes(tx)
      PROVE  RecordInv'
  <2>1. CASE SessionTxLands(tx)
    BY <2>1, LandsRecorded
  <2>2. CASE SessionTxVanishes(tx)
    BY <1>1, <2>2, UntouchedAccount, KeptInv DEF SessionTxVanishes, runtimeVars
  <2>3. QED
    BY <1>7, <2>1, <2>2
<1>8. CASE FinishReturns
  <2>1. AccountKept /\ acked' = acked
    BY <1>1, <1>8, UntouchedAccount DEF FinishReturns
  <2>2. mode' = "settled" /\ acked = Last /\ outcome' = Replay[Last]
    BY <1>8 DEF FinishReturns
  <2>3. AckedOnRecord' /\ CopiesOK'
    BY <2>1 DEF RecordInv, AccountKept, AckedOnRecord
  <2>4. QED
    BY <2>1, <2>2, <2>3 DEF RecordInv, SettledWasAcked
<1>9. ASSUME UNCHANGED accountVars, acked' = acked,
             \/ mode' = mode /\ outcome' = outcome
             \/ mode' # "settled"
      PROVE  RecordInv'
  BY <1>1, <1>9, UntouchedAccount, KeptInv
<1>10. CASE \/ FinishContinues \/ CallStep \/ StepReturns \/ CallFinish
            \/ UNCHANGED sessionVars
  BY <1>9, <1>10
     DEF FinishContinues, CallStep, StepReturns, CallFinish, sessionVars,
         runtimeVars, transportVars
<1>11. CASE \/ CallStart \/ StartReturns \/ StartThrows \/ StepThrows
            \/ FinishThrows
  BY <1>9, <1>11
     DEF CallStart, StartReturns, StartThrows, StepThrows, FinishThrows, Throws
<1>12. CASE FallbackStep \/ FallbackFinish
  BY <1>9, <1>12 DEF FallbackStep, FallbackFinish, transportVars
<1>13. QED
  BY <1>2, <1>3, <1>4, <1>5, <1>6, <1>7, <1>8, <1>10, <1>11, <1>12
     DEF SessionNext

\* For any scenario, strategy and length of a session: what was lost, late or
\* sent by others, a run that the runtime reports as settled (runtime.ts:79)
\* is on record with all its ticks and with the hash of its result.
THEOREM SettledRunOnRecord == SessionSpec => []SettledIsOnRecord
<1>1. RecordInv => SettledIsOnRecord
  BY DEF RecordInv, AckedOnRecord, SettledWasAcked, SettledIsOnRecord
<1>2. QED
  BY <1>1, RecordInit, RecordNext, PTL DEF SessionSpec

-----------------------------------------------------------------------------
(* The engine of the local runtime is the engine *)

LEMMA LocalRounded ==
    ASSUME NEW a, NEW b
    PROVE  Local!rounded(a, b) = rounded(a, b)
  BY DEF Local!rounded, rounded

LEMMA LocalValue ==
    ASSUME NEW a, NEW b
    PROVE  Local!valueOf(a, b) = valueOf(a, b)
  BY LocalRounded DEF Local!valueOf, valueOf

LEMMA LocalEquity ==
    ASSUME NEW a, NEW b, NEW c
    PROVE  Local!equityOf(a, b, c) = equityOf(a, b, c)
  BY LocalValue DEF Local!equityOf, equityOf

LEMMA LocalSpread ==
    ASSUME NEW a
    PROVE  Local!halfSpread(a) = halfSpread(a)
  BY DEF Local!halfSpread, halfSpread, Local!mathMax, mathMax

LEMMA LocalBid ==
    ASSUME NEW a, NEW b
    PROVE  Local!bidOf(a, b) = bidOf(a, b)
  BY LocalSpread DEF Local!bidOf, bidOf

LEMMA LocalAsk ==
    ASSUME NEW a, NEW b
    PROVE  Local!askOf(a, b) = askOf(a, b)
  BY LocalSpread DEF Local!askOf, askOf, Local!ceiling, ceiling

LEMMA LocalOrder ==
    ASSUME NEW a, NEW b, NEW c
    PROVE  Local!order(a, b, c) = order(a, b, c)
  BY DEF Local!order, order, Local!mathMin, mathMin

LEMMA LocalOrders ==
    ASSUME NEW a, NEW b, NEW c, NEW d
    PROVE  Local!quoteOrders(a, b, c, d) = quoteOrders(a, b, c, d)
  BY LocalOrder DEF Local!quoteOrders, quoteOrders

LEMMA LocalStart ==
    ASSUME NEW a, NEW b
    PROVE  Local!createSimulation(a, b) = createSimulation(a, b)
  BY LocalValue, LocalEquity, LocalBid, LocalAsk, LocalOrders
     DEF Local!createSimulation, createSimulation

LEMMA LocalPrice ==
    ASSUME NEW a, NEW b
    PROVE  Local!movedPrice(a, b) = movedPrice(a, b)
  BY LocalRounded
     DEF Local!movedPrice, movedPrice, Local!mathMax, mathMax

LEMMA LocalRequoted ==
    ASSUME NEW a, NEW b, NEW c, NEW d
    PROVE  Local!requoted(a, b, c, d) = requoted(a, b, c, d)
  BY LocalBid, LocalAsk, LocalOrders DEF Local!requoted, requoted

LEMMA LocalBought ==
    ASSUME NEW a, NEW b
    PROVE  Local!bought(a, b) = bought(a, b)
  BY LocalValue DEF Local!bought, bought

LEMMA LocalSold ==
    ASSUME NEW a, NEW b
    PROVE  Local!sold(a, b) = sold(a, b)
  BY LocalRounded, LocalValue DEF Local!sold, sold

LEMMA LocalFilled ==
    ASSUME NEW a, NEW b, NEW c
    PROVE  Local!filled(a, b, c) = filled(a, b, c)
  BY LocalBought, LocalSold DEF Local!filled, filled

LEMMA LocalMarked ==
    ASSUME NEW a
    PROVE  Local!marked(a) = marked(a)
<1> DEFINE peak(w) == mathMax(a.peakEquity, w)
           as(w, loss) ==
             [a EXCEPT !.liquidityTicks = @ + 1, !.equity = w,
                       !.peakEquity = peak(w),
                       !.maxDrawdownBps = mathMax(@, loss)]
           worth == equityOf(a.base, a.quote, a.referencePrice)
           there == Local!equityOf(a.base, a.quote, a.referencePrice)
           loss == rounded((peak(worth) - worth) * 10000, peak(worth))
           away == Local!rounded((peak(there) - there) * 10000, peak(there))
<1>1. marked(a) = as(worth, loss)
  BY DEF marked
<1>2. Local!marked(a) = as(there, away)
  BY DEF Local!marked, Local!mathMax, mathMax
<1>3. there = worth
  BY LocalEquity
<1>4. away = loss
  BY <1>3, LocalRounded
<1> HIDE DEF as, worth, there, loss, away
<1>5. QED
  BY <1>1, <1>2, <1>3, <1>4

LEMMA LocalStep ==
    ASSUME NEW a, NEW b, NEW c
    PROVE  Local!stepSimulation(a, b, c) = stepSimulation(a, b, c)
  BY LocalPrice, LocalRequoted, LocalFilled, LocalMarked
     DEF Local!stepSimulation, stepSimulation, Local!mathAbs, mathAbs

LEMMA LocalRun ==
    ASSUME NEW a, NEW b
    PROVE  Local!simulationAt(a, b) = simulationAt(a, b)
  BY LocalStart, LocalStep DEF Local!simulationAt, simulationAt

-----------------------------------------------------------------------------
(* What the runtime shows *)

LEMMA ReplayIsRun ==
    /\ Last \in Nat /\ SCENARIO.ticks = Last
    /\ Replay[0] = createSimulation(SCENARIO, STRATEGY)
    /\ \A t \in 0 .. Last :
         /\ Replay[t] # Nothing /\ Replay[t].tick = t
         /\ stepped(Replay[t]) = Replay[IF t < Last THEN t + 1 ELSE Last]
<1>1. Last \in Nat /\ SCENARIO.ticks = Last
  OBVIOUS
<1>2. Replay[0] = createSimulation(SCENARIO, STRATEGY)
  BY <1>1, RunEquation DEF Replay
<1>3. ASSUME NEW t \in 0 .. Last
      PROVE  /\ Replay[t] # Nothing /\ Replay[t].tick = t
             /\ stepped(Replay[t]) = Replay[IF t < Last THEN t + 1 ELSE Last]
  BY <1>1, NothingIsNoState, RunTicks, RunStep DEF Replay, stepped
<1>4. QED
  BY <1>1, <1>2, <1>3

LEMMA RestoredIsReplayed ==
    ASSUME NEW completed \in 0 .. Last
    PROVE  Restored(completed) = Replay[completed]
<1>1. RunsTo(Replay, SCENARIO, STRATEGY, Last)
  BY SimulationRuns DEF Replay
<1>2. Restored(completed)
        = (CHOOSE g : RunsTo(g, SCENARIO, STRATEGY, completed))[completed]
  BY DEF Restored, RunsTo, stepped
<1>3. \E g : RunsTo(g, SCENARIO, STRATEGY, completed)
  BY RunsToExists
<1> DEFINE local == CHOOSE g : RunsTo(g, SCENARIO, STRATEGY, completed)
<1>4. RunsTo(local, SCENARIO, STRATEGY, completed)
  BY <1>3
<1> HIDE DEF local
<1>5. local[completed] = Replay[completed]
  <2>1. /\ Last \in Nat /\ completed \in Nat
        /\ completed <= Last /\ completed <= completed
    OBVIOUS
  <2>2. QED
    BY <1>1, <1>4, <2>1, RunsToOnce
<1>6. QED
  BY <1>2, <1>5 DEF local

Modes == {"idle", "starting", "active", "local-fallback", "settled"}

\* Nothing is shown before the start has been answered, and a state of the
\* run ever after; a call is made in the mode that it needs.
ShownInv ==
    /\ mode \in Modes
    /\ call = "start" => mode = "starting"
    /\ call \in {"step", "finish"} => mode = "active"
    /\ IF mode \in {"idle", "starting"} THEN shown = Nothing
       ELSE \E t \in 0 .. Last : shown = Replay[t]

LEMMA ShownIsReplayed ==
    ASSUME ShownInv, mode \notin {"idle", "starting"}
    PROVE  /\ shown # Nothing
           /\ shown.tick \in 0 .. Last
           /\ shown = Replay[shown.tick]
           /\ Restored(shown.tick) = shown
           /\ \E t \in 0 .. Last : stepped(shown) = Replay[t]
<1>1. PICK t \in 0 .. Last : shown = Replay[t]
  BY DEF ShownInv
<1>2. shown.tick = t /\ shown # Nothing
  BY <1>1, ReplayIsRun
<1>3. Restored(t) = Replay[t]
  BY RestoredIsReplayed
<1>4. \E u \in 0 .. Last : stepped(shown) = Replay[u]
  <2> DEFINE u == IF t < Last THEN t + 1 ELSE Last
  <2>1. u \in 0 .. Last
    OBVIOUS
  <2>2. stepped(shown) = Replay[u]
    BY <1>1, ReplayIsRun
  <2>3. QED
    BY <2>1, <2>2
<1>5. QED
  BY <1>1, <1>2, <1>3, <1>4

LEMMA LocalSteps ==
    /\ Local!LocalInit <=> shown = Nothing /\ outcome = Nothing
    /\ Local!Start <=>
         /\ shown = Nothing /\ shown' = Replay[0]
         /\ outcome' = outcome
    /\ Local!Step <=>
         shown # Nothing /\ shown' = stepped(shown) /\ outcome' = outcome
    /\ Local!Finish <=>
         /\ shown # Nothing
         /\ outcome' = Replay[Last] /\ shown' \in {shown, outcome'}
<1>1. Local!createSimulation(SCENARIO, STRATEGY) = Replay[0]
  BY LocalStart, ReplayIsRun
<1>2. Local!stepSimulation(shown, SCENARIO, STRATEGY) = stepped(shown)
  BY LocalStep DEF stepped
<1>3. Local!simulationAt(SCENARIO, STRATEGY)[SCENARIO.ticks] = Replay[Last]
  BY LocalRun DEF Replay
<1>4. QED
  BY <1>1, <1>2, <1>3
     DEF Local!LocalInit, Local!Start, Local!Step, Local!Finish

\* What a step of the runtime is to the local runtime.
LocalMoves ==
    \/ shown = Nothing /\ shown' = Replay[0] /\ outcome' = outcome
    \/ shown # Nothing /\ shown' = stepped(shown) /\ outcome' = outcome
    \/ /\ shown # Nothing
       /\ outcome' = Replay[Last] /\ shown' \in {shown, outcome'}
    \/ shown' = shown /\ outcome' = outcome

LEMMA ShownInit == SessionInit => ShownInv /\ Local!LocalInit
  BY LocalSteps DEF SessionInit, ShownInv, Modes

LEMMA ShownNext ==
    ASSUME ShownInv, [SessionNext]_sessionVars
    PROVE  ShownInv' /\ LocalMoves
<1>1. ASSUME UNCHANGED <<mode, shown, outcome>>, call' \in {call, "none"}
      PROVE  ShownInv' /\ LocalMoves
  BY <1>1 DEF ShownInv, LocalMoves
<1>2. CASE CallStart
  BY <1>2 DEF CallStart, Awaits, ShownInv, Modes, LocalMoves
<1>3. CASE StartReturns \/ StartThrows
  <2>1. mode = "starting" /\ shown = Nothing
    BY <1>3 DEF StartReturns, StartThrows, Returns, Throws, ShownInv
  <2>2. /\ call' = "none" /\ mode' \in {"active", "local-fallback"}
        /\ shown' = Replay[0] /\ outcome' = outcome
    BY <1>3 DEF StartReturns, StartThrows, Returns, Throws
  <2>3. QED
    BY <2>1, <2>2 DEF ShownInv, Modes, LocalMoves
<1>4. CASE CallStep \/ CallFinish
  BY <1>4 DEF CallStep, CallFinish, Awaits, runtimeVars, ShownInv, Modes,
              LocalMoves
<1>5. CASE StepReturns \/ StepThrows \/ FallbackStep
  <2>1. mode \in {"active", "local-fallback"}
    BY <1>5 DEF StepReturns, StepThrows, FallbackStep, Returns, Throws,
                ShownInv
  <2>2. /\ shown # Nothing /\ Restored(shown.tick) = shown
        /\ \E t \in 0 .. Last : stepped(shown) = Replay[t]
    BY <2>1, ShownIsReplayed
  <2>3. shown' = stepped(shown) /\ outcome' = outcome
    BY <1>5, <2>2 DEF StepReturns, StepThrows, FallbackStep
  <2>4. /\ mode' \in {"active", "local-fallback"}
        /\ call' = "none"
    BY <1>5, <2>1 DEF StepReturns, StepThrows, FallbackStep, Returns, Throws,
                      transportVars
  <2>5. QED
    BY <2>2, <2>3, <2>4 DEF ShownInv, Modes, LocalMoves
<1>6. CASE FinishReturns \/ FinishThrows \/ FallbackFinish
  <2>1. mode \in {"active", "local-fallback"}
    BY <1>6 DEF FinishReturns, FinishThrows, FallbackFinish, Returns, Throws,
                ShownInv
  <2>2. /\ shown # Nothing /\ Restored(shown.tick) = shown
        /\ \E t \in 0 .. Last : shown = Replay[t]
    BY <2>1, ShownIsReplayed
  <2>3. outcome' = Replay[Last] /\ shown' \in {shown, Replay[Last]}
    BY <1>6, <2>2 DEF FinishReturns, FinishThrows, FallbackFinish
  <2>4. /\ mode' \in {"settled", "local-fallback"}
        /\ call' = "none"
    BY <1>6, <2>1 DEF FinishReturns, FinishThrows, FallbackFinish, Returns,
                      Throws, transportVars
  <2>5. Last \in 0 .. Last
    OBVIOUS
  <2>6. QED
    BY <2>2, <2>3, <2>4, <2>5 DEF ShownInv, Modes, LocalMoves
<1>7. ASSUME NEW tx \in in_flight, SessionTxLands(tx) \/ SessionTxVanishes(tx)
      PROVE  ShownInv' /\ LocalMoves
  BY <1>1, <1>7 DEF SessionTxLands, SessionTxVanishes, runtimeVars
<1>8. CASE \/ SessionCommits \/ SessionExpires \/ OwnerDelegatesSession
           \/ OwnerAdvancesSession \/ OwnerFinalizesSession
           \/ FinishContinues \/ UNCHANGED sessionVars
  BY <1>1, <1>8
     DEF SessionCommits, SessionExpires, OwnerDelegatesSession,
         OwnerAdvancesSession, OwnerFinalizesSession, FinishContinues,
         sessionVars, runtimeVars, transportVars
<1>9. QED
  BY <1>2, <1>3, <1>4, <1>5, <1>6, <1>7, <1>8 DEF SessionNext

\* For any scenario, strategy and length of a session: whatever is lost, late
\* or sent by others, and whichever call throws at whatever moment, what
\* MagicBlockRuntime shows and returns is a behaviour of the local runtime
\* (runtime.ts:14): a fallback resumes at the tick that was shown, and never
\* starts over, skips or repeats one.
THEOREM RuntimeIsLocal == SessionSpec => ImplementsLocalRuntime
<1>1. LocalMoves =>
        [Local!Start \/ Local!Step \/ Local!Finish]_<<shown, outcome>>
  BY LocalSteps DEF LocalMoves
<1>2. ShownInv /\ [SessionNext]_sessionVars =>
        /\ ShownInv'
        /\ [Local!Start \/ Local!Step \/ Local!Finish]_<<shown, outcome>>
  BY <1>1, ShownNext
<1>3. QED
  BY <1>2, ShownInit, PTL
     DEF SessionSpec, ImplementsLocalRuntime, Local!LocalSpec

-----------------------------------------------------------------------------
(* Places in an order *)

\* R orders S strictly, any two members of it.
Orders(R, S) ==
    /\ \A x \in S : <<x, x>> \notin R
    /\ \A x, y, z \in S : <<x, y>> \in R /\ <<y, z>> \in R => <<x, z>> \in R
    /\ \A x, y \in S : x = y \/ <<x, y>> \in R \/ <<y, x>> \in R

Before(R, S, x) == {y \in S : <<y, x>> \in R}

\* In an order, what comes earlier has fewer members before it, so that each
\* place is some member's.
LEMMA PlacesGrow ==
    ASSUME NEW S, IsFiniteSet(S), NEW R, Orders(R, S),
           NEW x \in S, NEW y \in S, <<x, y>> \in R
    PROVE  /\ Cardinality(Before(R, S, x)) \in Nat
           /\ Cardinality(Before(R, S, y)) \in Nat
           /\ Cardinality(Before(R, S, x)) < Cardinality(Before(R, S, y))
<1>1. /\ IsFiniteSet(Before(R, S, x)) /\ IsFiniteSet(Before(R, S, y))
  BY FS_Subset DEF Before
<1>2. /\ Before(R, S, x) \in SUBSET Before(R, S, y)
      /\ x \in Before(R, S, y) /\ x \notin Before(R, S, x)
  BY DEF Before, Orders
<1>3. /\ Cardinality(Before(R, S, x)) \in Nat
      /\ Cardinality(Before(R, S, y)) \in Nat
  BY <1>1, FS_CardinalityType
<1>4. Before(R, S, x) # Before(R, S, y)
  BY <1>2
<1>5. Cardinality(Before(R, S, x)) <= Cardinality(Before(R, S, y))
  BY <1>1, <1>2, FS_Subset
<1>6. Cardinality(Before(R, S, x)) # Cardinality(Before(R, S, y))
  BY <1>1, <1>2, <1>4, FS_Subset
<1>7. QED
  BY <1>3, <1>5, <1>6

LEMMA PlaceInRange ==
    ASSUME NEW S, IsFiniteSet(S), NEW R, Orders(R, S), NEW x \in S
    PROVE  /\ Cardinality(S) \in Nat
           /\ Cardinality(Before(R, S, x)) \in Nat
           /\ Cardinality(Before(R, S, x)) + 1 \in 1 .. Cardinality(S)
<1>1. Before(R, S, x) \in SUBSET S /\ x \notin Before(R, S, x)
  BY DEF Before, Orders
<1>2. IsFiniteSet(Before(R, S, x))
  BY <1>1, FS_Subset
<1>3. Cardinality(Before(R, S, x)) \in Nat /\ Cardinality(S) \in Nat
  BY <1>2, FS_CardinalityType
<1>4. Cardinality(Before(R, S, x)) <= Cardinality(S)
  BY <1>1, FS_Subset
<1>5. Cardinality(Before(R, S, x)) # Cardinality(S)
  BY <1>1, FS_Subset
<1>6. QED
  BY <1>3, <1>4, <1>5

LEMMA EveryPlaceTaken ==
    ASSUME NEW S, IsFiniteSet(S), NEW R, Orders(R, S),
           NEW i \in 1 .. Cardinality(S)
    PROVE  \E x \in S : Cardinality(Before(R, S, x)) = i - 1
<1> DEFINE n == Cardinality(S)
           place == [x \in S |-> Cardinality(Before(R, S, x)) + 1]
<1>1. n \in Nat
  BY FS_CardinalityType
<1>2. place \in [S -> 1 .. n]
  BY PlaceInRange
<1>3. \A x, y \in S : place[x] = place[y] => x = y
  <2> SUFFICES ASSUME NEW x \in S, NEW y \in S, place[x] = place[y], x # y
               PROVE  FALSE
    OBVIOUS
  <2>1. Cardinality(Before(R, S, x)) + 1 = Cardinality(Before(R, S, y)) + 1
    OBVIOUS
  <2>2. <<x, y>> \in R \/ <<y, x>> \in R
    BY DEF Orders
  <2>3. CASE <<x, y>> \in R
    BY <2>1, <2>3, PlacesGrow
  <2>4. CASE <<y, x>> \in R
    BY <2>1, <2>4, PlacesGrow
  <2>5. QED
    BY <2>2, <2>3, <2>4
<1> HIDE DEF place
<1>4. place \in Injection(S, 1 .. n)
  BY <1>2, <1>3 DEF Injection, IsInjective
<1>5. IsFiniteSet(1 .. n) /\ Cardinality(1 .. n) = n
  BY <1>1, FS_Interval
<1>6. place \in Surjection(S, 1 .. n)
  BY <1>4, <1>5, FS_Injection
<1>7. PICK x \in S : place[x] = i
  BY <1>6 DEF Surjection
<1>8. Cardinality(Before(R, S, x)) \in Nat
  BY PlaceInRange
<1>9. QED
  BY <1>7, <1>8 DEF place

Placed(board, R, S) ==
    /\ DOMAIN board = 1 .. Cardinality(S)
    /\ \A i \in DOMAIN board : /\ board[i] \in S
                             /\ Cardinality(Before(R, S, board[i])) = i - 1

InOrder(board, R, S) ==
    /\ \A i \in DOMAIN board : board[i] \in S
    /\ \A x \in S : \E i \in DOMAIN board : board[i] = x
    /\ \A i, j \in DOMAIN board : i < j => <<board[i], board[j]>> \in R

\* sort returns every member once, each after those that come before it.
LEMMA SortedInOrder ==
    ASSUME NEW S, IsFiniteSet(S), NEW R, Orders(R, S), NEW board,
           Placed(board, R, S)
    PROVE  InOrder(board, R, S)
<1>1. Cardinality(S) \in Nat
  BY FS_CardinalityType
<1>2. DOMAIN board = 1 .. Cardinality(S)
  BY DEF Placed
<1>3. \A i \in DOMAIN board :
         board[i] \in S /\ Cardinality(Before(R, S, board[i])) = i - 1
  BY DEF Placed
<1>4. ASSUME NEW i \in DOMAIN board, NEW j \in DOMAIN board, i < j
      PROVE  <<board[i], board[j]>> \in R
  <2>1. board[i] # board[j]
    BY <1>1, <1>2, <1>3, <1>4
  <2>2. <<board[j], board[i]>> \notin R
    BY <1>1, <1>2, <1>3, <1>4, PlacesGrow
  <2>3. QED
    BY <1>3, <2>1, <2>2 DEF Orders
<1>5. ASSUME NEW x \in S
      PROVE  \E i \in DOMAIN board : board[i] = x
  <2>1. PICK i \in 1 .. Cardinality(S) : Cardinality(Before(R, S, x)) + 1 = i
    BY PlaceInRange
  <2>2. Cardinality(Before(R, S, x)) \in Nat
    BY PlaceInRange
  <2>3. Cardinality(Before(R, S, board[i])) = Cardinality(Before(R, S, x))
    BY <1>2, <1>3, <2>1, <2>2
  <2>4. ~(<<board[i], x>> \in R) /\ ~(<<x, board[i]>> \in R)
    BY <1>2, <1>3, <2>3, PlacesGrow
  <2>5. board[i] = x
    BY <1>2, <1>3, <2>4 DEF Orders
  <2>6. QED
    BY <1>2, <2>5
<1>6. QED
  BY <1>2, <1>3, <1>4, <1>5 DEF InOrder

-----------------------------------------------------------------------------
(* The ranking order *)

LEMMA FirstDifferenceOfFive ==
    ASSUME NEW a, NEW b, DOMAIN a = 1 .. 5,
           \A i \in 1 .. 5 : a[i] \in Int /\ b[i] \in Int
    PROVE  earlier(a, b)
             <=> \/ a[1] < b[1]
                 \/ a[1] = b[1] /\ a[2] < b[2]
                 \/ a[1] = b[1] /\ a[2] = b[2] /\ a[3] < b[3]
                 \/ /\ a[1] = b[1] /\ a[2] = b[2] /\ a[3] = b[3]
                    /\ a[4] < b[4]
                 \/ /\ a[1] = b[1] /\ a[2] = b[2] /\ a[3] = b[3]
                    /\ a[4] = b[4] /\ a[5] < b[5]
<1> DEFINE First(i) == a[i] < b[i] /\ \A j \in 1 .. i - 1 : a[j] = b[j]
<1>1. earlier(a, b)
        <=> First(1) \/ First(2) \/ First(3) \/ First(4) \/ First(5)
  <2>1. earlier(a, b) <=> \E i \in 1 .. 5 : First(i)
    BY DEF earlier
  <2>2. 1 .. 5 = {1, 2, 3, 4, 5}
    OBVIOUS
  <2> HIDE DEF First
  <2>3. QED
    BY <2>1, <2>2
<1>2. /\ 1 .. 1 - 1 = {} /\ 1 .. 2 - 1 = {1} /\ 1 .. 3 - 1 = {1, 2}
      /\ 1 .. 4 - 1 = {1, 2, 3} /\ 1 .. 5 - 1 = {1, 2, 3, 4}
  OBVIOUS
<1>3. /\ First(1) <=> a[1] < b[1]
      /\ First(2) <=> a[1] = b[1] /\ a[2] < b[2]
      /\ First(3) <=> a[1] = b[1] /\ a[2] = b[2] /\ a[3] < b[3]
      /\ First(4) <=> /\ a[1] = b[1] /\ a[2] = b[2] /\ a[3] = b[3]
                      /\ a[4] < b[4]
      /\ First(5) <=> /\ a[1] = b[1] /\ a[2] = b[2] /\ a[3] = b[3]
                      /\ a[4] = b[4] /\ a[5] < b[5]
  BY <1>2
<1> HIDE DEF First
<1>4. QED
  BY <1>1, <1>3

LEMMA FirstDifferenceOfFour ==
    ASSUME NEW a, NEW b, DOMAIN a = 1 .. 4,
           \A i \in 1 .. 4 : a[i] \in Int /\ b[i] \in Int
    PROVE  earlier(a, b)
             <=> \/ a[1] < b[1]
                 \/ a[1] = b[1] /\ a[2] < b[2]
                 \/ a[1] = b[1] /\ a[2] = b[2] /\ a[3] < b[3]
                 \/ /\ a[1] = b[1] /\ a[2] = b[2] /\ a[3] = b[3]
                    /\ a[4] < b[4]
<1> DEFINE First(i) == a[i] < b[i] /\ \A j \in 1 .. i - 1 : a[j] = b[j]
<1>1. earlier(a, b) <=> First(1) \/ First(2) \/ First(3) \/ First(4)
  <2>1. earlier(a, b) <=> \E i \in 1 .. 4 : First(i)
    BY DEF earlier
  <2>2. 1 .. 4 = {1, 2, 3, 4}
    OBVIOUS
  <2> HIDE DEF First
  <2>3. QED
    BY <2>1, <2>2
<1>2. /\ 1 .. 1 - 1 = {} /\ 1 .. 2 - 1 = {1} /\ 1 .. 3 - 1 = {1, 2}
      /\ 1 .. 4 - 1 = {1, 2, 3}
  OBVIOUS
<1>3. /\ First(1) <=> a[1] < b[1]
      /\ First(2) <=> a[1] = b[1] /\ a[2] < b[2]
      /\ First(3) <=> a[1] = b[1] /\ a[2] = b[2] /\ a[3] < b[3]
      /\ First(4) <=> /\ a[1] = b[1] /\ a[2] = b[2] /\ a[3] = b[3]
                      /\ a[4] < b[4]
  BY <1>2
<1> HIDE DEF First
<1>4. QED
  BY <1>1, <1>3

LEMMA CompareIsBeats ==
    ASSUME NEW a, NEW b,
           {a.score, pnlBps(a), a.drawdown, a.finalized, a.address}
             \subseteq Int,
           {b.score, pnlBps(b), b.drawdown, b.finalized, b.address}
             \subseteq Int
    PROVE  compare(a, b) <=> Beats(a, b)
<1> DEFINE s == <<-a.score, -pnlBps(a), a.drawdown, a.finalized, a.address>>
           t == <<-b.score, -pnlBps(b), b.drawdown, b.finalized, b.address>>
<1>1. /\ DOMAIN s = 1 .. 5
      /\ s[1] = -a.score /\ s[2] = -pnlBps(a) /\ s[3] = a.drawdown
      /\ s[4] = a.finalized /\ s[5] = a.address
      /\ t[1] = -b.score /\ t[2] = -pnlBps(b) /\ t[3] = b.drawdown
      /\ t[4] = b.finalized /\ t[5] = b.address
  OBVIOUS
<1>2. compare(a, b) <=> earlier(s, t)
  BY DEF compare
<1> HIDE DEF s, t
<1>3. \A i \in 1 .. 5 : s[i] \in Int /\ t[i] \in Int
  <2>1. 1 .. 5 = {1, 2, 3, 4, 5}
    OBVIOUS
  <2>2. QED
    BY <1>1, <2>1
<1>4. earlier(s, t)
        <=> \/ s[1] < t[1]
            \/ s[1] = t[1] /\ s[2] < t[2]
            \/ s[1] = t[1] /\ s[2] = t[2] /\ s[3] < t[3]
            \/ /\ s[1] = t[1] /\ s[2] = t[2] /\ s[3] = t[3]
               /\ s[4] < t[4]
            \/ /\ s[1] = t[1] /\ s[2] = t[2] /\ s[3] = t[3]
               /\ s[4] = t[4] /\ s[5] < t[5]
  BY <1>1, <1>3, FirstDifferenceOfFive
<1>5. /\ s[1] < t[1] <=> a.score > b.score
      /\ s[1] = t[1] <=> a.score = b.score
      /\ s[2] < t[2] <=> pnlBps(a) > pnlBps(b)
      /\ s[2] = t[2] <=> pnlBps(a) = pnlBps(b)
  <2>1. /\ a.score \in Int /\ b.score \in Int
        /\ pnlBps(a) \in Int /\ pnlBps(b) \in Int
    OBVIOUS
  <2>2. \A m, n \in Int : (-m < -n <=> m > n) /\ (-m = -n <=> m = n)
    OBVIOUS
  <2>3. QED
    BY <1>1, <2>1, <2>2
<1>6. QED
  BY <1>1, <1>2, <1>4, <1>5 DEF Beats

\* Runs of genuine accounts of the program: they have an order, since no two
\* of them have the same address.
Comparable(runs) ==
    /\ \A a \in runs :
         {a.score, pnlBps(a), a.drawdown, a.finalized, a.address} \subseteq Int
    /\ \A a, b \in runs : a.address = b.address => a = b

Ranking(runs) == {p \in runs \X runs : Beats(p[1], p[2])}

LEMMA RankingOrders ==
    ASSUME NEW runs, Comparable(runs)
    PROVE  /\ Orders(Ranking(runs), runs)
           /\ \A a, b \in runs : /\ compare(a, b) <=> Beats(a, b)
                                 /\ <<a, b>> \in Ranking(runs) <=> Beats(a, b)
<1>1. \A a, b \in runs : <<a, b>> \in Ranking(runs) <=> Beats(a, b)
  BY DEF Ranking
<1>2. \A a, b \in runs : compare(a, b) <=> Beats(a, b)
  BY CompareIsBeats DEF Comparable
<1>3. \A a \in runs : ~Beats(a, a)
  BY DEF Comparable, Beats
<1>4. ASSUME NEW a \in runs, NEW b \in runs, NEW c \in runs,
             Beats(a, b), Beats(b, c)
      PROVE  Beats(a, c)
  BY <1>4 DEF Comparable, Beats
<1>5. ASSUME NEW a \in runs, NEW b \in runs, a # b
      PROVE  Beats(a, b) \/ Beats(b, a)
  BY <1>5 DEF Comparable, Beats
<1>6. QED
  BY <1>1, <1>2, <1>3, <1>4, <1>5 DEF Orders

-----------------------------------------------------------------------------
(* The best run by wallet *)

\* The members that none of the same wallet comes before.
Firsts(R, runs) ==
    {a \in runs : \A b \in runs :
        b.authority = a.authority => <<b, a>> \notin R}

LEMMA WalletHasFirst ==
    ASSUME NEW S, NEW R, Orders(R, S),
           NEW runs \in SUBSET S, IsFiniteSet(runs), NEW a \in runs
    PROVE  \E b \in Firsts(R, runs) :
              /\ b.authority = a.authority
              /\ b = a \/ <<b, a>> \in R
<1> DEFINE own == {b \in runs : b.authority = a.authority}
<1>1. own \in SUBSET runs /\ own \in SUBSET S /\ a \in own
  OBVIOUS
<1>2. IsFiniteSet(own)
  BY <1>1, FS_Subset
<1>3. Orders(R, own)
  BY <1>1 DEF Orders
<1>4. Cardinality(own) \in Nat /\ Cardinality(own) # 0
  BY <1>1, <1>2, FS_CardinalityType, FS_EmptySet
<1>5. PICK b \in own : Cardinality(Before(R, own, b)) = 0
  <2>1. 1 \in 1 .. Cardinality(own) /\ 1 - 1 = 0
    BY <1>4
  <2> HIDE DEF own
  <2>2. QED
    BY <1>2, <1>3, <2>1, EveryPlaceTaken
<1>6. Before(R, own, b) = {}
  <2> HIDE DEF own
  <2>1. Before(R, own, b) \in SUBSET own
    BY DEF Before
  <2>2. IsFiniteSet(Before(R, own, b))
    BY <1>2, <2>1, FS_Subset
  <2>3. QED
    BY <1>5, <2>2, FS_EmptySet
<1>7. \A c \in own : <<c, b>> \notin R
  BY <1>6 DEF Before
<1>8. b \in Firsts(R, runs)
  BY <1>7 DEF Firsts
<1>9. QED
  BY <1>1, <1>3, <1>7, <1>8 DEF Orders

LEMMA TakesFirst ==
    ASSUME NEW S, NEW R, Orders(R, S),
           \A x, y \in S : Better(x, y) <=> <<x, y>> \in R,
           NEW runs \in SUBSET S, IsFiniteSet(runs), NEW r \in S
    PROVE  Take(Firsts(R, runs), r) = Firsts(R, runs \cup {r})
<1> DEFINE best == Firsts(R, runs)
           previous == {b \in best : b.authority = r.authority}
<1>1. /\ \A a \in best : a \in runs
      /\ \A a \in best, b \in runs :
            b.authority = a.authority => <<b, a>> \notin R
  BY DEF Firsts
<1>2. \A b \in previous : Better(r, b) <=> <<r, b>> \in R
  BY <1>1
<1>3. CASE \A b \in previous : <<r, b>> \in R
  <2>1. Take(best, r) = (best \ previous) \cup {r}
    BY <1>2, <1>3 DEF Take
  <2>2. \A b \in runs : b.authority = r.authority => <<b, r>> \notin R
    <3> SUFFICES ASSUME NEW b \in runs, b.authority = r.authority,
                        <<b, r>> \in R
                 PROVE  FALSE
      OBVIOUS
    <3>1. PICK w \in best :
             w.authority = b.authority /\ (w = b \/ <<w, b>> \in R)
      BY WalletHasFirst
    <3>2. <<r, w>> \in R /\ w \in S /\ b \in S
      BY <1>1, <1>3, <3>1
    <3>3. <<w, r>> \in R
      BY <3>1, <3>2 DEF Orders
    <3>4. QED
      BY <3>2, <3>3 DEF Orders
  <2>3. r \in Firsts(R, runs \cup {r})
    BY <2>2 DEF Firsts, Orders
  <2>4. ASSUME NEW a \in runs, a # r
        PROVE  a \in Firsts(R, runs \cup {r}) <=> a \in best \ previous
    <3>1. CASE a.authority = r.authority
      BY <1>3, <2>4, <3>1 DEF Firsts
    <3>2. CASE a.authority # r.authority
      BY <2>4, <3>2 DEF Firsts
    <3>3. QED
      BY <3>1, <3>2
  <2>5. /\ Firsts(R, runs \cup {r}) \subseteq runs \cup {r}
        /\ (best \ previous) \cup {r} \subseteq runs \cup {r}
    BY <1>1 DEF Firsts
  <2> HIDE DEF best, previous
  <2>6. (best \ previous) \cup {r} = Firsts(R, runs \cup {r})
    BY <2>3, <2>4, <2>5
  <2>7. QED
    BY <2>1, <2>6 DEF best
<1>4. CASE ~ \A b \in previous : <<r, b>> \in R
  <2>1. Take(best, r) = best
    BY <1>2, <1>4 DEF Take
  <2>2. PICK b \in previous : <<r, b>> \notin R
    BY <1>4
  <2>3. b = r \/ <<b, r>> \in R
    BY <1>1, <2>2 DEF Orders
  <2>4. CASE b = r
    <3>1. r \in runs
      BY <1>1, <2>4
    <3>2. runs \cup {r} = runs
      BY <3>1
    <3>3. QED
      BY <2>1, <3>2
  <2>5. CASE b # r
    <3>1. r \notin Firsts(R, runs \cup {r})
      BY <1>1, <2>3, <2>5 DEF Firsts
    <3>2. r \notin best
      BY <1>1, <2>3, <2>5
    <3>3. ASSUME NEW a \in best
          PROVE  a \in Firsts(R, runs \cup {r})
      <4>1. a.authority = r.authority => a = b
        BY <1>1, <3>3 DEF Orders
      <4>2. QED
        BY <1>1, <2>2, <3>3, <4>1 DEF Firsts
    <3>4. ASSUME NEW a \in Firsts(R, runs \cup {r})
          PROVE  a \in best
      BY <3>1, <3>4 DEF Firsts
    <3>5. QED
      BY <2>1, <3>3, <3>4
  <2>6. QED
    BY <2>4, <2>5
<1>5. QED
  BY <1>3, <1>4

Listed(records, i) == {records[j] : j \in 1 .. i}

\* In whatever order they are listed, the Map ends with the first by wallet.
LEMMA BestAreFirsts ==
    ASSUME NEW S, NEW R, Orders(R, S),
           \A x, y \in S : Better(x, y) <=> <<x, y>> \in R,
           NEW n \in Nat, NEW records \in [1 .. n -> S]
    PROVE  bestByWallet(records) = Firsts(R, Listed(records, n))
<1> DEFINE Eq(f) == f = [i \in 0 .. n |->
                  IF i = 0 THEN {} ELSE Take(f[i - 1], records[i])]
           g == [i \in 0 .. n |-> Firsts(R, Listed(records, i))]
<1>1. Len(records) = n
  <2>1. records \in Seq(S) /\ DOMAIN records = 1 .. n
    OBVIOUS
  <2>2. QED
    BY <2>1
<1>2. bestByWallet(records) = (CHOOSE f : Eq(f))[n]
  BY <1>1 DEF bestByWallet
<1>3. \A i \in 0 .. n :
         Listed(records, i) \in SUBSET S /\ IsFiniteSet(Listed(records, i))
  <2> SUFFICES ASSUME NEW i \in 0 .. n
               PROVE  /\ Listed(records, i) \in SUBSET S
                      /\ IsFiniteSet(Listed(records, i))
    OBVIOUS
  <2>1. IsFiniteSet(1 .. i)
    BY FS_Interval
  <2> DEFINE list == [j \in 1 .. i |-> records[j]]
  <2>2. list \in Surjection(1 .. i, Listed(records, i))
    BY DEF Surjection, Listed
  <2>3. QED
    BY <2>1, <2>2, FS_Surjection DEF Listed
<1>4. \A i \in 1 .. n :
         Take(Firsts(R, Listed(records, i - 1)), records[i])
           = Firsts(R, Listed(records, i))
  <2> SUFFICES ASSUME NEW i \in 1 .. n
               PROVE  Take(Firsts(R, Listed(records, i - 1)), records[i])
                        = Firsts(R, Listed(records, i))
    OBVIOUS
  <2>1. Listed(records, i) = Listed(records, i - 1) \cup {records[i]}
    BY DEF Listed
  <2>2. /\ i - 1 \in 0 .. n /\ records[i] \in S
        /\ Listed(records, i - 1) \in SUBSET S
        /\ IsFiniteSet(Listed(records, i - 1))
    BY <1>3
  <2>3. QED
    BY <2>1, <2>2, TakesFirst
<1>5. Firsts(R, Listed(records, 0)) = {}
  BY DEF Firsts, Listed
<1>6. Eq(g)
  BY <1>4, <1>5
<1> DEFINE f == CHOOSE f : Eq(f)
<1>7. Eq(f)
  <2> HIDE DEF Eq, g
  <2>1. QED
    BY <1>6
<1> HIDE DEF f
<1> DEFINE Bad == {i \in 0 .. n : f[i] # Firsts(R, Listed(records, i))}
<1>8. ASSUME Bad # {}
      PROVE  FALSE
  <2>1. PICK i \in Bad : \A j \in Bad : i <= j
    <3>1. Bad \subseteq Nat
      OBVIOUS
    <3> HIDE DEF Bad
    <3>2. QED
      BY <1>8, <3>1, SmallestNumber
  <2>2. i \in 0 .. n /\ f[i] = IF i = 0 THEN {} ELSE Take(f[i - 1], records[i])
    BY <1>7
  <2>3. i # 0
    BY <1>5, <2>2
  <2>4. f[i - 1] = Firsts(R, Listed(records, i - 1))
    BY <2>1, <2>2, <2>3
  <2>5. QED
    BY <1>4, <2>2, <2>3, <2>4
<1>9. f[n] = Firsts(R, Listed(records, n))
  BY <1>8
<1>10. QED
  BY <1>2, <1>9 DEF f

-----------------------------------------------------------------------------
(* A board of ranked runs *)

\* What can be read of the chain: one state of each account.
Accounts(accounts) ==
    /\ accounts \subseteq RUN_ACCOUNTS /\ IsFiniteSet(accounts)
    /\ \A a, b \in accounts : a.address = b.address => a = b

Periods == {"weekly", "all-time"}

LEMMA QuotientIsInt ==
    ASSUME NEW a \in Int, NEW b \in Int, b > 0
    PROVE  quotient(a, b) \in Int
  BY DEF quotient

LEMMA EligibleRuns ==
    ASSUME NEW accounts, Accounts(accounts), NEW period \in Periods
    PROVE  /\ ofPeriod(decodeSettledRankedRecord(accounts), period)
                = {a \in accounts : Eligible(a, period)}
           /\ Comparable({a \in accounts : Eligible(a, period)})
           /\ IsFiniteSet({a \in accounts : Eligible(a, period)})
<1> DEFINE runs == {a \in accounts : Eligible(a, period)}
<1>1. ASSUME NEW a \in accounts
      PROVE  /\ a.score \in Nat
             /\ {a.address, a.equity, a.start, a.drawdown, a.finalized}
                  \subseteq Int
             /\ a.genuine /\ a.status = "SETTLED" => a.start > 0
  BY RunAccountsAssumption DEF Accounts
<1>2. ASSUME NEW a \in accounts
      PROVE  Eligible(a, period)
               <=> a \in ofPeriod(decodeSettledRankedRecord(accounts), period)
  <2>1. /\ a.score \in Nat
        /\ a.genuine /\ a.status = "SETTLED" => a.start > 0
    BY <1>1
  <2>2. a.score \in 0 .. HIGHEST_SCORE <=> a.score <= HIGHEST_SCORE
    <3>1. HIGHEST_SCORE \in Nat
      BY DEF HIGHEST_SCORE
    <3>2. QED
      BY <2>1, <3>1
  <2>3. a \in ofPeriod(decodeSettledRankedRecord(accounts), period)
          <=> /\ period = "all-time" \/ a.finalized >= week
              /\ a.genuine
              /\ a.status = "SETTLED" /\ a.schema = RUN_SCHEMA
              /\ a.tick = RUN_LENGTH
              /\ a.finalized > 0 /\ a.started > 0
              /\ a.score <= HIGHEST_SCORE /\ a.start > 0
    BY DEF ofPeriod, decodeSettledRankedRecord
  <2>4. Eligible(a, period)
          <=> /\ a.genuine /\ a.status = "SETTLED" /\ a.tick = RUN_LENGTH
              /\ a.schema = RUN_SCHEMA /\ a.score \in 0 .. HIGHEST_SCORE
              /\ a.finalized > 0 /\ a.started > 0
              /\ period = "weekly" => a.finalized >= week
    BY DEF Eligible
  <2>5. period = "all-time" <=> period # "weekly"
    BY DEF Periods
  <2>6. QED
    BY <2>1, <2>2, <2>3, <2>4, <2>5
<1>3. ofPeriod(decodeSettledRankedRecord(accounts), period) = runs
  <2>1. ofPeriod(decodeSettledRankedRecord(accounts), period)
          \subseteq accounts
    BY DEF ofPeriod, decodeSettledRankedRecord
  <2>2. QED
    BY <1>2, <2>1
<1>4. ASSUME NEW a \in runs
      PROVE  {a.score, pnlBps(a), a.drawdown, a.finalized, a.address}
               \subseteq Int
  <2>1. /\ a.score \in Int /\ a.equity \in Int /\ a.start \in Int
        /\ a.drawdown \in Int /\ a.finalized \in Int /\ a.address \in Int
        /\ a.start > 0
    BY <1>1 DEF Eligible
  <2>2. (a.equity - a.start) * 10000 \in Int
    BY <2>1
  <2>3. pnlBps(a) \in Int
    BY <2>1, <2>2, QuotientIsInt DEF pnlBps
  <2>4. QED
    BY <2>1, <2>3
<1>5. Comparable(runs)
  <2>1. \A a, b \in runs : a.address = b.address => a = b
    BY DEF Accounts
  <2> HIDE DEF runs
  <2>2. QED
    BY <1>4, <2>1 DEF Comparable
<1>6. IsFiniteSet(runs)
  BY FS_Subset DEF Accounts
<1>7. QED
  BY <1>3, <1>5, <1>6

\* A list of the runs in any order.
LEMMA ListedAll ==
    ASSUME NEW runs, IsFiniteSet(runs),
           NEW records \in Bijection(1 .. Cardinality(runs), runs)
    PROVE  /\ Cardinality(runs) \in Nat
           /\ records \in [1 .. Cardinality(runs) -> runs]
           /\ Listed(records, Cardinality(runs)) = runs
<1>1. Cardinality(runs) \in Nat
  BY FS_CardinalityType
<1>2. /\ records \in [1 .. Cardinality(runs) -> runs]
      /\ \A a \in runs : \E i \in 1 .. Cardinality(runs) : records[i] = a
  BY DEF Bijection, Injection, Surjection
<1>3. QED
  BY <1>1, <1>2 DEF Listed

LEMMA RankedInOrder ==
    ASSUME NEW runs, IsFiniteSet(runs), Comparable(runs),
           NEW records \in Bijection(1 .. Cardinality(runs), runs),
           NEW board, board = rankSettledRuns(records)
    PROVE  /\ {board[i] : i \in DOMAIN board}
                = {a \in runs : \A b \in runs :
                      b.authority = a.authority => ~Beats(b, a)}
           /\ \A i, j \in DOMAIN board : i < j => Beats(board[i], board[j])
<1> DEFINE R == Ranking(runs)
           n == Cardinality(runs)
           best == Firsts(R, runs)
<1>1. /\ Orders(R, runs)
      /\ \A a, b \in runs : /\ compare(a, b) <=> <<a, b>> \in R
                            /\ Beats(a, b) <=> <<a, b>> \in R
  BY RankingOrders
<1>2. n \in Nat /\ records \in [1 .. n -> runs] /\ Listed(records, n) = runs
  BY ListedAll
<1>3. bestByWallet(records) = best
  <2>1. \A a, b \in runs : Better(a, b) <=> <<a, b>> \in R
    BY <1>1 DEF Better
  <2> HIDE DEF R, n
  <2>2. QED
    BY <1>1, <1>2, <2>1, BestAreFirsts
<1>4. best \in SUBSET runs
  BY DEF Firsts
<1>5. IsFiniteSet(best) /\ Orders(R, best)
  <2>1. Orders(R, best)
    <3> HIDE DEF R, best
    <3>1. QED
      BY <1>1, <1>4 DEF Orders
  <2>2. QED
    BY <1>4, <2>1, FS_Subset
<1>6. best = {a \in runs : \A b \in runs :
                 b.authority = a.authority => ~Beats(b, a)}
  <2> HIDE DEF R
  <2>1. QED
    BY <1>1 DEF Firsts
<1> DEFINE ahead == {p \in best \X best : compare(p[1], p[2])}
<1>7. board = [i \in 1 .. Cardinality(best) |->
                 CHOOSE x \in best :
                    Cardinality({y \in best : <<y, x>> \in ahead}) = i - 1]
  BY <1>3 DEF rankSettledRuns, sorted
<1> HIDE DEF R, n, best
<1>8. \A x \in best : {y \in best : <<y, x>> \in ahead} = Before(R, best, x)
  <2>1. \A x, y \in best : <<y, x>> \in ahead <=> <<y, x>> \in R
    BY <1>1, <1>4
  <2> HIDE DEF ahead
  <2>2. QED
    BY <2>1 DEF Before
<1> HIDE DEF ahead
<1>9. ASSUME NEW i \in 1 .. Cardinality(best)
      PROVE  /\ board[i] \in best
             /\ Cardinality(Before(R, best, board[i])) = i - 1
  <2> DEFINE place(x) == Cardinality({y \in best : <<y, x>> \in ahead})
  <2>1. board[i] = CHOOSE x \in best : place(x) = i - 1
    BY <1>7
  <2>2. \A x \in best : place(x) = Cardinality(Before(R, best, x))
    BY <1>8
  <2>3. \E x \in best : Cardinality(Before(R, best, x)) = i - 1
    BY <1>5, EveryPlaceTaken
  <2> HIDE DEF place
  <2>4. board[i] \in best /\ place(board[i]) = i - 1
    BY <2>1, <2>2, <2>3
  <2>5. QED
    BY <2>2, <2>4
<1>10. DOMAIN board = 1 .. Cardinality(best)
  BY <1>7
<1>11. InOrder(board, R, best)
  <2>1. Placed(board, R, best)
    BY <1>9, <1>10 DEF Placed
  <2>2. QED
    BY <1>5, <1>10, <2>1, SortedInOrder
<1>12. ASSUME NEW i \in DOMAIN board, NEW j \in DOMAIN board, i < j
       PROVE  Beats(board[i], board[j])
  <2>1. /\ <<board[i], board[j]>> \in R
        /\ board[i] \in runs /\ board[j] \in runs
    BY <1>4, <1>11, <1>12 DEF InOrder
  <2>2. QED
    BY <1>1, <2>1
<1>13. {board[i] : i \in DOMAIN board} = best
  BY <1>11 DEF InOrder
<1>14. QED
  BY <1>6, <1>12, <1>13

-----------------------------------------------------------------------------
(* The paper board *)

\* Entries have an order, since no two of them are of the same wallet.
ComparableEntries(entries) ==
    /\ \A e \in entries :
         {e.wallet, e.equity, e.returnBps, e.updated} \subseteq Int
    /\ \A e, f \in entries : e.wallet = f.wallet => e = f

EntryRanking(entries) ==
    {p \in entries \X entries : compareEntries(p[1], p[2])}

LEMMA CompareEntriesIs ==
    ASSUME NEW a, NEW b,
           {a.wallet, a.equity, a.returnBps, a.updated} \subseteq Int,
           {b.wallet, b.equity, b.returnBps, b.updated} \subseteq Int
    PROVE  compareEntries(a, b)
             <=> \/ a.returnBps > b.returnBps
                 \/ /\ a.returnBps = b.returnBps
                    /\ \/ a.equity > b.equity
                       \/ a.equity = b.equity /\ a.updated > b.updated
                       \/ /\ a.equity = b.equity /\ a.updated = b.updated
                          /\ a.wallet < b.wallet
<1> DEFINE s == <<-a.returnBps, -a.equity, -a.updated, a.wallet>>
           t == <<-b.returnBps, -b.equity, -b.updated, b.wallet>>
<1>1. /\ DOMAIN s = 1 .. 4
      /\ s[1] = -a.returnBps /\ s[2] = -a.equity /\ s[3] = -a.updated
      /\ s[4] = a.wallet
      /\ t[1] = -b.returnBps /\ t[2] = -b.equity /\ t[3] = -b.updated
      /\ t[4] = b.wallet
  OBVIOUS
<1>2. compareEntries(a, b) <=> earlier(s, t)
  BY DEF compareEntries
<1> HIDE DEF s, t
<1>3. \A i \in 1 .. 4 : s[i] \in Int /\ t[i] \in Int
  <2>1. 1 .. 4 = {1, 2, 3, 4}
    OBVIOUS
  <2>2. QED
    BY <1>1, <2>1
<1>4. earlier(s, t)
        <=> \/ s[1] < t[1]
            \/ s[1] = t[1] /\ s[2] < t[2]
            \/ s[1] = t[1] /\ s[2] = t[2] /\ s[3] < t[3]
            \/ /\ s[1] = t[1] /\ s[2] = t[2] /\ s[3] = t[3]
               /\ s[4] < t[4]
  BY <1>1, <1>3, FirstDifferenceOfFour
<1>5. /\ s[1] < t[1] <=> a.returnBps > b.returnBps
      /\ s[1] = t[1] <=> a.returnBps = b.returnBps
      /\ s[2] < t[2] <=> a.equity > b.equity
      /\ s[2] = t[2] <=> a.equity = b.equity
      /\ s[3] < t[3] <=> a.updated > b.updated
      /\ s[3] = t[3] <=> a.updated = b.updated
  <2>1. /\ a.returnBps \in Int /\ b.returnBps \in Int
        /\ a.equity \in Int /\ b.equity \in Int
        /\ a.updated \in Int /\ b.updated \in Int
    OBVIOUS
  <2>2. \A m, n \in Int : (-m < -n <=> m > n) /\ (-m = -n <=> m = n)
    OBVIOUS
  <2>3. QED
    BY <1>1, <2>1, <2>2
<1>6. QED
  BY <1>1, <1>2, <1>4, <1>5

LEMMA EntryRankingOrders ==
    ASSUME NEW entries, ComparableEntries(entries)
    PROVE  /\ Orders(EntryRanking(entries), entries)
           /\ \A a, b \in entries :
                <<a, b>> \in EntryRanking(entries) <=> compareEntries(a, b)
<1> DEFINE ahead(a, b) ==
              \/ a.returnBps > b.returnBps
              \/ /\ a.returnBps = b.returnBps
                 /\ \/ a.equity > b.equity
                    \/ a.equity = b.equity /\ a.updated > b.updated
                    \/ /\ a.equity = b.equity /\ a.updated = b.updated
                       /\ a.wallet < b.wallet
<1>1. \A a, b \in entries :
         <<a, b>> \in EntryRanking(entries) <=> compareEntries(a, b)
  BY DEF EntryRanking
<1>2. \A a, b \in entries : compareEntries(a, b) <=> ahead(a, b)
  BY CompareEntriesIs DEF ComparableEntries
<1>3. \A a \in entries : ~ahead(a, a)
  BY DEF ComparableEntries
<1>4. ASSUME NEW a \in entries, NEW b \in entries, NEW c \in entries,
             ahead(a, b), ahead(b, c)
      PROVE  ahead(a, c)
  BY <1>4 DEF ComparableEntries
<1>5. ASSUME NEW a \in entries, NEW b \in entries, a # b
      PROVE  ahead(a, b) \/ ahead(b, a)
  BY <1>5 DEF ComparableEntries
<1> HIDE DEF ahead
<1>6. QED
  BY <1>1, <1>2, <1>3, <1>4, <1>5 DEF Orders

LEMMA EntryNumbers ==
    ASSUME NEW oracle \in ORACLES, NEW p \in PORTFOLIOS, p.start > 0
    PROVE  {entryOf(p, oracle).wallet, entryOf(p, oracle).equity,
            entryOf(p, oracle).returnBps, entryOf(p, oracle).updated}
             \subseteq Int
<1> DEFINE held == {a \in DOMAIN p.quantity : p.quantity[a] # 0}
           worth == [a \in held |->
                        (p.quantity[a] * oracle[a].cents) \div 1000]
           equity == p.usdc + SumOver(worth, held)
           bps == quotient((equity - p.start) * 10000, p.start)
<1>1. /\ p.wallet \in Int /\ p.usdc \in Int /\ p.start \in Int
      /\ p.updated \in Int
      /\ IsFiniteSet(DOMAIN p.quantity)
      /\ \A a \in DOMAIN p.quantity :
           p.quantity[a] \in Int /\ oracle[a].cents \in Int
  BY PortfoliosAssumption
<1>2. IsFiniteSet(held)
  BY <1>1, FS_Subset
<1>3. worth \in [held -> Int]
  BY <1>1
<1>4. entryOf(p, oracle) =
        [wallet |-> p.wallet, equity |-> equity, returnBps |-> bps,
         trades |-> p.trades, updated |-> p.updated]
  BY DEF entryOf
<1> HIDE DEF worth, held
<1>5. SumOver(worth, held) \in Int
  BY <1>2, <1>3, SumType
<1>6. equity \in Int
  BY <1>1, <1>5
<1> HIDE DEF equity
<1>7. (equity - p.start) * 10000 \in Int
  BY <1>1, <1>6
<1>8. bps \in Int
  BY <1>1, <1>7, QuotientIsInt
<1> HIDE DEF bps
<1>9. QED
  BY <1>1, <1>4, <1>6, <1>8

\* The board has an entry for each portfolio that is ranked, by returns.
LEMMA EntriesInOrder ==
    ASSUME NEW oracle \in ORACLES, NEW ranked \in SUBSET PORTFOLIOS,
           \A p \in ranked : p.start > 0,
           NEW board,
           board = sorted({entryOf(p, oracle) : p \in ranked},
                          EntryRanking({entryOf(p, oracle) : p \in ranked}))
    PROVE  /\ Len(board) = Cardinality(ranked)
           /\ DOMAIN board = 1 .. Cardinality(ranked)
           /\ \A i, j \in DOMAIN board :
                i < j => board[i].returnBps >= board[j].returnBps
<1> DEFINE all == {entryOf(p, oracle) : p \in ranked}
           R == EntryRanking(all)
           entry == [p \in ranked |-> entryOf(p, oracle)]
<1>1. \A p \in ranked :
         {entryOf(p, oracle).wallet, entryOf(p, oracle).equity,
          entryOf(p, oracle).returnBps, entryOf(p, oracle).updated}
           \subseteq Int
  BY EntryNumbers
<1>2. \A p \in ranked : entryOf(p, oracle).wallet = p.wallet
  BY DEF entryOf
<1>3. \A p, q \in ranked : p.wallet = q.wallet => p = q
  BY PortfoliosAssumption
<1>4. ComparableEntries(all)
  BY <1>1, <1>2, <1>3 DEF ComparableEntries
<1>5. entry \in Bijection(ranked, all)
  <2>1. entry \in [ranked -> all]
    OBVIOUS
  <2>2. \A p, q \in ranked : entry[p] = entry[q] => p = q
    BY <1>2, <1>3
  <2>3. \A e \in all : \E p \in ranked : entry[p] = e
    OBVIOUS
  <2> HIDE DEF entry, all
  <2>4. QED
    BY <2>1, <2>2, <2>3
       DEF Bijection, Injection, IsInjective, Surjection
<1>6. IsFiniteSet(ranked)
  BY PortfoliosAssumption, FS_Subset
<1>7. IsFiniteSet(all) /\ Cardinality(all) = Cardinality(ranked)
  <2>1. ExistsBijection(ranked, all)
    BY <1>5 DEF ExistsBijection
  <2> HIDE DEF all
  <2>2. QED
    BY <1>6, <2>1, FS_Bijection
<1>8. /\ Orders(R, all)
      /\ \A a, b \in all : <<a, b>> \in R <=> compareEntries(a, b)
  <2> HIDE DEF all
  <2>1. QED
    BY <1>4, EntryRankingOrders
<1>9. board = [i \in 1 .. Cardinality(all) |->
                 CHOOSE x \in all :
                    Cardinality({y \in all : <<y, x>> \in R}) = i - 1]
  BY DEF sorted
<1> HIDE DEF R, all, entry
<1>10. \A x \in all : {y \in all : <<y, x>> \in R} = Before(R, all, x)
  BY DEF Before
<1>11. ASSUME NEW i \in 1 .. Cardinality(all)
       PROVE  /\ board[i] \in all
              /\ Cardinality(Before(R, all, board[i])) = i - 1
  <2> DEFINE place(x) == Cardinality({y \in all : <<y, x>> \in R})
  <2>1. board[i] = CHOOSE x \in all : place(x) = i - 1
    BY <1>9
  <2>2. \A x \in all : place(x) = Cardinality(Before(R, all, x))
    BY <1>10
  <2>3. \E x \in all : Cardinality(Before(R, all, x)) = i - 1
    BY <1>7, <1>8, EveryPlaceTaken
  <2> HIDE DEF place
  <2>4. board[i] \in all /\ place(board[i]) = i - 1
    BY <2>1, <2>2, <2>3
  <2>5. QED
    BY <2>2, <2>4
<1>12. DOMAIN board = 1 .. Cardinality(all)
  BY <1>9
<1>13. InOrder(board, R, all)
  <2>1. Placed(board, R, all)
    BY <1>11, <1>12 DEF Placed
  <2>2. QED
    BY <1>7, <1>8, <2>1, SortedInOrder
<1>14. ASSUME NEW i \in DOMAIN board, NEW j \in DOMAIN board, i < j
       PROVE  board[i].returnBps >= board[j].returnBps
  <2>1. board[i] \in all /\ board[j] \in all
    BY <1>13 DEF InOrder
  <2>2. compareEntries(board[i], board[j])
    BY <1>8, <1>13, <1>14, <2>1 DEF InOrder
  <2>3. /\ {board[i].wallet, board[i].equity, board[i].returnBps,
             board[i].updated} \subseteq Int
        /\ {board[j].wallet, board[j].equity, board[j].returnBps,
             board[j].updated} \subseteq Int
    BY <1>4, <2>1 DEF ComparableEntries
  <2>4. ASSUME NEW a, NEW b, compareEntries(a, b),
               {a.wallet, a.equity, a.returnBps, a.updated} \subseteq Int,
               {b.wallet, b.equity, b.returnBps, b.updated} \subseteq Int
        PROVE  a.returnBps >= b.returnBps
    <3>1. a.returnBps > b.returnBps \/ a.returnBps = b.returnBps
      BY <2>4, CompareEntriesIs
    <3>2. QED
      BY <2>4, <3>1
  <2>5. QED
    BY <2>2, <2>3, <2>4
<1>15. Len(board) = Cardinality(ranked)
  <2>1. Cardinality(all) \in Nat
    BY <1>7, FS_CardinalityType
  <2>2. board \in Seq(all)
    BY <1>9, <1>11, <1>12, <2>1
  <2>3. QED
    BY <1>7, <1>12, <2>1, <2>2
<1>16. QED
  BY <1>7, <1>12, <1>14, <1>15

LEMMA PaperBoardRanked ==
    ASSUME NEW oracle \in ORACLES, NEW board,
           board = rankPaperPortfolios(oracle)
    PROVE  /\ Len(board.entries) + board.excluded =
                Cardinality({p \in PORTFOLIOS : p.trades > 0})
           /\ \A i, j \in DOMAIN board.entries :
                i < j => board.entries[i].returnBps
                           >= board.entries[j].returnBps
<1> DEFINE traded == {p \in PORTFOLIOS : p.trades # 0}
           ranked == {p \in traded : Priced(p, oracle) /\ p.start > 0}
<1>1. /\ board.entries =
             sorted({entryOf(p, oracle) : p \in ranked},
                    EntryRanking({entryOf(p, oracle) : p \in ranked}))
      /\ board.excluded = Cardinality(traded \ ranked)
  BY DEF rankPaperPortfolios, EntryRanking
<1>2. {p \in PORTFOLIOS : p.trades > 0} = traded
  BY PortfoliosAssumption
<1>3. /\ traded \in SUBSET PORTFOLIOS /\ ranked \in SUBSET traded
      /\ \A p \in ranked : p.start > 0
  OBVIOUS
<1> HIDE DEF traded, ranked
<1>4. IsFiniteSet(traded) /\ IsFiniteSet(ranked)
  BY <1>3, PortfoliosAssumption, FS_Subset
<1>5. /\ Len(board.entries) = Cardinality(ranked)
      /\ \A i, j \in DOMAIN board.entries :
           i < j => board.entries[i].returnBps >= board.entries[j].returnBps
  BY <1>1, <1>3, EntriesInOrder
<1>6. Cardinality(traded \ ranked) = Cardinality(traded) - Cardinality(ranked)
  <2>1. traded \cap ranked = ranked
    BY <1>3
  <2>2. QED
    BY <1>4, <2>1, FS_Difference
<1>7. Cardinality(traded) \in Nat /\ Cardinality(ranked) \in Nat
  BY <1>4, FS_CardinalityType
<1>8. Len(board.entries) + board.excluded = Cardinality(traded)
  BY <1>1, <1>5, <1>6, <1>7
<1>9. QED
  BY <1>2, <1>5, <1>8

-----------------------------------------------------------------------------
(* The boards *)

\* A load has read the accounts of one moment, and ranks a period.
LoadsOK ==
    \A load \in loads :
        /\ load \in [id : Nat, period : Periods, read : BOOLEAN,
                     accounts : SUBSET RUN_ACCOUNTS]
        /\ Accounts(load.accounts)

BoardInv ==
    /\ Accounts(chain)
    /\ prices \in ORACLES
    /\ requests \in Nat
    /\ tab \in [live : BOOLEAN, section : {"strategy", "paper"},
               period : Periods]
    /\ LoadsOK

LEMMA BoardInvInit == BoardInit => BoardInv
<1> SUFFICES ASSUME BoardInit
             PROVE  BoardInv
  OBVIOUS
<1>1. Accounts(chain)
  BY FS_EmptySet DEF BoardInit, Accounts
<1>2. /\ tab = [live |-> FALSE, section |-> "strategy", period |-> "weekly"]
      /\ prices = FIRST_ORACLE /\ loads = {} /\ requests = 0
  BY DEF BoardInit
<1>3. QED
  BY <1>1, <1>2, LeaderboardsAssumption DEF BoardInv, LoadsOK, Periods

\* A load that is asked for has read nothing yet.
LEMMA RefreshInv ==
    ASSUME BoardInv, NEW render, render.period \in Periods, Refreshes(render)
    PROVE  LoadsOK' /\ requests' \in Nat
<1>1. Accounts({})
  BY FS_EmptySet DEF Accounts
<1> DEFINE asked == [id |-> requests', period |-> render.period,
                     read |-> FALSE, accounts |-> {}]
<1>2. loads' = loads \/ loads' = loads \cup {asked}
  BY DEF Refreshes, refreshStrategy, refreshPaper, strategyBoard
<1>3. requests' \in Nat
  BY DEF Refreshes, refreshStrategy, refreshPaper, BoardInv
<1>4. /\ asked \in [id : Nat, period : Periods, read : BOOLEAN,
                    accounts : SUBSET RUN_ACCOUNTS]
      /\ Accounts(asked.accounts)
  BY <1>1, <1>3
<1> HIDE DEF asked
<1>5. LoadsOK
  BY DEF BoardInv
<1>6. QED
  BY <1>2, <1>3, <1>4, <1>5 DEF LoadsOK

LEMMA BoardInvNext == BoardInv /\ [BoardNext]_boardVars => BoardInv'
<1> SUFFICES ASSUME BoardInv, [BoardNext]_boardVars
             PROVE  BoardInv'
  OBVIOUS
<1> USE DEF Periods
<1>1. CASE AccountChanges
  <2>1. PICK a \in RUN_ACCOUNTS :
           chain' = {c \in chain : c.address # a.address} \cup {a}
    BY <1>1 DEF AccountChanges
  <2> DEFINE others == {c \in chain : c.address # a.address}
  <2>2. IsFiniteSet(others \cup {a})
    <3>1. others \in SUBSET chain /\ IsFiniteSet(chain)
      BY DEF BoardInv, Accounts
    <3> HIDE DEF others
    <3>2. QED
      BY <3>1, FS_Subset, FS_AddElement
  <2>3. Accounts(others \cup {a})
    BY <2>2 DEF BoardInv, Accounts
  <2>4. UNCHANGED <<prices, tab, loads, requests>>
    BY <1>1 DEF AccountChanges, strategyBoard
  <2>5. QED
    BY <2>1, <2>3, <2>4 DEF BoardInv, LoadsOK
<1>2. CASE PricesChange
  BY <1>2 DEF PricesChange, BoardInv, LoadsOK, strategyBoard
<1>3. CASE WeekEnds
  BY <1>3 DEF WeekEnds, BoardInv, LoadsOK, strategyBoard
<1>4. CASE TabChanged
  <2>1. tab' \in [live : BOOLEAN, section : {"strategy", "paper"},
                  period : Periods]
    BY <1>4 DEF TabChanged, BoardInv
  <2>2. LoadsOK' /\ requests' \in Nat
    BY <1>4, <2>1, RefreshInv DEF TabChanged
  <2>3. QED
    BY <1>4, <2>1, <2>2 DEF TabChanged, BoardInv
<1>5. CASE RefreshClicked
  <2>1. LoadsOK' /\ requests' \in Nat
    BY <1>5, RefreshInv DEF RefreshClicked, BoardInv
  <2>2. QED
    BY <1>5, <2>1 DEF RefreshClicked, BoardInv
<1>6. ASSUME NEW load \in loads, LoadReads(load)
      PROVE  BoardInv'
  <2>1. /\ loads' = (loads \ {load}) \cup
              {[load EXCEPT !.read = TRUE, !.accounts = chain]}
        /\ UNCHANGED <<chain, prices, tab, requests>>
    BY <1>6 DEF LoadReads
  <2> DEFINE answered == [load EXCEPT !.read = TRUE, !.accounts = chain]
  <2>2. /\ load \in [id : Nat, period : Periods, read : BOOLEAN,
                     accounts : SUBSET RUN_ACCOUNTS]
        /\ Accounts(chain)
    BY DEF BoardInv, LoadsOK
  <2>3. /\ answered \in [id : Nat, period : Periods, read : BOOLEAN,
                         accounts : SUBSET RUN_ACCOUNTS]
        /\ Accounts(answered.accounts)
    BY <2>2 DEF Accounts
  <2> HIDE DEF answered
  <2>4. loads' = (loads \ {load}) \cup {answered}
    BY <2>1 DEF answered
  <2>5. LoadsOK'
    BY <2>3, <2>4 DEF BoardInv, LoadsOK
  <2>6. QED
    BY <2>1, <2>5 DEF BoardInv
<1>7. ASSUME NEW load \in loads, LoadReturns(load) \/ LoadFails(load)
      PROVE  BoardInv'
  <2>1. loads' \subseteq loads /\ UNCHANGED <<chain, prices, tab, requests>>
    BY <1>7 DEF LoadReturns, LoadFails
  <2>2. QED
    BY <2>1 DEF BoardInv, LoadsOK
<1>8. ASSUME NEW load \in paper_loads,
             PaperLoadReturns(load) \/ PaperLoadFails(load)
      PROVE  BoardInv'
  <2>1. UNCHANGED <<chain, prices, tab, loads, requests>>
    BY <1>8 DEF PaperLoadReturns, PaperLoadFails, strategyBoard
  <2>2. QED
    BY <2>1 DEF BoardInv, LoadsOK
<1>9. CASE UNCHANGED boardVars
  BY <1>9 DEF boardVars, strategyBoard, BoardInv, LoadsOK
<1>10. QED
  BY <1>1, <1>2, <1>3, <1>4, <1>5, <1>6, <1>7, <1>8, <1>9 DEF BoardNext

LEMMA ReturnedBest ==
    ASSUME BoardInv, NEW load \in loads, LoadReturns(load)
    PROVE  load.read /\ RanksBestOf(rows', load)
<1> DEFINE runs == {a \in load.accounts : Eligible(a, load.period)}
<1>1. load.period \in Periods /\ Accounts(load.accounts)
  BY DEF BoardInv, LoadsOK
<1>2. /\ ofPeriod(decodeSettledRankedRecord(load.accounts), load.period)
           = runs
      /\ Comparable(runs) /\ IsFiniteSet(runs)
  BY <1>1, EligibleRuns
<1>3. PICK records \in Bijection(1 .. Cardinality(runs), runs) :
         rows' = rankSettledRuns(records)
  BY <1>2 DEF LoadReturns
<1>4. RanksBestOf(rows', load)
          <=> /\ {rows'[i] : i \in DOMAIN rows'}
                   = {a \in runs : \A b \in runs :
                        b.authority = a.authority => ~Beats(b, a)}
              /\ \A i, j \in DOMAIN rows' :
                   i < j => Beats(rows'[i], rows'[j])
  BY DEF RanksBestOf
<1> HIDE DEF runs
<1>5. QED
  BY <1>2, <1>3, <1>4, RankedInOrder DEF LoadReturns

\* A board shows each wallet's best run, by the documented order, of what one
\* load has read, in whatever order the accounts are listed; and a paper board
\* accounts for every portfolio that has traded, the best returns first
\* (ranked-repository.ts, paper-ranking.ts).
THEOREM BoardAlwaysRanksBest == BoardSpec => BoardRanksBest
<1>1. ASSUME BoardInv, BoardNext, rows' # rows
      PROVE  \E load \in loads : load.read /\ RanksBestOf(rows', load)
  <2>1. \E load \in loads : LoadReturns(load)
    BY <1>1 DEF BoardNext, AccountChanges, PricesChange, WeekEnds, TabChanged,
         RefreshClicked, Refreshes, refreshStrategy, refreshPaper, LoadReads,
         LoadFails, PaperLoadReturns, PaperLoadFails, strategyBoard
  <2>2. QED
    BY <1>1, <2>1, ReturnedBest
<1>2. ASSUME BoardInv, BoardNext, paper_rows' # paper_rows
      PROVE  /\ Len(paper_rows'.entries) + paper_rows'.excluded =
                  Cardinality({p \in PORTFOLIOS : p.trades > 0})
             /\ \A i, j \in DOMAIN paper_rows'.entries :
                  i < j => paper_rows'.entries[i].returnBps
                             >= paper_rows'.entries[j].returnBps
  <2>1. paper_rows' = rankPaperPortfolios(prices)
    BY <1>2 DEF BoardNext, AccountChanges, PricesChange, WeekEnds, TabChanged,
         RefreshClicked, Refreshes, refreshStrategy, refreshPaper, LoadReads,
         LoadReturns, LoadFails, PaperLoadReturns, PaperLoadFails, paperBoard
  <2>2. QED
    BY <1>2, <2>1, PaperBoardRanked DEF BoardInv
<1>3. BoardInv /\ [BoardNext]_boardVars => [BoardsRankBest]_boardVars
  <2> SUFFICES ASSUME BoardInv, BoardNext
               PROVE  BoardsRankBest
    OBVIOUS
  <2>1. QED
    BY <1>1, <1>2 DEF BoardsRankBest
<1>4. QED
  BY <1>3, BoardInvInit, BoardInvNext, PTL DEF BoardSpec, BoardRanksBest
=============================================================================
