----------------------------- MODULE Workspaces -----------------------------
(***************************************************************************)
(* The application's workspaces (app/page.tsx) that run beside each other: *)
(* a ranked run's driver, the lab that shows ranked runs, the browser's    *)
(* own lab, the session runtime, and the leaderboards.  They share no      *)
(* state, so a step of one leaves the others as they are, and a behaviour  *)
(* of one is followed at a time: subject names it.                         *)
(***************************************************************************)
EXTENDS RankedRunDriver, SessionRuntime, RankedLab, StrategyLab, Leaderboards

VARIABLE subject

workspaceVars ==
    <<subject, vars, sessionVars, labVars, strategyLabVars, boardVars>>

Subjects == {"driver", "session", "ranked lab", "strategy lab", "leaderboards"}

WorkspacesInit ==
    /\ subject \in Subjects
    /\ Init /\ SessionInit /\ LabInit /\ StrategyLabInit /\ BoardInit

DriverMoves ==
    /\ subject = "driver" /\ Next
    /\ UNCHANGED <<subject, sessionVars, labVars, strategyLabVars, boardVars>>

SessionMoves ==
    /\ subject = "session" /\ SessionNext
    /\ UNCHANGED <<subject, vars, labVars, strategyLabVars, boardVars>>

RankedLabMoves ==
    /\ subject = "ranked lab" /\ LabNext
    /\ UNCHANGED <<subject, vars, sessionVars, strategyLabVars, boardVars>>

StrategyLabMoves ==
    /\ subject = "strategy lab" /\ StrategyLabNext
    /\ UNCHANGED <<subject, vars, sessionVars, labVars, boardVars>>

BoardMoves ==
    /\ subject = "leaderboards" /\ BoardNext
    /\ UNCHANGED <<subject, vars, sessionVars, labVars, strategyLabVars>>

WorkspacesNext ==
    \/ DriverMoves \/ SessionMoves \/ RankedLabMoves \/ StrategyLabMoves
    \/ BoardMoves

WorkspacesSpec == WorkspacesInit /\ [][WorkspacesNext]_workspaceVars
=============================================================================
