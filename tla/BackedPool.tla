------------------------------ MODULE BackedPool ------------------------------
(***************************************************************************)
(* What a syndicate's pool promises, without wallets, rollups, prices or   *)
(* rounding: a fund whose members buy in and cash out at no better than    *)
(* the current share price, that is locked while its stake is at risk, and *)
(* that comes back having lost no more than the drawdown limit allows.     *)
(***************************************************************************)
EXTENDS Integers

CONSTANTS
    BPS_SCALE,          \* the whole
    MAX_DRAWDOWN_BPS    \* the part of its stake a session may lose

VARIABLES
    fund,       \* fUSD in the pool
    issued,     \* shares outstanding
    stake       \* fUSD at risk in the running session; 0 when there is none

poolVars == <<fund, issued, stake>>

Init ==
    /\ fund = 0
    /\ issued = 0
    /\ stake = 0

\* New shares cost at least their part of the fund.
BuyIn ==
    /\ stake = 0
    /\ fund' > fund
    /\ issued' > issued
    /\ issued > 0 => (issued' - issued) * fund <= (fund' - fund) * issued
    /\ UNCHANGED stake

\* Redeemed shares fetch at most their part, and shares that stay are backed.
CashOut ==
    /\ stake = 0
    /\ fund' < fund
    /\ issued' < issued
    /\ (fund - fund') * issued <= (issued - issued') * fund
    /\ issued' > 0 => fund' > 0
    /\ UNCHANGED stake

Gift ==
    /\ fund' > fund
    /\ UNCHANGED <<issued, stake>>

Lock ==
    /\ stake = 0
    /\ issued > 0
    /\ fund > 0
    /\ stake' = fund
    /\ UNCHANGED <<fund, issued>>

\* The session's result reaches the fund once: a gain, from which a fee may
\* have been taken, or a loss within the limit.
Release ==
    /\ stake > 0
    /\ stake' = 0
    /\ fund' > 0
    /\ (fund - fund') * BPS_SCALE < stake * (MAX_DRAWDOWN_BPS + 1)
    /\ UNCHANGED issued

Next == BuyIn \/ CashOut \/ Gift \/ Lock \/ Release

Spec == Init /\ [][Next]_poolVars
=============================================================================
