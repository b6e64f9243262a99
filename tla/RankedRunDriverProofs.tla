----------------------- MODULE RankedRunDriverProofs -----------------------
(***************************************************************************)
(* What holds of the ranked-run driver for every length of a run, every    *)
(* strategy and market, and any number of transactions of its owner: its   *)
(* ticks stay in step with the account's, and what it reports as complete  *)
(* is the record of the base layer.                                        *)
(***************************************************************************)
EXTENDS RankedRunDriver, RankedRunProofs, FiniteSetTheorems

USE DriverAssumption

-----------------------------------------------------------------------------
(* The driver's invariant *)

AdvancesOf(txs) == {tx \in txs : tx.kind = "advance"}

Early == {"approval", "start sent", "start unclear", "delegating"}

Ticking == {"executing", "advance sent", "advance unclear"}

\* The ticks that the driver has asked for, as far as it knows of others.
Asked == IF stage = "executing" THEN driver_tick ELSE driver_tick + 1

DriverTypeOK ==
    /\ stage \in Stages
    /\ driver_tick \in Nat /\ sent \in Nat /\ owner_ticks \in Nat
    /\ IsFiniteSet(flying)
    /\ \A tx \in flying : tx.id \in Nat /\ tx.id <= sent

\* While the driver asks for ticks, every tick that the account has or may
\* still get was asked for by the driver or taken by the owner.
TickingInv ==
    /\ place # "absent"
    /\ driver_tick <= Current.tick
    /\ Cardinality(AdvancesOf(flying)) + Current.tick <= Asked + owner_ticks

SentInv ==
    /\ \A tx \in flying : tx.id = sent => tx.kind = "advance"
    /\ landed => driver_tick + 1 <= Current.tick

DriverInv ==
    /\ DriverTypeOK
    /\ stage \in Early => AdvancesOf(flying) = {}
    /\ stage \in Ticking => TickingInv
    /\ stage = "advance sent" => SentInv

RunAndDriverInv == Inv /\ DriverInv

-----------------------------------------------------------------------------
(* Transactions in flight *)

LEMMA FewerInFlight ==
    ASSUME NEW txs, IsFiniteSet(txs), NEW fewer \in SUBSET txs
    PROVE  /\ IsFiniteSet(fewer)
           /\ Cardinality(AdvancesOf(fewer)) \in Nat
           /\ Cardinality(AdvancesOf(txs)) \in Nat
           /\ Cardinality(AdvancesOf(fewer)) <= Cardinality(AdvancesOf(txs))
<1>1. IsFiniteSet(fewer)
  BY FS_Subset
<1>2. /\ AdvancesOf(txs) \in SUBSET txs
      /\ AdvancesOf(fewer) \in SUBSET AdvancesOf(txs)
  BY DEF AdvancesOf
<1>3. IsFiniteSet(AdvancesOf(txs)) /\ IsFiniteSet(AdvancesOf(fewer))
  BY <1>2, FS_Subset
<1>4. QED
  BY <1>1, <1>2, <1>3, FS_Subset, FS_CardinalityType

LEMMA OneMoreInFlight ==
    ASSUME NEW txs, IsFiniteSet(txs), NEW tx
    PROVE  /\ IsFiniteSet(txs \cup {tx})
           /\ Cardinality(AdvancesOf(txs)) \in Nat
           /\ Cardinality(AdvancesOf(txs \cup {tx})) \in Nat
           /\ Cardinality(AdvancesOf(txs \cup {tx})) <=
                Cardinality(AdvancesOf(txs)) + 1
<1> DEFINE old == AdvancesOf(txs)
           new == AdvancesOf(txs \cup {tx})
           more == old \cup {tx}
<1>1. IsFiniteSet(txs \cup {tx})
  BY FS_AddElement
<1>2. old \in SUBSET txs /\ (new = more \/ new = old)
  BY DEF AdvancesOf
<1>3. IsFiniteSet(old)
  BY <1>2, FS_Subset
<1>4. Cardinality(more) =
        IF tx \in old THEN Cardinality(old) ELSE Cardinality(old) + 1
  BY <1>3, FS_AddElement
<1>5. Cardinality(old) \in Nat
  BY <1>3, FS_CardinalityType
<1> HIDE DEF old, new, more
<1>6. Cardinality(more) \in Nat /\ Cardinality(more) <= Cardinality(old) + 1
  BY <1>4, <1>5
<1>7. Cardinality(new) \in Nat /\ Cardinality(new) <= Cardinality(old) + 1
  BY <1>2, <1>5, <1>6
<1>8. QED
  BY <1>1, <1>5, <1>7 DEF old, new

LEMMA OneLessInFlight ==
    ASSUME NEW txs, IsFiniteSet(txs), NEW tx \in txs, tx.kind = "advance"
    PROVE  /\ Cardinality(AdvancesOf(txs)) \in Nat
           /\ Cardinality(AdvancesOf(txs \ {tx})) \in Nat
           /\ Cardinality(AdvancesOf(txs \ {tx})) + 1 =
                Cardinality(AdvancesOf(txs))
<1> DEFINE old == AdvancesOf(txs)
           new == AdvancesOf(txs \ {tx})
<1>1. /\ old \in SUBSET txs
      /\ tx \in old
      /\ new = old \ {tx}
  BY DEF AdvancesOf
<1> HIDE DEF old, new
<1>2. IsFiniteSet(old)
  BY <1>1, FS_Subset
<1>3. /\ IsFiniteSet(old \ {tx})
      /\ Cardinality(old \ {tx}) =
           IF tx \in old THEN Cardinality(old) - 1 ELSE Cardinality(old)
  BY <1>2, FS_RemoveElement
<1>4. Cardinality(old) \in Nat
  BY <1>2, FS_CardinalityType
<1>5. Cardinality(new) \in Nat
  BY <1>1, <1>3, FS_CardinalityType
<1>6. Cardinality(new) + 1 = Cardinality(old)
  BY <1>1, <1>3, <1>4, SMT
<1>7. QED
  BY <1>4, <1>5, <1>6 DEF old, new

-----------------------------------------------------------------------------
(* What the chain does to the account's tick *)

LEMMA TickType ==
    ASSUME Inv
    PROVE  Current.tick \in Nat
  BY CurrentSound DEF Sound, Run

LEMMA AdvanceTicks ==
    ASSUME Inv, NEW actor \in Actors, AdvanceRankedRun(actor)
    PROVE  /\ Inv'
           /\ place \in {"base", "er"} /\ place' = place
           /\ Current.status = "ACTIVE"
           /\ Current'.tick = Current.tick + 1
<1>1. Inv'
  BY InvNext DEF ProgramNext
<1>2. PICK noise \in Noises, event \in Events, fills \in BOOLEAN :
        Written(Advanced(Current, noise, event, fills))
  BY DEF AdvanceRankedRun
<1>3. /\ place \in {"base", "er"} /\ place' = place
      /\ Current.status = "ACTIVE" /\ Current.tick < RUN_TICKS
  BY DEF AdvanceRankedRun, Advanceable
<1>4. Current' = Advanced(Current, noise, event, fills)
  BY <1>2, <1>3 DEF Written, Current
<1>5. Current'.tick = Current.tick + 1
  BY <1>3, <1>4, CurrentSound, AdvancedSound
<1>6. QED
  BY <1>1, <1>3, <1>5

LEMMA FinalizeTicks ==
    ASSUME Inv, NEW actor \in Actors, FinalizeRankedRun(actor)
    PROVE  /\ Inv'
           /\ place = "er" /\ place' = "committing"
           /\ Current.status = "ACTIVE"
           /\ Current'.tick = Current.tick
<1>1. Inv'
  BY InvNext DEF ProgramNext
<1>2. /\ place = "er" /\ place' = "committing" /\ rollup' = Scored(rollup)
      /\ Current = rollup /\ Current' = rollup'
      /\ Current.status = "ACTIVE" /\ Current.tick = RUN_TICKS
  BY DEF FinalizeRankedRun, Finalizable, Current
<1>3. Current'.tick = Current.tick
  BY <1>2, CurrentSound, ScoredSound
<1>4. QED
  BY <1>1, <1>2, <1>3

LEMMA CommitTicks ==
    ASSUME Inv, CommitLands
    PROVE  /\ Inv'
           /\ place = "committing" /\ place' = "base"
           /\ Current' = Current
<1>1. Inv'
  BY InvNext DEF ProgramNext
<1>2. QED
  BY <1>1 DEF CommitLands, Current

LEMMA ExpiryTicks ==
    ASSUME Inv, Expires
    PROVE  Inv' /\ place' = place /\ ledger' = ledger /\ Current' = Current
<1>1. Inv'
  BY InvNext DEF ProgramNext
<1>2. QED
  BY <1>1 DEF Expires, Current

\* The transaction that starts a run leaves it delegated, with two equal copies.
LEMMA StartTicks ==
    ASSUME Inv, StartAndDelegate
    PROVE  Inv' /\ place = "absent" /\ place' = "er"
<1>1. PICK s \in Strategies :
        /\ place = "absent" /\ ValidStrategy(s) /\ place' = "er"
        /\ ledger' = StartedRun(s) /\ rollup' = StartedRun(s)
        /\ expired' = expired
  BY DEF StartAndDelegate
<1>2. Sound(StartedRun(s)) /\ StartedRun(s).status = "ACTIVE"
  BY <1>1, StartedRunSound
<1>3. QED
  BY <1>1, <1>2 DEF Inv, PlaceInv, Places

-----------------------------------------------------------------------------
(* The driver's steps *)

LEMMA DriverInvInit == Init => RunAndDriverInv
<1> SUFFICES ASSUME Init
             PROVE  RunAndDriverInv
  OBVIOUS
<1>1. Inv
  BY InvInit DEF Init
<1>2. AdvancesOf({}) = {}
  BY DEF AdvancesOf
<1>3. DriverInv
  BY <1>2, FS_EmptySet
     DEF Init, DriverInit, DriverInv, DriverTypeOK, Stages, Early, Ticking
<1>4. QED
  BY <1>1, <1>3 DEF RunAndDriverInv

\* A transaction that is sent is one more in flight, with a new number.
LEMMA SentOneMore ==
    ASSUME DriverInv, NEW kind, NEW from, NEW to \in Stages,
           Send(kind, from, to)
    PROVE  /\ DriverTypeOK'
           /\ Current' = Current /\ place' = place
           /\ owner_ticks' = owner_ticks /\ driver_tick' = driver_tick
           /\ landed' = FALSE
           /\ \A tx \in flying' : tx.id = sent' => tx.kind = kind
           /\ Cardinality(AdvancesOf(flying')) \in Nat
           /\ Cardinality(AdvancesOf(flying)) \in Nat
           /\ Cardinality(AdvancesOf(flying')) <=
                Cardinality(AdvancesOf(flying)) + 1
<1> DEFINE tx0 == [kind |-> kind, id |-> sent + 1]
<1>1. /\ stage' = to /\ sent' = sent + 1 /\ flying' = flying \cup {tx0}
      /\ landed' = FALSE /\ driver_tick' = driver_tick
      /\ owner_ticks' = owner_ticks
      /\ Current' = Current /\ place' = place
  BY DEF Send, programVars, Current
<1>2. DriverTypeOK
  BY DEF DriverInv
<1>3. tx0.id = sent + 1 /\ tx0.kind = kind
  OBVIOUS
<1> HIDE DEF tx0
<1>4. /\ IsFiniteSet(flying')
      /\ Cardinality(AdvancesOf(flying')) \in Nat
      /\ Cardinality(AdvancesOf(flying)) \in Nat
      /\ Cardinality(AdvancesOf(flying')) <=
           Cardinality(AdvancesOf(flying)) + 1
  BY <1>1, <1>2, OneMoreInFlight DEF DriverTypeOK
<1>5. \A tx \in flying' : tx.id \in Nat /\ tx.id <= sent'
  BY <1>1, <1>2, <1>3 DEF DriverTypeOK
<1>6. \A tx \in flying' : tx.id = sent' => tx.kind = kind
  BY <1>1, <1>2, <1>3 DEF DriverTypeOK
<1>7. DriverTypeOK'
  BY <1>1, <1>2, <1>4, <1>5 DEF DriverTypeOK
<1>8. QED
  BY <1>1, <1>4, <1>6, <1>7

LEMMA DriverStepInv ==
    ASSUME Inv, DriverInv, DriverStep
    PROVE  RunAndDriverInv'
<1>1. UNCHANGED programVars
  BY DEF DriverStep, SendStart, StartConfirmed, StartUnclear, ErResolved,
         ErUnresolved, SendAdvance, AdvanceConfirmed, AdvanceUnclear,
         TickSeen, TickNotSeen, SendFinalize, FinalizeConfirmed,
         FinalizeUnclear, SettlementSeen, SettlementNotSeen, Completes,
         Send, Confirmed, Unclear, GivesUp, GoesOn
<1>2. Inv'
  BY <1>1, InvNext
<1>3. Current.tick \in Nat /\ Current' = Current /\ place' = place
  BY <1>1, TickType DEF Current, programVars
<1>4. DriverTypeOK /\ Cardinality(AdvancesOf(flying)) \in Nat
  BY FewerInFlight DEF DriverInv, DriverTypeOK
<1>5. CASE SendStart
  <2>1. /\ stage = "approval" /\ stage' = "start sent"
        /\ flying' = flying \cup {[kind |-> "start", id |-> sent + 1]}
    BY <1>5 DEF SendStart, Send
  <2>2. DriverTypeOK'
    BY <1>5, SentOneMore DEF SendStart, Stages
  <2>3. AdvancesOf(flying') = {}
    <3>1. \A tx \in flying : tx.kind # "advance"
      BY <2>1 DEF DriverInv, Early, AdvancesOf
    <3>2. [kind |-> "start", id |-> sent + 1].kind # "advance"
      OBVIOUS
    <3>3. \A tx \in flying' : tx.kind # "advance"
      BY <2>1, <3>1, <3>2, Zenon
    <3>4. QED
      BY <3>3 DEF AdvancesOf
  <2>4. DriverInv'
    BY <2>1, <2>2, <2>3 DEF DriverInv, Early, Ticking
  <2>5. QED
    BY <1>2, <2>4 DEF RunAndDriverInv
<1>6. CASE StartConfirmed \/ StartUnclear
  BY <1>2, <1>6
     DEF StartConfirmed, StartUnclear, Confirmed, Unclear, GoesOn, DriverInv,
         DriverTypeOK, Stages, Early, Ticking, RunAndDriverInv
<1>7. CASE ErResolved
  <2>1. /\ stage \in Early /\ stage' = "executing" /\ place = "er"
        /\ driver_tick' = Current.tick
        /\ UNCHANGED <<sent, flying, landed, owner_ticks>>
    BY <1>7 DEF ErResolved, GoesOn, Early, Current
  <2>2. Cardinality(AdvancesOf(flying)) = 0
    BY <2>1, FS_EmptySet DEF DriverInv
  <2>3. DriverTypeOK'
    BY <1>3, <2>1 DEF DriverInv, DriverTypeOK, Stages
  <2>4. TickingInv'
    BY <1>3, <1>4, <2>1, <2>2 DEF TickingInv, Asked, DriverTypeOK
  <2>5. QED
    BY <1>2, <2>1, <2>3, <2>4 DEF DriverInv, Early, RunAndDriverInv
<1>8. CASE SendAdvance
  <2>1. /\ stage = "executing" /\ stage' = "advance sent" /\ TickingInv
        /\ Asked = driver_tick /\ Asked' = driver_tick' + 1
    BY <1>8 DEF SendAdvance, Send, DriverInv, Ticking, Asked
  <2>2. Send("advance", "executing", "advance sent")
    BY <1>8 DEF SendAdvance
  <2>3. "advance sent" \in Stages
    BY DEF Stages
  <2>4. /\ DriverTypeOK' /\ SentInv'
        /\ owner_ticks' = owner_ticks /\ driver_tick' = driver_tick
        /\ Cardinality(AdvancesOf(flying')) \in Nat
        /\ Cardinality(AdvancesOf(flying')) <=
             Cardinality(AdvancesOf(flying)) + 1
    BY <2>2, <2>3, SentOneMore DEF SentInv
  <2>5. TickingInv'
    <3> DEFINE was == Cardinality(AdvancesOf(flying))
               now == Cardinality(AdvancesOf(flying'))
               tick == Current.tick
    <3>1. /\ place # "absent" /\ driver_tick <= tick
          /\ was + tick <= driver_tick + owner_ticks
      BY <2>1 DEF TickingInv
    <3>2. /\ was \in Nat /\ now \in Nat /\ tick \in Nat /\ now <= was + 1
          /\ driver_tick \in Nat /\ owner_ticks \in Nat
      BY <1>3, <1>4, <2>4 DEF DriverTypeOK
    <3>3. tick' = tick /\ now = Cardinality(AdvancesOf(flying))'
      BY <1>3
    <3> HIDE DEF was, now
    <3>4. now + tick <= driver_tick + 1 + owner_ticks
      BY <3>1, <3>2
    <3>5. QED
      BY <1>3, <2>1, <2>4, <3>1, <3>3, <3>4 DEF TickingInv, now
  <2>6. QED
    BY <1>2, <2>1, <2>4, <2>5 DEF DriverInv, Early, RunAndDriverInv
<1>9. CASE AdvanceConfirmed
  <2>1. /\ stage = "advance sent" /\ stage' = "executing" /\ landed
        /\ TickingInv /\ SentInv /\ driver_tick' = driver_tick + 1
        /\ UNCHANGED <<sent, flying, owner_ticks>>
    BY <1>9 DEF AdvanceConfirmed, Confirmed, GoesOn, DriverInv, Ticking
  <2>2. DriverTypeOK'
    <3>1. driver_tick' \in Nat
      <4>1. driver_tick \in Nat /\ driver_tick' = driver_tick + 1
        BY <1>4, <2>1 DEF DriverTypeOK
      <4>2. QED
        BY <4>1
    <3>2. stage' \in Stages
      BY <2>1 DEF Stages
    <3>3. QED
      BY <1>4, <2>1, <3>1, <3>2 DEF DriverTypeOK
  <2>3. TickingInv'
    BY <1>3, <1>4, <2>1 DEF TickingInv, SentInv, Asked, DriverTypeOK
  <2>4. QED
    BY <1>2, <2>1, <2>2, <2>3 DEF DriverInv, Early, RunAndDriverInv
<1>10. CASE AdvanceUnclear
  <2>1. /\ stage = "advance sent" /\ stage' = "advance unclear" /\ TickingInv
        /\ UNCHANGED <<driver_tick, sent, flying, owner_ticks>>
    BY <1>10 DEF AdvanceUnclear, Unclear, GoesOn, DriverInv, Ticking
  <2>2. DriverTypeOK'
    BY <1>4, <2>1 DEF DriverTypeOK, Stages
  <2>3. TickingInv'
    BY <1>3, <2>1 DEF TickingInv, Asked
  <2>4. QED
    BY <1>2, <2>1, <2>2, <2>3 DEF DriverInv, Early, RunAndDriverInv
<1>11. CASE TickSeen
  <2>1. /\ stage = "advance unclear" /\ stage' = "executing" /\ TickingInv
        /\ Current.tick >= driver_tick + 1 /\ driver_tick' = driver_tick + 1
        /\ UNCHANGED <<sent, flying, owner_ticks>>
    BY <1>11 DEF TickSeen, GoesOn, DriverInv, Ticking
  <2>2. DriverTypeOK'
    <3>1. driver_tick' \in Nat
      <4>1. driver_tick \in Nat /\ driver_tick' = driver_tick + 1
        BY <1>4, <2>1 DEF DriverTypeOK
      <4>2. QED
        BY <4>1
    <3>2. stage' \in Stages
      BY <2>1 DEF Stages
    <3>3. QED
      BY <1>4, <2>1, <3>1, <3>2 DEF DriverTypeOK
  <2>3. TickingInv'
    BY <1>3, <1>4, <2>1 DEF TickingInv, Asked, DriverTypeOK
  <2>4. QED
    BY <1>2, <2>1, <2>2, <2>3 DEF DriverInv, Early, RunAndDriverInv
<1>12. CASE SendFinalize
  <2>1. /\ Send("finalize", "executing", "finalize sent")
        /\ stage' = "finalize sent"
    BY <1>12 DEF SendFinalize, Send
  <2>2. DriverTypeOK'
    BY <2>1, SentOneMore DEF Stages
  <2>3. QED
    BY <1>2, <2>1, <2>2 DEF DriverInv, Early, Ticking, RunAndDriverInv
<1>13. ASSUME stage' \in Stages \ (Early \cup Ticking),
              driver_tick' = driver_tick,
              UNCHANGED <<sent, flying, owner_ticks>>
       PROVE  RunAndDriverInv'
  BY <1>2, <1>4, <1>13
     DEF DriverInv, DriverTypeOK, Early, Ticking, RunAndDriverInv
<1>14. CASE ErUnresolved \/ TickNotSeen \/ SettlementNotSeen
  BY <1>13, <1>14
     DEF ErUnresolved, TickNotSeen, SettlementNotSeen, GivesUp, GoesOn,
         Stages, Early, Ticking
<1>15. CASE FinalizeConfirmed \/ FinalizeUnclear \/ SettlementSeen
  BY <1>13, <1>15
     DEF FinalizeConfirmed, FinalizeUnclear, SettlementSeen, Confirmed,
         Unclear, GoesOn, Stages, Early, Ticking
<1>16. CASE Completes
  BY <1>13, <1>16 DEF Completes, GoesOn, Stages, Early, Ticking
<1>17. QED
  BY <1>5, <1>6, <1>7, <1>8, <1>9, <1>10, <1>11, <1>12, <1>14, <1>15, <1>16
     DEF DriverStep

-----------------------------------------------------------------------------
(* The chain's steps *)

\* A transaction in flight lands or is lost: there are no more of them.
LEMMA LandedOneLess ==
    ASSUME DriverTypeOK, NEW tx \in flying, flying' = flying \ {tx},
           UNCHANGED <<stage, driver_tick, sent, owner_ticks>>
    PROVE  /\ DriverTypeOK'
           /\ stage \in Early /\ AdvancesOf(flying) = {} =>
                AdvancesOf(flying') = {}
           /\ Cardinality(AdvancesOf(flying')) \in Nat
           /\ Cardinality(AdvancesOf(flying)) \in Nat
           /\ Cardinality(AdvancesOf(flying')) <=
                Cardinality(AdvancesOf(flying))
<1>1. /\ IsFiniteSet(flying')
      /\ Cardinality(AdvancesOf(flying')) \in Nat
      /\ Cardinality(AdvancesOf(flying)) \in Nat
      /\ Cardinality(AdvancesOf(flying')) <= Cardinality(AdvancesOf(flying))
  BY FewerInFlight DEF DriverTypeOK
<1>2. DriverTypeOK'
  BY <1>1 DEF DriverTypeOK
<1>3. AdvancesOf(flying') \subseteq AdvancesOf(flying)
  BY DEF AdvancesOf
<1>4. QED
  BY <1>1, <1>2, <1>3

LEMMA LandsInv ==
    ASSUME Inv, DriverInv, NEW tx \in flying, Lands(tx)
    PROVE  RunAndDriverInv'
<1>1. /\ flying' = flying \ {tx} /\ landed' = (landed \/ tx.id = sent)
      /\ UNCHANGED <<stage, driver_tick, sent, owner_ticks>>
  BY DEF Lands
<1>2. DriverTypeOK /\ Current.tick \in Nat
  BY TickType DEF DriverInv
<1>3. /\ DriverTypeOK'
      /\ stage \in Early => AdvancesOf(flying') = {}
      /\ Cardinality(AdvancesOf(flying')) \in Nat
      /\ Cardinality(AdvancesOf(flying)) \in Nat
      /\ Cardinality(AdvancesOf(flying')) <= Cardinality(AdvancesOf(flying))
  BY <1>1, <1>2, LandedOneLess DEF DriverInv
<1>4. \A other \in flying' : other \in flying
  BY <1>1
<1>5. /\ driver_tick \in Nat /\ owner_ticks \in Nat
      /\ Asked' = Asked /\ Asked \in Nat
  BY <1>1, <1>2 DEF DriverTypeOK, Asked
<1>6. "session_signer" \in Actors
  BY DEF Actors
<1>7. CASE tx.kind = "start" /\ StartAndDelegate
  <2>1. Inv' /\ place = "absent"
    BY <1>7, StartTicks
  <2>2. stage \notin Ticking
    BY <2>1 DEF DriverInv, TickingInv
  <2>3. stage # "advance sent"
    BY <2>2 DEF Ticking
  <2>4. QED
    BY <1>1, <1>3, <2>1, <2>2, <2>3 DEF DriverInv, RunAndDriverInv
<1>8. CASE tx.kind = "advance" /\ AdvanceRankedRun("session_signer")
  <2>1. /\ Inv' /\ place' = place /\ place # "absent"
        /\ Current'.tick = Current.tick + 1
    BY <1>6, <1>8, AdvanceTicks
  <2>2. Cardinality(AdvancesOf(flying')) + 1 =
          Cardinality(AdvancesOf(flying))
    BY <1>1, <1>2, <1>8, OneLessInFlight DEF DriverTypeOK
  <2>3. TickingInv => TickingInv'
    BY <1>1, <1>2, <1>3, <1>5, <2>1, <2>2 DEF TickingInv
  <2>4. SentInv /\ TickingInv => SentInv'
    BY <1>1, <1>2, <1>4, <1>5, <2>1 DEF SentInv, TickingInv
  <2>5. QED
    BY <1>1, <1>3, <2>1, <2>3, <2>4 DEF DriverInv, Ticking, RunAndDriverInv
<1>9. CASE tx.kind = "finalize" /\ FinalizeRankedRun("session_signer")
  <2>1. /\ Inv' /\ place' # "absent" /\ Current'.tick = Current.tick
    BY <1>6, <1>9, FinalizeTicks
  <2>2. TickingInv => TickingInv'
    BY <1>1, <1>2, <1>3, <1>5, <2>1 DEF TickingInv
  <2>3. SentInv => SentInv'
    BY <1>1, <1>4, <1>9, <2>1 DEF SentInv
  <2>4. QED
    BY <1>1, <1>3, <2>1, <2>2, <2>3 DEF DriverInv, RunAndDriverInv
<1>10. QED
  BY <1>7, <1>8, <1>9 DEF Lands, Instruction

LEMMA VanishesInv ==
    ASSUME Inv, DriverInv, NEW tx \in flying, Vanishes(tx)
    PROVE  RunAndDriverInv'
<1>1. /\ flying' = flying \ {tx}
      /\ UNCHANGED programVars
      /\ UNCHANGED <<stage, driver_tick, sent, landed, owner_ticks>>
  BY DEF Vanishes
<1>2. DriverTypeOK /\ Current.tick \in Nat
  BY TickType DEF DriverInv
<1>3. Inv' /\ Current' = Current /\ place' = place
  BY <1>1, InvNext DEF programVars, Current
<1>4. /\ DriverTypeOK'
      /\ stage \in Early => AdvancesOf(flying') = {}
      /\ Cardinality(AdvancesOf(flying')) \in Nat
      /\ Cardinality(AdvancesOf(flying)) \in Nat
      /\ Cardinality(AdvancesOf(flying')) <= Cardinality(AdvancesOf(flying))
  BY <1>1, <1>2, LandedOneLess DEF DriverInv
<1>5. /\ driver_tick \in Nat /\ owner_ticks \in Nat
      /\ Asked' = Asked /\ Asked \in Nat
  BY <1>1, <1>2 DEF DriverTypeOK, Asked
<1>6. TickingInv => TickingInv'
  BY <1>1, <1>2, <1>3, <1>4, <1>5 DEF TickingInv
<1>7. SentInv => SentInv'
  BY <1>1, <1>3 DEF SentInv
<1>8. QED
  BY <1>1, <1>3, <1>4, <1>6, <1>7 DEF DriverInv, RunAndDriverInv

LEMMA OthersInv ==
    ASSUME Inv, DriverInv,
           OwnerAdvances \/ OwnerFinalizes \/ ChainCommits \/ KeyExpires
    PROVE  RunAndDriverInv'
<1>1. /\ UNCHANGED <<stage, driver_tick, sent, flying, landed>>
      /\ owner_ticks' = owner_ticks \/ owner_ticks' = owner_ticks + 1
  BY DEF OwnerAdvances, OwnerFinalizes, ChainCommits, KeyExpires, driverVars
<1>2. /\ DriverTypeOK /\ Current.tick \in Nat
      /\ Cardinality(AdvancesOf(flying)) \in Nat
  BY TickType, FewerInFlight DEF DriverInv, DriverTypeOK
<1>3. "authority" \in Actors
  BY DEF Actors
<1>4. /\ driver_tick \in Nat /\ owner_ticks \in Nat
      /\ Asked' = Asked /\ Asked \in Nat
  BY <1>1, <1>2 DEF DriverTypeOK, Asked
<1>5. owner_ticks' \in Nat
  BY <1>1, <1>4
<1>6. DriverTypeOK'
  BY <1>1, <1>2, <1>5 DEF DriverTypeOK
<1>7. /\ Inv'
      /\ place # "absent" => place' # "absent"
      /\ \/ owner_ticks' = owner_ticks /\ Current'.tick = Current.tick
         \/ /\ owner_ticks' = owner_ticks + 1
            /\ Current'.tick = Current.tick + 1
  <2>1. CASE OwnerAdvances
    BY <1>3, <2>1, AdvanceTicks DEF OwnerAdvances
  <2>2. CASE OwnerFinalizes
    BY <1>3, <2>2, FinalizeTicks DEF OwnerFinalizes, driverVars
  <2>3. CASE ChainCommits
    BY <2>3, CommitTicks DEF ChainCommits, driverVars
  <2>4. CASE KeyExpires
    BY <2>4, ExpiryTicks DEF KeyExpires, driverVars
  <2>5. QED
    BY <2>1, <2>2, <2>3, <2>4
<1>8. TickingInv => TickingInv'
  BY <1>1, <1>2, <1>4, <1>7 DEF TickingInv
<1>9. SentInv => SentInv'
  BY <1>1, <1>2, <1>4, <1>7 DEF SentInv
<1>10. QED
  BY <1>1, <1>6, <1>7, <1>8, <1>9 DEF DriverInv, RunAndDriverInv

LEMMA DriverInvNext == RunAndDriverInv /\ [Next]_vars => RunAndDriverInv'
<1> SUFFICES ASSUME RunAndDriverInv, [Next]_vars
             PROVE  RunAndDriverInv'
  OBVIOUS
<1>1. Inv /\ DriverInv
  BY DEF RunAndDriverInv
<1>2. CASE DriverStep
  BY <1>1, <1>2, DriverStepInv
<1>3. CASE \E tx \in flying : Lands(tx) \/ Vanishes(tx)
  BY <1>1, <1>3, LandsInv, VanishesInv
<1>4. CASE OwnerAdvances \/ OwnerFinalizes \/ ChainCommits \/ KeyExpires
  BY <1>1, <1>4, OthersInv
<1>5. CASE UNCHANGED vars
  <2>1. Inv'
    BY <1>1, <1>5, InvNext DEF vars, programVars
  <2>2. DriverInv'
    BY <1>1, <1>5
       DEF vars, DriverInv, DriverTypeOK, TickingInv, SentInv, Asked, Current
  <2>3. QED
    BY <2>1, <2>2 DEF RunAndDriverInv
<1>6. QED
  BY <1>2, <1>3, <1>4, <1>5 DEF Next

LEMMA DriverInvariant == Spec => []RunAndDriverInv
  BY DriverInvInit, DriverInvNext, PTL DEF Spec

-----------------------------------------------------------------------------
(* What follows *)

\* Whatever is lost, late or confirmed twice, for any length of a run: the
\* driver counts no tick that the account did not take (executeRankedRun),
\* and the account takes none that nobody asked for.
THEOREM DriverInStep == Spec => []TicksInStep
<1>1. RunAndDriverInv => TicksInStep
  <2> SUFFICES ASSUME RunAndDriverInv, stage = "executing"
               PROVE  /\ driver_tick <= Current.tick
                      /\ Current.tick <= driver_tick + owner_ticks
                      /\ Cardinality(AdvancesInFlight) <= owner_ticks
    BY DEF TicksInStep
  <2>1. /\ DriverTypeOK /\ TickingInv /\ Asked = driver_tick
        /\ Current.tick \in Nat
    BY TickType DEF RunAndDriverInv, DriverInv, Ticking, Asked
  <2>2. AdvancesInFlight = AdvancesOf(flying)
    BY DEF AdvancesInFlight, AdvancesOf
  <2>3. Cardinality(AdvancesOf(flying)) \in Nat
    BY <2>1, FewerInFlight DEF DriverTypeOK
  <2>4. QED
    BY <2>1, <2>2, <2>3 DEF DriverTypeOK, TickingInv
<1>2. QED
  BY <1>1, DriverInvariant, PTL

LEMMA CompleteInit == Init => CompleteIsSettled
  BY DEF Init, DriverInit, CompleteIsSettled

LEMMA CompleteNext ==
    CompleteIsSettled /\ [Next]_vars => CompleteIsSettled'
<1> SUFFICES ASSUME CompleteIsSettled, [Next]_vars, stage' = "complete"
             PROVE  /\ place' = "base"
                    /\ ledger'.status = "SETTLED"
                    /\ result' = ledger'
  BY DEF CompleteIsSettled
<1>1. CASE Completes
  BY <1>1
     DEF Completes, SettlementFound, Settlement, GoesOn, programVars, BlankRun
<1>2. CASE DriverStep /\ ~Completes
  BY <1>2
     DEF DriverStep, SendStart, StartConfirmed, StartUnclear, ErResolved,
         ErUnresolved, SendAdvance, AdvanceConfirmed, AdvanceUnclear,
         TickSeen, TickNotSeen, SendFinalize, FinalizeConfirmed,
         FinalizeUnclear, SettlementSeen, SettlementNotSeen,
         Send, Confirmed, Unclear, GivesUp, GoesOn
<1>3. ASSUME stage' = stage, result' = result
      PROVE  /\ place = "base" /\ ledger.status = "SETTLED"
             /\ result' = ledger /\ Current = ledger
  BY <1>3 DEF CompleteIsSettled, Current
<1>4. CASE UNCHANGED <<place, ledger, stage, result>>
  BY <1>3, <1>4
<1>5. ASSUME NEW tx \in flying, Lands(tx)
      PROVE  FALSE
  <2>1. /\ place = "base" /\ Current.status = "SETTLED"
    BY <1>3, <1>5 DEF Lands
  <2>2. QED
    BY <1>5, <2>1
       DEF Lands, Instruction, StartAndDelegate, AdvanceRankedRun,
           Advanceable, FinalizeRankedRun
<1>6. CASE OwnerAdvances \/ OwnerFinalizes \/ ChainCommits
  <2>1. /\ place = "base" /\ Current.status = "SETTLED"
    BY <1>3, <1>6 DEF OwnerAdvances, OwnerFinalizes, ChainCommits, driverVars
  <2>2. QED
    BY <1>6, <2>1
       DEF OwnerAdvances, OwnerFinalizes, ChainCommits, AdvanceRankedRun,
           Advanceable, FinalizeRankedRun, CommitLands
<1>7. CASE KeyExpires \/ \E tx \in flying : Vanishes(tx)
  BY <1>4, <1>7 DEF KeyExpires, Expires, Vanishes, driverVars, programVars
<1>8. CASE UNCHANGED vars
  BY <1>4, <1>8 DEF vars
<1>9. QED
  BY <1>1, <1>2, <1>5, <1>6, <1>7, <1>8 DEF Next

\* For any length of a run, market and timing: what the driver returns as
\* complete (waitForRankedRunSettlement) is the record of the base layer,
\* settled, and nothing that lands later changes it.
THEOREM CompleteIsOnRecord == Spec => []CompleteIsSettled
  BY CompleteInit, CompleteNext, PTL DEF Spec
=============================================================================
