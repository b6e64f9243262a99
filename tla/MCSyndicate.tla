---------------------------- MODULE MCSyndicate ----------------------------
(***************************************************************************)
(* Small instances of Syndicate for the model checker.                     *)
(***************************************************************************)
EXTENDS SyndicateProperties, TLC

CONSTANTS ada, bob      \* two wallets; ada is the trader

\* Quotes <<mantissa, exponent>> of asset 0 alone: 2 or 4 micro-units.
OneMovingPrice == 0 :> {<<2, 0>>, <<40, -1>>}

TwoMovingPrices == (0 :> {<<2, 0>>, <<30, -1>>}) @@ (1 :> {<<2, 0>>, <<1, 0>>})

CrashingPrice == (0 :> {<<4, 0>>, <<1, 0>>}) @@ (1 :> {<<4, 0>>})
=============================================================================
