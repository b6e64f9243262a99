-------------------------------- MODULE Sums --------------------------------
(***************************************************************************)
(* The sum of a function's values over a finite set: what a total that is  *)
(* kept in one account must come to.                                       *)
(***************************************************************************)
EXTENDS Integers, Functions

SumOver(f, S) == FoldFunctionOnSet(LAMBDA x, y : x + y, 0, f, S)
=============================================================================
