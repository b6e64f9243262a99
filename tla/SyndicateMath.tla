---------------------------- MODULE SyndicateMath ----------------------------
(***************************************************************************)
(* The checked integer arithmetic of the Forge Syndicates program: share   *)
(* issue and redemption, basis points, oracle price scaling, slippage and  *)
(* the settlement of a session against the pool's high-water mark.         *)
(*                                                                         *)
(* Every amount is a machine word below U64.  The Rust helpers return an   *)
(* error when a result does not fit; here a helper returns the exact       *)
(* number and its caller asks Fits(...) in its guard.  The scales are      *)
(* parameters, so that the model checker may use small ones.               *)
(***************************************************************************)
EXTENDS Integers

CONSTANTS
    U64,                  \* 2^64: one more than the largest u64
    BPS_SCALE,            \* 10_000 basis points make the whole
    SHARE_SCALE,          \* fixed-point scale of a share price
    PRICE_SCALE,          \* micro-units per unit of an asset or of fUSD
    PERFORMANCE_FEE_BPS   \* the trader's part of new profit

ASSUME MathAssumption ==
    /\ U64 \in Nat \ {0}
    /\ BPS_SCALE \in Nat \ {0}
    /\ SHARE_SCALE \in Nat \ {0}
    /\ PRICE_SCALE \in Nat \ {0}
    /\ PERFORMANCE_FEE_BPS \in Nat
    /\ PERFORMANCE_FEE_BPS <= BPS_SCALE

Word == 0 .. U64 - 1

Fits(x) == x \in Word

\* An `as u64` cast keeps the low 64 bits.
truncated(x) == x % U64

Larger(x, y) == IF x >= y THEN x ELSE y

Smaller(x, y) == IF x <= y THEN x ELSE y

Distance(x, y) == IF x >= y THEN x - y ELSE y - x

mul_div(a, b, denominator) == (a * b) \div denominator

bps_of(value, bps) == mul_div(value, bps, BPS_SCALE)

position_value(quantity, price) == mul_div(quantity, price, PRICE_SCALE)

\* Slip (see NoDilution): the new shares are rounded up.
SharesRoundedUp(amount, total_shares, vault_balance) ==
    IF total_shares = 0
    THEN amount
    ELSE mul_div(amount, total_shares, vault_balance) + 1

shares_for_deposit(amount, total_shares, vault_balance) ==
    IF total_shares = 0
    THEN amount
    ELSE mul_div(amount, total_shares, vault_balance)

\* Slip (see SharesAreBacked): the redeemed tokens are rounded up.
TokensRoundedUp(shares, total_shares, vault_balance) ==
    -mul_div(-shares, vault_balance, total_shares)

tokens_for_withdrawal(shares, total_shares, vault_balance) ==
    mul_div(shares, vault_balance, total_shares)

\* The mantissa and the decimal exponent of an oracle quote as micro-units.
price_to_micro(price, exponent) ==
    IF exponent >= 0
    THEN price * 10^exponent * PRICE_SCALE
    ELSE (price * PRICE_SCALE) \div 10^(-exponent)

SlippageWithin(actual, expected, max_bps) ==
    Distance(actual, expected) * BPS_SCALE <= expected * max_bps

share_price(value, shares) == truncated((value * SHARE_SCALE) \div shares)

\* Slip (see FeeOnlyAboveHighWater): recovered losses are charged again.
FeeOnEveryProfit(start, end, shares, high_water) ==
    bps_of(end - start, PERFORMANCE_FEE_BPS)

\* The fee on a profitable session: a part of what lies above the high-water
\* price, and of no more than the session's own profit.
PerformanceFee(start, end, shares, high_water) ==
    LET gross    == share_price(end, shares)
        eligible == mul_div(gross - high_water, shares, SHARE_SCALE)
    IN  IF gross > high_water
        THEN bps_of(Smaller(eligible, end - start), PERFORMANCE_FEE_BPS)
        ELSE 0

\* Slip (see FusdConserved): the loss stays in the vault.
LossForgiven(start, end, high_water) ==
    [mint_amount |-> 0, burn_amount |-> 0, fee_amount |-> 0,
     next_high_water |-> high_water]

LossSettlement(start, end, high_water) ==
    [mint_amount |-> 0, burn_amount |-> start - end, fee_amount |-> 0,
     next_high_water |-> high_water]

ProfitSettlement(start, end, shares, high_water) ==
    LET fee == PerformanceFee(start, end, shares, high_water)
    IN  [mint_amount |-> end - start, burn_amount |-> 0, fee_amount |-> fee,
         next_high_water |->
            Larger(high_water, share_price(end - fee, shares))]

calculate_settlement(start, end, shares, high_water) ==
    IF end <= start
    THEN LossSettlement(start, end, high_water)
    ELSE ProfitSettlement(start, end, shares, high_water)
=============================================================================
