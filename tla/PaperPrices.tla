---------------------------- MODULE PaperPrices ----------------------------
(***************************************************************************)
(* The two readings of one oracle price: the cents that the desk shows and *)
(* sends with an order (route.ts), and the cents that the program trades   *)
(* at (price_to_cents).                                                    *)
(***************************************************************************)
EXTENDS PaperBook

CONSTANTS
    OraclePrices,    \* prices the oracle publishes, with the market they are of
    MAX_SLIPPAGE,    \* DEFAULT_MAX_SLIPPAGE_BPS: what the desk's orders allow
    NoPrice

VARIABLES
    oracle,     \* the latest published price
    shown       \* the price the desk polled last, with the cents it shows

vars == <<oracle, shown>>

\* Math.round(price * 10 ** expo * 100 * priceMultiplier)
priceCents(p) ==
    LET scaled == p.price * 100 * p.multiplier
        unit   == 10^(-p.exponent)
    IN  (2 * scaled + unit) \div (2 * unit)

Init == oracle \in OraclePrices /\ shown = NoPrice

Publish(p) == oracle' = p /\ UNCHANGED shown

\* A poll of the route; a price without a cent is refused.
Poll ==
    /\ priceCents(oracle) > 0
    /\ shown' = [of |-> oracle, cents |-> priceCents(oracle)]
    /\ UNCHANGED oracle

Next == (\E p \in OraclePrices : Publish(p)) \/ Poll

Spec == Init /\ [][Next]_vars

\* market-assets.ts: the price of a cheap asset is multiplied to keep the
\* paper accounting accurate to the cent.  An order at the price on display is
\* traded at that price while the oracle stands still.
ShownPriceIsTraded ==
    shown # NoPrice /\ shown.of = oracle =>
        SlippageWithin(price_to_cents(oracle.price, oracle.exponent),
                       shown.cents, MAX_SLIPPAGE)
=============================================================================
