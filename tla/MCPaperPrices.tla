--------------------------- MODULE MCPaperPrices ---------------------------
(***************************************************************************)
(* Prices of two markets: SOL at 150.25 dollars, and SHIB at 0.000012      *)
(* dollars, which is shown per 1,000.                                      *)
(***************************************************************************)
EXTENDS PaperPrices

CONSTANTS sol, shib

Published(asset, price, exponent, multiplier) ==
    [asset |-> asset, price |-> price, exponent |-> exponent,
     multiplier |-> multiplier]

ManyPrices ==
    {Published(sol, 15025, -2, 1), Published(sol, 15026, -2, 1),
     Published(shib, 12, -6, 1000)}

TwoAssets == {sol, shib}
=============================================================================
