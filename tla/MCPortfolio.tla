----------------------------- MODULE MCPortfolio -----------------------------
(***************************************************************************)
(* Instances of PortfolioReports for TLC.                                  *)
(***************************************************************************)
EXTENDS PortfolioReports, TLC

CONSTANTS lot1, lot2, n1, n2, s1, s2

\* Two instants fall on the second date.
MCDateOf == [i \in Instant |-> IF i <= 2 THEN i ELSE i - 1]

Body(kind, quantity, cost, quote, price, fx) ==
  [kind |-> kind, name |-> n1, acquired |-> 1, quantity |-> quantity, cost |-> cost,
   quote |-> quote, valuedAt |-> 1, value |-> 2, price |-> price, fx |-> fx]

\* A balance whose FX fields are left out, a house with a tracked cost, and
\* shares bought at their price
MCPurchases ==
  {Body("CASH", None, None, None, None, None),
   Body("OTHER", 2, 1, None, None, "IDENTITY"),
   Body("SECURITY", 2, 2, s1, 1, "IDENTITY")}

Edit(name, quantity, cost, quote, active) ==
  [name |-> name, quantity |-> quantity, cost |-> cost, quote |-> quote, active |-> active]

\* A rename, another instrument, an archival; then a new quantity, a cost that
\* is no longer tracked, and both with an archival
MCPatches ==
  {Edit(n2, Unset, Unset, Unset, Unset), Edit(Unset, Unset, Unset, s2, Unset),
   Edit(Unset, Unset, Unset, Unset, FALSE), Edit(Unset, 1, Unset, Unset, Unset),
   Edit(Unset, Unset, None, Unset, Unset), Edit(Unset, 1, 2, Unset, FALSE)}

Lots == Permutations(AssetId)
=============================================================================
