--------------------------- MODULE MCBudgetSwitch ---------------------------
EXTENDS BudgetSwitch, TLC
CONSTANTS r1, r2

\* The requests cost the same in tokens, where their totals are compared, and
\* not in USD, where the balance opens: a switch can take one for the other.
TwoCosts == r1 :> [tokens |-> 1, usd |-> 2] @@ r2 :> [tokens |-> 1, usd |-> 5]

\* A person may release the first request; the gateway may answer the second,
\* before PostgreSQL has its usage.
TwoFates == r1 :> {"expiry", "finalization", "estimate", "release"}
         @@ r2 :> {"expiry", "finalization", "gateway"}
=============================================================================
