-------------------------- MODULE MCBudgetDispatch --------------------------
(* Instances of BudgetDispatch for TLC. *)
EXTENDS BudgetDispatch, TLC

CONSTANTS r1, r2, person, app

\* One request that needs both scopes.
PairReceipts == r1 :> <<person, app>>
PairBound == r1 :> 2
PairActual == r1 :> 3
PairLimit == person :> 2 @@ app :> 2

\* Two requests that compete for one person's budget.
RaceReceipts == r1 :> <<person>> @@ r2 :> <<person>>
RaceBound == r1 :> 2 @@ r2 :> 2
RaceActual == r1 :> 3 @@ r2 :> 3
RaceLimit == person :> 3

Competitors == Permutations(Requests)
=============================================================================
