------------------------- MODULE BudgetSwitchProofs -------------------------
(***************************************************************************)
(* Theorems about BudgetSwitch, for any requests, prices, revisions and    *)
(* number of faults.                                                       *)
(*                                                                         *)
(* The argument: whatever admits a request, or changes what one holds,     *)
(* writes S, so that every commit still on its way has lost its ETag.  A   *)
(* commit that changes the unit was therefore sent in a state no request   *)
(* has left since, one in which nothing was held.                          *)
(*                                                                         *)
(* So too for the balance.  Between the last look of a sweep and its       *)
(* write the scope is stopped and nothing is held: only a request first    *)
(* decided to be free can still be charged.  The look compares two totals, *)
(* not the requests they are made of.  Where those differ, the requests    *)
(* that only PostgreSQL knows cost as much as those that only the ledger   *)
(* has counted, and what a balance misses has this excuse ever after.      *)
(***************************************************************************)
EXTENDS BudgetSwitch, LedgerDomainProofs, TLAPS

\* A request counts in active_reserved or in upper_bound.
IsHeld(x) == attempt[x].state \in HeldStates \union {"upper_bound"}

\* Whatever else a row S holds, it has these columns.
HasColumns(s) == DOMAIN s = {"mode", "revision", "enabled", "confirmed"}

\* The rows of the ledger, as far as the units need them.
RowsOK ==
    /\ HasColumns(scope) /\ \A s \in late : HasColumns(s)
    /\ DOMAIN unit = Requests /\ DOMAIN attempt = Requests
    /\ \A x \in Requests : DOMAIN attempt[x] = DOMAIN NoAttempt

\* A late commit that would change the unit was sent in a settled scope, and
\* the scope is settled still.
LateIsSettled == \A s \in late : s.mode # scope.mode => Settled

IInv == RowsOK /\ HeldInUnit /\ LateIsSettled

--------------------------------------------------------------------------
(* What the transitions of an attempt leave held. *)

LEMMA SettledMeans == Settled <=> \A x \in Requests : ~ IsHeld(x)
BY DEF Settled, Active, Upper, IsHeld

\* One attempt changes to a; no commit of S that read the scope before survives.
LEMMA OneMoves ==
    ASSUME IInv, NEW x \in Requests, NEW a, DOMAIN a = DOMAIN NoAttempt,
           attempt' = [attempt EXCEPT ![x] = a],
           NEW s, HasColumns(s), s.mode = scope.mode, Commit(s),
           unit' = unit \/ unit' = [unit EXCEPT ![x] = scope.mode],
           a.state \in HeldStates \union {"upper_bound"} => unit'[x] = scope.mode
    PROVE  IInv'
<1>1. scope' = s /\ late' = {} /\ attempt'[x] = a
  BY DEF Commit, IInv, RowsOK
<1>2. RowsOK'
  BY <1>1 DEF IInv, RowsOK
<1>3. HeldInUnit'
  <2> SUFFICES ASSUME NEW y \in Requests, attempt'[y].state \in HeldStates \union {"upper_bound"}
               PROVE  unit'[y] = scope.mode
    BY <1>1 DEF HeldInUnit
  <2>1. CASE y = x
    BY <2>1, <1>1
  <2>2. CASE y # x
    BY <2>2 DEF IInv, RowsOK, HeldInUnit
  <2> QED
    BY <2>1, <2>2
<1> QED
  BY <1>1, <1>2, <1>3 DEF IInv, LateIsSettled

\* Nothing that the invariant reads changes.
LEMMA NothingMoves ==
    ASSUME IInv, NoCommit, UNCHANGED <<attempt, unit>>
    PROVE  IInv'
BY DEF IInv, NoCommit, RowsOK, HeldInUnit, LateIsSettled, Settled, Active, Upper

\* S is written; the attempts stay, and the unit changes only in a settled scope.
LEMMA ScopeMoves ==
    ASSUME IInv, NEW s, HasColumns(s), s.mode # scope.mode => Settled,
           Commit(s), UNCHANGED <<attempt, unit>>
    PROVE  IInv'
<1>1. scope' = s /\ late' = {}
  BY DEF Commit
<1>2. HeldInUnit'
  BY <1>1, SettledMeans DEF HeldInUnit, IInv, IsHeld
<1> QED
  BY <1>1, <1>2 DEF IInv, RowsOK, LateIsSettled

\* The columns of rows that the code rebuilds.
LEMMA Rebuilt ==
    ASSUME NEW s, HasColumns(s)
    PROVE  /\ \A e : HasColumns([s EXCEPT !.enabled = e]) /\ [s EXCEPT !.enabled = e].mode = s.mode
           /\ \A c : HasColumns([s EXCEPT !.confirmed = c]) /\ [s EXCEPT !.confirmed = c].mode = s.mode
BY DEF HasColumns

--------------------------------------------------------------------------
(* The steps that change a row. *)

LEMMA AdmitPreserves ==
    ASSUME IInv, NEW x \in Requests, Admit(x)
    PROVE  IInv'
<1> DEFINE a == NewAttempt("reserved", Cost[x][scope.mode])
<1>1. DOMAIN a = DOMAIN NoAttempt
  BY DEF NewAttempt, NoAttempt
<1>2. unit'[x] = scope.mode
  BY DEF Admit, IInv, RowsOK
<1>3. HasColumns(scope) /\ Commit(scope) /\ attempt' = [attempt EXCEPT ![x] = a]
      /\ unit' = [unit EXCEPT ![x] = scope.mode]
  BY DEF Admit, IInv, RowsOK
<1> HIDE DEF a
<1> QED
  BY <1>1, <1>2, <1>3, OneMoves

LEMMA CancelPreserves ==
    ASSUME IInv, NEW x \in Requests, Cancel(x)
    PROVE  IInv'
<1> DEFINE a == TransitionedAttempt(attempt[x], "cancelled")
<1>1. DOMAIN a = DOMAIN NoAttempt /\ a.state = "cancelled"
  BY DEF TransitionedAttempt, NoAttempt, IInv, RowsOK
<1>2. HasColumns(scope) /\ Commit(scope) /\ attempt' = [attempt EXCEPT ![x] = a] /\ unit' = unit
  BY DEF Cancel, IInv, RowsOK
<1> HIDE DEF a
<1> QED
  BY <1>1, <1>2, OneMoves DEF HeldStates

LEMMA GatewayPreserves ==
    ASSUME IInv, NEW x \in Requests, GatewayCompletes(x)
    PROVE  IInv'
<1>1. PICK rejection, total, c :
          /\ Commit([scope EXCEPT !.confirmed = c])
          /\ attempt' = [attempt EXCEPT ![x] = CompletedAttempt(attempt[x], rejection, total)]
  BY DEF GatewayCompletes
<1> DEFINE a == CompletedAttempt(attempt[x], rejection, total)
<1>2. DOMAIN a = DOMAIN NoAttempt /\ a.state = "settled"
  BY DEF CompletedAttempt, NoAttempt, IInv, RowsOK
<1>3. HasColumns(scope) /\ attempt' = [attempt EXCEPT ![x] = a] /\ unit' = unit
  BY <1>1 DEF GatewayCompletes, IInv, RowsOK
<1> HIDE DEF a
<1> QED
  BY <1>1, <1>2, <1>3, OneMoves, Rebuilt DEF HeldStates

LEMMA FinalizePreserves ==
    ASSUME IInv, NEW x \in Requests, Finalize(x)
    PROVE  IInv'
<1> DEFINE a == TransitionedAttempt(attempt[x], "upper_bound")
<1>1. DOMAIN a = DOMAIN NoAttempt
  BY DEF TransitionedAttempt, NoAttempt, IInv, RowsOK
<1>2. HasColumns(scope) /\ Commit(scope) /\ attempt' = [attempt EXCEPT ![x] = a] /\ unit' = unit
  BY DEF Finalize, IInv, RowsOK
<1>3. unit'[x] = scope.mode
  BY <1>2 DEF Finalize, IInv, HeldInUnit
<1> HIDE DEF a
<1> QED
  BY <1>1, <1>2, <1>3, OneMoves

LEMMA SettlePreserves ==
    ASSUME IInv, NEW x \in Requests, Settle(x)
    PROVE  IInv'
<1>1. CASE Outcome(x) = "ignored" /\ NoCommit /\ UNCHANGED attempt
  BY <1>1, NothingMoves DEF Settle
<1>2. CASE Outcome(x) = "applied"
  <2>1. PICK c, balance :
            /\ Commit([scope EXCEPT !.confirmed = balance])
            /\ attempt' = [attempt EXCEPT ![x] = SettledAttempt(attempt[x], c)]
    BY <1>2 DEF Settle
  <2> DEFINE a == SettledAttempt(attempt[x], c)
  <2>2. DOMAIN a = DOMAIN NoAttempt /\ a.state \in {"settled", "released"}
    BY DEF SettledAttempt, ResolvedAttempt, NoAttempt, IInv, RowsOK
  <2>3. HasColumns(scope) /\ attempt' = [attempt EXCEPT ![x] = a] /\ unit' = unit
    BY <2>1 DEF Settle, IInv, RowsOK
  <2> HIDE DEF a
  <2> QED
    BY <2>1, <2>2, <2>3, OneMoves, Rebuilt DEF HeldStates
<1> QED
  BY <1>1, <1>2 DEF Settle

\* quiesce_budget_scope touches the flag alone.
LEMMA FlagPreserves ==
    ASSUME IInv, Quiesce \/ Enable
    PROVE  IInv'
<1>1. UNCHANGED <<attempt, unit>>
  BY DEF Quiesce, Enable, outside
<1>2. NoCommit \/ \E e \in BOOLEAN : Commit([scope EXCEPT !.enabled = e])
  BY DEF Quiesce, Enable, Quiesced
<1>3. HasColumns(scope)
  BY DEF IInv, RowsOK
<1> QED
  BY <1>1, <1>2, <1>3, NothingMoves, ScopeMoves, Rebuilt

LEMMA WrittenHasColumns == HasColumns(Written)
BY DEF HasColumns, Written

LEMMA WritePreserves ==
    ASSUME IInv, WritePolicy
    PROVE  IInv'
<1>1. UNCHANGED <<attempt, unit>>
  BY DEF WritePolicy, outside
<1>2. Written.mode = sweep.update.mode
  BY DEF Written
<1>3. \/ NoCommit
      \/ Commit(Written) /\ (scope.mode # sweep.update.mode => MaySwitch)
  BY DEF WritePolicy
<1>4. \/ NoCommit
      \/ Commit(Written) /\ (scope.mode # Written.mode => Settled)
  BY <1>2, <1>3 DEF MaySwitch
<1> QED
  BY <1>1, <1>4, NothingMoves, ScopeMoves, WrittenHasColumns

\* A commit joins the late ones: the flag alone, or a policy that may be written.
LEMMA TimeoutPreserves ==
    ASSUME IInv, Timeout
    PROVE  IInv'
<1>1. UNCHANGED <<scope, attempt, unit>>
  BY DEF Timeout, outside
<1>2. PICK s : late' = late \union {s} /\ HasColumns(s) /\ (s.mode # scope.mode => Settled)
  <2>1. HasColumns(scope) /\ Written.mode = sweep.update.mode
    BY DEF IInv, RowsOK, Written
  <2>2. ASSUME NEW e \in BOOLEAN, late' = late \union {[scope EXCEPT !.enabled = e]}
        PROVE  \E s : /\ late' = late \union {s} /\ HasColumns(s)
                      /\ s.mode # scope.mode => Settled
    <3>1. HasColumns([scope EXCEPT !.enabled = e]) /\ [scope EXCEPT !.enabled = e].mode = scope.mode
      BY <2>1, Rebuilt
    <3> QED
      BY <2>2, <3>1
  <2>3. CASE late' = late \union {Written} /\ (scope.mode # sweep.update.mode => MaySwitch)
    BY <2>1, <2>3, WrittenHasColumns DEF MaySwitch
  <2> QED
    BY <2>2, <2>3 DEF Timeout
<1> QED
  BY <1>1, <1>2 DEF IInv, RowsOK, HeldInUnit, LateIsSettled, Settled, Active, Upper

LEMMA LandPreserves ==
    ASSUME IInv, NEW s \in late, Land(s)
    PROVE  IInv'
<1>1. HasColumns(s) /\ (s.mode # scope.mode => Settled)
  BY DEF IInv, RowsOK, LateIsSettled
<1> QED
  BY <1>1, ScopeMoves DEF Land, outside

--------------------------------------------------------------------------
LEMMA InitOK == Init => IInv
BY DEF Init, IInv, RowsOK, HasColumns, OpenScope, NoAttempt, HeldInUnit, HeldStates,
       LateIsSettled

LEMMA NextOK == IInv /\ [Next]_vars => IInv'
<1> SUFFICES ASSUME IInv, [Next]_vars PROVE IInv'
  OBVIOUS
<1>1. ASSUME NEW x \in Requests,
             \/ Begin(x) \/ Authorize(x) \/ Register(x) \/ UsageEvent(x)
             \/ CollectCompletion(x) \/ Approve(x)
      PROVE  IInv'
  BY <1>1, NothingMoves
  DEF Begin, Authorize, Register, UsageEvent, CollectCompletion, Approve
<1>2. ASSUME NEW x \in Requests,
             Admit(x) \/ Cancel(x) \/ GatewayCompletes(x) \/ Finalize(x) \/ Settle(x)
      PROVE  IInv'
  BY <1>2, AdmitPreserves, CancelPreserves, GatewayPreserves, FinalizePreserves, SettlePreserves
<1>3. CASE \E mode \in Units, enabled \in BOOLEAN : SetPolicy(mode, enabled)
  BY <1>3, NothingMoves DEF SetPolicy
<1>4. CASE \/ ListPolicy \/ ReadScope \/ ReadPlans \/ FirstUsage
           \/ ReadPlansAgain \/ SecondUsage \/ CompletePolicy \/ Fail
  BY <1>4, NothingMoves
  DEF ListPolicy, ReadScope, ReadPlans, FirstUsage, ReadPlansAgain, SecondUsage,
      CompletePolicy, Fail, outside
<1>5. CASE Quiesce \/ Enable \/ WritePolicy \/ Timeout
  BY <1>5, FlagPreserves, WritePreserves, TimeoutPreserves
<1>6. CASE \E s \in late : Land(s)
  BY <1>6, LandPreserves
<1>7. CASE UNCHANGED vars
  BY <1>7, NothingMoves DEF vars, NoCommit
<1> QED
  BY <1>1, <1>2, <1>3, <1>4, <1>5, <1>6, <1>7 DEF Next, Sweep

\* The invariant holds of every behaviour.
THEOREM SwitchInvariant == Spec => []IInv
BY InitOK, NextOK, PTL DEF Spec

\* No request is held in a unit its scope has left, whenever commits land.
THEOREM HeldStaysInUnit == Spec => []HeldInUnit
<1>1. IInv => HeldInUnit
  BY DEF IInv
<1> QED
  BY <1>1, SwitchInvariant, PTL

--------------------------------------------------------------------------
(* The confirmed balance.  A switch compares totals of PostgreSQL and of    *)
(* the ledger, never which requests they are made of.                       *)

\* Requests first decided to be free.
Waived(x) == attempt[x].rejected \/ attempt[x].resolved

\* PostgreSQL has the usage of the request.
Known(x) == usage[x] = "exact"

\* Requests that PostgreSQL knows, all in B, cost in some unit what others do,
\* x among them.
Outweighed(x, B) ==
    \E u \in Units, lost \in SUBSET Charged, known \in SUBSET B :
        /\ x \in lost /\ lost \cap known = {}
        /\ \A y \in known : Known(y)
        /\ CostOf(lost, u) = CostOf(known, u)

\* A request in B was first decided to be free, and PostgreSQL has its usage.
Overtakes(B) == \E y \in B : Waived(y) /\ Known(y)

\* The exact charges but for some that came after such a decision, or that
\* others have stood in for.
Misses(B) ==
    /\ B \subseteq Charged
    /\ \A x \in Charged \ B : Waived(x) \/ (Overtakes(B) /\ Outweighed(x, B))

\* A balance c in unit u that forgets no other usage.
Opens(c, u) == \E B \in SUBSET Requests : Misses(B) /\ c = CostOf(B, u)

LedgerTyped ==
    /\ scope \in Scope /\ scope.revision > 0 /\ late \subseteq Scope
    /\ attempt \in [Requests -> Attempt] /\ unit \in [Requests -> Units]
    /\ plan \in [Requests -> PlanStates] /\ task \in [Requests -> Task]
    /\ recorded \subseteq Requests /\ usage \in [Requests -> UsageStates]
    /\ policy \in [revision: Nat, mode: Units, enabled: BOOLEAN, applied: Nat]

SweepTyped ==
    sweep \in [pc: SweepPcs, update: Update, seen: Seen, plans: BOOLEAN, opening: Int]

\* What a row says by itself.
RowFacts(x) ==
    LET a == attempt[x]
    IN  /\ a.rank \in {0, 2, 3}
        /\ a.rank = 3 => a.state = "settled" /\ a.actual = Cost[x][unit[x]]
        /\ a.rank # 3 => a.actual = 0
        /\ a.rank = 2 => Waived(x)
        /\ a.rank = 0 => a.state \notin {"settled", "released"}
        /\ a.completed => a.rank = 3

\* Who has evidence was dispatched, with its reservation.
TaskFacts(x) ==
    LET t == task[x]
    IN  /\ Dispatched(x) => attempt[x].state \notin {"none", "cancelled"}
        /\ x \in recorded => Dispatched(x)
        /\ t.revision > 0 => x \in recorded /\ t.rank \in {2, 3}
                             /\ (t.key = "rejection" => attempt[x].rejected)
        /\ t.rank = 2 => t.key \in {"rejection", "resolution"}
        /\ t.rank = 3 => t.key \in {"usage", "completion"}

\* A decision that has been applied is in the ledger.
AppliedFacts(x) ==
    LET t == task[x]
    IN  /\ t.applied <= t.revision
        /\ t.rank = 3 /\ t.applied = t.revision => attempt[x].rank = 3
        /\ t.rank = 3 => t.revision > 0
        /\ Known(x) => x \in recorded /\ t.rank = 3

BalanceOK ==
    \E B \in SUBSET Requests :
        /\ Misses(B) /\ scope.confirmed = CostOf(B, scope.mode)
        /\ B = Charged \/ scope.revision > 1

\* A commit still on its way keeps the balance, or opens one in the other unit.
LateOpens ==
    \A s \in late :
        /\ s.revision >= scope.revision
        /\ s.mode = scope.mode => s.confirmed = scope.confirmed
        /\ s.mode # scope.mode => s.revision > 1 /\ Opens(s.confirmed, s.mode)

\* A sweep that has yet to stop admission, and one that has.
Asking == sweep.pc \in {"plans", "usage", "quiesce"}
Stopped == \/ sweep.pc \in {"plans_again", "usage_again"}
           \/ sweep.pc = "write" /\ sweep.opening >= 0

\* The sweep's scope is stopped and in the old unit still.
Frozen == ~ scope.enabled /\ scope.mode # sweep.update.mode

\* Once that has ended, no commit brings it back.
StaysEnded ==
    \/ Asking /\ scope.mode = sweep.update.mode
    \/ Stopped /\ ~ Frozen
    => \A s \in late : s.mode = sweep.update.mode

\* What the sweep has seen of a frozen scope, or computed from it.
FrozenOK ==
    Stopped /\ Frozen =>
        /\ Settled
        /\ IF sweep.pc = "write" THEN Opens(sweep.opening, sweep.update.mode)
           ELSE /\ sweep.seen.row.mode = scope.mode
                /\ Opens(sweep.seen.row.confirmed, scope.mode)

Facts(x) == RowFacts(x) /\ TaskFacts(x) /\ AppliedFacts(x)
TInv == LedgerTyped /\ SweepTyped /\ \A x \in Requests : Facts(x)

Balance == BalanceOK /\ LateOpens /\ StaysEnded /\ FrozenOK

CInv == TInv /\ Balance

--------------------------------------------------------------------------
(* Costs of sets of requests. *)

\* The sum of the community modules is the sum the lemmas of LedgerDomainProofs
\* are about.
LEMMA CostOfIs ==
    ASSUME NEW S, IsFiniteSet(S), NEW u
    PROVE  CostOf(S, u) = SumOf([x \in S |-> Cost[x][u]], S)
<1> DEFINE f == [x \in S |-> Cost[x][u]]
           Is(g) == g = [t \in SUBSET S |-> IF t = {} THEN 0
                           ELSE Cost[Pick(t)][u] + g[t \ {Pick(t)}]]
           j == CHOOSE g : Is(g)
<1>1. CostOf(S, u) = j[S]
  BY DEF CostOf, MapThenSumSet, MapThenFoldSet, Pick
<1>2. \A g : Is(g) <=> IsSum(g, f, S)
  <2> SUFFICES ASSUME NEW g PROVE Is(g) <=> IsSum(g, f, S)
    OBVIOUS
  <2>1. \A t \in SUBSET S : t # {} => f[Pick(t)] = Cost[Pick(t)][u]
    BY PickElement
  <2> HIDE DEF f
  <2>2. [t \in SUBSET S |-> IF t = {} THEN 0 ELSE Cost[Pick(t)][u] + g[t \ {Pick(t)}]]
        = [t \in SUBSET S |-> IF t = {} THEN 0 ELSE f[Pick(t)] + g[t \ {Pick(t)}]]
    BY <2>1
  <2> QED
    BY <2>2 DEF IsSum
<1>3. \E g : Is(g)
  BY <1>2, SumExists
<1> HIDE DEF f, Is
<1>4. Is(j)
  BY <1>3, Zenon
<1>5. IsSum(j, f, S) /\ IsSum(Sums(f, S), f, S)
  BY <1>2, <1>4, SumsIs
<1> HIDE DEF j
<1>6. j[S] = Sums(f, S)[S]
  BY <1>5, SumUnique
<1> QED
  BY <1>1, <1>6 DEF SumOf, f

\* One request more costs what it uses.
LEMMA CostOfAdd ==
    ASSUME IsFiniteSet(Requests), NEW u \in Units, NEW B \in SUBSET Requests,
           NEW x \in Requests, x \notin B
    PROVE  CostOf(B \union {x}, u) = CostOf(B, u) + Cost[x][u] /\ CostOf(B, u) \in Int
<1> DEFINE f == [y \in Requests |-> Cost[y][u]]
<1>1. \A y \in Requests : f[y] \in Int
  BY SwitchAssumption
<1>2. \A S \in SUBSET Requests : CostOf(S, u) = SumOf(f, S)
  <2> SUFFICES ASSUME NEW S \in SUBSET Requests PROVE CostOf(S, u) = SumOf(f, S)
    OBVIOUS
  <2> DEFINE h == [y \in S |-> Cost[y][u]]
  <2>1. IsFiniteSet(S) /\ CostOf(S, u) = SumOf(h, S)
    BY FS_Subset, CostOfIs
  <2>2. \A y \in S : h[y] = f[y]
    OBVIOUS
  <2> HIDE DEF h, f
  <2> QED
    BY <2>1, <2>2, SumSame
<1>3. f[x] = Cost[x][u]
  OBVIOUS
<1> HIDE DEF f
<1>4. SumOf(f, B \union {x}) = SumOf(f, B) + f[x] /\ SumOf(f, B) \in Int
  BY <1>1, SumAdd
<1> QED
  BY <1>2, <1>3, <1>4

\* Nothing costs nothing.
LEMMA CostOfNone == ASSUME NEW u PROVE CostOf({}, u) = 0
<1> DEFINE f == [y \in {} |-> Cost[y][u]]
<1>1. IsFiniteSet({})
  BY FS_EmptySet
<1>2. \A y \in {} : f[y] = 0
  OBVIOUS
<1>3. CostOf({}, u) = SumOf(f, {})
  BY <1>1, CostOfIs
<1> HIDE DEF f
<1> QED
  BY <1>1, <1>2, <1>3, SumZero

\* A cost is an integer.
LEMMA CostOfType ==
    ASSUME IsFiniteSet(Requests), NEW u \in Units, NEW B \in SUBSET Requests
    PROVE  CostOf(B, u) \in Int
<1> DEFINE f == [y \in B |-> Cost[y][u]]
<1>1. IsFiniteSet(B) /\ B \in SUBSET B
  BY FS_Subset
<1>2. \A y \in B : f[y] \in Int
  BY SwitchAssumption
<1>3. CostOf(B, u) = SumOf(f, B)
  BY <1>1, CostOfIs
<1> HIDE DEF f
<1> QED
  BY <1>1, <1>2, <1>3, SumType DEF SumOf

\* What two sets cost that have nothing in common.
LEMMA CostOfUnion ==
    ASSUME IsFiniteSet(Requests), NEW u \in Units, NEW A \in SUBSET Requests,
           NEW D \in SUBSET Requests, A \cap D = {}
    PROVE  CostOf(A \union D, u) = CostOf(A, u) + CostOf(D, u)
<1> DEFINE Good == {T \in SUBSET D : CostOf(A \union T, u) = CostOf(A, u) + CostOf(T, u)}
<1>1. IsFiniteSet(D)
  BY FS_Subset
<1>2. {} \in Good
  <2>1. CostOf(A, u) \in Int /\ CostOf({}, u) = 0 /\ A \union {} = A
    BY CostOfType, CostOfNone
  <2> QED
    BY <2>1
<1>3. ASSUME NEW T \in SUBSET D, T # {}, T \ {Pick(T)} \in Good
      PROVE  T \in Good
  <2> DEFINE p == Pick(T)
             R == T \ {p}
  <2>1. p \in T /\ p \in Requests /\ p \notin A \union R
    BY <1>3, PickElement
  <2>2. (A \union R) \union {p} = A \union T /\ R \union {p} = T
        /\ A \union R \in SUBSET Requests /\ R \in SUBSET Requests
    BY <2>1
  <2>3. CostOf(A \union R, u) = CostOf(A, u) + CostOf(R, u)
    BY <1>3
  <2> HIDE DEF p, R
  <2>4. CostOf(A \union T, u) = CostOf(A \union R, u) + Cost[p][u]
    BY <2>1, <2>2, CostOfAdd
  <2>5. CostOf(T, u) = CostOf(R, u) + Cost[p][u]
    BY <2>1, <2>2, CostOfAdd
  <2>6. CostOf(A, u) \in Int /\ CostOf(R, u) \in Int /\ Cost[p][u] \in Int
    BY <2>1, <2>2, CostOfType, SwitchAssumption
  <2> QED
    BY <2>3, <2>4, <2>5, <2>6
<1> HIDE DEF Good
<1>4. SUBSET D \subseteq Good
  BY <1>1, <1>2, <1>3, SubsetInduction
<1> QED
  BY <1>4 DEF Good

\* Whoever there is in a set costs something.
LEMMA CostOfSome ==
    ASSUME IsFiniteSet(Requests), NEW u \in Units, NEW A \in SUBSET Requests, A # {}
    PROVE  CostOf(A, u) > 0
<1> DEFINE Good == {T \in SUBSET A : CostOf(T, u) >= 0}
<1>1. IsFiniteSet(A) /\ {} \in Good
  BY FS_Subset, CostOfNone
<1>2. ASSUME NEW T \in SUBSET A, T # {}
      PROVE  CostOf(T, u) = CostOf(T \ {Pick(T)}, u) + Cost[Pick(T)][u]
             /\ Cost[Pick(T)][u] > 0
             /\ CostOf(T \ {Pick(T)}, u) \in Int /\ Cost[Pick(T)][u] \in Nat
  <2> DEFINE p == Pick(T)
             R == T \ {p}
  <2>1. p \in T /\ p \in Requests /\ p \notin R /\ R \union {p} = T /\ R \in SUBSET Requests
    BY <1>2, PickElement
  <2>2. Cost[p][u] \in Nat \ {0}
    BY <2>1, SwitchAssumption
  <2> HIDE DEF p, R
  <2>3. CostOf(T, u) = CostOf(R, u) + Cost[p][u] /\ CostOf(R, u) \in Int
    BY <2>1, CostOfAdd
  <2> USE DEF p, R
  <2> QED
    BY <2>2, <2>3
<1>3. ASSUME NEW T \in SUBSET A, T # {}, T \ {Pick(T)} \in Good
      PROVE  T \in Good
  BY <1>2, <1>3
<1>4. SUBSET A \subseteq Good
  <2> HIDE DEF Good
  <2> QED
    BY <1>1, <1>3, SubsetInduction
<1>5. A \ {Pick(A)} \in Good
  BY <1>4
<1> QED
  BY <1>2, <1>5

\* Two sets that cost the same differ by what costs the same; if one is not
\* all of the other, each has something the other has not.
LEMMA CostOfDifference ==
    ASSUME IsFiniteSet(Requests), NEW u \in Units, NEW A \in SUBSET Requests,
           NEW B \in SUBSET Requests, CostOf(A, u) = CostOf(B, u)
    PROVE  /\ CostOf(A \ B, u) = CostOf(B \ A, u)
           /\ B \ A # {} => A \ B # {}
<1> DEFINE C == A \cap B
           L == A \ B
           R == B \ A
<1>1. /\ C \in SUBSET Requests /\ L \in SUBSET Requests /\ R \in SUBSET Requests
      /\ C \cap L = {} /\ C \cap R = {} /\ C \union L = A /\ C \union R = B
  OBVIOUS
<1> HIDE DEF C, L, R
<1>2. CostOf(A, u) = CostOf(C, u) + CostOf(L, u)
  BY <1>1, CostOfUnion
<1>3. CostOf(B, u) = CostOf(C, u) + CostOf(R, u)
  BY <1>1, CostOfUnion
<1>4. CostOf(C, u) \in Int /\ CostOf(L, u) \in Int /\ CostOf(R, u) \in Int
  BY <1>1, CostOfType
<1>5. CostOf(L, u) = CostOf(R, u)
  <2>1. \A c, l, r \in Int : c + l = c + r => l = r
    OBVIOUS
  <2>2. CostOf(C, u) + CostOf(L, u) = CostOf(C, u) + CostOf(R, u)
    BY <1>2, <1>3
  <2> QED
    BY <1>4, <2>1, <2>2
<1>6. R # {} => L # {}
  <2>1. R # {} => CostOf(R, u) > 0
    BY <1>1, CostOfSome
  <2>2. CostOf({}, u) = 0
    BY CostOfNone
  <2> QED
    BY <1>4, <1>5, <2>1, <2>2
<1> USE DEF L, R
<1> QED
  BY <1>5, <1>6

--------------------------------------------------------------------------
(* Rows and tasks. *)

\* Nothing that concerns y changes.
Same(y) ==
    /\ attempt'[y] = attempt[y] /\ unit'[y] = unit[y] /\ plan'[y] = plan[y]
    /\ task'[y] = task[y] /\ (y \in recorded' <=> y \in recorded)
    /\ usage'[y] = usage[y]

\* What a row's facts are made of has not changed.
LEMMA SameFacts == ASSUME NEW y \in Requests, Facts(y), Same(y) PROVE Facts(y)'
BY DEF Facts, RowFacts, TaskFacts, AppliedFacts, Same, Waived, Known, Dispatched

\* A step of one request leaves the others' facts alone.
LEMMA OthersSame ==
    ASSUME TInv, NEW x \in Requests, LedgerTyped',
           \A y \in Requests : y # x => Same(y), Facts(x)', UNCHANGED sweep
    PROVE  TInv'
<1>1. \A y \in Requests : Facts(y)'
  BY SameFacts DEF TInv
<1> QED
  BY <1>1 DEF TInv, SweepTyped

\* What a charge of a task is.
LEMMA ChargeTyped ==
    ASSUME TInv, NEW x \in Requests, task[x].revision > 0
    PROVE  /\ ChargeOf(x) \in Charge /\ ChargeOf(x).key = task[x].key
           /\ ChargeOf(x).rank = task[x].rank /\ ChargeOf(x).revision = task[x].revision
           /\ task[x].rank = 3 => ChargeOf(x).total = Cost[x][unit[x]]
           /\ task[x].rank # 3 => ChargeOf(x).total = 0
<1>1. task[x] \in Task /\ task[x].rank \in {2, 3} /\ Cost[x][unit[x]] \in Nat
  BY SwitchAssumption DEF TInv, LedgerTyped, Facts, TaskFacts
<1>2. task[x].rank \in 2..3 /\ task[x].revision \in Nat \ {0}
  BY <1>1 DEF Task
<1> QED
  BY <1>1, <1>2 DEF ChargeOf, Charge, Task

--------------------------------------------------------------------------
(* Steps that change no row of the ledger. *)

\* A task with evidence queued, or as it was.
LEMMA QueuedTask ==
    ASSUME NEW t \in Task, NEW key \in EvidenceKeys, NEW rank \in 0..3
    PROVE  LET q == Queued(t, key, rank)
           IN  /\ q \in Task
               /\ IF rank > t.rank
                  THEN /\ q.revision = t.revision + 1 /\ q.rank = rank /\ q.key = key
                       /\ q.applied = t.applied
                  ELSE q = t
<1>1. CASE rank > t.rank
  <2> DEFINE t1 == [t EXCEPT !.revision = @ + 1]
             t2 == [t1 EXCEPT !.rank = rank]
             t3 == [t2 EXCEPT !.key = key]
  <2>1. t1 \in Task /\ t1.revision = t.revision + 1 /\ t1.applied = t.applied
    BY DEF Task
  <2>2. t2 \in Task /\ t2.revision = t.revision + 1 /\ t2.rank = rank /\ t2.applied = t.applied
    BY <2>1 DEF Task
  <2>3. t3 \in Task /\ t3.revision = t.revision + 1 /\ t3.rank = rank /\ t3.key = key
        /\ t3.applied = t.applied
    BY <2>2 DEF Task
  <2>4. Queued(t, key, rank) = t3
    BY <1>1 DEF Queued, Task
  <2> QED
    BY <1>1, <2>3, <2>4
<1>2. CASE ~ rank > t.rank
  BY <1>2 DEF Queued
<1> QED
  BY <1>1, <1>2

\* A plan goes on; neither the ledger nor the sweep does.
LEMMA PlanSteps ==
    ASSUME TInv, NEW x \in Requests, Begin(x) \/ Authorize(x) \/ Register(x)
    PROVE  TInv' /\ UNCHANGED <<scope, late, attempt, sweep, usage>>
<1>1. UNCHANGED <<scope, late, attempt, sweep, unit, task, policy, usage>>
  BY DEF Begin, Authorize, Register, NoCommit, sweeping, pg
<1>2. plan \in [Requests -> PlanStates] /\ recorded \subseteq Requests /\ Facts(x)
  BY DEF TInv, LedgerTyped
<1>3. PICK p \in PlanStates :
          /\ plan' = [plan EXCEPT ![x] = p]
          /\ \/ p = "preparing" /\ plan[x] = "none" /\ recorded' = recorded
             \/ p = "authorized" /\ attempt[x].state = "reserved" /\ recorded' = recorded
             \/ p \in {"authorized", "closed"} /\ Dispatched(x) /\ recorded' = recorded \union {x}
  <2>1. CASE Begin(x)
    BY <2>1 DEF Begin, PlanStates, pg
  <2>2. CASE Authorize(x)
    BY <2>2 DEF Authorize, PlanStates, pg
  <2>3. CASE Register(x)
    <3>1. Dispatched(x) /\ plan[x] = "authorized" /\ recorded' = recorded \union {x}
      BY <2>3 DEF Register, Dispatched
    <3>2. plan' = [plan EXCEPT ![x] = "authorized"] \/ plan' = [plan EXCEPT ![x] = "closed"]
      BY <1>2, <2>3, <3>1 DEF Register
    <3> QED
      BY <3>1, <3>2 DEF PlanStates
  <2> QED
    BY <2>1, <2>2, <2>3
<1>4. plan' \in [Requests -> PlanStates] /\ recorded' \subseteq Requests /\ plan'[x] = p
  BY <1>2, <1>3
<1>5. LedgerTyped'
  BY <1>1, <1>4 DEF TInv, LedgerTyped
<1>6. \A y \in Requests : y # x => Same(y)
  BY <1>1, <1>2, <1>3 DEF Same
<1>7. Facts(x)'
  <2>1. RowFacts(x)'
    BY <1>1, <1>2 DEF Facts, RowFacts, Waived
  <2>2. TaskFacts(x)'
    BY <1>1, <1>2, <1>3, <1>4 DEF Facts, TaskFacts, Dispatched
  <2>3. AppliedFacts(x)'
    BY <1>1, <1>2, <1>3 DEF Facts, AppliedFacts, Known
  <2> QED
    BY <2>1, <2>2, <2>3 DEF Facts
<1> QED
  BY <1>1, <1>5, <1>6, <1>7, OthersSame

\* What a new task of x may look like.
LEMMA TaskMove ==
    ASSUME TInv, NEW x \in Requests, NEW t \in Task,
           task' = [task EXCEPT ![x] = t], Dispatched(x),
           recorded' = recorded \/ recorded' = recorded \union {x},
           UNCHANGED <<scope, late, attempt, sweep, unit, plan, policy>>,
           NEW v \in UsageStates, usage' = [usage EXCEPT ![x] = v],
           t.applied <= t.revision,
           t.rank = 3 => t.revision > 0 /\ (t.applied = t.revision => attempt[x].rank = 3),
           v = "exact" => x \in recorded' /\ t.rank = 3,
           \/ t.revision = task[x].revision /\ t.rank = task[x].rank /\ t.key = task[x].key
           \/ /\ x \in recorded'
              /\ \/ t.rank = 3 /\ t.key \in {"usage", "completion"}
                 \/ t.rank = 2 /\ t.key = "resolution"
                 \/ t.rank = 2 /\ t.key = "rejection" /\ attempt[x].rejected
    PROVE  TInv'
<1>1. task \in [Requests -> Task] /\ recorded \subseteq Requests /\ Facts(x)
      /\ usage \in [Requests -> UsageStates]
  BY DEF TInv, LedgerTyped
<1>2. task' \in [Requests -> Task] /\ recorded' \subseteq Requests /\ task'[x] = t
      /\ usage' \in [Requests -> UsageStates] /\ usage'[x] = v
  BY <1>1
<1>3. LedgerTyped'
  BY <1>2 DEF TInv, LedgerTyped
<1>4. \A y \in Requests : y # x => Same(y)
  BY <1>1 DEF Same
<1>5. RowFacts(x)'
  BY <1>1 DEF Facts, RowFacts, Waived
<1>6. TaskFacts(x)'
  BY <1>1, <1>2 DEF Facts, TaskFacts, Dispatched
<1>7. AppliedFacts(x)'
  BY <1>2 DEF AppliedFacts, Known
<1> QED
  BY <1>3, <1>4, <1>5, <1>6, <1>7, OthersSame DEF Facts

\* Evidence arrives; neither the ledger nor the sweep moves.
LEMMA EvidenceSteps ==
    ASSUME TInv, NEW x \in Requests, UsageEvent(x) \/ CollectCompletion(x) \/ Approve(x)
    PROVE  /\ TInv' /\ UNCHANGED <<scope, late, attempt, sweep>>
           /\ \A y \in Requests : Known(y) => Known(y)'
<1>1. UNCHANGED <<scope, late, attempt, sweep, unit, plan, policy>>
  BY DEF UsageEvent, CollectCompletion, Approve, NoCommit, sweeping
<1>2. task \in [Requests -> Task] /\ task[x] \in Task /\ Facts(x)
      /\ usage \in [Requests -> UsageStates]
  BY DEF TInv, LedgerTyped
<1>3. Dispatched(x) /\ (recorded' = recorded \/ recorded' = recorded \union {x})
  BY <1>2 DEF UsageEvent, CollectCompletion, Approve, Facts, TaskFacts
<1>4. x \in recorded'
  BY <1>3 DEF UsageEvent, CollectCompletion, Approve
<1>5. PICK v \in UsageStates :
          /\ usage' = [usage EXCEPT ![x] = v] /\ (Known(x) => v = "exact")
          /\ \/ v = "exact" /\ task' = [task EXCEPT ![x] = Queued(task[x], "usage", 3)]
             \/ v = "exact" => Known(x)
  <2>1. CASE UsageEvent(x)
    BY <2>1 DEF UsageEvent, UsageStates, Known
  <2>2. CASE CollectCompletion(x) \/ Approve(x)
    <3>1. usage' = [usage EXCEPT ![x] = usage[x]] /\ usage[x] \in UsageStates
      BY <1>2, <2>2 DEF CollectCompletion, Approve
    <3> QED
      BY <3>1 DEF Known
  <2> QED
    BY <2>1, <2>2
<1>6. \A y \in Requests : Known(y) => Known(y)'
  BY <1>2, <1>5 DEF Known
<1>7. ASSUME NEW key \in {"usage", "completion", "rejection", "resolution"},
             NEW rank \in {2, 3}, task' = [task EXCEPT ![x] = Queued(task[x], key, rank)],
             rank = 3 <=> key \in {"usage", "completion"},
             key = "rejection" => attempt[x].rejected,
             v = "exact" => rank = 3 \/ Known(x)
      PROVE  TInv'
  <2> DEFINE t == Queued(task[x], key, rank)
  <2>1. rank \in 0..3 /\ key \in EvidenceKeys
    BY DEF EvidenceKeys
  <2>2. /\ t \in Task
        /\ IF rank > task[x].rank
           THEN /\ t.revision = task[x].revision + 1 /\ t.rank = rank /\ t.key = key
                /\ t.applied = task[x].applied
           ELSE t = task[x]
    BY <1>2, <2>1, QueuedTask
  <2> HIDE DEF t
  <2>3. \/ t.revision = task[x].revision /\ t.rank = task[x].rank /\ t.key = task[x].key
        \/ t.rank = 3 /\ t.key \in {"usage", "completion"}
        \/ t.rank = 2 /\ t.key = "resolution"
        \/ t.rank = 2 /\ t.key = "rejection" /\ attempt[x].rejected
    BY <1>7, <2>2
  <2>4. task' = [task EXCEPT ![x] = t]
    BY <1>7 DEF t
  <2>5. /\ task[x].revision \in Nat /\ task[x].applied \in Nat /\ task[x].rank \in 0..3
        /\ task[x].applied <= task[x].revision
        /\ task[x].rank = 3 => /\ task[x].revision > 0
                               /\ task[x].applied = task[x].revision => attempt[x].rank = 3
        /\ Known(x) => task[x].rank = 3
    BY <1>2 DEF Task, Facts, AppliedFacts
  <2>6. t.applied <= t.revision
    BY <2>2, <2>5
  <2>7. t.rank = 3 => t.revision > 0 /\ (t.applied = t.revision => attempt[x].rank = 3)
    BY <2>2, <2>5
  <2>8. v = "exact" => x \in recorded' /\ t.rank = 3
    BY <1>4, <1>7, <2>2, <2>5
  <2> QED
    BY <1>1, <1>3, <1>4, <1>5, <2>2, <2>3, <2>4, <2>6, <2>7, <2>8, TaskMove
<1>8. CASE UNCHANGED task /\ (v = "exact" => Known(x))
  <2>1. task' = [task EXCEPT ![x] = task[x]]
    BY <1>2, <1>8
  <2>2. /\ task[x].applied <= task[x].revision
        /\ task[x].rank = 3 => /\ task[x].revision > 0
                               /\ task[x].applied = task[x].revision => attempt[x].rank = 3
        /\ Known(x) => task[x].rank = 3
    BY <1>2 DEF Facts, AppliedFacts
  <2> QED
    BY <1>1, <1>2, <1>3, <1>4, <1>5, <1>6, <1>8, <2>1, <2>2, TaskMove
<1>9. \/ UNCHANGED task /\ (v = "exact" => Known(x))
      \/ task' = [task EXCEPT ![x] = Queued(task[x], "usage", 3)]
      \/ task' = [task EXCEPT ![x] = Queued(task[x], "completion", 3)]
      \/ /\ task' = [task EXCEPT ![x] = Queued(task[x], "rejection", 2)]
         /\ attempt[x].rejected /\ (v = "exact" => Known(x))
      \/ /\ task' = [task EXCEPT ![x] = Queued(task[x], "resolution", 2)]
         /\ v = "exact" => Known(x)
  <2>1. usage'[x] = v
    BY <1>2, <1>5
  <2>2. CASE UsageEvent(x)
    BY <1>2, <2>1, <2>2 DEF UsageEvent, UsageStates, Known
  <2>3. CASE CollectCompletion(x)
    BY <2>1, <2>3 DEF CollectCompletion, Known
  <2>4. CASE Approve(x)
    BY <2>1, <2>4 DEF Approve, Known
  <2> QED
    BY <2>2, <2>3, <2>4
<1>10. CASE task' = [task EXCEPT ![x] = Queued(task[x], "usage", 3)]
  BY <1>1, <1>6, <1>7, <1>10
<1>11. CASE task' = [task EXCEPT ![x] = Queued(task[x], "completion", 3)]
  BY <1>1, <1>6, <1>7, <1>11
<1>12. CASE /\ task' = [task EXCEPT ![x] = Queued(task[x], "rejection", 2)]
            /\ attempt[x].rejected /\ (v = "exact" => Known(x))
  BY <1>1, <1>6, <1>7, <1>12
<1>13. CASE /\ task' = [task EXCEPT ![x] = Queued(task[x], "resolution", 2)]
            /\ v = "exact" => Known(x)
  BY <1>1, <1>6, <1>7, <1>13
<1> QED
  BY <1>1, <1>6, <1>8, <1>9, <1>10, <1>11, <1>12, <1>13

--------------------------------------------------------------------------
(* What a step does to the balance. *)

\* What a balance misses stays excused, whatever is charged and whatever
\* usage arrives.
LEMMA MissesKept ==
    ASSUME Charged \subseteq Charged', \A y \in Charged : Waived(y) => Waived(y)',
           \A y \in Requests : Known(y) => Known(y)',
           NEW B \in SUBSET Requests, Misses(B),
           NEW D, B \subseteq D, D \subseteq Charged',
           \A y \in Charged' \ D : y \in Charged \/ Waived(y)'
    PROVE  Misses(D)'
<1>1. B \subseteq Charged /\ Charged \subseteq Requests
  BY DEF Misses, Charged
<1>2. Overtakes(B) => Overtakes(D)'
  BY <1>1 DEF Overtakes
<1>3. ASSUME NEW x, Outweighed(x, B) PROVE Outweighed(x, D)'
  <2>1. PICK u \in Units, lost \in SUBSET Charged, known \in SUBSET B :
            /\ x \in lost /\ lost \cap known = {}
            /\ \A y \in known : Known(y)
            /\ CostOf(lost, u) = CostOf(known, u)
    BY <1>3 DEF Outweighed
  <2>2. lost \in SUBSET Charged' /\ known \in SUBSET D /\ \A y \in known : Known(y)'
    BY <1>1, <2>1
  <2> QED
    BY <2>1, <2>2 DEF Outweighed
<1>4. ASSUME NEW x \in Charged' \ D
      PROVE  Waived(x)' \/ (Overtakes(D)' /\ Outweighed(x, D)')
  <2>1. CASE x \in Charged
    BY <1>2, <1>3, <1>4, <2>1 DEF Misses
  <2> QED
    BY <1>4, <2>1
<1> QED
  BY <1>4 DEF Misses

\* The attempts stay as they are.
LEMMA MissesSame ==
    ASSUME UNCHANGED attempt, \A y \in Requests : Known(y) => Known(y)'
    PROVE  /\ Charged' = Charged
           /\ \A B \in SUBSET Requests : Misses(B) => Misses(B)'
           /\ \A c, u : Opens(c, u) => Opens(c, u)'
<1>1. Charged' = Charged /\ \A y : Waived(y)' <=> Waived(y)
  BY DEF Charged, Waived
<1>2. ASSUME NEW B \in SUBSET Requests, Misses(B) PROVE Misses(B)'
  <2>1. B \subseteq Charged
    BY <1>2 DEF Misses
  <2> QED
    BY <1>1, <1>2, <2>1, MissesKept
<1>3. ASSUME NEW c, NEW u, Opens(c, u) PROVE Opens(c, u)'
  BY <1>2, <1>3 DEF Opens
<1> QED
  BY <1>1, <1>2, <1>3

\* Neither the attempts nor the usage change.
LEMMA RowsStay ==
    ASSUME UNCHANGED <<attempt, usage>>
    PROVE  /\ Charged' = Charged /\ (Settled' <=> Settled)
           /\ \A B : Misses(B)' <=> Misses(B)
           /\ \A c, u : Opens(c, u)' <=> Opens(c, u)
<1>1. Charged' = Charged /\ (Settled' <=> Settled)
      /\ \A y : (Waived(y)' <=> Waived(y)) /\ (Known(y)' <=> Known(y))
  BY DEF Charged, Settled, Active, Upper, Waived, Known
<1>2. \A x, B : (Outweighed(x, B)' <=> Outweighed(x, B)) /\ (Overtakes(B)' <=> Overtakes(B))
  BY <1>1 DEF Outweighed, Overtakes
<1>3. \A B : Misses(B)' <=> Misses(B)
  BY <1>1, <1>2 DEF Misses
<1> QED
  BY <1>1, <1>3 DEF Opens

\* Nothing that the balance depends on changes but for usage that arrives.
LEMMA BalanceSame ==
    ASSUME Balance, UNCHANGED <<scope, late, attempt, sweep>>,
           \A y \in Requests : Known(y) => Known(y)'
    PROVE  Balance'
<1>1. /\ Charged' = Charged /\ (\A B \in SUBSET Requests : Misses(B) => Misses(B)')
      /\ \A c, u : Opens(c, u) => Opens(c, u)'
  BY MissesSame
<1>2. BalanceOK'
  BY <1>1 DEF Balance, BalanceOK
<1>3. LateOpens'
  BY <1>1 DEF Balance, LateOpens
<1>4. StaysEnded'
  BY DEF Balance, StaysEnded, Asking, Stopped, Frozen
<1>5. FrozenOK'
  BY <1>1 DEF Balance, FrozenOK, Stopped, Frozen, Settled, Active, Upper
<1> QED
  BY <1>2, <1>3, <1>4, <1>5 DEF Balance

\* One attempt changes under a commit of S: its rank stays exact or not, or it
\* becomes exact and is charged.
LEMMA RowMoves ==
    ASSUME IsFiniteSet(Requests), CInv, NEW x \in Requests, NEW a \in Attempt, NEW s,
           attempt' = [attempt EXCEPT ![x] = a], Commit(s), UNCHANGED <<sweep, usage>>,
           s.mode = scope.mode, s.revision = scope.revision, s.enabled = scope.enabled,
           \/ (a.rank = 3 <=> attempt[x].rank = 3) /\ s.confirmed = scope.confirmed
           \/ /\ attempt[x].rank # 3 /\ a.rank = 3 /\ (IsHeld(x) \/ Waived(x))
              /\ s.confirmed = scope.confirmed + Cost[x][scope.mode],
           a.rank = 3 /\ Waived(x) => a.rejected \/ a.resolved,
           a.state \in HeldStates \union {"upper_bound"} => IsHeld(x) \/ scope.enabled
    PROVE  Balance'
<1>1. /\ scope' = s /\ late' = {} /\ attempt'[x] = a
      /\ \A y \in Requests : y # x => attempt'[y] = attempt[y]
      /\ scope.mode \in Units
  BY DEF Commit, CInv, TInv, LedgerTyped, Scope
<1>2. LateOpens' /\ StaysEnded'
  BY <1>1 DEF LateOpens, StaysEnded
<1>3. ~ scope.enabled /\ Settled => Settled'
  <2> SUFFICES ASSUME ~ scope.enabled, Settled, NEW y \in Requests
               PROVE  attempt'[y].state \notin HeldStates \union {"upper_bound"}
    BY DEF Settled, Active, Upper
  <2>1. ~ IsHeld(y) /\ ~ IsHeld(x)
    BY SettledMeans
  <2> QED
    BY <1>1, <2>1 DEF IsHeld
<1>4. /\ \A y \in Requests : y \in Charged' /\ Waived(y) => Waived(y)'
      /\ \A y \in Requests : Known(y) => Known(y)'
      /\ Charged \subseteq Requests /\ Charged' \subseteq Requests
  BY <1>1 DEF Charged, Waived, Known
<1>5. CASE (a.rank = 3 <=> attempt[x].rank = 3) /\ s.confirmed = scope.confirmed
  <2>1. Charged' = Charged
    BY <1>1, <1>5 DEF Charged
  <2>2. ASSUME NEW B \in SUBSET Requests, Misses(B) PROVE Misses(B)'
    <3>1. B \subseteq Charged
      BY <2>2 DEF Misses
    <3> QED
      BY <1>4, <2>1, <2>2, <3>1, MissesKept
  <2>3. BalanceOK'
    BY <1>1, <1>5, <2>1, <2>2 DEF CInv, Balance, BalanceOK
  <2>4. FrozenOK'
    BY <1>1, <1>3, <2>2 DEF CInv, Balance, FrozenOK, Stopped, Frozen, Opens
  <2> QED
    BY <1>2, <2>3, <2>4 DEF Balance
<1>6. CASE /\ attempt[x].rank # 3 /\ a.rank = 3 /\ (IsHeld(x) \/ Waived(x))
           /\ s.confirmed = scope.confirmed + Cost[x][scope.mode]
  <2>1. Charged' = Charged \union {x} /\ x \notin Charged
    BY <1>1, <1>6 DEF Charged
  <2>2. ASSUME NEW B \in SUBSET Requests, Misses(B) PROVE Misses(B \union {x})'
    <3>1. B \subseteq Charged
      BY <2>2 DEF Misses
    <3> QED
      BY <1>4, <2>1, <2>2, <3>1, MissesKept
  <2>3. ASSUME Waived(x), NEW B \in SUBSET Requests, Misses(B) PROVE Misses(B)'
    <3>1. B \subseteq Charged /\ Waived(x)'
      BY <1>4, <2>1, <2>3 DEF Misses
    <3> QED
      BY <1>4, <2>1, <2>3, <3>1, MissesKept
  <2>4. BalanceOK'
    <3>1. PICK B \in SUBSET Requests :
              /\ Misses(B) /\ scope.confirmed = CostOf(B, scope.mode)
              /\ B = Charged \/ scope.revision > 1
      BY DEF CInv, Balance, BalanceOK
    <3>2. x \notin B
      BY <2>1, <3>1 DEF Misses
    <3>3. CostOf(B \union {x}, scope.mode) = CostOf(B, scope.mode) + Cost[x][scope.mode]
      BY <1>1, <3>2, CostOfAdd
    <3>4. scope'.confirmed = CostOf(B \union {x}, scope'.mode)
      BY <1>1, <1>6, <3>1, <3>3
    <3>5. B \union {x} = Charged' \/ scope'.revision > 1
      BY <1>1, <2>1, <3>1
    <3>6. Misses(B \union {x})' /\ B \union {x} \in SUBSET Requests
      BY <2>2, <3>1
    <3> HIDE <3>3
    <3> QED
      BY <3>4, <3>5, <3>6 DEF BalanceOK
  <2>5. FrozenOK'
    <3> SUFFICES ASSUME Stopped, Frozen
                 PROVE  /\ Settled'
                        /\ IF sweep.pc = "write" THEN Opens(sweep.opening, sweep.update.mode)'
                           ELSE /\ sweep.seen.row.mode = scope.mode
                                /\ Opens(sweep.seen.row.confirmed, scope.mode)'
      BY <1>1 DEF FrozenOK, Stopped, Frozen
    <3>1. /\ Settled /\ ~ scope.enabled
          /\ IF sweep.pc = "write" THEN Opens(sweep.opening, sweep.update.mode)
             ELSE /\ sweep.seen.row.mode = scope.mode
                  /\ Opens(sweep.seen.row.confirmed, scope.mode)
      BY DEF CInv, Balance, FrozenOK, Frozen
    <3>2. Waived(x)
      BY <1>6, <3>1, SettledMeans
    <3> QED
      BY <1>1, <1>3, <2>3, <3>1, <3>2 DEF Opens
  <2> QED
    BY <1>2, <2>4, <2>5 DEF Balance
<1> QED
  BY <1>5, <1>6

--------------------------------------------------------------------------
(* The steps that change a row. *)

LEMMA ScopeFields ==
    ASSUME NEW s \in Scope
    PROVE  /\ \A c \in Int : LET t == [s EXCEPT !.confirmed = c]
                             IN  /\ t \in Scope /\ t.mode = s.mode /\ t.revision = s.revision
                                 /\ t.enabled = s.enabled /\ t.confirmed = c
           /\ \A e \in BOOLEAN : LET t == [s EXCEPT !.enabled = e]
                                 IN  /\ t \in Scope /\ t.mode = s.mode /\ t.revision = s.revision
                                     /\ t.enabled = e /\ t.confirmed = s.confirmed
BY DEF Scope

LEMMA SomeSummary == \E m : m \in Summary
<1> DEFINE m == [version |-> 0, revision |-> 0, limit |-> 0, enforce |-> TRUE, enabled |-> TRUE,
                 confirmed |-> 0, active |-> 0, upper |-> 0]
<1>1. m \in Summary
  BY DEF Summary
<1> QED
  BY <1>1

\* A completed row.
LEMMA CompletedRow ==
    ASSUME NEW a \in Attempt, NEW t \in BOOLEAN, NEW n \in Nat
    PROVE  LET b == CompletedAttempt(a, t, n)
           IN  /\ b \in Attempt /\ b.state = "settled" /\ b.actual = n
               /\ b.rank = (IF t THEN 2 ELSE 3)
               /\ b.rejected = (a.rejected \/ t) /\ b.resolved = a.resolved
               /\ b.completed = (a.completed \/ ~ t)
<1>1. CompletedAttempt(a, t, n) \in Attempt
  BY SomeSummary, CompletedTypes
<1> QED
  BY <1>1 DEF CompletedAttempt, Attempt

\* A settled row, and a released one.
LEMMA SettledRow ==
    ASSUME NEW a \in Attempt, NEW c \in Charge
    PROVE  LET b == SettledAttempt(a, c)
           IN  /\ b \in Attempt
               /\ IF c.key = "resolution"
                  THEN b.state = "released" /\ b.actual = 0 /\ b.rank = 2 /\ b.resolved
                  ELSE /\ b.state = "settled" /\ b.actual = c.total /\ b.rank = c.rank
                       /\ b.resolved = a.resolved
               /\ b.rejected = a.rejected /\ b.completed = a.completed
<1>1. SettledAttempt(a, c) \in Attempt
  BY SomeSummary, SettledTypes
<1>2. CASE c.key = "resolution"
  BY <1>1, <1>2 DEF SettledAttempt, ResolvedAttempt, Attempt
<1>3. CASE c.key # "resolution"
  BY <1>1, <1>3 DEF SettledAttempt, Attempt
<1> QED
  BY <1>2, <1>3

\* One request's row, unit, plan and task change.
LEMMA RowSame ==
    ASSUME TInv, NEW x \in Requests, NEW a \in Attempt, NEW s \in Scope,
           s.revision = scope.revision,
           NEW u \in Units, NEW p \in PlanStates, NEW t \in Task,
           attempt' = [attempt EXCEPT ![x] = a], Commit(s),
           unit' = [unit EXCEPT ![x] = u], plan' = [plan EXCEPT ![x] = p],
           task' = [task EXCEPT ![x] = t], UNCHANGED <<recorded, policy, sweep, usage>>,
           Facts(x)'
    PROVE  TInv'
<1>1. /\ attempt \in [Requests -> Attempt] /\ unit \in [Requests -> Units]
      /\ plan \in [Requests -> PlanStates] /\ task \in [Requests -> Task]
  BY DEF TInv, LedgerTyped
<1>2. /\ attempt' \in [Requests -> Attempt] /\ unit' \in [Requests -> Units]
      /\ plan' \in [Requests -> PlanStates] /\ task' \in [Requests -> Task]
  BY <1>1
<1>3. scope' \in Scope /\ scope'.revision > 0 /\ late' \subseteq Scope
  BY DEF TInv, LedgerTyped, Commit
<1>4. LedgerTyped'
  BY <1>2, <1>3 DEF TInv, LedgerTyped
<1>5. \A y \in Requests : y # x => Same(y)
  BY <1>1 DEF Same
<1> QED
  BY <1>4, <1>5, OthersSame

\* What the code replaces by itself.
LEMMA Unchanged ==
    ASSUME LedgerTyped, NEW x \in Requests
    PROVE  /\ attempt[x] \in Attempt /\ unit[x] \in Units /\ plan[x] \in PlanStates
           /\ task[x] \in Task
           /\ unit = [unit EXCEPT ![x] = unit[x]] /\ plan = [plan EXCEPT ![x] = plan[x]]
           /\ task = [task EXCEPT ![x] = task[x]]
           /\ scope \in Scope /\ scope.mode \in Units /\ scope.confirmed \in Int
BY DEF LedgerTyped, Scope

\* A stopped scope admits nobody.
LEMMA AdmitConserves ==
    ASSUME IsFiniteSet(Requests), CInv, NEW x \in Requests, Admit(x)
    PROVE  CInv'
<1> DEFINE a == NewAttempt("reserved", Cost[x][scope.mode])
<1>1. LedgerTyped /\ TInv /\ Facts(x)
  BY DEF CInv, TInv
<1>2. Cost[x][scope.mode] \in Nat
  BY <1>1, Unchanged, SwitchAssumption
<1>3. a \in Attempt
  BY <1>2, SomeSummary, ReservedTypes DEF AttemptStates
<1>4. a.state = "reserved" /\ a.rank = 0 /\ a.actual = 0 /\ ~ a.completed
  BY DEF NewAttempt, NoAttempt
<1>5. /\ attempt' = [attempt EXCEPT ![x] = a] /\ Commit(scope) /\ scope.enabled
      /\ unit' = [unit EXCEPT ![x] = scope.mode] /\ plan' = plan /\ task' = task
      /\ UNCHANGED <<recorded, policy, sweep, usage>>
      /\ plan[x] = "preparing" /\ attempt[x].state = "none"
  BY DEF Admit, pg, sweeping
<1> HIDE DEF a
<1>6. attempt[x].rank # 3
  BY <1>1, <1>5 DEF Facts, RowFacts
<1>7. Balance'
  <2>1. (a.rank = 3 <=> attempt[x].rank = 3) /\ scope.confirmed = scope.confirmed
    BY <1>4, <1>6
  <2>2. a.rank = 3 /\ Waived(x) => a.rejected \/ a.resolved
    BY <1>4
  <2>3. a.state \in HeldStates \union {"upper_bound"} => IsHeld(x) \/ scope.enabled
    BY <1>5, Zenon
  <2> QED
    BY <1>3, <1>5, <2>1, <2>2, <2>3, RowMoves
<1>8. Facts(x)'
  <2>1. attempt'[x] = a /\ plan'[x] = plan[x] /\ task'[x] = task[x]
    BY <1>1, <1>5 DEF LedgerTyped
  <2>2. RowFacts(x)'
    BY <1>4, <2>1 DEF RowFacts
  <2>3. ~ Dispatched(x) /\ ~ Dispatched(x)'
    BY <1>5 DEF Dispatched
  <2>4. TaskFacts(x)'
    BY <1>1, <1>5, <2>1, <2>3 DEF Facts, TaskFacts
  <2>5. AppliedFacts(x)'
    BY <1>1, <1>5, <1>6, <2>1 DEF Facts, AppliedFacts, Known
  <2> QED
    BY <2>2, <2>4, <2>5 DEF Facts
<1>9. TInv'
  BY <1>1, <1>3, <1>5, <1>8, Unchanged, RowSame
<1> QED
  BY <1>7, <1>9 DEF CInv

\* What is cancelled was never charged.
LEMMA CancelConserves ==
    ASSUME IsFiniteSet(Requests), CInv, NEW x \in Requests, Cancel(x)
    PROVE  CInv'
<1> DEFINE a == TransitionedAttempt(attempt[x], "cancelled")
<1>1. LedgerTyped /\ TInv /\ Facts(x) /\ attempt[x] \in Attempt
  BY Unchanged DEF CInv, TInv
<1>2. /\ a \in Attempt /\ a.state = "cancelled" /\ a.rank = attempt[x].rank
      /\ a.actual = attempt[x].actual
      /\ a.rejected = attempt[x].rejected /\ a.resolved = attempt[x].resolved
      /\ a.completed = attempt[x].completed
  <2>1. a \in Attempt
    BY <1>1, SomeSummary, TransitionedTypes DEF AttemptStates
  <2> QED
    BY <1>1, <2>1 DEF TransitionedAttempt, Attempt
<1>3. /\ attempt' = [attempt EXCEPT ![x] = a] /\ Commit(scope)
      /\ unit' = unit /\ plan' = [plan EXCEPT ![x] = "cancelled"] /\ task' = task
      /\ UNCHANGED <<recorded, policy, sweep, usage>>
      /\ plan[x] = "preparing" /\ attempt[x].state \in {"none", "reserved"}
  <2>1. [attempt EXCEPT ![x] = TransitionedAttempt(@, "cancelled")] = [attempt EXCEPT ![x] = a]
    BY <1>1 DEF LedgerTyped
  <2> QED
    BY <2>1 DEF Cancel, pg, sweeping
<1> HIDE DEF a
<1>4. attempt[x].rank # 3
  BY <1>1, <1>3 DEF Facts, RowFacts
<1>5. a.state \notin HeldStates \union {"upper_bound"}
  BY <1>2 DEF HeldStates
<1>6. Balance'
  BY <1>2, <1>3, <1>4, <1>5, RowMoves
<1>7. Facts(x)'
  <2>1. attempt'[x] = a /\ plan'[x] = "cancelled" /\ task'[x] = task[x]
    BY <1>1, <1>3 DEF LedgerTyped
  <2>2. RowFacts(x)'
    BY <1>1, <1>2, <1>4, <2>1 DEF Facts, RowFacts, Waived
  <2>3. ~ Dispatched(x) /\ ~ Dispatched(x)'
    BY <1>3, <2>1 DEF Dispatched
  <2>4. TaskFacts(x)'
    BY <1>1, <1>2, <1>3, <2>1, <2>3 DEF Facts, TaskFacts
  <2>5. AppliedFacts(x)'
    BY <1>1, <1>2, <1>3, <2>1 DEF Facts, AppliedFacts, Known
  <2> QED
    BY <2>2, <2>4, <2>5 DEF Facts
<1>8. TInv'
  <2>1. "cancelled" \in PlanStates
    BY DEF PlanStates
  <2>2. PICK u \in Units : unit' = [unit EXCEPT ![x] = u]
    BY <1>1, <1>3, Unchanged
  <2>3. PICK t \in Task : task' = [task EXCEPT ![x] = t]
    BY <1>1, <1>3, Unchanged
  <2> QED
    BY <1>1, <1>2, <1>3, <1>7, <2>1, <2>2, <2>3, Unchanged, RowSame
<1> QED
  BY <1>6, <1>8 DEF CInv

\* A bound is no charge.
LEMMA FinalizeConserves ==
    ASSUME IsFiniteSet(Requests), CInv, NEW x \in Requests, Finalize(x)
    PROVE  CInv'
<1> DEFINE a == TransitionedAttempt(attempt[x], "upper_bound")
<1>1. LedgerTyped /\ TInv /\ Facts(x) /\ attempt[x] \in Attempt
  BY Unchanged DEF CInv, TInv
<1>2. /\ a \in Attempt /\ a.state = "upper_bound" /\ a.rank = attempt[x].rank
      /\ a.actual = attempt[x].actual
      /\ a.rejected = attempt[x].rejected /\ a.resolved = attempt[x].resolved
      /\ a.completed = attempt[x].completed
  <2>1. a \in Attempt
    BY <1>1, SomeSummary, TransitionedTypes DEF AttemptStates
  <2> QED
    BY <1>1, <2>1 DEF TransitionedAttempt, Attempt
<1>3. /\ attempt' = [attempt EXCEPT ![x] = a] /\ Commit(scope)
      /\ unit' = unit /\ plan' = plan /\ task' = task
      /\ UNCHANGED <<recorded, policy, sweep, usage>>
      /\ x \in recorded /\ attempt[x].state \in HeldStates
  <2>1. [attempt EXCEPT ![x] = TransitionedAttempt(@, "upper_bound")] = [attempt EXCEPT ![x] = a]
    BY <1>1 DEF LedgerTyped
  <2> QED
    BY <2>1 DEF Finalize, pg, sweeping
<1> HIDE DEF a
<1>4. attempt[x].rank # 3 /\ IsHeld(x)
  BY <1>1, <1>3 DEF Facts, RowFacts, IsHeld, HeldStates
<1>5. Balance'
  BY <1>2, <1>3, <1>4, RowMoves
<1>6. Facts(x)'
  <2>1. attempt'[x] = a /\ plan'[x] = plan[x] /\ task'[x] = task[x]
    BY <1>1, <1>3 DEF LedgerTyped
  <2>2. RowFacts(x)'
    BY <1>1, <1>2, <1>4, <2>1 DEF Facts, RowFacts, Waived
  <2>3. TaskFacts(x)'
    BY <1>1, <1>2, <1>3, <2>1 DEF Facts, TaskFacts, Dispatched
  <2>4. AppliedFacts(x)'
    BY <1>1, <1>2, <1>3, <2>1 DEF Facts, AppliedFacts, Known
  <2> QED
    BY <2>2, <2>3, <2>4 DEF Facts
<1>7. TInv'
  <2>1. PICK u \in Units : unit' = [unit EXCEPT ![x] = u]
    BY <1>1, <1>3, Unchanged
  <2>2. PICK p \in PlanStates : plan' = [plan EXCEPT ![x] = p]
    BY <1>1, <1>3, Unchanged
  <2>3. PICK t \in Task : task' = [task EXCEPT ![x] = t]
    BY <1>1, <1>3, Unchanged
  <2>4. scope \in Scope
    BY <1>1, Unchanged
  <2> QED
    BY <1>1, <1>2, <1>3, <1>6, <2>1, <2>2, <2>3, <2>4, RowSame
<1> QED
  BY <1>5, <1>7 DEF CInv

\* Who was dispatched is held, decided to be free, or charged.
LEMMA DispatchedRow ==
    ASSUME TInv, NEW x \in Requests, Dispatched(x)
    PROVE  /\ attempt[x].rank = 3 \/ IsHeld(x) \/ Waived(x)
           /\ attempt[x].rank = 3 => /\ attempt[x].state = "settled"
                                     /\ attempt[x].actual = Cost[x][unit[x]]
           /\ attempt[x].rank # 3 => attempt[x].actual = 0
<1>1. Facts(x) /\ attempt[x] \in Attempt
  BY DEF TInv, LedgerTyped
<1>2. attempt[x].state \in AttemptStates
  BY <1>1 DEF Attempt
<1> QED
  BY <1>1, <1>2 DEF Facts, RowFacts, TaskFacts, IsHeld, HeldStates, AttemptStates

\* The gateway charges what has no exact charge and moves no balance otherwise.
LEMMA GatewayConserves ==
    ASSUME IsFiniteSet(Requests), CInv, NEW x \in Requests, GatewayCompletes(x)
    PROVE  CInv'
<1>1. LedgerTyped /\ TInv /\ Facts(x) /\ attempt[x] \in Attempt /\ scope.confirmed \in Int
  BY Unchanged DEF CInv, TInv
<1>2. Dispatched(x) /\ unit[x] = scope.mode
  BY DEF GatewayCompletes
<1>3. Cost[x][unit[x]] \in Nat
  BY <1>1, Unchanged, SwitchAssumption
<1>4. PICK rejection \in BOOLEAN :
          LET total == IF rejection THEN 0 ELSE Cost[x][unit[x]]
          IN  /\ CompleteOutcome(attempt[x], rejection, total) = "applied"
              /\ Commit([scope EXCEPT !.confirmed = @ + total - ConfirmedShare(attempt[x])])
              /\ attempt' = [attempt EXCEPT ![x] = CompletedAttempt(@, rejection, total)]
  BY DEF GatewayCompletes
<1> DEFINE total == IF rejection THEN 0 ELSE Cost[x][unit[x]]
           a == CompletedAttempt(attempt[x], rejection, total)
           c == scope.confirmed + total - ConfirmedShare(attempt[x])
           s == [scope EXCEPT !.confirmed = c]
<1>5. total \in Nat /\ (rejection => total = 0) /\ (~ rejection => total = Cost[x][unit[x]])
  BY <1>3
<1>6. /\ attempt' = [attempt EXCEPT ![x] = a] /\ Commit(s)
      /\ CompleteOutcome(attempt[x], rejection, total) = "applied"
  <2>1. attempt' = [attempt EXCEPT ![x] = a]
    BY <1>1, <1>4 DEF LedgerTyped
  <2> QED
    BY <2>1, <1>4
<1>7. /\ unit' = unit /\ plan' = plan /\ task' = task /\ UNCHANGED <<recorded, policy, sweep, usage>>
  BY DEF GatewayCompletes, pg, sweeping
<1> HIDE DEF total
<1>8. /\ a \in Attempt /\ a.state = "settled" /\ a.actual = total
      /\ a.rank = (IF rejection THEN 2 ELSE 3)
      /\ a.rejected = (attempt[x].rejected \/ rejection) /\ a.resolved = attempt[x].resolved
      /\ a.completed = (attempt[x].completed \/ ~ rejection)
  BY <1>1, <1>5, CompletedRow
<1>9. ConfirmedShare(attempt[x]) = IF attempt[x].rank = 3 THEN Cost[x][unit[x]] ELSE 0
  BY <1>1, <1>2, DispatchedRow DEF ConfirmedShare
<1>10. c \in Int /\ s \in Scope /\ s.mode = scope.mode /\ s.revision = scope.revision
       /\ s.enabled = scope.enabled /\ s.confirmed = c
  <2>1. c \in Int
    BY <1>1, <1>3, <1>5, <1>9
  <2> HIDE DEF c
  <2> QED
    BY <1>1, <2>1, Unchanged, ScopeFields
<1>11. rejection => attempt[x].rank # 3
  BY <1>1, <1>2, <1>6, DispatchedRow DEF CompleteOutcome
<1>12. \/ (a.rank = 3 <=> attempt[x].rank = 3) /\ s.confirmed = scope.confirmed
       \/ /\ attempt[x].rank # 3 /\ a.rank = 3 /\ (IsHeld(x) \/ Waived(x))
          /\ s.confirmed = scope.confirmed + Cost[x][scope.mode]
  <2>1. CASE rejection
    <3>1. c = scope.confirmed
      BY <1>1, <1>5, <1>9, <1>11, <2>1
    <3>2. s.confirmed = scope.confirmed
      BY <1>10, <3>1
    <3>3. a.rank # 3
      BY <1>8, <2>1
    <3> HIDE DEF s, a, c
    <3> QED
      BY <1>11, <2>1, <3>2, <3>3
  <2>2. CASE ~ rejection /\ attempt[x].rank = 3
    <3>1. c = scope.confirmed
      BY <1>1, <1>3, <1>5, <1>9, <2>2
    <3>2. s.confirmed = scope.confirmed
      BY <1>10, <3>1
    <3>3. a.rank = 3
      BY <1>8, <2>2
    <3> HIDE DEF s, a, c
    <3> QED
      BY <2>2, <3>2, <3>3
  <2>3. CASE ~ rejection /\ attempt[x].rank # 3
    <3>1. c = scope.confirmed + Cost[x][scope.mode]
      BY <1>1, <1>2, <1>3, <1>5, <1>9, <2>3
    <3>2. s.confirmed = scope.confirmed + Cost[x][scope.mode]
      BY <1>10, <3>1
    <3>3. a.rank = 3
      BY <1>8, <2>3
    <3>4. IsHeld(x) \/ Waived(x)
      BY <1>1, <1>2, <2>3, DispatchedRow
    <3> HIDE DEF s, a, c
    <3> QED
      BY <2>3, <3>2, <3>3, <3>4
  <2> QED
    BY <2>1, <2>2, <2>3
<1>13. a.rank = 3 /\ Waived(x) => a.rejected \/ a.resolved
  BY <1>8, Zenon DEF Waived
<1>14. a.state \notin HeldStates \union {"upper_bound"}
  BY <1>8 DEF HeldStates
<1> HIDE DEF a, s, c
<1>15. Balance'
  BY <1>6, <1>7, <1>8, <1>10, <1>12, <1>13, <1>14, RowMoves
<1>16. Facts(x)'
  <2>1. /\ attempt'[x] = a /\ plan'[x] = plan[x] /\ task'[x] = task[x] /\ unit'[x] = unit[x]
        /\ recorded' = recorded
    BY <1>1, <1>6, <1>7 DEF LedgerTyped
  <2>2. RowFacts(x)'
    <3>1. rejection => a.rejected
      BY <1>8
    <3>2. attempt[x].completed => attempt[x].rank = 3
      BY <1>1 DEF Facts, RowFacts
    <3>3. a.completed => a.rank = 3
      BY <1>8, <1>11, <3>2
    <3> QED
      BY <1>5, <1>8, <2>1, <3>1, <3>3 DEF RowFacts, Waived
  <2>3. TaskFacts(x)'
    <3>1. attempt[x].rejected => a.rejected
      BY <1>8
    <3> QED
      BY <1>1, <1>2, <1>8, <2>1, <3>1 DEF Facts, TaskFacts, Dispatched
  <2>4. AppliedFacts(x)'
    <3>1. attempt[x].rank = 3 => a.rank = 3
      BY <1>8, <1>11
    <3> QED
      BY <1>1, <1>7, <2>1, <3>1 DEF Facts, AppliedFacts, Known
  <2> QED
    BY <2>2, <2>3, <2>4 DEF Facts
<1>17. TInv'
  <2>1. PICK u \in Units : unit' = [unit EXCEPT ![x] = u]
    BY <1>1, <1>7, Unchanged
  <2>2. PICK p \in PlanStates : plan' = [plan EXCEPT ![x] = p]
    BY <1>1, <1>7, Unchanged
  <2>3. PICK t \in Task : task' = [task EXCEPT ![x] = t]
    BY <1>1, <1>7, Unchanged
  <2>4. s \in Scope /\ s.revision = scope.revision /\ Commit(s)
    BY <1>6, <1>10
  <2>5. a \in Attempt /\ attempt' = [attempt EXCEPT ![x] = a] /\ UNCHANGED <<recorded, policy, sweep, usage>>
    BY <1>6, <1>7, <1>8
  <2> QED
    BY <1>1, <1>16, <2>1, <2>2, <2>3, <2>4, <2>5, RowSame
<1> QED
  BY <1>15, <1>17 DEF CInv

\* What settlement applies: an exact charge, or a release of what is held.
LEMMA AppliedCharge ==
    ASSUME TInv, NEW x \in Requests, task[x].revision > 0, Outcome(x) = "applied"
    PROVE  /\ unit[x] = scope.mode /\ Dispatched(x)
           /\ \/ task[x].key = "resolution" /\ IsHeld(x)
              \/ task[x].key # "resolution" /\ task[x].rank = 3
<1>1. /\ ChargeOf(x).key = task[x].key /\ ChargeOf(x).rank = task[x].rank
      /\ task[x].rank # 3 => ChargeOf(x).total = 0
  BY ChargeTyped
<1>2. Facts(x)
  BY DEF TInv
<1>3. unit[x] = scope.mode /\ SettleOutcome(attempt[x], ChargeOf(x)) = "applied"
  BY DEF Outcome
<1>4. x \in recorded /\ Dispatched(x)
  BY <1>2 DEF Facts, TaskFacts
<1>5. CASE task[x].key = "resolution"
  BY <1>1, <1>3, <1>4, <1>5 DEF SettleOutcome, ResolveOutcome, IsHeld
<1>6. CASE task[x].key # "resolution"
  <2>1. task[x].rank = 2 => task[x].key = "rejection" /\ attempt[x].rejected
    BY <1>2, <1>6 DEF Facts, TaskFacts
  <2>2. task[x].rank # 2
    BY <1>1, <1>3, <1>6, <2>1 DEF SettleOutcome
  <2> QED
    BY <1>2, <1>3, <1>4, <1>6, <2>2 DEF Facts, TaskFacts
<1> QED
  BY <1>5, <1>6

\* A charge is applied: the row and the balance.
LEMMA ChargeApplies ==
    ASSUME IsFiniteSet(Requests), CInv, NEW x \in Requests, task[x].revision > 0,
           Outcome(x) = "applied", attempt' = [attempt EXCEPT ![x] = SettledAttempt(@, ChargeOf(x))],
           Commit([scope EXCEPT !.confirmed =
                      IF ChargeOf(x).key = "resolution" THEN @
                      ELSE @ + ChargeOf(x).total - attempt[x].actual]),
           UNCHANGED <<unit, plan, recorded, policy, sweep, usage>>,
           NEW t \in Task, task' = [task EXCEPT ![x] = t],
           t.revision = task[x].revision, t.rank = task[x].rank, t.key = task[x].key,
           t.applied <= t.revision
    PROVE  CInv'
<1> DEFINE charge == ChargeOf(x)
           a == SettledAttempt(attempt[x], charge)
           c == IF charge.key = "resolution" THEN scope.confirmed
                ELSE scope.confirmed + charge.total - attempt[x].actual
           s == [scope EXCEPT !.confirmed = c]
<1>1. LedgerTyped /\ TInv /\ Facts(x) /\ attempt[x] \in Attempt /\ scope.confirmed \in Int
  BY Unchanged DEF CInv, TInv
<1>2. /\ unit[x] = scope.mode /\ Dispatched(x)
      /\ \/ task[x].key = "resolution" /\ IsHeld(x)
         \/ task[x].key # "resolution" /\ task[x].rank = 3
  BY <1>1, AppliedCharge
<1>3. Cost[x][unit[x]] \in Nat
  BY <1>1, Unchanged, SwitchAssumption
<1>4. /\ charge \in Charge /\ charge.key = task[x].key /\ charge.rank = task[x].rank
      /\ task[x].rank = 3 => charge.total = Cost[x][unit[x]]
  BY <1>1, ChargeTyped
<1>5. attempt' = [attempt EXCEPT ![x] = a] /\ Commit(s)
  BY <1>1 DEF LedgerTyped
<1> HIDE DEF charge
<1>6. /\ a \in Attempt /\ a.rejected = attempt[x].rejected
      /\ a.completed = attempt[x].completed
      /\ IF charge.key = "resolution"
         THEN a.state = "released" /\ a.actual = 0 /\ a.rank = 2 /\ a.resolved
         ELSE /\ a.state = "settled" /\ a.actual = charge.total /\ a.rank = charge.rank
              /\ a.resolved = attempt[x].resolved
  BY <1>1, <1>4, SettledRow
<1>7. /\ attempt[x].rank = 3 => attempt[x].state = "settled" /\ attempt[x].actual = Cost[x][unit[x]]
      /\ attempt[x].rank # 3 => attempt[x].actual = 0 /\ (IsHeld(x) \/ Waived(x))
  BY <1>1, <1>2, DispatchedRow
<1>8. IsHeld(x) => attempt[x].rank # 3
  BY <1>7 DEF IsHeld, HeldStates
<1>9. c \in Int /\ s \in Scope /\ s.mode = scope.mode /\ s.revision = scope.revision
      /\ s.enabled = scope.enabled /\ s.confirmed = c
  <2>1. c \in Int
    BY <1>1, <1>2, <1>3, <1>4, <1>7
  <2> HIDE DEF c
  <2> QED
    BY <1>1, <2>1, Unchanged, ScopeFields
<1>10. \/ (a.rank = 3 <=> attempt[x].rank = 3) /\ s.confirmed = scope.confirmed
       \/ /\ attempt[x].rank # 3 /\ a.rank = 3 /\ (IsHeld(x) \/ Waived(x))
          /\ s.confirmed = scope.confirmed + Cost[x][scope.mode]
  <2>1. CASE task[x].key = "resolution"
    <3>1. s.confirmed = scope.confirmed
      BY <1>4, <1>9, <2>1
    <3>2. a.rank = 2 /\ attempt[x].rank # 3
      BY <1>2, <1>4, <1>6, <1>8, <2>1
    <3> HIDE DEF s, a, c
    <3> QED
      BY <3>1, <3>2
  <2>2. CASE task[x].key # "resolution" /\ attempt[x].rank = 3
    <3>1. c = scope.confirmed
      BY <1>1, <1>2, <1>3, <1>4, <1>7, <2>2
    <3>2. s.confirmed = scope.confirmed
      BY <1>9, <3>1
    <3>3. a.rank = 3
      BY <1>2, <1>4, <1>6, <2>2
    <3> HIDE DEF s, a, c
    <3> QED
      BY <2>2, <3>2, <3>3
  <2>3. CASE task[x].key # "resolution" /\ attempt[x].rank # 3
    <3>1. c = scope.confirmed + Cost[x][scope.mode]
      BY <1>1, <1>2, <1>3, <1>4, <1>7, <2>3
    <3>2. s.confirmed = scope.confirmed + Cost[x][scope.mode]
      BY <1>9, <3>1
    <3>3. a.rank = 3
      BY <1>2, <1>4, <1>6, <2>3
    <3>4. IsHeld(x) \/ Waived(x)
      BY <1>7, <2>3
    <3> HIDE DEF s, a, c
    <3> QED
      BY <2>3, <3>2, <3>3, <3>4
  <2> QED
    BY <2>1, <2>2, <2>3
<1> HIDE DEF a, s, c
<1>11. a.rank = 3 /\ Waived(x) => a.rejected \/ a.resolved
  BY <1>6, Zenon DEF Waived
<1>12. a.state \notin HeldStates \union {"upper_bound"}
  BY <1>6 DEF HeldStates
<1>13. Balance'
  BY <1>5, <1>6, <1>9, <1>10, <1>11, <1>12, RowMoves
<1>14. Facts(x)'
  <2>1. /\ attempt'[x] = a /\ plan'[x] = plan[x] /\ task'[x] = t /\ unit'[x] = unit[x]
        /\ recorded' = recorded
    BY <1>1, <1>5 DEF LedgerTyped
  <2>2. RowFacts(x)'
    <3>1. attempt[x].completed => attempt[x].rank = 3
      BY <1>1 DEF Facts, RowFacts
    <3>2. a.completed => a.rank = 3
      BY <1>2, <1>4, <1>6, <1>8, <3>1
    <3> QED
      BY <1>2, <1>4, <1>6, <2>1, <3>2 DEF RowFacts, Waived
  <2>3. TaskFacts(x)'
    <3>1. attempt[x].rejected => a.rejected
      BY <1>6
    <3>2. a.state \in {"released", "settled"}
      BY <1>6
    <3> QED
      BY <1>1, <1>2, <2>1, <3>1, <3>2 DEF Facts, TaskFacts, Dispatched
  <2>4. AppliedFacts(x)'
    <3>1. task[x].key = "resolution" => task[x].rank # 3
      BY <1>1 DEF Facts, TaskFacts
    <3>2. task[x].rank = 3 => a.rank = 3
      BY <1>2, <1>4, <1>6, <3>1
    <3> QED
      BY <1>1, <2>1, <3>2 DEF Facts, AppliedFacts, Known
  <2> QED
    BY <2>2, <2>3, <2>4 DEF Facts
<1>15. TInv'
  <2>1. PICK u \in Units : unit' = [unit EXCEPT ![x] = u]
    BY <1>1, Unchanged
  <2>2. PICK p \in PlanStates : plan' = [plan EXCEPT ![x] = p]
    BY <1>1, Unchanged
  <2>3. s \in Scope /\ s.revision = scope.revision /\ Commit(s)
    BY <1>5, <1>9
  <2>4. a \in Attempt /\ attempt' = [attempt EXCEPT ![x] = a] /\ UNCHANGED <<recorded, policy, sweep, usage>>
    BY <1>5, <1>6
  <2>5. \A m \in Scope : m.revision = scope.revision /\ Commit(m) => TInv'
    BY <1>1, <1>14, <2>1, <2>2, <2>4, RowSame
  <2> QED
    BY <2>3, <2>5
<1> QED
  BY <1>13, <1>15 DEF CInv

\* An exact charge is ignored where the row has one.
LEMMA IgnoredCharge ==
    ASSUME TInv, NEW x \in Requests, task[x].revision > 0, Outcome(x) = "ignored",
           task[x].rank = 3
    PROVE  attempt[x].rank = 3
<1>1. ChargeOf(x).key = task[x].key /\ ChargeOf(x).rank = 3
  BY ChargeTyped
<1>2. Facts(x)
  BY DEF TInv
<1>3. task[x].key # "resolution" /\ attempt[x].rank \in {0, 2, 3}
      /\ (attempt[x].completed => attempt[x].rank = 3)
  BY <1>2 DEF Facts, TaskFacts, RowFacts
<1>4. CASE unit[x] = scope.mode
  <2>1. SettleOutcome(attempt[x], ChargeOf(x)) = "ignored"
    BY <1>4 DEF Outcome
  <2>2. ChargeOf(x).rank > attempt[x].rank => attempt[x].completed
    BY <1>1, <1>3, <2>1 DEF SettleOutcome
  <2> QED
    BY <1>1, <1>3, <2>2
<1>5. CASE unit[x] # scope.mode
  BY <1>5 DEF Outcome
<1> QED
  BY <1>4, <1>5

\* A charge is applied, or repeats one that has been.
LEMMA SettleConserves ==
    ASSUME IsFiniteSet(Requests), CInv, NEW x \in Requests, Settle(x)
    PROVE  CInv'
<1>1. LedgerTyped /\ TInv /\ Balance /\ Facts(x) /\ task[x] \in Task
  BY Unchanged DEF CInv, TInv
<1>2. task[x].revision > 0 /\ Dispatched(x)
  BY <1>1 DEF Settle, Task, Facts, TaskFacts
<1>3. PICK t \in Task : /\ task' = [task EXCEPT ![x] = t]
                        /\ t.revision = task[x].revision /\ t.rank = task[x].rank
                        /\ t.key = task[x].key /\ t.applied <= t.revision
  <2>1. ChargeOf(x).revision = task[x].revision /\ ChargeOf(x).revision \in Nat
    BY <1>1 DEF ChargeOf, Task
  <2> DEFINE t == [task[x] EXCEPT !.applied = ChargeOf(x).revision]
  <2>2. /\ t \in Task /\ t.revision = task[x].revision /\ t.rank = task[x].rank
        /\ t.key = task[x].key /\ t.applied = t.revision
    BY <1>1, <2>1 DEF Task
  <2>5. task[x].applied <= task[x].revision /\ t.applied <= t.revision
    BY <1>1, <2>1, <2>2 DEF Facts, AppliedFacts, Task
  <2>3. task' = task \/ task' = [task EXCEPT ![x].applied = ChargeOf(x).revision]
    BY DEF Settle
  <2>4. task' = [task EXCEPT ![x] = task[x]] \/ task' = [task EXCEPT ![x] = t]
    BY <1>1, <2>3 DEF LedgerTyped
  <2> HIDE DEF t
  <2> QED
    BY <1>1, <2>2, <2>4, <2>5
<1>4. UNCHANGED <<unit, plan, recorded, policy, sweep, usage>>
  BY DEF Settle, sweeping
<1>5. CASE Outcome(x) = "ignored" /\ NoCommit /\ UNCHANGED attempt
  <2>1. UNCHANGED <<scope, late, attempt, sweep>> /\ \A y \in Requests : Known(y)' <=> Known(y)
    BY <1>4, <1>5 DEF NoCommit, Known
  <2>2. Balance'
    BY <1>1, <2>1, BalanceSame
  <2>3. t.rank = 3 => t.revision > 0 /\ attempt[x].rank = 3
    BY <1>1, <1>2, <1>3, <1>5, IgnoredCharge
  <2>4. usage[x] \in UsageStates /\ usage' = [usage EXCEPT ![x] = usage[x]]
    BY <1>1, <1>4 DEF LedgerTyped
  <2>5. usage[x] = "exact" => x \in recorded' /\ t.rank = 3
    BY <1>1, <1>3, <1>4 DEF Facts, AppliedFacts, Known
  <2>6. TInv'
    BY <1>1, <1>2, <1>3, <1>4, <2>1, <2>3, <2>4, <2>5, TaskMove
  <2> QED
    BY <2>2, <2>6 DEF CInv
<1>6. CASE /\ Outcome(x) = "applied"
           /\ attempt' = [attempt EXCEPT ![x] = SettledAttempt(@, ChargeOf(x))]
           /\ Commit([scope EXCEPT !.confirmed =
                         IF ChargeOf(x).key = "resolution" THEN @
                         ELSE @ + ChargeOf(x).total - attempt[x].actual])
  BY <1>2, <1>3, <1>4, <1>6, ChargeApplies
<1> QED
  BY <1>5, <1>6 DEF Settle

--------------------------------------------------------------------------
(* The sweep, and the commits of S that are not of a request. *)

\* The facts about rows do not depend on the sweep or on the scope.
LEMMA FactsSame ==
    ASSUME TInv, UNCHANGED <<attempt, unit, plan, task, recorded, usage>>, LedgerTyped', SweepTyped'
    PROVE  TInv'
BY DEF TInv, Facts, RowFacts, TaskFacts, AppliedFacts, Waived, Known, Dispatched

\* A sweep that need not have seen anything.
LEMMA SweepEnds ==
    ASSUME CInv, UNCHANGED <<scope, late, attempt, usage>>, ~ Asking', ~ Stopped'
    PROVE  Balance'
<1>1. /\ Charged' = Charged /\ (\A B \in SUBSET Requests : Misses(B) => Misses(B)')
      /\ \A c, u : Opens(c, u) => Opens(c, u)'
  BY MissesSame DEF Known
<1>2. BalanceOK' /\ LateOpens'
  BY <1>1 DEF CInv, Balance, BalanceOK, LateOpens
<1> QED
  BY <1>2 DEF Balance, StaysEnded, FrozenOK

\* Where a step leaves the sweep when it has nothing more to compare.
LEMMA Elsewhere ==
    ASSUME SweepTyped,
           \/ Stop \/ To("enable") \/ To("complete") \/ To("write")
    PROVE  SweepTyped' /\ ~ Asking' /\ ~ Stopped'
<1>1. NothingSeen \in Seen /\ NoUpdate \in Update /\ sweep.update \in Update
  BY DEF NothingSeen, OpenScope, Seen, Scope, Units, NoUpdate, Update, SweepTyped
<1>2. PICK pc \in {"idle", "enable", "complete", "write"}, u \in Update :
          sweep' = [pc |-> pc, update |-> u, seen |-> NothingSeen, plans |-> FALSE, opening |-> -1]
  <2>1. CASE Stop
    BY <1>1, <2>1 DEF Stop, Idle
  <2>2. ASSUME NEW pc \in {"enable", "complete", "write"}, To(pc)
        PROVE  sweep' = [pc |-> pc, update |-> sweep.update, seen |-> NothingSeen,
                         plans |-> FALSE, opening |-> -1]
    BY <2>2 DEF To, Idle
  <2> QED
    BY <1>1, <2>1, <2>2
<1>3. pc \in SweepPcs /\ -1 \in Int
  BY DEF SweepPcs
<1>4. SweepTyped'
  BY <1>1, <1>2, <1>3 DEF SweepTyped
<1>5. sweep'.pc \notin {"plans", "usage", "quiesce", "plans_again", "usage_again"}
      /\ sweep'.opening = -1
  BY <1>2
<1> QED
  BY <1>4, <1>5 DEF Asking, Stopped

LEMMA Lifted == ASSUME NEW wanted, LiftStop(wanted) PROVE Stop \/ To("enable")
BY DEF LiftStop

\* S is not written, and the sweep ends or has nothing more to compare.
LEMMA EndConserves ==
    ASSUME CInv, UNCHANGED <<scope, late, outside>>,
           policy' \in [revision: Nat, mode: Units, enabled: BOOLEAN, applied: Nat],
           \/ Stop \/ To("enable") \/ To("complete") \/ To("write")
    PROVE  CInv'
<1>1. TInv /\ LedgerTyped /\ SweepTyped /\ UNCHANGED <<attempt, unit, plan, task, recorded, usage>>
  BY DEF CInv, TInv, outside, pg
<1>2. SweepTyped' /\ ~ Asking' /\ ~ Stopped'
  BY <1>1, Elsewhere
<1>3. LedgerTyped'
  BY <1>1 DEF LedgerTyped
<1> QED
  BY <1>1, <1>2, <1>3, FactsSame, SweepEnds DEF CInv

\* Only the flag of S is written.
LEMMA FlagMoves ==
    ASSUME CInv, NEW e \in BOOLEAN, Commit([scope EXCEPT !.enabled = e]),
           UNCHANGED <<policy, outside>>
    PROVE  LedgerTyped' /\ BalanceOK' /\ LateOpens' /\ StaysEnded'
<1>1. LedgerTyped /\ scope \in Scope /\ UNCHANGED <<attempt, unit, plan, task, recorded, usage>>
  BY DEF CInv, TInv, LedgerTyped, outside, pg
<1>2. /\ scope' \in Scope /\ scope'.mode = scope.mode /\ scope'.revision = scope.revision
      /\ scope'.confirmed = scope.confirmed /\ late' = {}
  BY <1>1, ScopeFields DEF Commit
<1>3. LedgerTyped'
  BY <1>1, <1>2 DEF LedgerTyped
<1>4. Charged' = Charged /\ \A B : Misses(B)' <=> Misses(B)
  BY <1>1, RowsStay
<1> QED
  BY <1>2, <1>3, <1>4 DEF CInv, Balance, BalanceOK, LateOpens, StaysEnded

\* The sweep goes on with the same update, and neither S nor a row changes.
LEMMA SweepGoesOn ==
    ASSUME CInv, UNCHANGED <<scope, late, policy, outside>>, SweepTyped', StaysEnded', FrozenOK'
    PROVE  CInv'
<1>1. TInv /\ LedgerTyped /\ UNCHANGED <<attempt, unit, plan, task, recorded, usage>>
  BY DEF CInv, TInv, outside, pg
<1>2. LedgerTyped'
  BY <1>1 DEF LedgerTyped
<1>3. BalanceOK' /\ LateOpens'
  BY <1>1, RowsStay DEF CInv, Balance, BalanceOK, LateOpens
<1> QED
  BY <1>1, <1>2, <1>3, FactsSame DEF CInv, Balance

\* A new revision of the policy is not in the ledger yet.
LEMMA PolicyConserves ==
    ASSUME CInv, NEW mode \in Units, NEW enabled \in BOOLEAN, SetPolicy(mode, enabled)
    PROVE  CInv'
<1>1. /\ UNCHANGED <<scope, late, attempt, unit, plan, task, recorded, usage, sweep>>
      /\ policy' = [policy EXCEPT !.revision = @ + 1, !.mode = mode, !.enabled = enabled]
  BY DEF SetPolicy, NoCommit, pg
<1>2. policy \in [revision: Nat, mode: Units, enabled: BOOLEAN, applied: Nat]
  BY DEF CInv, TInv, LedgerTyped
<1>3. policy' \in [revision: Nat, mode: Units, enabled: BOOLEAN, applied: Nat]
  <2> DEFINE p == [policy EXCEPT !.revision = @ + 1]
             q == [p EXCEPT !.mode = mode]
             r == [q EXCEPT !.enabled = enabled]
  <2>1. p \in [revision: Nat, mode: Units, enabled: BOOLEAN, applied: Nat]
    BY <1>2
  <2>2. q \in [revision: Nat, mode: Units, enabled: BOOLEAN, applied: Nat]
    BY <2>1
  <2>3. r \in [revision: Nat, mode: Units, enabled: BOOLEAN, applied: Nat]
    BY <2>2
  <2>4. policy' = r
    BY <1>1, <1>2
  <2> QED
    BY <2>3, <2>4
<1>4. LedgerTyped' /\ SweepTyped'
  BY <1>1, <1>3 DEF CInv, TInv, LedgerTyped, SweepTyped
<1> QED
  BY <1>1, <1>4, FactsSame, BalanceSame DEF CInv, Known

\* A sweep starts.
LEMMA ListConserves ==
    ASSUME CInv, ListPolicy
    PROVE  CInv'
<1>1. policy \in [revision: Nat, mode: Units, enabled: BOOLEAN, applied: Nat]
  BY DEF CInv, TInv, LedgerTyped
<1> DEFINE u == [revision |-> policy.revision, mode |-> policy.mode, enabled |-> policy.enabled]
<1>2. u \in Update
  BY <1>1 DEF Update
<1>3. sweep' = [pc |-> "read", update |-> u, seen |-> NothingSeen, plans |-> FALSE, opening |-> -1]
  BY DEF ListPolicy, Idle
<1> HIDE DEF u
<1>4. NothingSeen \in Seen /\ "read" \in SweepPcs /\ -1 \in Int
  BY DEF NothingSeen, OpenScope, Seen, Scope, Units, SweepPcs
<1>5. SweepTyped'
  BY <1>2, <1>3, <1>4 DEF SweepTyped
<1>6. ~ Asking' /\ ~ Stopped'
  BY <1>3 DEF Asking, Stopped
<1>7. UNCHANGED <<scope, late, policy, outside>>
  BY DEF ListPolicy, NoCommit
<1> QED
  BY <1>5, <1>6, <1>7, SweepGoesOn DEF StaysEnded, FrozenOK

\* It goes on only if it sees the scope in the old unit.
LEMMA ReadConserves ==
    ASSUME CInv, ReadScope
    PROVE  CInv'
<1>1. UNCHANGED <<scope, late, policy, outside>>
  BY DEF ReadScope, NoCommit
<1>2. CASE Stop \/ To("write")
  BY <1>1, <1>2, EndConserves DEF CInv, TInv, LedgerTyped
<1>3. CASE /\ scope.mode # sweep.update.mode
           /\ sweep' = [sweep EXCEPT !.seen = Look, !.pc = PlansOrUsage(FALSE)]
  <2>1. SweepTyped /\ scope \in Scope
    BY DEF CInv, TInv, LedgerTyped
  <2>2. Look \in Seen /\ PlansOrUsage(FALSE) \in {"plans", "usage"}
    BY <2>1 DEF Look, Seen, Active, Upper, PlansOrUsage
  <2>3. /\ sweep'.pc = PlansOrUsage(FALSE) /\ sweep'.update = sweep.update
        /\ SweepTyped'
    <3> DEFINE s1 == [sweep EXCEPT !.seen = Look]
               s2 == [s1 EXCEPT !.pc = PlansOrUsage(FALSE)]
    <3>1. s1 \in [pc: SweepPcs, update: Update, seen: Seen, plans: BOOLEAN, opening: Int]
          /\ s1.update = sweep.update
      BY <2>1, <2>2 DEF SweepTyped
    <3>2. PlansOrUsage(FALSE) \in SweepPcs
      BY <2>2 DEF SweepPcs
    <3> HIDE DEF s1
    <3>3. s2 \in [pc: SweepPcs, update: Update, seen: Seen, plans: BOOLEAN, opening: Int]
          /\ s2.update = sweep.update /\ s2.pc = PlansOrUsage(FALSE)
      BY <3>1, <3>2
    <3>4. sweep' = s2
      BY <1>3, <2>1 DEF SweepTyped, s1
    <3> HIDE DEF s2
    <3> QED
      BY <3>3, <3>4 DEF SweepTyped
  <2>4. ~ Stopped' /\ scope'.mode # sweep'.update.mode
    BY <1>1, <1>3, <2>2, <2>3 DEF Stopped
  <2> QED
    BY <1>1, <2>3, <2>4, SweepGoesOn DEF StaysEnded, FrozenOK
<1> QED
  BY <1>2, <1>3 DEF ReadScope

\* Plans do not change what it has seen.
LEMMA ReadPlansConserves ==
    ASSUME CInv, ReadPlans
    PROVE  CInv'
<1>1. UNCHANGED <<scope, late, policy, outside>> /\ sweep.pc = "plans" /\ SweepTyped
  BY DEF ReadPlans, NoCommit, CInv, TInv
<1>2. /\ sweep'.pc = "usage" /\ sweep'.update = sweep.update
      /\ SweepTyped'
  <2>1. PlansPending \in BOOLEAN /\ "usage" \in SweepPcs
    BY DEF PlansPending, SweepPcs
  <2> DEFINE s1 == [sweep EXCEPT !.plans = PlansPending]
             s2 == [s1 EXCEPT !.pc = "usage"]
  <2>2. s1 \in [pc: SweepPcs, update: Update, seen: Seen, plans: BOOLEAN, opening: Int]
        /\ s1.update = sweep.update
    BY <1>1, <2>1 DEF SweepTyped
  <2> HIDE DEF s1
  <2>3. s2 \in [pc: SweepPcs, update: Update, seen: Seen, plans: BOOLEAN, opening: Int]
        /\ s2.update = sweep.update /\ s2.pc = "usage"
    BY <2>1, <2>2
  <2>4. sweep' = s2
    BY <1>1 DEF ReadPlans, SweepTyped, s1
  <2> HIDE DEF s2
  <2> QED
    BY <2>3, <2>4 DEF SweepTyped
<1>3. Asking /\ ~ Stopped'
  BY <1>1, <1>2 DEF Asking, Stopped
<1>4. StaysEnded'
  BY <1>1, <1>2, <1>3 DEF CInv, Balance, StaysEnded
<1> QED
  BY <1>1, <1>2, <1>3, <1>4, SweepGoesOn DEF FrozenOK

\* The first look, before admission stops.
LEMMA FirstConserves ==
    ASSUME CInv, FirstUsage
    PROVE  CInv'
<1>1. UNCHANGED <<scope, late, policy, outside>> /\ sweep.pc = "usage" /\ SweepTyped
  BY DEF FirstUsage, NoCommit, CInv, TInv
<1>2. CASE Stop \/ To("enable")
  BY <1>1, <1>2, EndConserves DEF CInv, TInv, LedgerTyped
<1>3. CASE To("quiesce")
  <2>1. sweep' = [pc |-> "quiesce", update |-> sweep.update, seen |-> NothingSeen,
                  plans |-> FALSE, opening |-> -1]
    BY <1>3 DEF To, Idle
  <2>2. NothingSeen \in Seen /\ sweep.update \in Update /\ "quiesce" \in SweepPcs /\ -1 \in Int
    BY <1>1 DEF NothingSeen, OpenScope, Seen, Scope, Units, SweepTyped, SweepPcs
  <2>3. SweepTyped'
    BY <2>1, <2>2 DEF SweepTyped
  <2>4. Asking /\ ~ Stopped' /\ sweep'.update = sweep.update
    BY <1>1, <2>1 DEF Asking, Stopped
  <2>5. StaysEnded'
    BY <1>1, <2>4 DEF CInv, Balance, StaysEnded
  <2> QED
    BY <1>1, <2>3, <2>4, <2>5, SweepGoesOn DEF FrozenOK
<1> QED
  BY <1>2, <1>3 DEF FirstUsage, LiftStop

\* One call of quiesce_budget_scope, and where the sweep stops looking.
LEMMA QuiescedEnds ==
    ASSUME CInv, NEW e \in BOOLEAN, NEW r, Quiesced(e, r), UNCHANGED <<policy, outside>>,
           Stop \/ To("enable")
    PROVE  CInv'
<1>1. CASE NoCommit
  BY <1>1, EndConserves DEF NoCommit, CInv, TInv, LedgerTyped
<1>2. CASE Commit([scope EXCEPT !.enabled = e])
  <2>1. LedgerTyped' /\ BalanceOK' /\ LateOpens' /\ StaysEnded'
    BY <1>2, FlagMoves
  <2>2. SweepTyped' /\ ~ Stopped'
    BY Elsewhere DEF CInv, TInv
  <2>3. TInv'
    BY <2>1, <2>2, FactsSame DEF CInv, outside, pg
  <2> QED
    BY <2>1, <2>2, <2>3 DEF CInv, Balance, FrozenOK
<1> QED
  BY <1>1, <1>2 DEF Quiesced

\* Admission stops: from here the sweep's row is that of a frozen scope.
LEMMA QuiesceConserves ==
    ASSUME CInv, Quiesce
    PROVE  CInv'
<1>1. PICK r \in {scope, [scope EXCEPT !.enabled = FALSE]} :
          /\ Quiesced(FALSE, r)
          /\ IF r.revision >= sweep.update.revision THEN Stop
             ELSE IF ~ Settled THEN LiftStop(Upper /\ ~ Active /\ sweep.update.enabled)
             ELSE sweep' = [sweep EXCEPT !.pc = PlansOrUsage(TRUE),
                               !.seen = [row |-> r, active |-> FALSE, upper |-> FALSE]]
  BY DEF Quiesce
<1>2. UNCHANGED <<policy, outside>> /\ sweep.pc = "quiesce"
  BY DEF Quiesce
<1>3. CASE Stop \/ To("enable")
  BY <1>1, <1>2, <1>3, QuiescedEnds
<1>4. CASE /\ ~ r.revision >= sweep.update.revision /\ Settled
           /\ sweep' = [sweep EXCEPT !.pc = PlansOrUsage(TRUE),
                           !.seen = [row |-> r, active |-> FALSE, upper |-> FALSE]]
  <2>1. scope \in Scope /\ SweepTyped /\ TInv /\ Asking
    BY <1>2 DEF CInv, TInv, LedgerTyped, Asking
  <2>2. /\ r \in Scope /\ r.mode = scope.mode /\ r.revision = scope.revision
        /\ r.confirmed = scope.confirmed
    <3>1. CASE r = [scope EXCEPT !.enabled = FALSE]
      <4>1. LET t == [scope EXCEPT !.enabled = FALSE]
            IN  /\ t \in Scope /\ t.mode = scope.mode /\ t.revision = scope.revision
                /\ t.confirmed = scope.confirmed
        BY <2>1, ScopeFields
      <4> QED
        BY <3>1, <4>1
    <3> QED
      BY <2>1, <3>1
  <2>3. /\ PlansOrUsage(TRUE) \in {"plans_again", "usage_again"}
        /\ [row |-> r, active |-> FALSE, upper |-> FALSE] \in Seen
    BY <2>2 DEF PlansOrUsage, Seen
  <2>4. /\ sweep'.pc = PlansOrUsage(TRUE) /\ sweep'.update = sweep.update
        /\ sweep'.seen.row = r /\ SweepTyped'
    <3> DEFINE v == [row |-> r, active |-> FALSE, upper |-> FALSE]
               s1 == [sweep EXCEPT !.pc = PlansOrUsage(TRUE)]
               s2 == [s1 EXCEPT !.seen = v]
    <3>1. PlansOrUsage(TRUE) \in SweepPcs /\ v \in Seen /\ v.row = r
      BY <2>3 DEF SweepPcs
    <3>2. sweep' = [sweep EXCEPT !.pc = PlansOrUsage(TRUE), !.seen = v]
      BY <1>4
    <3> HIDE DEF v
    <3>3. s1 \in [pc: SweepPcs, update: Update, seen: Seen, plans: BOOLEAN, opening: Int]
          /\ s1.update = sweep.update /\ s1.pc = PlansOrUsage(TRUE)
      BY <2>1, <3>1 DEF SweepTyped
    <3>4. sweep' = s2
      BY <2>1, <3>2 DEF SweepTyped
    <3> HIDE DEF s1
    <3>5. s2 \in [pc: SweepPcs, update: Update, seen: Seen, plans: BOOLEAN, opening: Int]
          /\ s2.update = sweep.update /\ s2.pc = PlansOrUsage(TRUE) /\ s2.seen = v
      BY <3>1, <3>3
    <3> HIDE DEF s2
    <3> QED
      BY <3>1, <3>4, <3>5 DEF SweepTyped
  <2>5. Stopped' /\ ~ Asking' /\ sweep'.pc # "write"
    BY <2>3, <2>4 DEF Stopped, Asking
  <2>6. /\ ~ scope'.enabled /\ scope'.mode = scope.mode
        /\ LedgerTyped' /\ BalanceOK' /\ LateOpens'
        /\ scope'.mode = sweep'.update.mode => \A s \in late' : s.mode = sweep'.update.mode
    <3>1. CASE NoCommit
      <4>1. ~ scope.enabled /\ UNCHANGED <<scope, late>>
        <5>1. scope.revision \in Nat /\ sweep.update.revision \in Nat /\ scope.enabled \in BOOLEAN
          BY <2>1 DEF Scope, SweepTyped, Update
        <5>2. CASE scope.enabled = FALSE
          BY <5>2, <3>1 DEF NoCommit
        <5>3. CASE scope.enabled = TRUE
          <6>1. Commit([scope EXCEPT !.enabled = FALSE])
            BY <1>1, <1>4, <2>2, <5>1, <5>3 DEF Quiesced
          <6>2. scope' = [scope EXCEPT !.enabled = FALSE] /\ scope' = scope
            BY <3>1, <6>1 DEF Commit, NoCommit
          <6>3. [scope EXCEPT !.enabled = FALSE].enabled = FALSE
            BY <2>1, ScopeFields
          <6> QED
            BY <5>3, <6>2, <6>3
        <5> QED
          BY <5>1, <5>2, <5>3
      <4>2. LedgerTyped'
        BY <1>2, <4>1 DEF CInv, TInv, LedgerTyped, outside, pg
      <4>3. BalanceOK' /\ LateOpens'
        BY <1>2, <4>1, RowsStay DEF CInv, Balance, BalanceOK, LateOpens, outside, pg
      <4> QED
        BY <2>1, <2>4, <4>1, <4>2, <4>3 DEF CInv, Balance, StaysEnded
    <3>2. CASE Commit([scope EXCEPT !.enabled = FALSE])
      <4>1. LedgerTyped' /\ BalanceOK' /\ LateOpens'
        BY <1>2, <3>2, FlagMoves
      <4>2. scope' = [scope EXCEPT !.enabled = FALSE] /\ late' = {}
        BY <3>2 DEF Commit
      <4> QED
        BY <2>1, <4>1, <4>2, ScopeFields
    <3> QED
      BY <1>1, <3>1, <3>2 DEF Quiesced
  <2>7. StaysEnded'
    BY <2>5, <2>6 DEF StaysEnded, Frozen
  <2>8. Settled' /\ Charged' = Charged /\ \A B : Misses(B)' <=> Misses(B)
    BY <1>2, <1>4, RowsStay DEF outside, pg
  <2>9. Opens(sweep.seen.row.confirmed, scope.mode)'
    BY <2>2, <2>4, <2>6, <2>8 DEF CInv, Balance, BalanceOK, Opens
  <2>10. FrozenOK'
    BY <2>2, <2>4, <2>5, <2>6, <2>8, <2>9 DEF FrozenOK, Opens
  <2>11. TInv'
    BY <1>2, <2>1, <2>4, <2>6, FactsSame DEF outside, pg
  <2> QED
    BY <2>6, <2>7, <2>10, <2>11 DEF CInv, Balance
<1> QED
  BY <1>1, <1>3, <1>4, Lifted

\* Plans do not change what it has seen of a frozen scope.
LEMMA AgainConserves ==
    ASSUME CInv, ReadPlansAgain
    PROVE  CInv'
<1>1. UNCHANGED <<scope, late, policy, outside>> /\ sweep.pc = "plans_again" /\ SweepTyped
  BY DEF ReadPlansAgain, NoCommit, CInv, TInv
<1>2. CASE Stop \/ To("enable")
  BY <1>1, <1>2, EndConserves DEF CInv, TInv, LedgerTyped
<1>3. CASE sweep' = [sweep EXCEPT !.pc = "usage_again"]
  <2>1. /\ sweep'.pc = "usage_again" /\ sweep'.update = sweep.update
        /\ sweep'.seen = sweep.seen /\ SweepTyped'
    BY <1>1, <1>3 DEF SweepTyped, SweepPcs
  <2>2. Stopped /\ Stopped' /\ ~ Asking' /\ (Frozen' <=> Frozen)
    BY <1>1, <2>1 DEF Stopped, Asking, Frozen
  <2>3. StaysEnded'
    BY <1>1, <2>1, <2>2 DEF CInv, Balance, StaysEnded
  <2>4. Settled' <=> Settled
    BY <1>1 DEF outside, Settled, Active, Upper
  <2>5. \A c, u : Opens(c, u)' <=> Opens(c, u)
    BY <1>1, RowsStay DEF outside, pg
  <2>6. FrozenOK
    BY DEF CInv, Balance
  <2>7. FrozenOK'
    <3>1. scope' = scope
      BY <1>1
    <3>2. Opens(sweep.seen.row.confirmed, scope.mode)'
          <=> Opens(sweep.seen.row.confirmed, scope.mode)
      BY <2>1, <2>5, <3>1 DEF Opens
    <3> QED
      BY <1>1, <2>1, <2>2, <2>4, <2>6, <3>1, <3>2 DEF FrozenOK
  <2> QED
    BY <1>1, <2>1, <2>3, <2>7, SweepGoesOn
<1> QED
  BY <1>2, <1>3 DEF ReadPlansAgain, LiftStop

\* When all that PostgreSQL knows of is settled and its total is the ledger's,
\* the requests whose usage it has make up a balance of the same kind: those
\* that only the ledger has counted are outweighed by those it has not.
LEMMA SameTotal ==
    ASSUME IsFiniteSet(Requests), TInv, UsageKnown(sweep.update), NEW u \in Units,
           NEW U, U = {x \in Requests : usage[x] = "exact"},
           NEW B \in SUBSET Requests, Misses(B), CostOf(U, u) = CostOf(B, u)
    PROVE  Misses(U)
<1>1. U \in SUBSET Requests /\ \A x \in Requests : x \in U <=> Known(x)
  BY DEF Known
<1>2. ASSUME NEW x \in U PROVE x \in Charged
  <2>1. Facts(x) /\ task[x] \in Task /\ Known(x) /\ x \in Requests
    BY <1>1 DEF TInv, LedgerTyped
  <2>2. x \in recorded /\ task[x].rank = 3 /\ task[x].applied <= task[x].revision
        /\ (task[x].applied = task[x].revision => attempt[x].rank = 3)
    BY <2>1 DEF Facts, AppliedFacts
  <2>3. ~ task[x].applied < task[x].revision
    BY <2>2 DEF UsageKnown, AwaitsEvidence
  <2>4. task[x].applied \in Nat /\ task[x].revision \in Nat
    BY <2>1 DEF Task
  <2> QED
    BY <2>1, <2>2, <2>3, <2>4 DEF Charged
<1>3. /\ CostOf(U \ B, u) = CostOf(B \ U, u)
      /\ B \ U # {} => U \ B # {}
  BY <1>1, CostOfDifference
<1>4. Overtakes(B) => Overtakes(U)
  BY <1>1 DEF Overtakes
<1>5. B \subseteq Charged
  BY DEF Misses
<1>6. ASSUME NEW x \in Charged \ U
      PROVE  Waived(x) \/ (Overtakes(U) /\ Outweighed(x, U))
  <2>1. CASE x \in B
    <3>1. PICK y \in U \ B : TRUE
      BY <1>3, <1>6, <2>1
    <3>2. Known(y) /\ y \in Charged \ B
      BY <1>1, <1>2, <3>1
    <3>3. Overtakes(U)
      BY <1>4, <3>1, <3>2 DEF Misses, Overtakes
    <3> DEFINE lost == B \ U
               known == U \ B
    <3>4. /\ lost \in SUBSET Charged /\ known \in SUBSET U
          /\ x \in lost /\ lost \cap known = {} /\ \A z \in known : Known(z)
          /\ CostOf(lost, u) = CostOf(known, u)
      BY <1>1, <1>3, <1>5, <1>6, <2>1
    <3> HIDE DEF lost, known
    <3> QED
      BY <3>3, <3>4 DEF Outweighed
  <2>2. CASE x \notin B
    <3>1. Waived(x) \/ (Overtakes(B) /\ Outweighed(x, B))
      BY <1>6, <2>2 DEF Misses
    <3>2. Outweighed(x, B) => Outweighed(x, U)
      <4> SUFFICES ASSUME Outweighed(x, B) PROVE Outweighed(x, U)
        OBVIOUS
      <4>1. PICK v \in Units, lost \in SUBSET Charged, known \in SUBSET B :
                /\ x \in lost /\ lost \cap known = {}
                /\ \A y \in known : Known(y)
                /\ CostOf(lost, v) = CostOf(known, v)
        BY DEF Outweighed
      <4>2. known \in SUBSET U
        BY <1>1, <4>1
      <4> QED
        BY <4>1, <4>2 DEF Outweighed
    <3> QED
      BY <1>4, <3>1, <3>2
  <2> QED
    BY <2>1, <2>2
<1> QED
  BY <1>2, <1>6 DEF Misses

\* Where the source totals agree, the total of what PostgreSQL knows opens the
\* balance in the other unit.
LEMMA SecondConserves ==
    ASSUME IsFiniteSet(Requests), CInv, SecondUsage
    PROVE  CInv'
<1>1. UNCHANGED <<scope, late, policy, outside>> /\ sweep.pc = "usage_again" /\ SweepTyped
      /\ scope \in Scope
  BY DEF SecondUsage, NoCommit, CInv, TInv, LedgerTyped
<1>2. CASE Stop \/ To("enable")
  BY <1>1, <1>2, EndConserves DEF CInv, TInv, LedgerTyped
<1>3. CASE /\ SecondAgrees
           /\ sweep' = [Idle EXCEPT !.pc = "write", !.update = sweep.update,
                                    !.opening = Total(sweep.update.mode)]
  <2> DEFINE U == {x \in Requests : usage[x] = "exact"}
             opening == Total(sweep.update.mode)
  <2>1. \A u : Total(u) = CostOf(U, u)
    BY DEF Total
  <2>2. U \in SUBSET Requests
    OBVIOUS
  <2>3. sweep.update.mode \in Units /\ scope.mode \in Units
    BY <1>1 DEF SweepTyped, Update, Scope
  <2> HIDE DEF U
  <2>4. opening \in Int
    BY <2>1, <2>2, <2>3, CostOfType
  <2> HIDE DEF opening
  <2>5. sweep' = [pc |-> "write", update |-> sweep.update, seen |-> NothingSeen,
                  plans |-> FALSE, opening |-> opening]
    BY <1>3 DEF Idle, opening
  <2>6. NothingSeen \in Seen /\ sweep.update \in Update /\ "write" \in SweepPcs
    BY <1>1 DEF NothingSeen, OpenScope, Seen, Scope, Units, SweepTyped, SweepPcs
  <2>7. SweepTyped'
    BY <2>4, <2>5, <2>6 DEF SweepTyped
  <2>8. /\ Stopped /\ ~ Asking' /\ (Frozen' <=> Frozen)
        /\ sweep'.pc = "write" /\ sweep'.update = sweep.update /\ sweep'.opening = opening
    BY <1>1, <2>5 DEF Stopped, Asking, Frozen
  <2>9. StaysEnded'
    BY <1>1, <2>8 DEF CInv, Balance, StaysEnded
  <2>10. ASSUME Frozen
         PROVE  Settled /\ Opens(opening, sweep.update.mode)
    <3>1. /\ Settled /\ sweep.seen.row.mode = scope.mode
          /\ Opens(sweep.seen.row.confirmed, scope.mode)
      BY <1>1, <2>8, <2>10 DEF CInv, Balance, FrozenOK
    <3>2. PICK B \in SUBSET Requests :
              Misses(B) /\ sweep.seen.row.confirmed = CostOf(B, scope.mode)
      BY <3>1 DEF Opens
    <3>3. Total(scope.mode) = sweep.seen.row.confirmed
      BY <1>3, <3>1 DEF SecondAgrees, SourceAgrees
    <3>4. CostOf(U, scope.mode) = CostOf(B, scope.mode)
      BY <2>1, <3>2, <3>3
    <3>5. Misses(U)
      <4>1. TInv /\ UsageKnown(sweep.update)
        BY <1>3 DEF CInv, SecondAgrees
      <4>2. U = {x \in Requests : usage[x] = "exact"}
        BY DEF U
      <4> QED
        BY <2>3, <3>2, <3>4, <4>1, <4>2, SameTotal
    <3>6. opening = CostOf(U, sweep.update.mode)
      BY <2>1 DEF opening
    <3> QED
      BY <2>2, <3>1, <3>5, <3>6 DEF Opens
  <2>11. Settled' <=> Settled
    BY <1>1 DEF outside, Settled, Active, Upper
  <2>12. ASSUME Frozen
         PROVE  Opens(sweep.opening, sweep.update.mode)'
    BY <1>1, <2>8, <2>10, <2>12, RowsStay DEF outside, pg, Opens
  <2>13. FrozenOK'
    BY <2>8, <2>10, <2>11, <2>12 DEF FrozenOK
  <2> QED
    BY <1>1, <2>7, <2>9, <2>13, SweepGoesOn
<1> QED
  BY <1>2, <1>3 DEF SecondUsage, LiftStop

\* The stop is lifted.
LEMMA EnableConserves ==
    ASSUME CInv, Enable
    PROVE  CInv'
BY QuiescedEnds DEF Enable

\* A row the sweep may write: of the policy's revision, with the balance kept
\* or, in the other unit, opened.
LEMMA WrittenRow ==
    ASSUME CInv, sweep.pc = "write", scope.revision < sweep.update.revision,
           scope.mode # sweep.update.mode => MaySwitch
    PROVE  /\ Written \in Scope /\ Written.mode = sweep.update.mode
           /\ Written.revision > scope.revision /\ Written.revision > 1
           /\ IF Written.mode = scope.mode THEN Written.confirmed = scope.confirmed
              ELSE Opens(Written.confirmed, Written.mode)
<1>1. /\ scope \in Scope /\ scope.revision > 0 /\ sweep.update \in Update /\ sweep.opening \in Int
  BY DEF CInv, TInv, LedgerTyped, SweepTyped
<1>2. /\ Written.mode = sweep.update.mode /\ Written.revision = sweep.update.revision
      /\ Written.confirmed = IF scope.mode = sweep.update.mode THEN scope.confirmed
                             ELSE sweep.opening
      /\ Written \in Scope
  BY <1>1 DEF Written, Scope, Update
<1>3. scope.revision \in Nat /\ sweep.update.revision \in Nat
  BY <1>1 DEF Scope, Update
<1>4. ASSUME scope.mode # sweep.update.mode
      PROVE  Opens(sweep.opening, sweep.update.mode)
  BY <1>4 DEF MaySwitch, CInv, Balance, FrozenOK, Stopped, Frozen
<1> QED
  BY <1>1, <1>2, <1>3, <1>4

\* The policy is written, with the opening balance when the unit changes.
LEMMA WriteConserves ==
    ASSUME CInv, WritePolicy
    PROVE  CInv'
<1>1. UNCHANGED <<policy, outside>> /\ sweep.pc = "write"
  BY DEF WritePolicy
<1>2. CASE NoCommit
  BY <1>1, <1>2, EndConserves DEF WritePolicy, NoCommit, CInv, TInv, LedgerTyped
<1>3. CASE /\ scope.revision < sweep.update.revision
           /\ scope.mode # sweep.update.mode => MaySwitch
           /\ Commit(Written) /\ To("complete")
  <2> DEFINE s == Written
  <2>1. /\ s \in Scope /\ s.revision > scope.revision /\ s.revision > 1
        /\ IF s.mode = scope.mode THEN s.confirmed = scope.confirmed
           ELSE Opens(s.confirmed, s.mode)
    BY <1>1, <1>3, WrittenRow
  <2> HIDE DEF s
  <2>2. scope' = s /\ late' = {}
    BY <1>3 DEF Commit, s
  <2>3. LedgerTyped /\ UNCHANGED <<attempt, unit, plan, task, recorded, usage>>
    BY <1>1 DEF CInv, TInv, outside, pg
  <2>4. LedgerTyped'
    <3>1. s.revision > 0
      BY <2>1 DEF Scope
    <3> QED
      BY <1>1, <2>1, <2>2, <2>3, <3>1 DEF LedgerTyped
  <2>5. SweepTyped' /\ ~ Asking' /\ ~ Stopped'
    BY <1>3, Elsewhere DEF CInv, TInv
  <2>6. LateOpens' /\ StaysEnded' /\ FrozenOK'
    BY <2>2, <2>5 DEF LateOpens, StaysEnded, FrozenOK
  <2>7. \E B \in SUBSET Requests : Misses(B) /\ s.confirmed = CostOf(B, s.mode)
    BY <2>1 DEF Opens, CInv, Balance, BalanceOK
  <2>8. \A B : Misses(B)' <=> Misses(B)
    BY <2>3, RowsStay
  <2>9. BalanceOK'
    BY <2>1, <2>2, <2>7, <2>8 DEF BalanceOK
  <2>10. TInv'
    BY <2>3, <2>4, <2>5, FactsSame DEF CInv
  <2> QED
    BY <2>6, <2>9, <2>10 DEF CInv, Balance
<1> QED
  BY <1>2, <1>3 DEF WritePolicy

\* The sweep ends.
LEMMA EndsConserve ==
    ASSUME CInv, CompletePolicy \/ Fail
    PROVE  CInv'
<1>1. UNCHANGED <<scope, late, outside>> /\ Stop
  BY DEF CompletePolicy, Fail, NoCommit
<1>2. policy \in [revision: Nat, mode: Units, enabled: BOOLEAN, applied: Nat]
      /\ sweep.update.revision \in Nat
  BY DEF CInv, TInv, LedgerTyped, SweepTyped, Update
<1>3. policy' \in [revision: Nat, mode: Units, enabled: BOOLEAN, applied: Nat]
  BY <1>2 DEF CompletePolicy, Fail
<1> QED
  BY <1>1, <1>3, EndConserves

\* A commit joins the late ones: the stop, its lifting or the policy.
LEMMA TimeoutConserves ==
    ASSUME CInv, Timeout
    PROVE  CInv'
<1>1. UNCHANGED <<scope, sweep, policy, attempt, unit, plan, task, recorded, usage>>
      /\ scope \in Scope /\ LedgerTyped
  BY DEF Timeout, outside, pg, CInv, TInv, LedgerTyped
<1>2. PICK s \in Scope :
          /\ late' = late \union {s} /\ s.revision >= scope.revision
          /\ IF s.mode = scope.mode THEN s.confirmed = scope.confirmed
             ELSE s.revision > 1 /\ Opens(s.confirmed, s.mode)
          /\ \/ Asking /\ s.mode = scope.mode
             \/ sweep.pc = "enable"
             \/ sweep.pc = "write" /\ s.mode = sweep.update.mode
  <2>1. CASE /\ sweep.pc \in {"quiesce", "enable"}
             /\ late' = late \union {[scope EXCEPT !.enabled = (sweep.pc = "enable")]}
    <3>1. PICK e \in BOOLEAN : e = (sweep.pc = "enable")
      OBVIOUS
    <3> DEFINE s == [scope EXCEPT !.enabled = e]
    <3>2. /\ s \in Scope /\ s.mode = scope.mode /\ s.revision = scope.revision
          /\ s.confirmed = scope.confirmed
      BY <1>1, ScopeFields
    <3>3. late' = late \union {s} /\ scope.revision \in Nat
      BY <1>1, <2>1, <3>1 DEF Scope
    <3> HIDE DEF s
    <3> QED
      BY <2>1, <3>2, <3>3 DEF Asking
  <2>2. CASE /\ sweep.pc = "write" /\ scope.revision < sweep.update.revision
             /\ scope.mode # sweep.update.mode => MaySwitch
             /\ late' = late \union {Written}
    <3> DEFINE s == Written
    <3>1. /\ s \in Scope /\ s.revision > scope.revision /\ s.revision > 1
          /\ s.mode = sweep.update.mode
          /\ IF s.mode = scope.mode THEN s.confirmed = scope.confirmed
             ELSE Opens(s.confirmed, s.mode)
      BY <2>2, WrittenRow
    <3>2. late' = late \union {s}
      BY <2>2
    <3>3. s.revision \in Nat /\ scope.revision \in Nat
      BY <1>1, <3>1 DEF Scope
    <3> HIDE DEF s
    <3> QED
      BY <2>2, <3>1, <3>2, <3>3
  <2> QED
    BY <2>1, <2>2 DEF Timeout
<1>3. LedgerTyped'
  BY <1>1, <1>2 DEF LedgerTyped
<1>4. \A c, u : Opens(c, u) <=> Opens(c, u)'
  BY <1>1, RowsStay
<1>5. LateOpens'
  <2> SUFFICES ASSUME NEW m \in late'
               PROVE  /\ m.revision >= scope.revision
                      /\ m.mode = scope.mode => m.confirmed = scope.confirmed
                      /\ m.mode # scope.mode => m.revision > 1 /\ Opens(m.confirmed, m.mode)'
    BY <1>1 DEF LateOpens
  <2>1. CASE m \in late
    BY <1>4, <2>1 DEF CInv, Balance, LateOpens
  <2>2. CASE m = s
    BY <1>2, <1>4, <2>2
  <2> QED
    BY <1>2, <2>1, <2>2
<1>6. StaysEnded'
  <2>1. (Asking' <=> Asking) /\ (Stopped' <=> Stopped) /\ (Frozen' <=> Frozen)
    BY <1>1 DEF Asking, Stopped, Frozen
  <2>2. sweep.pc = "enable" => ~ Asking /\ ~ Stopped
    BY DEF Asking, Stopped
  <2>3. sweep.pc = "write" => ~ Asking
    BY DEF Asking
  <2>4. Asking => ~ Stopped
    BY DEF Asking, Stopped
  <2> QED
    BY <1>1, <1>2, <2>1, <2>2, <2>3, <2>4 DEF CInv, Balance, StaysEnded
<1>7. BalanceOK' /\ FrozenOK'
  <2>1. BalanceOK'
    BY <1>1, RowsStay DEF CInv, Balance, BalanceOK
  <2>2. FrozenOK'
    BY <1>1, RowsStay DEF CInv, Balance, FrozenOK, Stopped, Frozen
  <2> QED
    BY <2>1, <2>2
<1>8. TInv'
  BY <1>1, <1>3, FactsSame DEF CInv, TInv, SweepTyped
<1> QED
  BY <1>5, <1>6, <1>7, <1>8 DEF CInv, Balance

\* A late commit lands; it has not brought back what the sweep has seen end.
LEMMA LandConserves ==
    ASSUME CInv, NEW s \in late, Land(s)
    PROVE  CInv'
<1>1. UNCHANGED <<sweep, policy, attempt, unit, plan, task, recorded, usage>>
      /\ scope' = s /\ late' = {} /\ LedgerTyped
  BY DEF Land, outside, pg, Commit, CInv, TInv
<1>2. /\ s \in Scope /\ scope \in Scope /\ scope.revision > 0 /\ s.revision >= scope.revision
      /\ s.mode = scope.mode => s.confirmed = scope.confirmed
      /\ s.mode # scope.mode => s.revision > 1 /\ Opens(s.confirmed, s.mode)
  BY <1>1 DEF CInv, Balance, LateOpens, LedgerTyped
<1>3. /\ s.mode \in Units /\ scope.mode \in Units
      /\ s.revision > 0 /\ (scope.revision > 1 => s.revision > 1)
  BY <1>2 DEF Scope
<1>4. LedgerTyped'
  BY <1>1, <1>2, <1>3 DEF LedgerTyped
<1>5. /\ Charged' = Charged /\ (Settled' <=> Settled)
      /\ (\A B : Misses(B)' <=> Misses(B)) /\ (\A c, u : Opens(c, u) <=> Opens(c, u)')
  BY <1>1, RowsStay
<1>6. BalanceOK'
  <2>1. CASE s.mode = scope.mode
    BY <1>1, <1>2, <1>3, <1>5, <2>1 DEF CInv, Balance, BalanceOK
  <2>2. CASE s.mode # scope.mode
    BY <1>1, <1>2, <1>5, <2>2 DEF Opens, BalanceOK
  <2> QED
    BY <2>1, <2>2
<1>7. LateOpens' /\ StaysEnded'
  BY <1>1 DEF LateOpens, StaysEnded
<1>8. FrozenOK'
  <2> SUFFICES ASSUME Stopped, ~ s.enabled, s.mode # sweep.update.mode
               PROVE  /\ Settled
                      /\ IF sweep.pc = "write" THEN Opens(sweep.opening, sweep.update.mode)
                         ELSE /\ sweep.seen.row.mode = s.mode
                              /\ Opens(sweep.seen.row.confirmed, s.mode)
    <3>1. \A c, u : Opens(c, u) => Opens(c, u)'
      BY <1>5
    <3> QED
      BY <1>1, <1>5, <3>1 DEF FrozenOK, Stopped, Frozen
  <2>1. Frozen
    BY DEF CInv, Balance, StaysEnded
  <2>2. sweep.update.mode \in Units
    BY DEF CInv, TInv, SweepTyped, Update
  <2>3. s.mode = scope.mode
    BY <1>3, <2>1, <2>2 DEF Frozen, Units
  <2> QED
    BY <2>1, <2>3 DEF CInv, Balance, FrozenOK
<1>9. TInv'
  BY <1>1, <1>4, FactsSame DEF CInv, TInv, SweepTyped
<1> QED
  BY <1>6, <1>7, <1>8, <1>9 DEF CInv, Balance

--------------------------------------------------------------------------
(* The whole invariant. *)

LEMMA NoTaskTyped == NoTask \in Task
BY DEF NoTask, Task, EvidenceKeys

LEMMA IdleTyped == Idle \in [pc: SweepPcs, update: Update, seen: Seen, plans: BOOLEAN, opening: Int]
<1>1. OpenScope \in Scope /\ NoUpdate \in Update
  BY DEF OpenScope, Scope, NoUpdate, Update, Units
<1>2. NothingSeen \in Seen
  BY <1>1 DEF NothingSeen, Seen
<1> QED
  BY <1>1, <1>2 DEF Idle, SweepPcs

LEMMA InitConserves == Init => CInv
<1> SUFFICES ASSUME Init PROVE CInv
  OBVIOUS
<1>1. OpenScope \in Scope /\ OpenScope.revision = 1 /\ OpenScope.confirmed = 0
      /\ "tokens" \in Units /\ NoAttempt \in Attempt
  BY DEF OpenScope, Scope, Units, NoAttempt, Attempt, AttemptStates, EvidenceKeys
<1>2. LedgerTyped
  BY <1>1, NoTaskTyped DEF Init, LedgerTyped, PlanStates, UsageStates
<1>3. SweepTyped /\ sweep.pc = "idle"
  BY IdleTyped DEF Init, SweepTyped, Idle
<1>4. ASSUME NEW x \in Requests
      PROVE  Facts(x)
  BY DEF Init, Facts, RowFacts, TaskFacts, AppliedFacts, Known, Dispatched, NoAttempt, NoTask
<1>5. Charged = {}
  BY DEF Init, Charged, NoAttempt
<1>6. BalanceOK
  <2>1. Misses({}) /\ scope.confirmed = CostOf({}, scope.mode)
    BY <1>1, <1>5, CostOfNone DEF Init, Misses
  <2> QED
    BY <1>5, <2>1 DEF BalanceOK
<1>7. LateOpens /\ StaysEnded /\ FrozenOK
  BY <1>3 DEF Init, LateOpens, StaysEnded, FrozenOK, Asking, Stopped
<1> QED
  BY <1>2, <1>3, <1>4, <1>6, <1>7 DEF CInv, TInv, Balance

LEMMA NextConserves ==
    ASSUME IsFiniteSet(Requests), CInv, [Next]_vars
    PROVE  CInv'
<1>1. ASSUME NEW x \in Requests,
             \/ Begin(x) \/ Authorize(x) \/ Register(x) \/ UsageEvent(x)
             \/ CollectCompletion(x) \/ Approve(x)
      PROVE  CInv'
  <2>1. /\ TInv' /\ UNCHANGED <<scope, late, attempt, sweep>>
        /\ \A y \in Requests : Known(y) => Known(y)'
    BY <1>1, PlanSteps, EvidenceSteps DEF CInv, Known
  <2> QED
    BY <2>1, BalanceSame DEF CInv
<1>2. ASSUME NEW x \in Requests,
             Admit(x) \/ Cancel(x) \/ GatewayCompletes(x) \/ Finalize(x) \/ Settle(x)
      PROVE  CInv'
  BY <1>2, AdmitConserves, CancelConserves, GatewayConserves, FinalizeConserves, SettleConserves
<1>3. CASE \E mode \in Units, enabled \in BOOLEAN : SetPolicy(mode, enabled)
  BY <1>3, PolicyConserves
<1>4. CASE Sweep
  BY <1>4, ListConserves, ReadConserves, ReadPlansConserves, FirstConserves, QuiesceConserves,
     AgainConserves, SecondConserves, EnableConserves, WriteConserves, EndsConserve DEF Sweep
<1>5. CASE Timeout \/ Fail
  BY <1>5, TimeoutConserves, EndsConserve
<1>6. CASE \E s \in late : Land(s)
  BY <1>6, LandConserves
<1>7. CASE UNCHANGED vars
  <2>1. UNCHANGED <<scope, late, attempt, unit, plan, task, recorded, usage, policy, sweep>>
    BY <1>7 DEF vars, pg
  <2>2. LedgerTyped' /\ SweepTyped'
    BY <2>1 DEF CInv, TInv, LedgerTyped, SweepTyped
  <2> QED
    BY <2>1, <2>2, FactsSame, BalanceSame DEF CInv, Known
<1> QED
  BY <1>1, <1>2, <1>3, <1>4, <1>5, <1>6, <1>7 DEF Next

LEMMA BalanceConserves == CInv => Conserved
<1> SUFFICES ASSUME CInv PROVE Conserved
  OBVIOUS
<1>1. PICK B \in SUBSET Requests :
          /\ Misses(B) /\ scope.confirmed = CostOf(B, scope.mode)
          /\ B = Charged \/ scope.revision > 1
  BY DEF CInv, Balance, BalanceOK
<1>2. B \in SUBSET Charged
  BY <1>1 DEF Misses
<1>3. ASSUME NEW x \in Charged \ B
      PROVE  x \in Overtaken \/ Replaced(x, B)
  <2>1. scope.revision > 1 /\ x \in Requests
    BY <1>1, <1>3 DEF Charged
  <2>2. \A y \in Requests : Waived(y) => y \in Overtaken
    BY <2>1 DEF Waived, Overtaken
  <2>3. CASE Waived(x)
    BY <2>1, <2>2, <2>3
  <2>4. CASE Overtakes(B) /\ Outweighed(x, B)
    <3>1. \E y \in B \cap Overtaken : usage[y] = "exact"
      BY <2>2, <2>4 DEF Overtakes, Known
    <3> QED
      BY <2>4, <3>1 DEF Replaced, Outweighed, Known
  <2> QED
    BY <1>1, <1>3, <2>3, <2>4 DEF Misses
<1> QED
  BY <1>1, <1>2, <1>3 DEF Conserved

\* The invariant of the balance, over any finite set of requests, whatever
\* they cost: what the confirmed balance, each commit on its way and a stopped
\* sweep's opening balance are made of.
THEOREM BalanceInvariant == IsFiniteSet(Requests) => (Spec => []CInv)
<1> SUFFICES ASSUME IsFiniteSet(Requests) PROVE Spec => []CInv
  OBVIOUS
<1>1. CInv /\ [Next]_vars => CInv'
  BY NextConserves
<1> QED
  BY <1>1, InitConserves, PTL DEF Spec

\* Across every switch of the unit the confirmed balance keeps the usage of
\* each request, and counts none twice, but for those whose decision an exact
\* charge overtakes and those for which others of the same cost stood in.
THEOREM UsageConserved == IsFiniteSet(Requests) => (Spec => []Conserved)
BY BalanceInvariant, BalanceConserves, PTL
=============================================================================
