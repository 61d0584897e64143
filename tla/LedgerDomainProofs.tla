------------------------- MODULE LedgerDomainProofs -------------------------
(***************************************************************************)
(* Lemmas about the transitions of the ledger: each leaves a well-formed   *)
(* summary and attempt, takes a new version of the summary, and changes    *)
(* the balances by what it changes in the attempt's shares.  With them     *)
(* what sums over finite sets need: how a sum changes with one of its      *)
(* terms, and with one element more.                                       *)
(***************************************************************************)
EXTENDS LedgerDomain, FiniteSets, FiniteSetsExt, FiniteSetTheorems, TLAPS

\* Rebuilding a summary with integer balances gives a summary.
LEMMA AdvanceType ==
    ASSUME NEW s \in Summary, NEW x \in Int, NEW y \in Int, NEW z \in Int
    PROVE  Advance(s, x, y, z) \in Summary
<1> DEFINE s1 == [s EXCEPT !.version = @ + 1]
           s2 == [s1 EXCEPT !.confirmed = x]
           s3 == [s2 EXCEPT !.active = y]
<1>1. s1 \in Summary BY DEF Summary
<1>2. s2 \in Summary BY <1>1 DEF Summary
<1>3. s3 \in Summary BY <1>2 DEF Summary
<1>4. [s3 EXCEPT !.upper = z] \in Summary BY <1>3 DEF Summary
<1>. QED BY <1>4 DEF Advance

\* Shares and balances are integers.
LEMMA ShareTypes ==
    ASSUME NEW s \in Summary, NEW a \in Attempt
    PROVE  /\ ActiveShare(a) \in Int /\ UpperShare(a) \in Int /\ ConfirmedShare(a) \in Int
           /\ s.confirmed \in Int /\ s.active \in Int /\ s.upper \in Int
           /\ a.bound \in Int /\ a.actual \in Int
  BY DEF ActiveShare, UpperShare, ConfirmedShare, Attempt, Summary

\* A reservation leaves well-formed rows.
LEMMA ReservedTypes ==
    ASSUME NEW s \in Summary, NEW n \in Nat, NEW to \in AttemptStates
    PROVE  ReservedSummary(s, n) \in Summary /\ NewAttempt(to, n) \in Attempt
<1>1. s.confirmed \in Int /\ s.active \in Int /\ s.upper \in Int
  BY DEF Summary
<1>2. ReservedSummary(s, n) \in Summary
  BY <1>1, AdvanceType DEF ReservedSummary
<1>3. NoAttempt \in Attempt
  BY DEF NoAttempt, Attempt, AttemptStates, EvidenceKeys
<1>. QED BY <1>2, <1>3 DEF NewAttempt, Attempt

\* A state transition leaves well-formed rows.
LEMMA TransitionedTypes ==
    ASSUME NEW s \in Summary, NEW a \in Attempt, NEW to \in AttemptStates
    PROVE  TransitionedSummary(s, a, to) \in Summary /\ TransitionedAttempt(a, to) \in Attempt
<1>1. TransitionedSummary(s, a, to) \in Summary
  BY ShareTypes, AdvanceType DEF TransitionedSummary
<1>. QED BY <1>1 DEF TransitionedAttempt, Attempt

\* An approved release leaves well-formed rows.
LEMMA ResolvedTypes ==
    ASSUME NEW s \in Summary, NEW a \in Attempt
    PROVE  ResolvedSummary(s, a) \in Summary /\ ResolvedAttempt(a) \in Attempt
<1> DEFINE a1 == [a EXCEPT !.state = "released"]
           a2 == [a1 EXCEPT !.actual = 0]
           a3 == [a2 EXCEPT !.rank = 2]
           a4 == [a3 EXCEPT !.revision = IF @ < 1 THEN 1 ELSE @]
           a5 == [a4 EXCEPT !.key = "resolution"]
<1>1. a1 \in Attempt BY DEF Attempt, AttemptStates
<1>2. a2 \in Attempt BY <1>1 DEF Attempt
<1>3. 2 \in 0..3 OBVIOUS
<1>4. a3 \in Attempt BY <1>2, <1>3 DEF Attempt
<1>5. a4 \in Attempt BY <1>4 DEF Attempt
<1>6. a5 \in Attempt BY <1>5 DEF Attempt, EvidenceKeys
<1>7. [a5 EXCEPT !.resolved = TRUE] \in Attempt BY <1>6 DEF Attempt
<1>8. ResolvedAttempt(a) \in Attempt BY <1>7 DEF ResolvedAttempt
<1>9. ResolvedSummary(s, a) \in Summary BY ShareTypes, AdvanceType DEF ResolvedSummary
<1>. QED BY <1>8, <1>9

\* A settlement leaves well-formed rows.
LEMMA SettledTypes ==
    ASSUME NEW s \in Summary, NEW a \in Attempt, NEW c \in Charge
    PROVE  SettledSummary(s, a, c) \in Summary /\ SettledAttempt(a, c) \in Attempt
<1> DEFINE a1 == [a EXCEPT !.state = "settled"]
           a2 == [a1 EXCEPT !.actual = c.total]
           a3 == [a2 EXCEPT !.rank = c.rank]
           a4 == [a3 EXCEPT !.revision = IF @ < c.revision THEN c.revision ELSE @]
<1>1. a1 \in Attempt BY DEF Attempt, AttemptStates
<1>2. a2 \in Attempt BY <1>1 DEF Attempt, Charge
<1>3. c.rank \in 0..3 /\ c.total \in Int BY DEF Charge
<1>4. a3 \in Attempt BY <1>2, <1>3 DEF Attempt
<1>5. a4 \in Attempt BY <1>4 DEF Attempt, Charge
<1>6. [a4 EXCEPT !.key = c.key] \in Attempt BY <1>5 DEF Attempt, Charge
<1>7. SettledAttempt(a, c) \in Attempt BY <1>6, ResolvedTypes DEF SettledAttempt
<1>8. SettledSummary(s, a, c) \in Summary
  BY <1>3, ShareTypes, AdvanceType, ResolvedTypes DEF SettledSummary
<1>. QED BY <1>7, <1>8

\* A completion leaves well-formed rows.
LEMMA CompletedTypes ==
    ASSUME NEW s \in Summary, NEW a \in Attempt, NEW n \in Nat, NEW t \in BOOLEAN
    PROVE  CompletedSummary(s, a, n) \in Summary /\ CompletedAttempt(a, t, n) \in Attempt
<1> DEFINE a1 == [a EXCEPT !.state = "settled"]
           a2 == [a1 EXCEPT !.actual = n]
           a3 == [a2 EXCEPT !.rank = IF t THEN 2 ELSE 3]
           a4 == [a3 EXCEPT !.revision = IF @ < 1 THEN 1 ELSE @]
           a5 == [a4 EXCEPT !.key = IF t THEN "rejection" ELSE "completion"]
           a6 == [a5 EXCEPT !.rejected = @ \/ t]
<1>1. a1 \in Attempt BY DEF Attempt, AttemptStates
<1>2. a2 \in Attempt BY <1>1 DEF Attempt
<1>3. (IF t THEN 2 ELSE 3) \in 0..3 OBVIOUS
<1>4. a3 \in Attempt BY <1>2, <1>3 DEF Attempt
<1>5. a4 \in Attempt BY <1>4 DEF Attempt
<1>6. a5 \in Attempt BY <1>5 DEF Attempt, EvidenceKeys
<1>7. a6 \in Attempt BY <1>6 DEF Attempt
<1>8. (a6.completed \/ ~ t) \in BOOLEAN BY <1>7, Zenon DEF Attempt
<1> HIDE DEF a6
<1>9. \A y \in BOOLEAN : [a6 EXCEPT !.completed = y] \in Attempt BY <1>7 DEF Attempt
<1>10. [a6 EXCEPT !.completed = @ \/ ~ t] \in Attempt BY <1>8, <1>9, Zenon
<1>11. CompletedAttempt(a, t, n) \in Attempt BY <1>10 DEF CompletedAttempt, a6
<1>12. CompletedSummary(s, a, n) \in Summary BY ShareTypes, AdvanceType DEF CompletedSummary
<1>. QED BY <1>11, <1>12

\* Rebuilding a summary takes a new version and leaves the policy alone.
LEMMA AdvanceFields ==
    ASSUME NEW s \in Summary, NEW x \in Int, NEW y \in Int, NEW z \in Int
    PROVE  LET n == Advance(s, x, y, z)
           IN  /\ n.version = s.version + 1 /\ n.version > s.version
               /\ n.limit = s.limit /\ n.enforce = s.enforce /\ n.enabled = s.enabled
               /\ n.confirmed = x /\ n.active = y /\ n.upper = z
  BY DEF Advance, Summary

\* Every transition of an attempt takes a new version of the summary.
LEMMA TransitionsAdvance ==
    ASSUME NEW s \in Summary, NEW a \in Attempt
    PROVE  /\ \A to \in AttemptStates : TransitionedSummary(s, a, to).version > s.version
           /\ ResolvedSummary(s, a).version > s.version
           /\ \A c \in Charge : SettledSummary(s, a, c).version > s.version
           /\ \A n \in Nat : CompletedSummary(s, a, n).version > s.version
           /\ \A n \in Nat : ReservedSummary(s, n).version > s.version
<1>1. \A x, y, z \in Int : Advance(s, x, y, z).version > s.version
  BY AdvanceFields
<1>2. /\ s.confirmed \in Int /\ s.active \in Int /\ s.upper \in Int /\ a.bound \in Int
      /\ a.actual \in Int
      /\ ActiveShare(a) \in Int /\ UpperShare(a) \in Int /\ ConfirmedShare(a) \in Int
  BY ShareTypes
<1>3. ResolvedSummary(s, a).version > s.version
  <2>1. /\ s.active - (IF a.state # "upper_bound" THEN a.bound ELSE 0) \in Int
        /\ s.upper - (IF a.state = "upper_bound" THEN a.bound ELSE 0) \in Int
    BY <1>2
  <2>. QED BY <1>1, <1>2, <2>1 DEF ResolvedSummary
<1>4. ASSUME NEW to \in AttemptStates PROVE TransitionedSummary(s, a, to).version > s.version
  <2>1. /\ s.active - (IF to \in {"upper_bound", "cancelled"} THEN a.bound ELSE 0) \in Int
        /\ s.upper + (IF to = "upper_bound" THEN a.bound ELSE 0) \in Int
    BY <1>2
  <2>. QED BY <1>1, <1>2, <2>1 DEF TransitionedSummary
<1>5. ASSUME NEW c \in Charge PROVE SettledSummary(s, a, c).version > s.version
  <2>1. c.total \in Int BY DEF Charge
  <2>2. /\ s.confirmed + c.total - a.actual \in Int
        /\ s.active - ActiveShare(a) \in Int /\ s.upper - UpperShare(a) \in Int
    BY <1>2, <2>1
  <2>. QED BY <1>1, <1>3, <2>2 DEF SettledSummary
<1>6. ASSUME NEW n \in Nat PROVE CompletedSummary(s, a, n).version > s.version
  <2>1. /\ s.confirmed + n - ConfirmedShare(a) \in Int
        /\ s.active - ActiveShare(a) \in Int /\ s.upper - UpperShare(a) \in Int
    BY <1>2
  <2>. QED BY <1>1, <2>1 DEF CompletedSummary
<1>7. ASSUME NEW n \in Nat PROVE ReservedSummary(s, n).version > s.version
  <2>1. s.active + n \in Int BY <1>2
  <2>. QED BY <1>1, <1>2, <2>1 DEF ReservedSummary
<1>. QED BY <1>3, <1>4, <1>5, <1>6, <1>7

\* A policy revision leaves a well-formed summary, the same or newer.
LEMMA PolicyFields ==
    ASSUME NEW s \in Summary, NEW revision \in Nat, NEW limit \in Nat,
           NEW enforce \in BOOLEAN, NEW enabled \in BOOLEAN
    PROVE  LET n == PolicySummary(s, revision, limit, enforce, enabled)
           IN  n \in Summary /\ (n = s \/ n.version > s.version)
<1> DEFINE s1 == [s EXCEPT !.version = @ + 1]
           s2 == [s1 EXCEPT !.revision = revision]
           s3 == [s2 EXCEPT !.limit = limit]
           s4 == [s3 EXCEPT !.enforce = enforce]
           n == [s4 EXCEPT !.enabled = enabled]
<1>1. s1 \in Summary /\ s1.version > s.version BY DEF Summary
<1>2. s2 \in Summary /\ s2.version = s1.version BY <1>1 DEF Summary
<1>3. s3 \in Summary /\ s3.version = s1.version BY <1>2 DEF Summary
<1>4. s4 \in Summary /\ s4.version = s1.version BY <1>3 DEF Summary
<1>5. n \in Summary /\ n.version = s1.version BY <1>4 DEF Summary
<1>6. PolicySummary(s, revision, limit, enforce, enabled) \in {s, n}
  BY DEF PolicySummary
<1> HIDE DEF n
<1>. QED BY <1>1, <1>5, <1>6

\* What a reservation leaves of an enforced scope's budget.
LEMMA ReservedFields ==
    ASSUME NEW s \in Summary, NEW n \in Nat
    PROVE  LET t == ReservedSummary(s, n)
           IN  /\ t.enforce = s.enforce /\ t.enabled = s.enabled
               /\ Available(t) = Available(s) - n
               /\ Available(s) \in Int
<1> DEFINE t == ReservedSummary(s, n)
<1>1. /\ s.limit \in Int /\ s.confirmed \in Int /\ s.active \in Int /\ s.upper \in Int
  BY DEF Summary
<1>2. /\ t.limit = s.limit /\ t.enforce = s.enforce /\ t.enabled = s.enabled
      /\ t.confirmed = s.confirmed /\ t.active = s.active + n /\ t.upper = s.upper
  BY <1>1, AdvanceFields DEF ReservedSummary
<1>. QED BY <1>1, <1>2 DEF Available

\* What is admitted leaves an enforced scope within its limit.
LEMMA AdmittedFits ==
    ASSUME NEW s \in Summary, NEW n \in Nat
    PROVE  LET t == ReservedSummary(s, n)
           IN  AdmissionError(s, n) = "" => t.enabled /\ (t.enforce => Available(t) >= 0)
<1> DEFINE t == ReservedSummary(s, n)
<1>1. /\ t.enforce = s.enforce /\ t.enabled = s.enabled
      /\ Available(t) = Available(s) - n /\ Available(s) \in Int
  BY ReservedFields
<1>2. ~ s.enabled => AdmissionError(s, n) = "budget_consumer_disabled"
  BY DEF AdmissionError
<1>3. s.enabled /\ s.enforce /\ n > Available(s) => AdmissionError(s, n) # ""
  BY <1>1 DEF AdmissionError
<1>4. ~ (n > Available(s)) => Available(t) >= 0
  BY <1>1
<1> HIDE DEF t
<1>5. AdmissionError(s, n) = "" => AdmissionError(s, n) # "budget_consumer_disabled"
  OBVIOUS
<1>6. AdmissionError(s, n) = "" => t.enabled /\ (t.enforce => Available(t) >= 0)
  BY <1>1, <1>2, <1>3, <1>4, <1>5, Zenon
<1>. QED BY <1>6 DEF t
--------------------------------------------------------------------------
(* Sums over finite sets, by the least counterexample: a set of subsets of  *)
(* a finite set that is not empty has a smallest member.                    *)

LEMMA SmallestSubset ==
    ASSUME NEW S, IsFiniteSet(S), NEW Bad, Bad \subseteq SUBSET S, Bad # {}
    PROVE  \E T \in Bad : \A U \in Bad : U \subseteq T => U = T
<1>1. IsWellFoundedOn(StrictSubsetOrdering(S), SUBSET S)
  BY FS_StrictSubsetOrderingWellFounded, FS_FiniteSubsetsOfFinite
<1>2. \E T \in Bad : \A U \in Bad : ~ (<<U, T>> \in StrictSubsetOrdering(S))
  BY <1>1, WFMin
<1>3. \A T, U \in SUBSET S : U \subseteq T /\ U # T => <<U, T>> \in StrictSubsetOrdering(S)
  BY DEF StrictSubsetOrdering
<1>. QED BY <1>2, <1>3

\* The element a sum takes next.
Pick(u) == CHOOSE x \in u : TRUE

\* g holds the sum of f over every subset of S.
IsSum(g, f, S) ==
    g = [u \in SUBSET S |-> IF u = {} THEN 0 ELSE f[Pick(u)] + g[u \ {Pick(u)}]]

Sums(f, S) == CHOOSE g : IsSum(g, f, S)
SumOf(f, S) == Sums(f, S)[S]

LEMMA PickElement ==
    ASSUME NEW u, u # {}
    PROVE  Pick(u) \in u /\ u \ {Pick(u)} \subseteq u /\ u \ {Pick(u)} # u
  BY DEF Pick

LEMMA SumTurn ==
    ASSUME NEW g, NEW f, NEW S, IsSum(g, f, S)
    PROVE  /\ g[{}] = 0
           /\ \A u \in SUBSET S : u # {} => g[u] = f[Pick(u)] + g[u \ {Pick(u)}]
<1>1. \A u \in SUBSET S : g[u] = IF u = {} THEN 0 ELSE f[Pick(u)] + g[u \ {Pick(u)}]
  BY DEF IsSum
<1>. QED BY <1>1

\* Induction over the subsets of a finite set: what holds of {} and of a set
\* whenever it holds without its next element holds of every subset.
LEMMA SubsetInduction ==
    ASSUME NEW S, IsFiniteSet(S), NEW Good, {} \in Good,
           \A u \in SUBSET S : u # {} /\ u \ {Pick(u)} \in Good => u \in Good
    PROVE  SUBSET S \subseteq Good
<1> DEFINE Bad == {u \in SUBSET S : u \notin Good}
<1>1. SUFFICES ASSUME Bad # {} PROVE FALSE
  OBVIOUS
<1>2. PICK u \in Bad : \A v \in Bad : v \subseteq u => v = u
  <2>1. Bad \subseteq SUBSET S OBVIOUS
  <2> HIDE DEF Bad
  <2>. QED BY <1>1, <2>1, SmallestSubset
<1>3. u # {} OBVIOUS
<1>4. u \ {Pick(u)} \in SUBSET S /\ u \ {Pick(u)} \notin Bad BY <1>2, <1>3, PickElement
<1>. QED BY <1>3, <1>4

\* Two sums of one function agree wherever both are defined.
LEMMA SumUnique ==
    ASSUME NEW S, IsFiniteSet(S), NEW T, S \subseteq T, NEW f, NEW g, NEW h,
           IsSum(g, f, S), IsSum(h, f, T)
    PROVE  \A u \in SUBSET S : g[u] = h[u]
<1> DEFINE Good == {u \in SUBSET S : g[u] = h[u]}
<1>1. {} \in Good BY SumTurn
<1>2. ASSUME NEW u \in SUBSET S, u # {}, u \ {Pick(u)} \in Good PROVE u \in Good
  <2>1. g[u] = f[Pick(u)] + g[u \ {Pick(u)}] BY <1>2, SumTurn
  <2>2. h[u] = f[Pick(u)] + h[u \ {Pick(u)}]
    <3>1. u \in SUBSET T OBVIOUS
    <3>2. \A v \in SUBSET T : v # {} => h[v] = f[Pick(v)] + h[v \ {Pick(v)}]
      BY SumTurn
    <3>. QED BY <1>2, <3>1, <3>2
  <2>. QED BY <1>2, <2>1, <2>2
<1>3. SUBSET S \subseteq Good
  <2> HIDE DEF Good
  <2>. QED BY <1>1, <1>2, SubsetInduction
<1>. QED BY <1>3

\* Every function has a sum over a finite set.
LEMMA SumExists ==
    ASSUME NEW S, IsFiniteSet(S), NEW f
    PROVE  \E g : IsSum(g, f, S)
<1> DEFINE Bad == {T \in SUBSET S : ~ \E g : IsSum(g, f, T)}
<1>1. SUFFICES ASSUME Bad # {} PROVE FALSE
  <2>1. S \notin Bad => \E g : IsSum(g, f, S) OBVIOUS
  <2>. QED BY <2>1
<1>2. PICK T \in Bad : \A U \in Bad : U \subseteq T => U = T
  <2>1. Bad \subseteq SUBSET S OBVIOUS
  <2> HIDE DEF Bad
  <2>. QED BY <1>1, <2>1, SmallestSubset
<1>3. \A U \in SUBSET T : U # T => IsSum(Sums(f, U), f, U)
  <2> SUFFICES ASSUME NEW U \in SUBSET T, U # T PROVE IsSum(Sums(f, U), f, U)
    OBVIOUS
  <2>1. \E g : IsSum(g, f, U) BY <1>2
  <2>. QED BY <2>1, Zenon DEF Sums
<1> DEFINE F == [u \in SUBSET T |->
                   IF u = {} THEN 0 ELSE f[Pick(u)] + SumOf(f, u \ {Pick(u)})]
<1>4. ASSUME NEW U \in SUBSET T, U # T PROVE F[U] = SumOf(f, U)
  <2>1. IsSum(Sums(f, U), f, U) BY <1>3, <1>4
  <2>2. CASE U = {}
    <3>1. Sums(f, U)[{}] = 0 BY <2>1, SumTurn
    <3>. QED BY <2>2, <3>1 DEF SumOf
  <2>3. CASE U # {}
    <3> DEFINE V == U \ {Pick(U)}
    <3>1. V \subseteq U /\ V # T /\ V \in SUBSET T BY <1>4, <2>3, PickElement
    <3>2. IsSum(Sums(f, V), f, V) BY <1>3, <3>1
    <3>3. IsFiniteSet(V) BY <3>1, FS_Subset
    <3>4. Sums(f, V)[V] = Sums(f, U)[V] BY <2>1, <3>1, <3>2, <3>3, SumUnique
    <3>5. U \in SUBSET U /\ Sums(f, U)[U] = f[Pick(U)] + Sums(f, U)[V]
      BY <2>1, <2>3, SumTurn
    <3>6. F[U] = f[Pick(U)] + SumOf(f, V) BY <2>3
    <3>. QED BY <3>4, <3>5, <3>6 DEF SumOf
  <2>. QED BY <2>2, <2>3
<1>5. \A u \in SUBSET T : u # {} => F[u \ {Pick(u)}] = SumOf(f, u \ {Pick(u)})
  <2> SUFFICES ASSUME NEW u \in SUBSET T, u # {}
               PROVE  F[u \ {Pick(u)}] = SumOf(f, u \ {Pick(u)})
    OBVIOUS
  <2>1. u \ {Pick(u)} \in SUBSET T /\ u \ {Pick(u)} # T BY PickElement
  <2> HIDE DEF F
  <2>. QED BY <1>4, <2>1
<1>6. IsSum(F, f, T)
  <2>1. F = [u \in SUBSET T |-> IF u = {} THEN 0 ELSE f[Pick(u)] + F[u \ {Pick(u)}]]
    <3>1. \A u \in SUBSET T :
             (IF u = {} THEN 0 ELSE f[Pick(u)] + SumOf(f, u \ {Pick(u)}))
               = (IF u = {} THEN 0 ELSE f[Pick(u)] + F[u \ {Pick(u)}])
      <4> HIDE DEF F
      <4>. QED BY <1>5
    <3>. QED BY <3>1, Zenon
  <2> HIDE DEF F
  <2>. QED BY <2>1 DEF IsSum
<1>. QED BY <1>2, <1>6

LEMMA SumsIs ==
    ASSUME NEW S, IsFiniteSet(S), NEW f
    PROVE  IsSum(Sums(f, S), f, S)
  BY SumExists, Zenon DEF Sums

\* The sum over each subset, from the sum without its next element.
LEMMA SumFacts ==
    ASSUME NEW S, IsFiniteSet(S), NEW f
    PROVE  /\ Sums(f, S)[{}] = 0
           /\ \A u \in SUBSET S : u # {} =>
                 /\ Sums(f, S)[u] = f[Pick(u)] + Sums(f, S)[u \ {Pick(u)}]
                 /\ Pick(u) \in u /\ Pick(u) \in S
<1>1. IsSum(Sums(f, S), f, S) BY SumsIs
<1>. QED BY <1>1, SumTurn, PickElement

\* A sum of integers is an integer.
LEMMA SumType ==
    ASSUME NEW S, IsFiniteSet(S), NEW f, \A x \in S : f[x] \in Int
    PROVE  \A u \in SUBSET S : Sums(f, S)[u] \in Int
<1> DEFINE Good == {u \in SUBSET S : Sums(f, S)[u] \in Int}
<1>1. {} \in Good BY SumFacts
<1>2. ASSUME NEW u \in SUBSET S, u # {}, u \ {Pick(u)} \in Good PROVE u \in Good
  <2>1. /\ Sums(f, S)[u] = f[Pick(u)] + Sums(f, S)[u \ {Pick(u)}]
        /\ Pick(u) \in S
    BY <1>2, SumFacts
  <2>. QED BY <1>2, <2>1
<1>3. SUBSET S \subseteq Good
  <2> HIDE DEF Good
  <2>. QED BY <1>1, <1>2, SubsetInduction
<1>. QED BY <1>3

\* A sum of zeros is zero.
LEMMA SumZero ==
    ASSUME NEW S, IsFiniteSet(S), NEW f, \A x \in S : f[x] = 0
    PROVE  SumOf(f, S) = 0
<1> DEFINE Good == {u \in SUBSET S : Sums(f, S)[u] = 0}
<1>1. {} \in Good BY SumFacts
<1>2. ASSUME NEW u \in SUBSET S, u # {}, u \ {Pick(u)} \in Good PROVE u \in Good
  <2>1. /\ Sums(f, S)[u] = f[Pick(u)] + Sums(f, S)[u \ {Pick(u)}]
        /\ Pick(u) \in S
    BY <1>2, SumFacts
  <2>. QED BY <1>2, <2>1
<1>3. SUBSET S \subseteq Good
  <2> HIDE DEF Good
  <2>. QED BY <1>1, <1>2, SubsetInduction
<1>. QED BY <1>3 DEF SumOf

\* Replacing one term changes a sum by the change of that term.
LEMMA SumChange ==
    ASSUME NEW S, IsFiniteSet(S), NEW x \in S, NEW f, NEW h,
           \A y \in S : f[y] \in Int, \A y \in S : h[y] \in Int,
           \A y \in S : y # x => h[y] = f[y]
    PROVE  SumOf(h, S) = SumOf(f, S) + h[x] - f[x]
<1> DEFINE d == h[x] - f[x]
           Good == {u \in SUBSET S : Sums(h, S)[u] = Sums(f, S)[u] + (IF x \in u THEN d ELSE 0)}
<1>1. \A u \in SUBSET S : Sums(f, S)[u] \in Int BY SumType
<1>2. \A u \in SUBSET S : Sums(h, S)[u] \in Int BY SumType
<1>3. {} \in Good BY SumFacts
<1>4. ASSUME NEW u \in SUBSET S, u # {}, u \ {Pick(u)} \in Good PROVE u \in Good
  <2> DEFINE p == Pick(u)
             v == u \ {p}
  <2>1. Sums(f, S)[u] = f[p] + Sums(f, S)[v] BY <1>4, SumFacts
  <2>2. Sums(h, S)[u] = h[p] + Sums(h, S)[v] BY <1>4, SumFacts
  <2>3. p \in S /\ p \in u BY <1>4, SumFacts
  <2>4. Sums(h, S)[v] = Sums(f, S)[v] + (IF x \in v THEN d ELSE 0) /\ v \in SUBSET S
    BY <1>4
  <2>5. /\ Sums(f, S)[v] \in Int /\ Sums(h, S)[v] \in Int
        /\ f[p] \in Int /\ h[p] \in Int /\ f[x] \in Int /\ h[x] \in Int
    BY <1>1, <1>2, <2>3, <2>4
  <2>6. x \in v <=> (x \in u /\ x # p) OBVIOUS
  <2>7. p # x => h[p] = f[p] BY <2>3
  <2> HIDE DEF p, v
  <2>8. Sums(h, S)[u] = Sums(f, S)[u] + (IF x \in u THEN d ELSE 0)
    <3>1. CASE p = x
      <4>1. x \in u /\ x \notin v BY <2>3, <2>6, <3>1
      <4>2. Sums(h, S)[v] = Sums(f, S)[v] BY <2>4, <2>5, <4>1
      <4>. QED BY <2>1, <2>2, <2>5, <3>1, <4>1, <4>2
    <3>2. CASE p # x
      <4>1. x \in v <=> x \in u BY <2>6, <3>2
      <4>2. h[p] = f[p] BY <2>7, <3>2
      <4>. QED BY <2>1, <2>2, <2>4, <2>5, <4>1, <4>2
    <3>. QED BY <3>1, <3>2
  <2>. QED BY <2>8
<1>5. SUBSET S \subseteq Good
  <2> HIDE DEF Good
  <2>. QED BY <1>3, <1>4, SubsetInduction
<1>6. SumOf(h, S) = SumOf(f, S) + d BY <1>5 DEF SumOf
<1>7. SumOf(f, S) \in Int BY <1>1 DEF SumOf
<1>. QED BY <1>6, <1>7

\* A sum does not depend on what the function is elsewhere.
LEMMA SumSame ==
    ASSUME NEW S, IsFiniteSet(S), NEW f, NEW h, \A y \in S : h[y] = f[y]
    PROVE  SumOf(h, S) = SumOf(f, S)
<1>1. IsSum(Sums(h, S), h, S) /\ IsSum(Sums(f, S), f, S)
  BY SumsIs
<1> DEFINE b == Sums(h, S)
<1>2. IsSum(b, f, S)
  <2> HIDE DEF b
  <2>1. b = [u \in SUBSET S |-> IF u = {} THEN 0 ELSE h[Pick(u)] + b[u \ {Pick(u)}]]
    BY <1>1 DEF IsSum, b
  <2>2. \A u \in SUBSET S : (IF u = {} THEN 0 ELSE h[Pick(u)] + b[u \ {Pick(u)}])
                              = (IF u = {} THEN 0 ELSE f[Pick(u)] + b[u \ {Pick(u)}])
    BY PickElement
  <2>3. b = [u \in SUBSET S |-> IF u = {} THEN 0 ELSE f[Pick(u)] + b[u \ {Pick(u)}]]
    BY <2>1, <2>2, Zenon
  <2>. QED BY <2>3 DEF IsSum
<1>. QED BY <1>1, <1>2, SumUnique DEF SumOf
\* A sum does not depend on the order in which it is taken.
LEMMA SumOrder ==
    ASSUME NEW S, IsFiniteSet(S), NEW f, \A x \in S : f[x] \in Int
    PROVE  \A u \in SUBSET S : \A x \in u : Sums(f, S)[u] = f[x] + Sums(f, S)[u \ {x}]
<1> DEFINE g == Sums(f, S)
           Bad == {u \in SUBSET S : \E x \in u : g[u] # f[x] + g[u \ {x}]}
<1>1. \A u \in SUBSET S : g[u] \in Int BY SumType
<1>2. \A u \in SUBSET S : u # {} =>
         g[u] = f[Pick(u)] + g[u \ {Pick(u)}] /\ Pick(u) \in u /\ Pick(u) \in S
  BY SumFacts
<1>3. SUFFICES ASSUME Bad # {} PROVE FALSE
  OBVIOUS
<1> HIDE DEF g
<1>4. PICK u \in Bad : \A v \in Bad : v \subseteq u => v = u
  <2>1. Bad \subseteq SUBSET S OBVIOUS
  <2> HIDE DEF Bad
  <2>. QED BY <1>3, <2>1, SmallestSubset
<1>5. PICK x \in u : g[u] # f[x] + g[u \ {x}] OBVIOUS
<1> DEFINE p == Pick(u)
<1>6. u \in SUBSET S /\ u # {} OBVIOUS
<1>7. g[u] = f[p] + g[u \ {p}] /\ p \in u /\ p \in S BY <1>2, <1>6
<1> HIDE DEF p
<1>8. p # x BY <1>5, <1>7
<1>9. \A v \in SUBSET S : v \subseteq u /\ v # u => \A y \in v : g[v] = f[y] + g[v \ {y}]
  BY <1>4
<1>10. u \ {p} \in SUBSET S /\ u \ {p} # u /\ x \in u \ {p} BY <1>6, <1>7, <1>8
<1>11. u \ {x} \in SUBSET S /\ u \ {x} # u /\ p \in u \ {x} BY <1>6, <1>7, <1>8
<1>12. g[u \ {p}] = f[x] + g[(u \ {p}) \ {x}] BY <1>9, <1>10
<1>13. g[u \ {x}] = f[p] + g[(u \ {x}) \ {p}] BY <1>9, <1>11
<1>14. (u \ {p}) \ {x} = (u \ {x}) \ {p} OBVIOUS
<1>15. g[(u \ {p}) \ {x}] \in Int /\ f[x] \in Int /\ f[p] \in Int
  BY <1>1, <1>6, <1>7
<1> DEFINE c == g[(u \ {p}) \ {x}]
<1>16. /\ g[u \ {p}] = f[x] + c /\ g[u \ {x}] = f[p] + c
       /\ c \in Int /\ f[x] \in Int /\ f[p] \in Int
  BY <1>12, <1>13, <1>14, <1>15
<1> HIDE DEF c
<1>17. f[p] + (f[x] + c) = f[x] + (f[p] + c) BY <1>16
<1>. QED BY <1>5, <1>7, <1>16, <1>17

\* A sum over one element more.
LEMMA SumAdd ==
    ASSUME NEW T, IsFiniteSet(T), NEW f, \A x \in T : f[x] \in Int,
           NEW S \in SUBSET T, NEW x \in T, x \notin S
    PROVE  SumOf(f, S \union {x}) = SumOf(f, S) + f[x] /\ SumOf(f, S) \in Int
<1> DEFINE U == S \union {x}
<1>1. U \subseteq T /\ S \subseteq U /\ x \in U /\ U \ {x} = S OBVIOUS
<1>2. IsFiniteSet(U) /\ IsFiniteSet(S) BY <1>1, FS_Subset
<1>3. \A y \in U : f[y] \in Int BY <1>1
<1> HIDE DEF U
<1>4. Sums(f, U)[U] = f[x] + Sums(f, U)[U \ {x}] BY <1>1, <1>2, <1>3, SumOrder
<1>5. Sums(f, S)[S] = Sums(f, U)[S]
  <2>1. IsSum(Sums(f, S), f, S) /\ IsSum(Sums(f, U), f, U) BY <1>2, SumsIs
  <2>. QED BY <1>1, <1>2, <2>1, SumUnique
<1>6. Sums(f, S)[S] \in Int BY <1>2, SumType
<1>7. SumOf(f, U) = SumOf(f, S) + f[x] /\ SumOf(f, S) \in Int
  <2>1. SumOf(f, U) = f[x] + SumOf(f, S) BY <1>1, <1>4, <1>5 DEF SumOf
  <2>2. SumOf(f, S) \in Int BY <1>6 DEF SumOf
  <2>3. f[x] \in Int OBVIOUS
  <2>. QED BY <2>1, <2>2, <2>3
<1>. QED BY <1>7 DEF U

--------------------------------------------------------------------------
(* The balances of a summary and the shares of its rows. *)

ActiveSum(row, S) == MapThenSumSet(LAMBDA r : ActiveShare(row[r]), S)
UpperSum(row, S) == MapThenSumSet(LAMBDA r : UpperShare(row[r]), S)
ConfirmedSum(row, S) == MapThenSumSet(LAMBDA r : ConfirmedShare(row[r]), S)

\* The balance that a summary keeps is the sum of its rows' shares.
LEMMA ActiveSumIs ==
    ASSUME NEW S, IsFiniteSet(S), NEW row
    PROVE  ActiveSum(row, S) = SumOf([r \in S |-> ActiveShare(row[r])], S)
<1> DEFINE f == [r \in S |-> ActiveShare(row[r])]
           Is(g) == g = [u \in SUBSET S |-> IF u = {} THEN 0
                           ELSE ActiveShare(row[Pick(u)]) + g[u \ {Pick(u)}]]
           j == CHOOSE g : Is(g)
<1>1. ActiveSum(row, S) = j[S]
  BY DEF ActiveSum, MapThenSumSet, MapThenFoldSet, Pick
<1>2. \A g : Is(g) <=> IsSum(g, f, S)
  <2> SUFFICES ASSUME NEW g PROVE Is(g) <=> IsSum(g, f, S)
    OBVIOUS
  <2>1. \A u \in SUBSET S : u # {} => f[Pick(u)] = ActiveShare(row[Pick(u)])
    BY PickElement
  <2> HIDE DEF f
  <2>2. [u \in SUBSET S |-> IF u = {} THEN 0
                           ELSE ActiveShare(row[Pick(u)]) + g[u \ {Pick(u)}]]
        = [u \in SUBSET S |-> IF u = {} THEN 0 ELSE f[Pick(u)] + g[u \ {Pick(u)}]]
    BY <2>1
  <2>. QED BY <2>2 DEF IsSum
<1>3. \E g : Is(g) BY <1>2, SumExists
<1> HIDE DEF f, Is
<1>4. Is(j) BY <1>3, Zenon
<1>5. IsSum(j, f, S) /\ IsSum(Sums(f, S), f, S) BY <1>2, <1>4, SumsIs
<1> HIDE DEF j
<1>6. j[S] = Sums(f, S)[S] BY <1>5, SumUnique
<1>. QED BY <1>1, <1>6 DEF SumOf, f

LEMMA UpperSumIs ==
    ASSUME NEW S, IsFiniteSet(S), NEW row
    PROVE  UpperSum(row, S) = SumOf([r \in S |-> UpperShare(row[r])], S)
<1> DEFINE f == [r \in S |-> UpperShare(row[r])]
           Is(g) == g = [u \in SUBSET S |-> IF u = {} THEN 0
                           ELSE UpperShare(row[Pick(u)]) + g[u \ {Pick(u)}]]
           j == CHOOSE g : Is(g)
<1>1. UpperSum(row, S) = j[S]
  BY DEF UpperSum, MapThenSumSet, MapThenFoldSet, Pick
<1>2. \A g : Is(g) <=> IsSum(g, f, S)
  <2> SUFFICES ASSUME NEW g PROVE Is(g) <=> IsSum(g, f, S)
    OBVIOUS
  <2>1. \A u \in SUBSET S : u # {} => f[Pick(u)] = UpperShare(row[Pick(u)])
    BY PickElement
  <2> HIDE DEF f
  <2>2. [u \in SUBSET S |-> IF u = {} THEN 0
                           ELSE UpperShare(row[Pick(u)]) + g[u \ {Pick(u)}]]
        = [u \in SUBSET S |-> IF u = {} THEN 0 ELSE f[Pick(u)] + g[u \ {Pick(u)}]]
    BY <2>1
  <2>. QED BY <2>2 DEF IsSum
<1>3. \E g : Is(g) BY <1>2, SumExists
<1> HIDE DEF f, Is
<1>4. Is(j) BY <1>3, Zenon
<1>5. IsSum(j, f, S) /\ IsSum(Sums(f, S), f, S) BY <1>2, <1>4, SumsIs
<1> HIDE DEF j
<1>6. j[S] = Sums(f, S)[S] BY <1>5, SumUnique
<1>. QED BY <1>1, <1>6 DEF SumOf, f

LEMMA ConfirmedSumIs ==
    ASSUME NEW S, IsFiniteSet(S), NEW row
    PROVE  ConfirmedSum(row, S) = SumOf([r \in S |-> ConfirmedShare(row[r])], S)
<1> DEFINE f == [r \in S |-> ConfirmedShare(row[r])]
           Is(g) == g = [u \in SUBSET S |-> IF u = {} THEN 0
                           ELSE ConfirmedShare(row[Pick(u)]) + g[u \ {Pick(u)}]]
           j == CHOOSE g : Is(g)
<1>1. ConfirmedSum(row, S) = j[S]
  BY DEF ConfirmedSum, MapThenSumSet, MapThenFoldSet, Pick
<1>2. \A g : Is(g) <=> IsSum(g, f, S)
  <2> SUFFICES ASSUME NEW g PROVE Is(g) <=> IsSum(g, f, S)
    OBVIOUS
  <2>1. \A u \in SUBSET S : u # {} => f[Pick(u)] = ConfirmedShare(row[Pick(u)])
    BY PickElement
  <2> HIDE DEF f
  <2>2. [u \in SUBSET S |-> IF u = {} THEN 0
                           ELSE ConfirmedShare(row[Pick(u)]) + g[u \ {Pick(u)}]]
        = [u \in SUBSET S |-> IF u = {} THEN 0 ELSE f[Pick(u)] + g[u \ {Pick(u)}]]
    BY <2>1
  <2>. QED BY <2>2 DEF IsSum
<1>3. \E g : Is(g) BY <1>2, SumExists
<1> HIDE DEF f, Is
<1>4. Is(j) BY <1>3, Zenon
<1>5. IsSum(j, f, S) /\ IsSum(Sums(f, S), f, S) BY <1>2, <1>4, SumsIs
<1> HIDE DEF j
<1>6. j[S] = Sums(f, S)[S] BY <1>5, SumUnique
<1>. QED BY <1>1, <1>6 DEF SumOf, f

\* An attempt that is not settled has no actual charge.
Plain(a) == a.state # "settled" => a.actual = 0

\* From summary m to n the balances change as the row's shares from a to b.
Shifted(m, n, a, b) ==
    /\ n.active = m.active + ActiveShare(b) - ActiveShare(a)
    /\ n.upper = m.upper + UpperShare(b) - UpperShare(a)
    /\ n.confirmed = m.confirmed + ConfirmedShare(b) - ConfirmedShare(a)

\* One row and its summary are written together.
Books(m, n, a, b) == n.version > m.version /\ (Plain(a) => Plain(b) /\ Shifted(m, n, a, b))

\* The balances of a summary are the sums of its rows' shares.
Tallies(m, row, S) ==
    /\ m.active = ActiveSum(row, S)
    /\ m.upper = UpperSum(row, S)
    /\ m.confirmed = ConfirmedSum(row, S)

LEMMA SharesOf ==
    ASSUME NEW a \in Attempt
    PROVE  ActiveShare(a) \in Int /\ UpperShare(a) \in Int /\ ConfirmedShare(a) \in Int
  BY DEF ActiveShare, UpperShare, ConfirmedShare, Attempt

\* Replacing one row changes each sum by the change of that row's share.
LEMMA SumsMove ==
    ASSUME NEW S, IsFiniteSet(S), NEW r \in S, NEW row \in [S -> Attempt], NEW a \in Attempt
    PROVE  LET next == [row EXCEPT ![r] = a]
           IN  /\ ActiveSum(next, S) = ActiveSum(row, S) + ActiveShare(a) - ActiveShare(row[r])
               /\ UpperSum(next, S) = UpperSum(row, S) + UpperShare(a) - UpperShare(row[r])
               /\ ConfirmedSum(next, S)
                    = ConfirmedSum(row, S) + ConfirmedShare(a) - ConfirmedShare(row[r])
<1> DEFINE next == [row EXCEPT ![r] = a]
<1>1. next \in [S -> Attempt] /\ next[r] = a /\ \A y \in S : y # r => next[y] = row[y]
  OBVIOUS
<1>2. \A y \in S : row[y] \in Attempt /\ next[y] \in Attempt
  BY <1>1
<1> HIDE DEF next
<1>3. ActiveSum(next, S) = ActiveSum(row, S) + ActiveShare(a) - ActiveShare(row[r])
  <2> DEFINE f == [y \in S |-> ActiveShare(row[y])]
             h == [y \in S |-> ActiveShare(next[y])]
  <2>1. /\ \A y \in S : f[y] \in Int /\ h[y] \in Int /\ (y # r => h[y] = f[y])
        /\ h[r] = ActiveShare(a) /\ f[r] = ActiveShare(row[r])
    BY <1>1, <1>2, SharesOf
  <2>2. ActiveSum(next, S) = SumOf(h, S) /\ ActiveSum(row, S) = SumOf(f, S)
    BY ActiveSumIs
  <2> HIDE DEF f, h
  <2>3. SumOf(h, S) = SumOf(f, S) + h[r] - f[r] BY <2>1, SumChange
  <2>. QED BY <2>1, <2>2, <2>3
<1>4. UpperSum(next, S) = UpperSum(row, S) + UpperShare(a) - UpperShare(row[r])
  <2> DEFINE f == [y \in S |-> UpperShare(row[y])]
             h == [y \in S |-> UpperShare(next[y])]
  <2>1. /\ \A y \in S : f[y] \in Int /\ h[y] \in Int /\ (y # r => h[y] = f[y])
        /\ h[r] = UpperShare(a) /\ f[r] = UpperShare(row[r])
    BY <1>1, <1>2, SharesOf
  <2>2. UpperSum(next, S) = SumOf(h, S) /\ UpperSum(row, S) = SumOf(f, S)
    BY UpperSumIs
  <2> HIDE DEF f, h
  <2>3. SumOf(h, S) = SumOf(f, S) + h[r] - f[r] BY <2>1, SumChange
  <2>. QED BY <2>1, <2>2, <2>3
<1>5. ConfirmedSum(next, S)
        = ConfirmedSum(row, S) + ConfirmedShare(a) - ConfirmedShare(row[r])
  <2> DEFINE f == [y \in S |-> ConfirmedShare(row[y])]
             h == [y \in S |-> ConfirmedShare(next[y])]
  <2>1. /\ \A y \in S : f[y] \in Int /\ h[y] \in Int /\ (y # r => h[y] = f[y])
        /\ h[r] = ConfirmedShare(a) /\ f[r] = ConfirmedShare(row[r])
    BY <1>1, <1>2, SharesOf
  <2>2. ConfirmedSum(next, S) = SumOf(h, S) /\ ConfirmedSum(row, S) = SumOf(f, S)
    BY ConfirmedSumIs
  <2> HIDE DEF f, h
  <2>3. SumOf(h, S) = SumOf(f, S) + h[r] - f[r] BY <2>1, SumChange
  <2>. QED BY <2>1, <2>2, <2>3
<1>. QED BY <1>3, <1>4, <1>5 DEF next

\* The sums over rows none of which has a share are zero.
LEMMA SumsOfNone ==
    ASSUME NEW S, IsFiniteSet(S), NEW row,
           \A y \in S : ActiveShare(row[y]) = 0 /\ UpperShare(row[y]) = 0
                        /\ ConfirmedShare(row[y]) = 0
    PROVE  ActiveSum(row, S) = 0 /\ UpperSum(row, S) = 0 /\ ConfirmedSum(row, S) = 0
<1>1. ActiveSum(row, S) = 0
  <2> DEFINE f == [y \in S |-> ActiveShare(row[y])]
  <2>1. \A y \in S : f[y] = 0 OBVIOUS
  <2>2. ActiveSum(row, S) = SumOf(f, S) BY ActiveSumIs
  <2> HIDE DEF f
  <2>. QED BY <2>1, <2>2, SumZero
<1>2. UpperSum(row, S) = 0
  <2> DEFINE f == [y \in S |-> UpperShare(row[y])]
  <2>1. \A y \in S : f[y] = 0 OBVIOUS
  <2>2. UpperSum(row, S) = SumOf(f, S) BY UpperSumIs
  <2> HIDE DEF f
  <2>. QED BY <2>1, <2>2, SumZero
<1>3. ConfirmedSum(row, S) = 0
  <2> DEFINE f == [y \in S |-> ConfirmedShare(row[y])]
  <2>1. \A y \in S : f[y] = 0 OBVIOUS
  <2>2. ConfirmedSum(row, S) = SumOf(f, S) BY ConfirmedSumIs
  <2> HIDE DEF f
  <2>. QED BY <2>1, <2>2, SumZero
<1>. QED BY <1>1, <1>2, <1>3

\* Balances that tally stay so when a row and its summary are written together.
LEMMA TalliesMove ==
    ASSUME NEW S, IsFiniteSet(S), NEW r \in S, NEW row \in [S -> Attempt], NEW a \in Attempt,
           NEW m \in Summary, NEW n \in Summary, Tallies(m, row, S), Shifted(m, n, row[r], a)
    PROVE  Tallies(n, [row EXCEPT ![r] = a], S)
<1> DEFINE next == [row EXCEPT ![r] = a]
<1>1. /\ ActiveSum(next, S) = ActiveSum(row, S) + ActiveShare(a) - ActiveShare(row[r])
      /\ UpperSum(next, S) = UpperSum(row, S) + UpperShare(a) - UpperShare(row[r])
      /\ ConfirmedSum(next, S)
           = ConfirmedSum(row, S) + ConfirmedShare(a) - ConfirmedShare(row[r])
  BY SumsMove
<1> HIDE DEF next
<1>2. Tallies(n, next, S) BY <1>1 DEF Tallies, Shifted
<1>. QED BY <1>2 DEF next
--------------------------------------------------------------------------
(* Each transition writes a row and its summary so that the balances keep  *)
(* to the shares.                                                          *)

\* The balances of a summary rebuilt from the old shares and the new ones.
LEMMA AdvanceShifts ==
    ASSUME NEW s \in Summary, NEW a \in Attempt, NEW b \in Attempt,
           NEW x \in Int, NEW y \in Int, NEW z \in Int, Plain(a) => Plain(b),
           Plain(a) => /\ x = s.confirmed + ConfirmedShare(b) - ConfirmedShare(a)
                       /\ y = s.active + ActiveShare(b) - ActiveShare(a)
                       /\ z = s.upper + UpperShare(b) - UpperShare(a)
    PROVE  Books(s, Advance(s, x, y, z), a, b)
  BY AdvanceFields DEF Books, Shifted

\* A reservation counts its bound as active.
LEMMA ReservedBooks ==
    ASSUME NEW s \in Summary, NEW a \in Attempt, a.state = "none", NEW n \in Nat
    PROVE  Books(s, ReservedSummary(s, n), a, NewAttempt("reserved", n))
<1> DEFINE b == NewAttempt("reserved", n)
<1>1. b \in Attempt BY ReservedTypes DEF AttemptStates
<1>2. b.state = "reserved" /\ b.bound = n /\ b.actual = 0 BY DEF NewAttempt, NoAttempt
<1>3. /\ ActiveShare(a) = 0 /\ UpperShare(a) = 0 /\ ConfirmedShare(a) = 0
      /\ ActiveShare(b) = n /\ UpperShare(b) = 0 /\ ConfirmedShare(b) = 0 /\ Plain(b)
  BY <1>2 DEF ActiveShare, UpperShare, ConfirmedShare, HeldStates, Plain
<1>4. s.confirmed \in Int /\ s.active \in Int /\ s.upper \in Int BY ShareTypes
<1> HIDE DEF b
<1>5. Books(s, Advance(s, s.confirmed, s.active + n, s.upper), a, b)
  <2> DEFINE y == s.active + n
  <2>1. /\ y \in Int /\ s.confirmed = s.confirmed + ConfirmedShare(b) - ConfirmedShare(a)
        /\ y = s.active + ActiveShare(b) - ActiveShare(a)
        /\ s.upper = s.upper + UpperShare(b) - UpperShare(a)
    BY <1>3, <1>4
  <2> HIDE DEF y
  <2>2. Books(s, Advance(s, s.confirmed, y, s.upper), a, b)
    BY <1>1, <1>3, <1>4, <2>1, AdvanceShifts
  <2>. QED BY <2>2 DEF y
<1>. QED BY <1>5 DEF ReservedSummary, b

\* A tombstone has no share.
LEMMA TombstoneBooks ==
    ASSUME NEW s \in Summary, NEW a \in Attempt, a.state = "none", NEW n \in Nat
    PROVE  Books(s, [s EXCEPT !.version = @ + 1], a, NewAttempt("cancelled", n))
<1> DEFINE b == NewAttempt("cancelled", n)
           t == [s EXCEPT !.version = @ + 1]
<1>1. b.state = "cancelled" /\ b.actual = 0 BY DEF NewAttempt, NoAttempt
<1>2. /\ ActiveShare(a) = 0 /\ UpperShare(a) = 0 /\ ConfirmedShare(a) = 0
      /\ ActiveShare(b) = 0 /\ UpperShare(b) = 0 /\ ConfirmedShare(b) = 0 /\ Plain(b)
  BY <1>1 DEF ActiveShare, UpperShare, ConfirmedShare, HeldStates, Plain
<1>3. /\ t.version > s.version
      /\ t.active = s.active /\ t.upper = s.upper /\ t.confirmed = s.confirmed
  BY DEF Summary
<1>4. s.confirmed \in Int /\ s.active \in Int /\ s.upper \in Int BY ShareTypes
<1> HIDE DEF b, t
<1>5. Books(s, t, a, b) BY <1>2, <1>3, <1>4 DEF Books, Shifted
<1>. QED BY <1>5 DEF b, t

\* A transition moves the bound from one balance to another, or drops it.
LEMMA TransitionedBooks ==
    ASSUME NEW s \in Summary, NEW a \in Attempt,
           NEW to \in {"dispatching", "uncertain", "upper_bound", "cancelled"},
           TransitionAllowed(a.state, to)
    PROVE  Books(s, TransitionedSummary(s, a, to), a, TransitionedAttempt(a, to))
<1> DEFINE b == TransitionedAttempt(a, to)
           y == s.active - (IF to \in {"upper_bound", "cancelled"} THEN a.bound ELSE 0)
           z == s.upper + (IF to = "upper_bound" THEN a.bound ELSE 0)
<1>1. b \in Attempt BY TransitionedTypes DEF AttemptStates
<1>2. b.state = to /\ b.bound = a.bound /\ b.actual = a.actual
  BY DEF TransitionedAttempt, Attempt
<1>3. a.state \in HeldStates BY DEF TransitionAllowed, HeldStates
<1>4. /\ s.confirmed \in Int /\ s.active \in Int /\ s.upper \in Int /\ a.bound \in Int
      /\ a.actual \in Int
  BY ShareTypes
<1> HIDE DEF b
<1>5. /\ ActiveShare(a) = a.bound /\ UpperShare(a) = 0 /\ ConfirmedShare(a) = 0
      /\ ActiveShare(b) = (IF to \in {"upper_bound", "cancelled"} THEN 0 ELSE a.bound)
      /\ UpperShare(b) = (IF to = "upper_bound" THEN a.bound ELSE 0)
      /\ ConfirmedShare(b) = 0 /\ (Plain(a) => Plain(b))
  BY <1>2, <1>3 DEF ActiveShare, UpperShare, ConfirmedShare, HeldStates, Plain
<1>6. y \in Int /\ z \in Int /\ y = s.active + ActiveShare(b) - ActiveShare(a)
      /\ z = s.upper + UpperShare(b) - UpperShare(a)
      /\ s.confirmed = s.confirmed + ConfirmedShare(b) - ConfirmedShare(a)
  BY <1>4, <1>5
<1> HIDE DEF y, z
<1>7. Books(s, Advance(s, s.confirmed, y, z), a, b)
  BY <1>1, <1>4, <1>5, <1>6, AdvanceShifts
<1>. QED BY <1>7 DEF TransitionedSummary, b, y, z

\* A release drops the bound from the balance that counted it.
LEMMA ResolvedBooks ==
    ASSUME NEW s \in Summary, NEW a \in Attempt, a.state \in HeldStates \union {"upper_bound"}
    PROVE  Books(s, ResolvedSummary(s, a), a, ResolvedAttempt(a))
<1> DEFINE b == ResolvedAttempt(a)
           y == s.active - (IF a.state # "upper_bound" THEN a.bound ELSE 0)
           z == s.upper - (IF a.state = "upper_bound" THEN a.bound ELSE 0)
<1>1. b \in Attempt BY ResolvedTypes
<1>2. b.state = "released" /\ b.actual = 0 BY DEF ResolvedAttempt, Attempt
<1>4. s.confirmed \in Int /\ s.active \in Int /\ s.upper \in Int /\ a.bound \in Int
  BY ShareTypes
<1> HIDE DEF b
<1>5. /\ ActiveShare(a) = (IF a.state # "upper_bound" THEN a.bound ELSE 0)
      /\ UpperShare(a) = (IF a.state = "upper_bound" THEN a.bound ELSE 0)
      /\ ConfirmedShare(a) = 0
      /\ ActiveShare(b) = 0 /\ UpperShare(b) = 0 /\ ConfirmedShare(b) = 0 /\ Plain(b)
  BY <1>2 DEF ActiveShare, UpperShare, ConfirmedShare, HeldStates, Plain
<1>6. y \in Int /\ z \in Int /\ y = s.active + ActiveShare(b) - ActiveShare(a)
      /\ z = s.upper + UpperShare(b) - UpperShare(a)
      /\ s.confirmed = s.confirmed + ConfirmedShare(b) - ConfirmedShare(a)
  BY <1>4, <1>5
<1> HIDE DEF y, z
<1>7. Books(s, Advance(s, s.confirmed, y, z), a, b)
  BY <1>1, <1>4, <1>5, <1>6, AdvanceShifts
<1>. QED BY <1>7 DEF ResolvedSummary, b, y, z

\* A settlement replaces whatever the attempt was counted as by its charge.
LEMMA SettledBooks ==
    ASSUME NEW s \in Summary, NEW a \in Attempt, NEW c \in Charge,
           SettleOutcome(a, c) = "applied"
    PROVE  Books(s, SettledSummary(s, a, c), a, SettledAttempt(a, c))
<1>1. CASE c.key = "resolution"
  <2>1. a.state \in HeldStates \union {"upper_bound"}
    BY <1>1 DEF SettleOutcome, ResolveOutcome
  <2>. QED BY <1>1, <2>1, ResolvedBooks DEF SettledSummary, SettledAttempt
<1>2. CASE c.key # "resolution"
  <2> DEFINE b == SettledAttempt(a, c)
             x == s.confirmed + c.total - a.actual
             y == s.active - ActiveShare(a)
             z == s.upper - UpperShare(a)
  <2>1. b \in Attempt BY SettledTypes
  <2>2. b.state = "settled" /\ b.actual = c.total BY <1>2 DEF SettledAttempt, Attempt
  <2>3. /\ s.confirmed \in Int /\ s.active \in Int /\ s.upper \in Int /\ a.actual \in Int
        /\ c.total \in Int
        /\ ActiveShare(a) \in Int /\ UpperShare(a) \in Int /\ ConfirmedShare(a) \in Int
    BY ShareTypes DEF Charge
  <2> HIDE DEF b
  <2>4. /\ ActiveShare(b) = 0 /\ UpperShare(b) = 0 /\ ConfirmedShare(b) = c.total /\ Plain(b)
    BY <2>2 DEF ActiveShare, UpperShare, ConfirmedShare, HeldStates, Plain
  <2>5. Plain(a) => ConfirmedShare(a) = a.actual
    BY DEF Plain, ConfirmedShare
  <2>6. /\ x \in Int /\ y \in Int /\ z \in Int
        /\ y = s.active + ActiveShare(b) - ActiveShare(a)
        /\ z = s.upper + UpperShare(b) - UpperShare(a)
        /\ Plain(a) => x = s.confirmed + ConfirmedShare(b) - ConfirmedShare(a)
    BY <2>3, <2>4, <2>5
  <2> HIDE DEF x, y, z
  <2>7. Books(s, Advance(s, x, y, z), a, b)
    BY <2>1, <2>4, <2>6, AdvanceShifts
  <2>. QED BY <1>2, <2>7 DEF SettledSummary, b, x, y, z
<1>. QED BY <1>1, <1>2

\* So does complete evidence.
LEMMA CompletedBooks ==
    ASSUME NEW s \in Summary, NEW a \in Attempt, NEW t \in BOOLEAN, NEW n \in Nat
    PROVE  Books(s, CompletedSummary(s, a, n), a, CompletedAttempt(a, t, n))
<1> DEFINE b == CompletedAttempt(a, t, n)
           x == s.confirmed + n - ConfirmedShare(a)
           y == s.active - ActiveShare(a)
           z == s.upper - UpperShare(a)
<1>1. b \in Attempt BY CompletedTypes
<1>2. b.state = "settled" /\ b.actual = n BY DEF CompletedAttempt, Attempt
<1>3. /\ s.confirmed \in Int /\ s.active \in Int /\ s.upper \in Int
      /\ ActiveShare(a) \in Int /\ UpperShare(a) \in Int /\ ConfirmedShare(a) \in Int
  BY ShareTypes
<1> HIDE DEF b
<1>4. /\ ActiveShare(b) = 0 /\ UpperShare(b) = 0 /\ ConfirmedShare(b) = n /\ Plain(b)
  BY <1>2 DEF ActiveShare, UpperShare, ConfirmedShare, HeldStates, Plain
<1>5. /\ x \in Int /\ y \in Int /\ z \in Int
      /\ x = s.confirmed + ConfirmedShare(b) - ConfirmedShare(a)
      /\ y = s.active + ActiveShare(b) - ActiveShare(a)
      /\ z = s.upper + UpperShare(b) - UpperShare(a)
  BY <1>3, <1>4
<1> HIDE DEF x, y, z
<1>6. Books(s, Advance(s, x, y, z), a, b)
  BY <1>1, <1>4, <1>5, AdvanceShifts
<1>. QED BY <1>6 DEF CompletedSummary, b, x, y, z

\* A policy revision leaves the balances alone.
LEMMA PolicyBalances ==
    ASSUME NEW s \in Summary, NEW revision \in Nat, NEW limit \in Nat,
           NEW enforce \in BOOLEAN, NEW enabled \in BOOLEAN
    PROVE  LET n == PolicySummary(s, revision, limit, enforce, enabled)
           IN  n.active = s.active /\ n.upper = s.upper /\ n.confirmed = s.confirmed
  BY DEF PolicySummary, Summary
=============================================================================
