-------------------------- MODULE SettlementProofs --------------------------
(***************************************************************************)
(* Theorems about Settlement, for any attempts, evidence, workers, turns   *)
(* and number of faults.                                                   *)
(*                                                                         *)
(* The argument: the evidence of a task only grows stronger, so a task     *)
(* has at most one charge of rank 2, the first, and at most one of rank 3, *)
(* the last.  Every charge a worker or a late commit carries is one of     *)
(* those two.  A row moves up through the ranks and keeps its total within *)
(* a rank; what a worker concludes from a row it read stays true of every  *)
(* row that follows.                                                       *)
(***************************************************************************)
EXTENDS Settlement, LedgerDomainProofs, TLAPS

\* A charge of x that still counts: the task's, a worker's or a late commit's.
InUse(x, c) ==
    \/ task[x].revision > 0 /\ c = ChargeOf(task[x])
    \/ \E w \in Workers : worker[w].pc # "idle" /\ worker[w].att = x /\ worker[w].c = c
    \/ \E m \in wire : m.att = x /\ m.c = c

\* The evidence a task can have selected.
TaskOK(t) ==
    /\ t.rank \in {0, 2, 3} /\ (t.rank = 0 <=> t.revision = 0)
    /\ t.rank = 2 => t.revision = 1
    /\ t.key = "resolution" => t.rank = 2 /\ t.total = 0

TasksOK == \A x \in Attempts : TaskOK(task[x])

\* The charge c was taken from the task of x.
ChargeOK(x, c) ==
    /\ c.revision <= task[x].revision
    /\ c.revision = task[x].revision => c = ChargeOf(task[x])
    /\ c.rank = 2 => c.revision = 1
    /\ c.rank = 3 => task[x].rank = 3 /\ c.revision = task[x].revision
    /\ c.key = "resolution" => c.rank = 2 /\ c.total = 0

\* Every charge is its task's, and there is only one of rank 2.
ChargesOK == \A x \in Attempts, c \in Charge : InUse(x, c) =>
    /\ ChargeOK(x, c)
    /\ \A d \in Charge : InUse(x, d) /\ c.rank = 2 /\ d.rank = 2 => c = d

\* What a row A says by itself.
Sound(a) ==
    /\ a.state \in {"none", "reserved", "upper_bound", "settled", "released"}
    /\ a.rank \in {0, 2, 3}
    /\ a.rank = 0 <=> a.state \in {"none", "reserved", "upper_bound"}
    /\ a.rank = 0 => a.revision = 0 /\ ~ a.completed /\ ~ a.rejected /\ ~ a.resolved
    /\ a.rank = 2 => a.revision = 1 /\ ~ a.completed
    /\ a.rank = 2 /\ (a.rejected \/ a.resolved) => a.actual = 0
    /\ a.state = "released" => a.rank = 2 /\ a.resolved

\* A row A that x has, or had: an exact charge came from the gateway or from
\* the task; a total of rank 2 is that of the only charge of rank 2.
RowOK(x, a) ==
    /\ Sound(a)
    /\ a.rank = 3 /\ ~ a.completed => task[x].rank = 3 /\ a.revision = task[x].revision
    /\ a.rank = 3 => a.revision <= task[x].revision \/ a.revision = 1
    /\ a.rank = 2 /\ a.actual # 0 =>
          /\ task[x].revision > 0
          /\ \A c \in Charge : InUse(x, c) /\ c.rank = 2 => c.total = a.actual

RowsOK == \A x \in Attempts : RowOK(x, attempt[x])

\* A row moves up through the ranks, and keeps its total within a rank.
Follows(a, b) ==
    /\ a.rank <= b.rank
    /\ a.rank >= 2 /\ a.rank = b.rank => b.actual = a.actual

\* The row has the charge c or stronger evidence.
IsCharged(a, c) ==
    /\ a.rank >= c.rank
    /\ a.rank = c.rank => a.actual = c.total

\* What a worker has read of its row the row had, and has moved on from; and
\* what it acknowledges is in the row.
WorkerOK(w) ==
    LET me == worker[w]
    IN  /\ me.pc = "decide" => RowOK(me.att, me.a) /\ Follows(me.a, attempt[me.att])
        /\ me.pc = "acknowledge" => IsCharged(attempt[me.att], me.c)

WorkersOK == \A w \in Workers : WorkerOK(w)

\* A late commit was decided on.
WireOK == \A m \in wire : SettleOutcome(m.a, m.c) = "applied"

\* A task whose revision is acknowledged is charged.
AppliedOK == \A x \in Attempts :
    task[x].revision > 0 /\ task[x].applied = task[x].revision =>
        IsCharged(attempt[x], ChargeOf(task[x]))

IInv == TypeOK /\ TasksOK /\ ChargesOK /\ RowsOK /\ WorkersOK /\ WireOK /\ AppliedOK

--------------------------------------------------------------------------
(* The decisions of the ledger. *)

\* Nothing is wrong with the tasks and their charges.
Evidence == TypeOK /\ TasksOK /\ ChargesOK

LEMMA EmptyTypes == EmptySummary \in Summary /\ NoAttempt \in Attempt /\ NoCharge \in Charge
BY DEF EmptySummary, Summary, NoAttempt, Attempt, AttemptStates, EvidenceKeys, NoCharge, Charge

\* What settle_ledger ignores, the row has already.
LEMMA IgnoredIsCharged ==
    ASSUME Evidence, NEW x \in Attempts, NEW a \in Attempt, NEW c \in Charge,
           RowOK(x, a), InUse(x, c), SettleOutcome(a, c) = "ignored"
    PROVE  IsCharged(a, c)
<1>1. ChargeOK(x, c) /\ Sound(a)
  BY DEF Evidence, ChargesOK, RowOK
<1>2. a.rank = 2 /\ a.actual # 0 /\ c.rank = 2 => c.total = a.actual
  BY DEF RowOK
<1>3. c.rank \in {2, 3} /\ c.total \in Nat /\ c.revision \in Nat \ {0} /\ a.rank \in {0, 2, 3}
      /\ a.actual \in Nat /\ a.revision \in Nat
  BY <1>1 DEF Charge, Attempt, Sound
<1>4. CASE c.key = "resolution"
  <2>1. a.resolved \/ a.state \in {"settled", "cancelled"}
    BY <1>4 DEF SettleOutcome, ResolveOutcome
  <2>2. a.rank >= 2 /\ c.rank = 2 /\ c.total = 0
    BY <2>1, <1>1, <1>3, <1>4 DEF Sound, ChargeOK
  <2> QED
    BY <2>2, <1>2, <1>3 DEF IsCharged
<1>5. CASE c.key # "resolution" /\ a.completed
  <2>1. a.rank = 3 /\ (c.rank = 3 => c.total = a.actual)
    BY <1>1, <1>5 DEF Sound, SettleOutcome
  <2> QED
    BY <2>1, <1>3 DEF IsCharged
<1>6. CASE c.key # "resolution" /\ ~ a.completed
  <2>1. CASE c.rank < a.rank
    BY <2>1, <1>3 DEF IsCharged
  <2>2. CASE c.rank >= a.rank /\ (a.resolved \/ a.rejected) /\ c.rank = 2
    <3>1. c.total = 0
      BY <2>2, <1>3, <1>6 DEF SettleOutcome
    <3>2. a.rank = 2 /\ a.actual = 0
      BY <2>2, <1>1, <1>3 DEF Sound
    <3> QED
      BY <3>1, <3>2, <2>2 DEF IsCharged
  <2>3. CASE c.rank >= a.rank /\ ~ ((a.resolved \/ a.rejected) /\ c.rank = 2)
    <3>1. c.rank = a.rank /\ (c.revision < a.revision \/ c.total = a.actual)
      BY <2>3, <1>3, <1>6 DEF SettleOutcome
    <3>2. CASE a.rank = 2
      BY <3>1, <3>2, <1>1, <1>3 DEF Sound, ChargeOK, IsCharged
    <3>3. CASE a.rank = 3
      BY <3>1, <3>3, <1>1, <1>3, <1>6 DEF ChargeOK, IsCharged, RowOK
    <3> QED
      BY <3>1, <3>2, <3>3, <1>3
  <2> QED
    BY <2>1, <2>2, <2>3, <1>3
<1> QED
  BY <1>4, <1>5, <1>6

\* A charge is applied to a row that has weaker evidence.
LEMMA AppliedIsStronger ==
    ASSUME Evidence, NEW x \in Attempts, NEW a \in Attempt, NEW c \in Charge,
           RowOK(x, a), InUse(x, c), SettleOutcome(a, c) = "applied"
    PROVE  c.rank > a.rank
<1>1. ChargeOK(x, c) /\ Sound(a)
  BY DEF Evidence, ChargesOK, RowOK
<1>2. c.rank \in {2, 3} /\ c.total \in Nat /\ c.revision \in Nat \ {0} /\ a.rank \in {0, 2, 3}
      /\ a.actual \in Nat /\ a.revision \in Nat
  BY <1>1 DEF Charge, Attempt, Sound
<1>3. CASE c.key = "resolution"
  <2>1. a.state \in HeldStates \union {"upper_bound"}
    BY <1>3 DEF SettleOutcome, ResolveOutcome
  <2> QED
    BY <2>1, <1>1, <1>2 DEF Sound, HeldStates
<1>4. CASE c.key # "resolution"
  <2>1. ~ a.completed /\ (c.rank > a.rank \/ (c.rank = a.rank /\ c.revision > a.revision))
    BY <1>2, <1>4 DEF SettleOutcome
  <2>2. CASE c.rank = 2
    BY <2>1, <2>2, <1>1, <1>2 DEF Sound, ChargeOK
  <2>3. CASE c.rank = 3
    BY <2>1, <2>3, <1>1, <1>2 DEF ChargeOK, RowOK
  <2> QED
    BY <2>2, <2>3, <1>2
<1> QED
  BY <1>3, <1>4

\* The row that settle_ledger writes follows the one it read, and is charged.
LEMMA SettledRow ==
    ASSUME Evidence, NEW x \in Attempts, NEW a \in Attempt, NEW c \in Charge,
           RowOK(x, a), InUse(x, c), SettleOutcome(a, c) = "applied",
           NEW b, b = SettledAttempt(a, c)
    PROVE  b \in Attempt /\ RowOK(x, b) /\ Follows(a, b) /\ IsCharged(b, c)
<1>1. ChargeOK(x, c) /\ Sound(a) /\ c.rank > a.rank
  BY AppliedIsStronger DEF Evidence, ChargesOK, RowOK
<1>2. c.rank \in {2, 3} /\ c.total \in Nat /\ c.revision \in Nat \ {0} /\ a.rank \in {0, 2, 3}
      /\ a.actual \in Nat /\ a.revision \in Nat /\ c.key \in EvidenceKeys
      /\ task[x].revision >= c.revision
  BY <1>1 DEF Charge, Attempt, Sound, ChargeOK
<1>5. task[x].revision \in Nat
  BY DEF Evidence, TypeOK, Task
<1>3. CASE c.key = "resolution"
  <2>1. c.rank = 2 /\ c.total = 0 /\ a.rank = 0
    BY <1>1, <1>2, <1>3 DEF ChargeOK
  <2>2. b = ResolvedAttempt(a)
    BY <1>3 DEF SettledAttempt
  <2>3. /\ b.state = "released" /\ b.rank = 2 /\ b.actual = 0 /\ b.resolved
        /\ b.revision = IF a.revision < 1 THEN 1 ELSE a.revision
        /\ b.completed = a.completed /\ b.rejected = a.rejected
    BY <2>2 DEF ResolvedAttempt, Attempt
  <2>4. b.revision = 1 /\ ~ b.completed
    BY <2>1, <2>3, <1>1 DEF Sound
  <2>5. b \in Attempt
    BY <2>2, EmptyTypes, ResolvedTypes
  <2> QED
    BY <2>1, <2>3, <2>4, <2>5, <1>2 DEF Sound, RowOK, Follows, IsCharged
<1>4. CASE c.key # "resolution"
  <2>1. b = [a EXCEPT !.state = "settled", !.actual = c.total, !.rank = c.rank,
                      !.revision = IF a.revision < c.revision THEN c.revision ELSE a.revision,
                      !.key = c.key]
    BY <1>4 DEF SettledAttempt, Attempt
  <2>2. /\ b.state = "settled" /\ b.actual = c.total /\ b.rank = c.rank
        /\ b.revision = IF a.revision < c.revision THEN c.revision ELSE a.revision
        /\ b.completed = a.completed /\ b.rejected = a.rejected /\ b.resolved = a.resolved
    BY <2>1 DEF Attempt
  <2>9. b \in Attempt
    BY EmptyTypes, SettledTypes
  <2>3. ~ a.completed
    BY <1>1, <1>2, <1>4 DEF SettleOutcome, Sound
  <2>4. a.rank = 0 => ~ a.rejected /\ ~ a.resolved /\ a.revision = 0
    BY <1>1 DEF Sound
  <2>5. a.rank = 2 => a.revision = 1
    BY <1>1 DEF Sound
  <2>6. Sound(b)
    <3>1. b.rank = 2 => a.rank = 0 /\ c.revision = 1
      BY <2>2, <1>1, <1>2 DEF ChargeOK
    <3> QED
      BY <3>1, <2>2, <2>3, <2>4, <1>2 DEF Sound
  <2>7. b.rank = 3 => task[x].rank = 3 /\ b.revision = task[x].revision
    BY <2>2, <2>4, <2>5, <1>1, <1>2 DEF ChargeOK
  <2>8. b.rank = 2 /\ b.actual # 0 =>
           \A d \in Charge : InUse(x, d) /\ d.rank = 2 => d.total = b.actual
    BY <2>2 DEF Evidence, ChargesOK
  <2> QED
    <3>1. task[x].revision > 0
      BY <1>2, <1>5
    <3>2. RowOK(x, b)
      BY <3>1, <2>2, <2>6, <2>7, <2>8, <1>2 DEF RowOK
    <3> QED
      BY <3>2, <2>2, <2>9, <1>1, <1>2 DEF Follows, IsCharged
<1> QED
  BY <1>3, <1>4

\* So does the row the gateway completes.
LEMMA CompletedRow ==
    ASSUME NEW x \in Attempts, NEW a \in Attempt, RowOK(x, a),
           NEW rejection \in BOOLEAN, NEW total \in Nat, rejection => total = 0,
           CompleteOutcome(a, rejection, total) = "applied",
           NEW b, b = CompletedAttempt(a, rejection, total)
    PROVE  b \in Attempt /\ RowOK(x, b) /\ Follows(a, b)
<1>1. Sound(a) /\ a.rank \in {0, 2, 3} /\ a.actual \in Nat /\ a.revision \in Nat
      /\ a.completed \in BOOLEAN /\ a.rejected \in BOOLEAN /\ a.resolved \in BOOLEAN
  BY DEF RowOK, Sound, Attempt
<1>2. /\ b.state = "settled" /\ b.actual = total
      /\ b.rank = IF rejection THEN 2 ELSE 3
      /\ b.revision = IF a.revision < 1 THEN 1 ELSE a.revision
      /\ b.rejected = (a.rejected \/ rejection) /\ b.completed = (a.completed \/ ~ rejection)
      /\ b.resolved = a.resolved
  BY DEF CompletedAttempt, Attempt
<1>5. b \in Attempt
  BY EmptyTypes, CompletedTypes
<1>3. CASE rejection
  <2>1. a.rank # 3 /\ a.state # "released" /\ (a.rank = 2 => a.actual = 0) /\ ~ a.completed
    BY <1>1, <1>3 DEF CompleteOutcome, Sound
  <2>2. a.revision \in {0, 1}
    BY <2>1, <1>1 DEF Sound
  <2> QED
    <3>1. b.rank = 2 /\ b.actual = 0 /\ b.revision = 1 /\ b.rejected /\ ~ b.completed
      <4>1. b.rank = 2 /\ b.actual = 0 /\ b.revision = 1
        BY <1>2, <1>3, <2>2
      <4>2. b.rejected /\ ~ b.completed
        BY <1>2, <1>3, <2>1, Zenon
      <4> QED
        BY <4>1, <4>2
    <3>2. Sound(b)
      BY <3>1, <1>2 DEF Sound
    <3> QED
      BY <3>1, <3>2, <1>1, <1>5, <2>1 DEF RowOK, Follows
<1>4. CASE ~ rejection
  <2>1. a.rank = 3 => a.actual = total
    BY <1>1, <1>4 DEF CompleteOutcome, Sound
  <2>2. a.rank # 3 => a.revision \in {0, 1}
    BY <1>1 DEF Sound
  <2>3. b.revision <= task[x].revision \/ b.revision = 1
    BY <1>1, <1>2, <2>2 DEF RowOK
  <2> QED
    <3>1. b.rank = 3
      BY <1>2, <1>4
    <3>2. b.completed
      BY <1>2, <1>4, Zenon
    <3>4. Sound(b)
      BY <1>2, <3>1 DEF Sound
    <3> QED
      BY <3>1, <3>2, <3>4, <1>1, <1>2, <1>5, <2>1, <2>3 DEF RowOK, Follows
<1> QED
  BY <1>3, <1>4

--------------------------------------------------------------------------
(* What every step keeps to, and that this is enough. *)

\* The evidence of a task stays, or is replaced by stronger evidence.
Stays(x) == task'[x].revision = task[x].revision /\ ChargeOf(task'[x]) = ChargeOf(task[x])
Rises(x) ==
    /\ task'[x].rank > task[x].rank /\ task'[x].revision = task[x].revision + 1
    /\ task'[x].rank \in {2, 3} /\ task'[x].applied = task[x].applied
    /\ task'[x].key = "resolution" => task'[x].rank = 2 /\ task'[x].total = 0

EvidenceGrows == \A x \in Attempts : Stays(x) \/ Rises(x)

\* Every charge in use was in use, or is the evidence its task has now.
ChargesKept == \A x \in Attempts, c \in Charge :
    InUse(x, c)' => InUse(x, c) \/ (task'[x].revision > 0 /\ c = ChargeOf(task'[x]))

\* A row stays or is followed.
RowsFollow == \A x \in Attempts : \E b \in Attempt :
    attempt'[x] = b /\ Follows(attempt[x], b) /\ RowOK(x, b)

\* What a claim hands out is the task.
LEMMA ChargeFields ==
    ASSUME NEW t
    PROVE  /\ ChargeOf(t).rank = t.rank /\ ChargeOf(t).revision = t.revision
           /\ ChargeOf(t).total = t.total /\ ChargeOf(t).key = t.key
BY DEF ChargeOf

LEMMA TaskTyped ==
    ASSUME TypeOK, NEW x \in Attempts
    PROVE  /\ task[x].rank \in Nat /\ task[x].revision \in Nat /\ task[x].applied \in Nat
           /\ task[x].applied <= task[x].revision /\ task[x].key \in EvidenceKeys
           /\ task[x].total \in Nat /\ task[x].owner \in Workers \union {"nobody"}
BY DEF TypeOK, Task

\* The charge of a task that has evidence is one.
LEMMA ChargeTyped ==
    ASSUME TypeOK, TasksOK, NEW x \in Attempts, task[x].revision > 0
    PROVE  ChargeOf(task[x]) \in Charge
<1>1. task[x].rank \in {2, 3}
  BY TaskTyped DEF TasksOK, TaskOK
<1> QED
  BY <1>1, TaskTyped DEF ChargeOf, Charge

LEMMA TasksStayOK ==
    ASSUME TypeOK, TasksOK, TypeOK', EvidenceGrows
    PROVE  TasksOK'
<1> SUFFICES ASSUME NEW x \in Attempts PROVE TaskOK(task'[x])
  BY DEF TasksOK
<1>1. TaskOK(task[x])
  BY DEF TasksOK
<1>2. CASE Stays(x)
  BY <1>1, <1>2, ChargeFields DEF Stays, TaskOK
<1>3. CASE Rises(x)
  <2>1. task'[x].rank = 2 => task[x].rank = 0
    BY <1>1, <1>3 DEF Rises, TaskOK
  <2> QED
    BY <2>1, <1>1, <1>3, TaskTyped DEF Rises, TaskOK
<1> QED
  BY <1>2, <1>3 DEF EvidenceGrows

LEMMA ChargesStayOK ==
    ASSUME Evidence, TypeOK', EvidenceGrows, ChargesKept
    PROVE  ChargesOK'
<1>0. TasksOK' /\ TypeOK /\ TasksOK /\ ChargesOK
  BY TasksStayOK DEF Evidence
<1> SUFFICES ASSUME NEW x \in Attempts, NEW c \in Charge, InUse(x, c)'
             PROVE  /\ ChargeOK(x, c)'
                    /\ \A d \in Charge : InUse(x, d)' /\ c.rank = 2 /\ d.rank = 2 => c = d
  BY DEF ChargesOK
<1>1. TaskOK(task[x]) /\ TaskOK(task'[x])
  BY <1>0 DEF TasksOK
<1>2. task[x].revision \in Nat /\ task[x].rank \in Nat
  BY <1>0, TaskTyped
<1>3. c.rank \in {2, 3} /\ c.revision \in Nat \ {0}
  BY DEF Charge
<1>4. CASE Stays(x)
  <2>1. task[x].revision > 0 => InUse(x, ChargeOf(task[x]))
    BY DEF InUse
  <2>2. \A d \in Charge : InUse(x, d)' => InUse(x, d)
    BY <1>4, <2>1 DEF ChargesKept, Stays
  <2>3. ChargeOK(x, c) /\ \A d \in Charge : InUse(x, d) /\ c.rank = 2 /\ d.rank = 2 => c = d
    BY <1>0, <2>2 DEF ChargesOK
  <2>4. ChargeOK(x, c)'
    BY <1>4, <2>3, ChargeFields DEF ChargeOK, Stays
  <2> QED
    BY <2>2, <2>3, <2>4
<1>5. CASE Rises(x)
  <2>1. \A d \in Charge : InUse(x, d) => ChargeOK(x, d)
    BY <1>0 DEF ChargesOK
  <2>2. task[x].rank = 0 => \A d \in Charge : ~ InUse(x, d)
    BY <1>1, <1>2, <2>1 DEF ChargeOK, TaskOK, Charge
  <2>3. task[x].rank = 2 => task'[x].rank = 3
    BY <1>5 DEF Rises
  <2>4. task[x].rank \in {0, 2}
    BY <1>1, <1>5 DEF Rises, TaskOK
  <2>5. ChargeOK(x, c)'
    <3>1. CASE InUse(x, c)
      <4>1. c.rank = 2 /\ c.revision = 1 /\ task[x].revision = 1 /\ task'[x].revision = 2
        BY <2>1, <2>2, <2>4, <3>1, <1>1, <1>3, <1>5 DEF ChargeOK, TaskOK, Rises
      <4>2. c.key = "resolution" => c.total = 0
        BY <2>1, <3>1 DEF ChargeOK
      <4> QED
        BY <4>1, <4>2 DEF ChargeOK
    <3>2. CASE c = ChargeOf(task'[x])
      <4>1. /\ c.rank = task'[x].rank /\ c.revision = task'[x].revision
            /\ c.total = task'[x].total /\ c.key = task'[x].key
        BY <3>2, ChargeFields
      <4> QED
        BY <4>1, <3>2, <1>1, <1>3 DEF ChargeOK, TaskOK
    <3> QED
      BY <3>1, <3>2 DEF ChargesKept
  <2>6. ASSUME NEW d \in Charge, InUse(x, d)', c.rank = 2, d.rank = 2 PROVE c = d
    <3>1. CASE task[x].rank = 0
      BY <2>2, <2>6, <3>1 DEF ChargesKept
    <3>2. CASE task[x].rank = 2
      <4>1. ChargeOf(task'[x]).rank = 3
        BY <2>3, <3>2, ChargeFields
      <4>2. InUse(x, c) /\ InUse(x, d)
        BY <2>6, <4>1 DEF ChargesKept
      <4> QED
        BY <4>2, <2>6, <1>0 DEF ChargesOK
    <3> QED
      BY <2>4, <3>1, <3>2
  <2> QED
    BY <2>5, <2>6
<1> QED
  BY <1>4, <1>5 DEF EvidenceGrows

\* A row that was right stays right.
LEMMA RowStaysOK ==
    ASSUME Evidence, EvidenceGrows, ChargesKept, TypeOK',
           NEW x \in Attempts, NEW a \in Attempt, RowOK(x, a)
    PROVE  RowOK(x, a)'
<1>1. TaskOK(task[x]) /\ task[x].revision \in Nat /\ task[x].rank \in Nat
  BY TaskTyped DEF Evidence, TasksOK
<1>2. a.revision \in Nat
  BY DEF Attempt
<1>3. CASE Stays(x)
  <2>1. task[x].revision > 0 => InUse(x, ChargeOf(task[x]))
    BY DEF InUse
  <2>2. \A d \in Charge : InUse(x, d)' => InUse(x, d)
    BY <1>3, <2>1 DEF ChargesKept, Stays
  <2>3. task'[x].rank = task[x].rank /\ task'[x].revision = task[x].revision
    BY <1>3, ChargeFields DEF Stays
  <2> QED
    BY <2>2, <2>3 DEF RowOK
<1>4. CASE Rises(x)
  <2>1. ~ (a.rank = 3 /\ ~ a.completed)
    BY <1>1, <1>4 DEF RowOK, Rises
  <2>2. task'[x].revision = task[x].revision + 1
    BY <1>4 DEF Rises
  <2>3. a.rank = 2 /\ a.actual # 0 => ChargeOf(task'[x]).rank = 3
    BY <1>1, <1>4, ChargeFields DEF RowOK, Rises, TaskOK
  <2>4. a.rank = 2 /\ a.actual # 0 =>
           \A c \in Charge : InUse(x, c)' /\ c.rank = 2 => InUse(x, c)
    BY <2>3 DEF ChargesKept
  <2> QED
    BY <1>1, <1>2, <2>1, <2>2, <2>4 DEF RowOK
<1> QED
  BY <1>3, <1>4 DEF EvidenceGrows

\* Following is transitive, and what is charged stays charged.
LEMMA FollowsOn ==
    ASSUME NEW a \in Attempt, NEW b \in Attempt, Follows(a, b)
    PROVE  /\ \A z \in Attempt : Follows(z, a) => Follows(z, b)
           /\ \A c \in Charge : IsCharged(a, c) => IsCharged(b, c)
BY DEF Follows, IsCharged, Attempt, Charge

\* What a worker knows stays true, as long as the worker does nothing.
LEMMA WorkerStaysOK ==
    ASSUME IInv, TypeOK', EvidenceGrows, ChargesKept, RowsFollow,
           NEW w \in Workers, worker'[w] = worker[w]
    PROVE  WorkerOK(w)'
<1>1. TypeOK /\ Evidence /\ WorkerOK(w)
  BY DEF IInv, Evidence, WorkersOK
<1>2. PICK me \in WorkerState : me = worker[w]
  BY <1>1 DEF TypeOK
<1>3. me.att \in Attempts /\ me.a \in Attempt /\ me.c \in Charge
  BY <1>2 DEF WorkerState
<1>4. attempt[me.att] \in Attempt
  BY <1>1, <1>3 DEF TypeOK
<1>5. PICK b \in Attempt : attempt'[me.att] = b /\ Follows(attempt[me.att], b)
  BY <1>3 DEF RowsFollow
<1>6. me.pc = "decide" => RowOK(me.att, me.a) /\ Follows(me.a, attempt[me.att])
  BY <1>1, <1>2 DEF WorkerOK
<1>7. me.pc = "acknowledge" => IsCharged(attempt[me.att], me.c)
  BY <1>1, <1>2 DEF WorkerOK
<1>8. me.pc = "decide" => RowOK(me.att, me.a)' /\ Follows(me.a, b)
  BY <1>1, <1>3, <1>4, <1>5, <1>6, RowStaysOK, FollowsOn
<1>9. me.pc = "acknowledge" => IsCharged(b, me.c)
  BY <1>3, <1>4, <1>5, <1>7, FollowsOn
<1> QED
  BY <1>2, <1>5, <1>8, <1>9 DEF WorkerOK

\* A step that keeps to all this preserves the invariant.
LEMMA Preserved ==
    ASSUME IInv, TypeOK', EvidenceGrows, ChargesKept, RowsFollow,
           \A w \in Workers : worker'[w] = worker[w] \/ WorkerOK(w)',
           \A m \in wire' : m \in wire \/ SettleOutcome(m.a, m.c) = "applied",
           \A x \in Attempts :
               \/ task'[x].applied = task[x].applied
               \/ task'[x].applied = task'[x].revision => IsCharged(attempt'[x], ChargeOf(task'[x]))
    PROVE  IInv'
<1>1. TypeOK /\ TasksOK /\ Evidence /\ AppliedOK
  BY DEF IInv, Evidence
<1>2. TasksOK' /\ ChargesOK'
  BY <1>1, TasksStayOK, ChargesStayOK
<1>3. RowsOK'
  <2> SUFFICES ASSUME NEW x \in Attempts PROVE RowOK(x, attempt[x])'
    BY DEF RowsOK
  <2>1. PICK b \in Attempt : attempt'[x] = b /\ RowOK(x, b)
    BY DEF RowsFollow
  <2>2. RowOK(x, b)'
    BY <1>1, <2>1, RowStaysOK
  <2> QED
    BY <2>1, <2>2 DEF RowOK
<1>4. WorkersOK'
  BY WorkerStaysOK DEF WorkersOK
<1>5. WireOK'
  BY DEF IInv, WireOK
<1>6. AppliedOK'
  <2> SUFFICES ASSUME NEW x \in Attempts, task'[x].revision > 0,
                      task'[x].applied = task'[x].revision
               PROVE  IsCharged(attempt'[x], ChargeOf(task'[x]))
    BY DEF AppliedOK
  <2>1. PICK b \in Attempt : attempt'[x] = b /\ Follows(attempt[x], b)
    BY DEF RowsFollow
  <2>2. CASE task'[x].applied = task[x].applied /\ Stays(x)
    <3>1. ChargeOf(task[x]) \in Charge /\ attempt[x] \in Attempt
      BY <1>1, <2>2, ChargeTyped DEF Stays, TypeOK
    <3>2. IsCharged(attempt[x], ChargeOf(task[x]))
      BY <1>1, <2>2 DEF AppliedOK, Stays
    <3> QED
      BY <2>1, <2>2, <3>1, <3>2, FollowsOn DEF Stays
  <2>3. CASE Rises(x)
    BY <1>1, <2>3, TaskTyped DEF Rises
  <2> QED
    BY <2>2, <2>3 DEF EvidenceGrows
<1> QED
  BY <1>2, <1>3, <1>4, <1>5, <1>6 DEF IInv

--------------------------------------------------------------------------
(* Types. *)

LedgerTyped == summary \in Summary /\ attempt \in [Attempts -> Attempt]

RegistryTyped ==
    /\ recorded \subseteq Attempts /\ complete \subseteq recorded
    /\ ack \in [Attempts -> Totals \union {-1}]
    /\ task \in [Attempts -> Task]
    /\ \A x \in Attempts : task[x].applied <= task[x].revision
    /\ finalized \subseteq Attempts /\ reviewed \subseteq Attempts /\ unverified \subseteq Attempts

DrainsTyped ==
    /\ worker \in [Workers -> WorkerState]
    /\ wire \subseteq Commit
    /\ faults \in 0..MaxFaults

LEMMA TypeParts == TypeOK <=> LedgerTyped /\ RegistryTyped /\ DrainsTyped
BY DEF TypeOK, LedgerTyped, RegistryTyped, DrainsTyped

LEMMA LedgerTypedStays == LedgerTyped /\ UNCHANGED ledger => LedgerTyped'
BY DEF LedgerTyped, ledger

LEMMA RegistryTypedStays == RegistryTyped /\ UNCHANGED <<registry, readers>> => RegistryTyped'
BY DEF RegistryTyped, registry, readers

LEMMA DrainsTypedStay == DrainsTyped /\ UNCHANGED drains => DrainsTyped'
BY DEF DrainsTyped, drains

LEMMA IdleTyped == Idle \in WorkerState /\ Idle.pc = "idle"
<1>1. (CHOOSE x \in Attempts : TRUE) \in Attempts
  BY SettlementAssumption
<1>2. 0 \in 0..MaxTries - 1
  BY SettlementAssumption
<1> QED
  BY <1>1, <1>2, EmptyTypes DEF Idle, WorkerState

LEMMA OneRow ==
    ASSUME LedgerTyped, NEW x \in Attempts, NEW b \in Attempt,
           attempt' = [attempt EXCEPT ![x] = b], summary' \in Summary
    PROVE  LedgerTyped' /\ attempt'[x] = b /\ \A y \in Attempts \ {x} : attempt'[y] = attempt[y]
BY DEF LedgerTyped

LEMMA OneTask ==
    ASSUME RegistryTyped, NEW x \in Attempts, NEW u \in Task, u.applied <= u.revision,
           task' = [task EXCEPT ![x] = u]
    PROVE  /\ task' \in [Attempts -> Task] /\ task'[x] = u
           /\ \A y \in Attempts : task'[y].applied <= task'[y].revision
           /\ \A y \in Attempts \ {x} : task'[y] = task[y]
BY DEF RegistryTyped

LEMMA OneWorker ==
    ASSUME DrainsTyped, NEW w \in Workers, NEW me \in WorkerState,
           worker' = [worker EXCEPT ![w] = me]
    PROVE  /\ worker' \in [Workers -> WorkerState] /\ worker'[w] = me
           /\ \A v \in Workers \ {w} : worker'[v] = worker[v]
BY DEF DrainsTyped

LEMMA FaultTyped ==
    ASSUME DrainsTyped, faults < MaxFaults, faults' = faults + 1
    PROVE  faults' \in 0..MaxFaults
BY SettlementAssumption DEF DrainsTyped

--------------------------------------------------------------------------
(* Steps that keep to it. *)

\* Workers keep what they carry, or take the evidence of a task; late commits
\* carry what was in use.
LEMMA CarriedIsKept ==
    ASSUME \A w \in Workers : worker'[w].pc # "idle" =>
               \/ /\ worker[w].pc # "idle"
                  /\ worker'[w].att = worker[w].att /\ worker'[w].c = worker[w].c
               \/ LET x == worker'[w].att
                  IN  task'[x].revision > 0 /\ worker'[w].c = ChargeOf(task'[x]),
           \A m \in wire' : m \in wire \/ InUse(m.att, m.c)
    PROVE  ChargesKept
<1> SUFFICES ASSUME NEW x \in Attempts, NEW c \in Charge, InUse(x, c)'
             PROVE  InUse(x, c) \/ (task'[x].revision > 0 /\ c = ChargeOf(task'[x]))
  BY DEF ChargesKept
<1>1. CASE task'[x].revision > 0 /\ c = ChargeOf(task'[x])
  BY <1>1
<1>2. CASE \E w \in Workers : worker'[w].pc # "idle" /\ worker'[w].att = x /\ worker'[w].c = c
  BY <1>2 DEF InUse
<1>3. CASE \E m \in wire' : m.att = x /\ m.c = c
  BY <1>3 DEF InUse
<1> QED
  BY <1>1, <1>2, <1>3 DEF InUse

LEMMA RowsStay ==
    ASSUME IInv, UNCHANGED attempt
    PROVE  RowsFollow
BY DEF IInv, RowsOK, RowsFollow, Follows, TypeOK, Attempt

\* One row moves up.
LEMMA RowMoves ==
    ASSUME IInv, TypeOK', NEW x \in Attempts, NEW b \in Attempt,
           attempt' = [attempt EXCEPT ![x] = b], Follows(attempt[x], b), RowOK(x, b),
           UNCHANGED <<task, worker, wire>>
    PROVE  IInv' /\ RowsFollow
<1>1. RowsFollow
  <2>1. \A y \in Attempts : attempt[y] \in Attempt /\ RowOK(y, attempt[y])
    BY DEF IInv, TypeOK, RowsOK
  <2>2. \A y \in Attempts : Follows(attempt[y], attempt[y])
    BY <2>1 DEF Follows, Attempt
  <2> QED
    BY <2>1, <2>2 DEF RowsFollow, IInv, TypeOK
<1>2. EvidenceGrows
  BY DEF EvidenceGrows, Stays
<1>3. ChargesKept
  BY DEF ChargesKept, InUse
<1> QED
  BY <1>1, <1>2, <1>3, Preserved

\* Nothing the invariant reads changes, but the types of the rest.
LEMMA NothingMoves ==
    ASSUME IInv, TypeOK', UNCHANGED <<attempt, task, worker, wire>>
    PROVE  IInv'
<1>1. EvidenceGrows /\ ChargesKept
  BY DEF EvidenceGrows, Stays, ChargesKept, InUse
<1> QED
  BY <1>1, RowsStay, Preserved

\* The task t becomes u: it stays, or has stronger evidence.
Grown(t, u) ==
    \/ u = t
    \/ /\ u.rank > t.rank /\ u.revision = t.revision + 1 /\ u.rank \in {2, 3}
       /\ u.applied = t.applied
       /\ u.key = "resolution" => u.rank = 2 /\ u.total = 0

LEMMA TaskMoves ==
    ASSUME IInv, TypeOK', NEW x \in Attempts, NEW u \in Task,
           task' = [task EXCEPT ![x] = u], Grown(task[x], u),
           UNCHANGED <<attempt, worker, wire>>
    PROVE  IInv'
<1>1. task'[x] = u /\ \A y \in Attempts \ {x} : task'[y] = task[y]
  BY DEF IInv, TypeOK
<1>2. EvidenceGrows
  BY <1>1 DEF EvidenceGrows, Stays, Rises, Grown
<1>3. ChargesKept
  BY DEF ChargesKept, InUse
<1>4. \A y \in Attempts : task'[y].applied = task[y].applied
  BY <1>1 DEF Grown
<1> QED
  BY <1>2, <1>3, <1>4, RowsStay, Preserved

\* A worker moves, its claim may change hands, and its evidence does not.
LEMMA WorkerMoves ==
    ASSUME IInv, TypeOK', NEW w \in Workers, NEW me \in WorkerState,
           worker' = [worker EXCEPT ![w] = me], WorkerOK(w)',
           me.pc # "idle" =>
               \/ worker[w].pc # "idle" /\ me.att = worker[w].att /\ me.c = worker[w].c
               \/ task'[me.att].revision > 0 /\ me.c = ChargeOf(task'[me.att]),
           \A x \in Attempts : Stays(x),
           \A x \in Attempts :
               \/ task'[x].applied = task[x].applied
               \/ task'[x].applied = task'[x].revision => IsCharged(attempt'[x], ChargeOf(task'[x])),
           RowsFollow,
           \A m \in wire' :
               m \in wire \/ (InUse(m.att, m.c) /\ SettleOutcome(m.a, m.c) = "applied")
    PROVE  IInv'
<1>1. worker'[w] = me /\ \A v \in Workers \ {w} : worker'[v] = worker[v]
  BY DEF IInv, TypeOK
<1>2. EvidenceGrows
  BY DEF EvidenceGrows
<1>3. ChargesKept
  BY <1>1, CarriedIsKept
<1>4. \A v \in Workers : worker'[v] = worker[v] \/ WorkerOK(v)'
  BY <1>1
<1> QED
  BY <1>2, <1>3, <1>4, Preserved

--------------------------------------------------------------------------
(* Evidence enters PostgreSQL. *)

LEMMA QueuedGrows ==
    ASSUME NEW t \in Task, t.applied <= t.revision,
           NEW key \in EvidenceKeys, NEW rank \in {2, 3}, NEW total \in Nat,
           key = "resolution" => rank = 2 /\ total = 0,
           NEW u, u = Queued(t, key, rank, total)
    PROVE  u \in Task /\ u.applied <= u.revision /\ Grown(t, u) /\ u.rank >= rank
<1>1. CASE rank > t.rank
  <2> DEFINE u1 == [t EXCEPT !.revision = @ + 1]
             u2 == [u1 EXCEPT !.rank = rank]
             u3 == [u2 EXCEPT !.key = key]
             u4 == [u3 EXCEPT !.total = total]
  <2>1. u1 \in Task
    BY DEF Task
  <2>2. u2 \in Task
    <3>1. rank \in 0..3
      OBVIOUS
    <3> QED
      BY <2>1, <3>1 DEF Task
  <2>3. u4 \in Task
    BY <2>2 DEF Task
  <2>4. u = u4
    BY <1>1 DEF Queued, Outranks
  <2>5. u.rank = rank /\ u.revision = t.revision + 1 /\ u.applied = t.applied
        /\ u.key = key /\ u.total = total
    BY <1>1 DEF Queued, Outranks, Task
  <2>6. t.applied \in Nat /\ t.revision \in Nat
    BY DEF Task
  <2> QED
    BY <1>1, <2>3, <2>4, <2>5, <2>6 DEF Grown
<1>2. CASE ~ (rank > t.rank)
  BY <1>2 DEF Queued, Outranks, Grown, Task
<1> QED
  BY <1>1, <1>2

LEMMA WithAckGrows ==
    ASSUME RegistryTyped, NEW x \in Attempts, NEW t \in Task, t.applied <= t.revision,
           NEW u, u = WithAck(t, x)
    PROVE  u \in Task /\ u.applied <= u.revision /\ Grown(t, u) /\ (t.rank >= 3 => u = t)
<1>1. CASE ack[x] >= 0
  <2>1. ack[x] \in Nat
    <3>1. ack[x] \in Totals \/ ack[x] = -1
      BY DEF RegistryTyped
    <3>2. Totals \subseteq Nat /\ ~ (-1 >= 0)
      BY SettlementAssumption
    <3> QED
      BY <1>1, <3>1, <3>2
  <2>2. u = Queued(t, "ack", 2, ack[x]) /\ "ack" \in EvidenceKeys
    BY <1>1 DEF WithAck, EvidenceKeys
  <2>3. t.rank >= 3 => u = t
    BY <2>2 DEF Queued, Outranks, Task
  <2> QED
    BY <2>1, <2>2, <2>3, QueuedGrows
<1>2. CASE ~ (ack[x] >= 0)
  BY <1>2 DEF WithAck, Grown
<1> QED
  BY <1>1, <1>2

\* The task x takes the value u and nothing else of the settlement moves.
LEMMA EvidencePreserves ==
    ASSUME IInv, NEW x \in Attempts, NEW u \in Task, u.applied <= u.revision,
           Grown(task[x], u), task' = [task EXCEPT ![x] = u],
           UNCHANGED <<ledger, drains>>,
           recorded' \subseteq Attempts, complete' \subseteq recorded',
           ack' \in [Attempts -> Totals \union {-1}], finalized' \subseteq Attempts,
           reviewed' \subseteq Attempts, unverified' \subseteq Attempts
    PROVE  IInv'
<1>1. LedgerTyped /\ RegistryTyped /\ DrainsTyped
  BY TypeParts DEF IInv
<1>2. RegistryTyped'
  BY <1>1, OneTask DEF RegistryTyped
<1>3. TypeOK'
  BY <1>1, <1>2, LedgerTypedStays, DrainsTypedStay, TypeParts DEF TypeOK, LedgerTyped,
     RegistryTyped, DrainsTyped
<1> QED
  BY <1>3, TaskMoves DEF ledger, drains

LEMMA UsageEventPreserves ==
    ASSUME IInv, NEW x \in Attempts, UsageEvent(x)
    PROVE  IInv'
<1>1. RegistryTyped /\ task[x] \in Task /\ task[x].applied <= task[x].revision
  BY TypeParts DEF IInv, RegistryTyped
<1>2. PICK u \in Task : /\ u.applied <= u.revision /\ Grown(task[x], u)
                        /\ task' = [task EXCEPT ![x] = u]
  <2>1. CASE \E total \in Totals :
                 task' = [task EXCEPT ![x] = WithAck(Queued(task[x], "usage", 3, total), x)]
    <3>1. PICK total \in Totals :
              task' = [task EXCEPT ![x] = WithAck(Queued(task[x], "usage", 3, total), x)]
      BY <2>1
    <3> DEFINE v == Queued(task[x], "usage", 3, total)
    <3>2. total \in Nat /\ "usage" \in EvidenceKeys
      BY SettlementAssumption DEF EvidenceKeys
    <3>3. v \in Task /\ v.applied <= v.revision /\ Grown(task[x], v) /\ v.rank >= 3
      BY <1>1, <3>2, QueuedGrows
    <3> HIDE DEF v
    <3>4. WithAck(v, x) = v
      BY <1>1, <3>3, WithAckGrows
    <3> QED
      BY <3>1, <3>3, <3>4 DEF v
  <2>2. CASE task' = [task EXCEPT ![x] = WithAck(task[x], x)]
    BY <1>1, <2>2, WithAckGrows
  <2> QED
    BY <1>1, <2>1, <2>2 DEF UsageEvent, RegistryTyped
<1>3. /\ recorded' \subseteq Attempts /\ complete' \subseteq recorded'
      /\ UNCHANGED <<ledger, ack, finalized, readers, drains>>
  BY <1>1 DEF UsageEvent, RegistryTyped
<1> QED
  BY <1>1, <1>2, <1>3, EvidencePreserves DEF RegistryTyped, readers

LEMMA AcknowledgePreserves ==
    ASSUME IInv, NEW x \in Attempts, Acknowledge(x)
    PROVE  IInv'
<1>1. RegistryTyped /\ task[x] \in Task /\ task[x].applied <= task[x].revision
  BY TypeParts DEF IInv, RegistryTyped
<1>2. PICK total \in Totals :
          /\ ack' = [ack EXCEPT ![x] = total]
          /\ task' = IF x \in recorded THEN [task EXCEPT ![x] = Queued(task[x], "ack", 2, total)]
                                       ELSE task
  BY <1>1 DEF Acknowledge, RegistryTyped
<1>3. total \in Nat /\ "ack" \in EvidenceKeys /\ ack' \in [Attempts -> Totals \union {-1}]
  BY <1>1, <1>2, SettlementAssumption DEF EvidenceKeys, RegistryTyped
<1>4. PICK u \in Task : /\ u.applied <= u.revision /\ Grown(task[x], u)
                        /\ task' = [task EXCEPT ![x] = u]
  <2>1. CASE x \in recorded
    BY <2>1, <1>1, <1>2, <1>3, QueuedGrows
  <2>2. CASE x \notin recorded
    BY <2>2, <1>1, <1>2 DEF Grown, RegistryTyped
  <2> QED
    BY <2>1, <2>2
<1>5. UNCHANGED <<ledger, recorded, complete, finalized, readers, drains>>
  BY DEF Acknowledge
<1> QED
  BY <1>1, <1>3, <1>4, <1>5, EvidencePreserves DEF RegistryTyped, readers

LEMMA RegisterPreserves ==
    ASSUME IInv, NEW x \in Attempts, Register(x)
    PROVE  IInv'
<1>1. RegistryTyped /\ task[x] \in Task /\ task[x].applied <= task[x].revision
  BY TypeParts DEF IInv, RegistryTyped
<1>2. task' = [task EXCEPT ![x] = WithAck(task[x], x)]
  BY <1>1 DEF Register, RegistryTyped
<1>3. /\ recorded' \subseteq Attempts /\ complete \subseteq recorded'
      /\ UNCHANGED <<ledger, complete, ack, finalized, readers, drains>>
  BY <1>1 DEF Register, RegistryTyped
<1> QED
  BY <1>1, <1>2, <1>3, WithAckGrows, EvidencePreserves DEF RegistryTyped, readers

LEMMA CollectPreserves ==
    ASSUME IInv, NEW x \in Attempts, CollectCompletion(x)
    PROVE  IInv'
<1>1. RegistryTyped /\ task[x] \in Task /\ task[x].applied <= task[x].revision
      /\ attempt[x].actual \in Nat
  BY TypeParts DEF IInv, RegistryTyped, LedgerTyped, Attempt
<1>2. PICK key \in {"completion", "rejection"}, rank \in {2, 3}, total \in Nat :
          task' = [task EXCEPT ![x] = Queued(task[x], key, rank, total)]
  <2>1. CASE task' = [task EXCEPT ![x] = Queued(task[x], "completion", 3, attempt[x].actual)]
    BY <1>1, <2>1
  <2>2. CASE task' = [task EXCEPT ![x] = Queued(task[x], "rejection", 2, 0)]
    BY <2>2
  <2> QED
    BY <1>1, <2>1, <2>2 DEF CollectCompletion, RegistryTyped
<1>3. UNCHANGED <<ledger, recorded, complete, ack, finalized, readers, drains>>
  BY DEF CollectCompletion
<1>4. key \in EvidenceKeys /\ key # "resolution"
  BY DEF EvidenceKeys
<1>5. PICK u : u = Queued(task[x], key, rank, total)
  OBVIOUS
<1>6. u \in Task /\ u.applied <= u.revision /\ Grown(task[x], u)
  BY <1>1, <1>4, <1>5, QueuedGrows
<1> QED
  BY <1>1, <1>2, <1>3, <1>5, <1>6, EvidencePreserves DEF RegistryTyped, readers

LEMMA ApprovePreserves ==
    ASSUME IInv, NEW x \in Attempts, Approve(x)
    PROVE  IInv'
<1>1. RegistryTyped /\ task[x] \in Task /\ task[x].applied <= task[x].revision
  BY TypeParts DEF IInv, RegistryTyped
<1>2. task' = [task EXCEPT ![x] = Queued(task[x], "resolution", 2, 0)]
  BY <1>1 DEF Approve, RegistryTyped
<1>3. /\ UNCHANGED <<ledger, recorded, complete, ack, finalized, unverified, drains>>
      /\ reviewed' \subseteq Attempts /\ "resolution" \in EvidenceKeys
  BY <1>1 DEF Approve, RegistryTyped, EvidenceKeys
<1>4. PICK u : u = Queued(task[x], "resolution", 2, 0)
  OBVIOUS
<1>5. u \in Task /\ u.applied <= u.revision /\ Grown(task[x], u)
  BY <1>1, <1>3, <1>4, QueuedGrows
<1> QED
  BY <1>1, <1>2, <1>3, <1>4, <1>5, EvidencePreserves DEF RegistryTyped

--------------------------------------------------------------------------
(* One row of the ledger moves. *)

LEMMA RowPreserves ==
    ASSUME IInv, NEW x \in Attempts, NEW b \in Attempt, summary' \in Summary,
           attempt' = [attempt EXCEPT ![x] = b], Follows(attempt[x], b), RowOK(x, b),
           UNCHANGED <<task, drains>>, RegistryTyped'
    PROVE  IInv' /\ RowsFollow
<1>1. LedgerTyped /\ DrainsTyped
  BY TypeParts DEF IInv
<1>2. LedgerTyped' /\ DrainsTyped'
  BY <1>1, OneRow, DrainsTypedStay
<1>3. TypeOK'
  BY <1>2 DEF TypeOK, LedgerTyped, RegistryTyped, DrainsTyped
<1> QED
  BY <1>3, RowMoves DEF drains

LEMMA AdmitPreserves ==
    ASSUME IInv, NEW x \in Attempts, Admit(x)
    PROVE  IInv' /\ RowsFollow
<1>1. LedgerTyped /\ RegistryTyped /\ attempt[x] \in Attempt /\ RowOK(x, attempt[x])
      /\ Bound[x] \in Nat
  BY TypeParts, SettlementAssumption DEF IInv, LedgerTyped, RowsOK
<1> DEFINE b == NewAttempt("reserved", Bound[x])
<1>2. b \in Attempt /\ summary' \in Summary
  BY <1>1, ReservedTypes DEF Admit, LedgerTyped, AttemptStates
<1>3. /\ b.state = "reserved" /\ b.rank = 0 /\ b.revision = 0
      /\ ~ b.completed /\ ~ b.rejected /\ ~ b.resolved
  BY DEF NewAttempt, NoAttempt
<1>4. attempt[x].rank = 0
  BY <1>1 DEF Admit, RowOK, Sound
<1>5. RowOK(x, b) /\ Follows(attempt[x], b)
  BY <1>3, <1>4 DEF RowOK, Sound, Follows
<1>6. RegistryTyped' /\ UNCHANGED <<task, drains>> /\ attempt' = [attempt EXCEPT ![x] = b]
  BY <1>1, RegistryTypedStays DEF Admit, registry
<1> HIDE DEF b
<1> QED
  BY <1>2, <1>5, <1>6, RowPreserves

LEMMA GatewayPreserves ==
    ASSUME IInv, NEW x \in Attempts, GatewayCompletes(x)
    PROVE  IInv' /\ RowsFollow
<1>1. LedgerTyped /\ RegistryTyped /\ attempt[x] \in Attempt /\ RowOK(x, attempt[x])
      /\ summary \in Summary
  BY TypeParts DEF IInv, LedgerTyped, RowsOK
<1>2. PICK rejection \in BOOLEAN, total \in Totals \union {0} :
          /\ rejection => total = 0
          /\ CompleteOutcome(attempt[x], rejection, total) = "applied"
          /\ summary' = CompletedSummary(summary, attempt[x], total)
          /\ attempt' = [attempt EXCEPT ![x] = CompletedAttempt(attempt[x], rejection, total)]
  BY <1>1 DEF GatewayCompletes, LedgerTyped
<1>3. total \in Nat
  BY SettlementAssumption
<1> DEFINE b == CompletedAttempt(attempt[x], rejection, total)
<1>4. b \in Attempt /\ RowOK(x, b) /\ Follows(attempt[x], b)
  BY <1>1, <1>2, <1>3, CompletedRow
<1>5. summary' \in Summary
  BY <1>1, <1>2, <1>3, CompletedTypes
<1>6. RegistryTyped' /\ UNCHANGED <<task, drains>> /\ attempt' = [attempt EXCEPT ![x] = b]
  BY <1>1, <1>2, RegistryTypedStays DEF GatewayCompletes, registry
<1> HIDE DEF b
<1> QED
  BY <1>4, <1>5, <1>6, RowPreserves

LEMMA FinalizePreserves ==
    ASSUME IInv, NEW x \in Attempts, Finalize(x)
    PROVE  IInv' /\ RowsFollow
<1>1. LedgerTyped /\ RegistryTyped /\ attempt[x] \in Attempt /\ RowOK(x, attempt[x])
      /\ summary \in Summary /\ TypeOK
  BY TypeParts DEF IInv, LedgerTyped, RowsOK
<1>2. RegistryTyped' /\ UNCHANGED <<task, drains>>
  BY <1>1 DEF Finalize, RegistryTyped
<1>3. CASE UNCHANGED ledger
  <2>1. TypeOK'
    BY <1>1, <1>2, <1>3 DEF TypeOK, RegistryTyped, ledger, drains
  <2> QED
    BY <1>2, <1>3, <2>1, NothingMoves, RowsStay DEF ledger, drains
<1>4. CASE /\ KeepsBound(attempt[x])
           /\ summary' = TransitionedSummary(summary, attempt[x], "upper_bound")
           /\ attempt' = [attempt EXCEPT ![x] = TransitionedAttempt(attempt[x], "upper_bound")]
  <2> DEFINE b == TransitionedAttempt(attempt[x], "upper_bound")
  <2>1. b \in Attempt /\ summary' \in Summary
    BY <1>1, <1>4, TransitionedTypes DEF AttemptStates
  <2>2. attempt[x].rank = 0
    BY <1>1, <1>4 DEF KeepsBound, HeldStates, RowOK, Sound
  <2>3. /\ b.state = "upper_bound" /\ b.rank = attempt[x].rank
        /\ b.revision = attempt[x].revision /\ b.completed = attempt[x].completed
        /\ b.rejected = attempt[x].rejected /\ b.resolved = attempt[x].resolved
    BY <1>1 DEF TransitionedAttempt, Attempt
  <2>4. RowOK(x, b) /\ Follows(attempt[x], b)
    BY <1>1, <2>2, <2>3 DEF RowOK, Sound, Follows
  <2> HIDE DEF b
  <2> QED
    BY <1>2, <1>4, <2>1, <2>4, RowPreserves DEF b
<1> QED
  BY <1>3, <1>4 DEF Finalize

--------------------------------------------------------------------------
(* Claims run out; a person and a pass read. *)

LEMMA ReadersPreserve ==
    ASSUME IInv, NEW x \in Attempts, Review(x) \/ ListUnverified(x)
    PROVE  IInv'
<1>1. UNCHANGED <<ledger, registry, drains>> /\ reviewed' \subseteq Attempts
      /\ unverified' \subseteq Attempts /\ TypeOK
  BY DEF Review, ListUnverified, readers, IInv, TypeOK
<1>2. TypeOK'
  BY <1>1 DEF TypeOK, ledger, registry, drains
<1> QED
  BY <1>1, <1>2, NothingMoves DEF ledger, registry, drains

\* The evidence of a task is not in the claim.
LEMMA OwnerMoves ==
    ASSUME RegistryTyped, NEW x \in Attempts, NEW v \in Workers \union {"nobody"},
           task' = [task EXCEPT ![x].owner = v]
    PROVE  /\ task' \in [Attempts -> Task]
           /\ \A y \in Attempts : Stays(y) /\ task'[y].applied = task[y].applied
           /\ \A y \in Attempts : task'[y].applied <= task'[y].revision
<1> DEFINE u == [task[x] EXCEPT !.owner = v]
<1>1. /\ u \in Task /\ u.applied = task[x].applied /\ u.revision = task[x].revision
      /\ ChargeOf(u) = ChargeOf(task[x])
  BY DEF RegistryTyped, Task, ChargeOf
<1>2. task' = [task EXCEPT ![x] = u] /\ u.applied <= u.revision
  BY <1>1 DEF RegistryTyped
<1> HIDE DEF u
<1>3. task'[x] = u /\ \A y \in Attempts \ {x} : task'[y] = task[y]
  BY <1>1, <1>2, OneTask
<1> QED
  BY <1>1, <1>2, <1>3, OneTask DEF Stays

LEMMA LeasePreserves ==
    ASSUME IInv, NEW x \in Attempts, Expire(x) \/ Overrun(x)
    PROVE  IInv'
<1>1. LedgerTyped /\ RegistryTyped /\ DrainsTyped
  BY TypeParts DEF IInv
<1>2. task' = [task EXCEPT ![x].owner = "nobody"]
      /\ UNCHANGED <<ledger, recorded, complete, ack, finalized, readers, worker, wire>>
  BY DEF Expire, Overrun, drains
<1>3. /\ task' \in [Attempts -> Task]
      /\ \A y \in Attempts : Stays(y) /\ task'[y].applied = task[y].applied
      /\ \A y \in Attempts : task'[y].applied <= task'[y].revision
  BY <1>1, <1>2, OwnerMoves
<1>4. faults' \in 0..MaxFaults
  BY <1>1, FaultTyped DEF Expire, Overrun, drains, DrainsTyped
<1>5. LedgerTyped' /\ RegistryTyped' /\ DrainsTyped'
  BY <1>1, <1>2, <1>3, <1>4 DEF LedgerTyped, RegistryTyped, DrainsTyped, ledger, readers
<1>6. TypeOK'
  BY <1>5 DEF TypeOK, LedgerTyped, RegistryTyped, DrainsTyped
<1>7. ChargesKept
  BY <1>2 DEF ChargesKept, InUse
<1>8. EvidenceGrows /\ RowsFollow
  BY <1>2, <1>3, RowsStay DEF EvidenceGrows, ledger
<1> QED
  BY <1>2, <1>3, <1>6, <1>7, <1>8, Preserved

--------------------------------------------------------------------------
(* Settlement workers. *)

\* What a worker's turn has to keep to.
LEMMA Turn ==
    ASSUME IInv, TypeOK', NEW w \in Workers, NEW me \in WorkerState,
           worker' = [worker EXCEPT ![w] = me],
           me.pc # "idle" =>
               \/ worker[w].pc # "idle" /\ me.att = worker[w].att /\ me.c = worker[w].c
               \/ task'[me.att].revision > 0 /\ me.c = ChargeOf(task'[me.att]),
           \A x \in Attempts : Stays(x),
           \A x \in Attempts :
               \/ task'[x].applied = task[x].applied
               \/ task'[x].applied = task'[x].revision => IsCharged(attempt'[x], ChargeOf(task'[x])),
           RowsFollow,
           \A m \in wire' :
               m \in wire \/ (InUse(m.att, m.c) /\ SettleOutcome(m.a, m.c) = "applied"),
           me.pc = "decide" => RowOK(me.att, me.a) /\ Follows(me.a, attempt'[me.att]),
           me.pc = "acknowledge" => IsCharged(attempt'[me.att], me.c)
    PROVE  IInv'
<1>1. worker'[w] = me /\ \A v \in Workers \ {w} : worker'[v] = worker[v]
  BY DEF IInv, TypeOK
<1>2. EvidenceGrows /\ Evidence
  BY DEF EvidenceGrows, IInv, Evidence
<1>3. ChargesKept
  BY <1>1, CarriedIsKept
<1>4. me.att \in Attempts /\ me.a \in Attempt
  BY DEF WorkerState
<1>5. me.pc = "decide" => RowOK(me.att, me.a)'
  BY <1>2, <1>3, <1>4, RowStaysOK
<1>6. WorkerOK(w)'
  BY <1>1, <1>5 DEF WorkerOK
<1> QED
  BY <1>6, WorkerMoves

\* Where the call of a worker goes on: the worker keeps its claim and what it has read.
LEMMA StepTyped ==
    ASSUME DrainsTyped, NEW w \in Workers,
           NEW pc \in {"read_summary", "read_attempt", "decide", "acknowledge", "retry"},
           Step(w, pc)
    PROVE  \E me \in WorkerState :
               /\ worker' = [worker EXCEPT ![w] = me] /\ me.pc = pc
               /\ me.att = worker[w].att /\ me.c = worker[w].c
<1> DEFINE me == [worker[w] EXCEPT !.pc = pc]
<1>1. worker[w] \in WorkerState
  BY DEF DrainsTyped
<1>2. me \in WorkerState /\ me.pc = pc /\ me.att = worker[w].att /\ me.c = worker[w].c
  BY <1>1 DEF WorkerState
<1>3. worker' = [worker EXCEPT ![w] = me]
  BY DEF Step, DrainsTyped
<1> HIDE DEF me
<1> QED
  BY <1>2, <1>3

\* After a conflict the worker keeps its claim.
LEMMA AgainTyped ==
    ASSUME DrainsTyped, NEW w \in Workers, Again(w)
    PROVE  \E me \in WorkerState :
               /\ worker' = [worker EXCEPT ![w] = me] /\ me.pc \in {"read_summary", "retry"}
               /\ me.att = worker[w].att /\ me.c = worker[w].c
<1> DEFINE t == worker[w].tries
           m1 == [worker[w] EXCEPT !.pc = "read_summary", !.tries = t + 1,
                                   !.s = EmptySummary, !.a = NoAttempt]
           m2 == [worker[w] EXCEPT !.pc = "retry", !.s = EmptySummary, !.a = NoAttempt]
<1>1. worker[w] \in WorkerState /\ t \in 0..MaxTries - 1
  BY DEF DrainsTyped, WorkerState
<1>2. CASE TriesLeft(t)
  <2>1. t + 1 \in 0..MaxTries - 1
    BY <1>1, <1>2, SettlementAssumption DEF TriesLeft
  <2>2. m1 \in WorkerState /\ m1.pc = "read_summary" /\ m1.att = worker[w].att /\ m1.c = worker[w].c
    <3> DEFINE n1 == [worker[w] EXCEPT !.pc = "read_summary"]
               n2 == [n1 EXCEPT !.tries = t + 1]
               n3 == [n2 EXCEPT !.s = EmptySummary]
    <3>1. n1 \in WorkerState
      BY <1>1 DEF WorkerState
    <3>2. n2 \in WorkerState
      BY <2>1, <3>1 DEF WorkerState
    <3>3. n3 \in WorkerState
      BY <3>2, EmptyTypes DEF WorkerState
    <3>4. [n3 EXCEPT !.a = NoAttempt] \in WorkerState
      BY <3>3, EmptyTypes DEF WorkerState
    <3> QED
      BY <1>1, <3>4 DEF WorkerState
  <2>3. worker' = [worker EXCEPT ![w] = m1]
    BY <1>2 DEF Again, DrainsTyped, WorkerState
  <2> HIDE DEF m1
  <2> QED
    BY <2>2, <2>3
<1>3. CASE ~ TriesLeft(t)
  <2>1. m2 \in WorkerState /\ m2.pc = "retry" /\ m2.att = worker[w].att /\ m2.c = worker[w].c
    BY <1>1, EmptyTypes DEF WorkerState
  <2>2. worker' = [worker EXCEPT ![w] = m2]
    BY <1>3 DEF Again
  <2> HIDE DEF m2
  <2> QED
    BY <2>1, <2>2
<1> QED
  BY <1>2, <1>3

\* The types after a worker's turn.
LEMMA TurnTyped ==
    ASSUME DrainsTyped, LedgerTyped', RegistryTyped', NEW w \in Workers, NEW me \in WorkerState,
           worker' = [worker EXCEPT ![w] = me], wire' \subseteq Commit, faults' \in 0..MaxFaults
    PROVE  TypeOK'
<1>1. worker' \in [Workers -> WorkerState]
  BY OneWorker
<1> QED
  BY <1>1 DEF TypeOK, LedgerTyped, RegistryTyped

\* A turn that changes only the worker, to the state me.
LEMMA OnlyWorker ==
    ASSUME IInv, NEW w \in Workers, NEW me \in WorkerState,
           worker' = [worker EXCEPT ![w] = me],
           UNCHANGED <<ledger, registry, readers>>, faults' \in 0..MaxFaults,
           me.pc # "idle" => worker[w].pc # "idle" /\ me.att = worker[w].att /\ me.c = worker[w].c,
           wire' \subseteq Commit,
           \A m \in wire' :
               m \in wire \/ (InUse(m.att, m.c) /\ SettleOutcome(m.a, m.c) = "applied"),
           me.pc = "decide" => RowOK(me.att, me.a) /\ Follows(me.a, attempt[me.att]),
           me.pc = "acknowledge" => IsCharged(attempt[me.att], me.c)
    PROVE  IInv'
<1>1. LedgerTyped /\ RegistryTyped /\ DrainsTyped
  BY TypeParts DEF IInv
<1>2. TypeOK'
  BY <1>1, TurnTyped, LedgerTypedStays, RegistryTypedStays
<1>3. UNCHANGED <<attempt, task>>
  BY DEF ledger, registry
<1>4. RowsFollow /\ (\A x \in Attempts : Stays(x) /\ task'[x].applied = task[x].applied)
  BY <1>3, RowsStay DEF Stays
<1> QED
  BY <1>2, <1>3, <1>4, Turn

LEMMA ReadPreserves ==
    ASSUME IInv, NEW w \in Workers, ReadSummary(w) \/ ReadAttempt(w)
    PROVE  IInv'
<1>1. /\ LedgerTyped /\ DrainsTyped /\ worker[w] \in WorkerState
      /\ worker[w].att \in Attempts /\ wire \subseteq Commit /\ faults \in 0..MaxFaults
  BY TypeParts DEF IInv, DrainsTyped, WorkerState
<1>2. summary \in Summary /\ attempt[worker[w].att] \in Attempt
      /\ RowOK(worker[w].att, attempt[worker[w].att])
  BY <1>1 DEF LedgerTyped, IInv, RowsOK
<1>3. CASE ReadSummary(w)
  <2> DEFINE me == [worker[w] EXCEPT !.pc = "read_attempt", !.s = summary]
  <2>1. me \in WorkerState /\ me.pc = "read_attempt" /\ me.att = worker[w].att /\ me.c = worker[w].c
    BY <1>1, <1>2 DEF WorkerState
  <2>2. worker' = [worker EXCEPT ![w] = me] /\ worker[w].pc # "idle"
        /\ UNCHANGED <<ledger, registry, readers, wire, faults>>
    BY <1>1, <1>3 DEF ReadSummary, DrainsTyped
  <2> HIDE DEF me
  <2> QED
    BY <1>1, <2>1, <2>2, OnlyWorker
<1>4. CASE ReadAttempt(w)
  <2> DEFINE a == attempt[worker[w].att]
             me == [worker[w] EXCEPT !.pc = "decide", !.a = a]
  <2>1. /\ me \in WorkerState /\ me.pc = "decide" /\ me.att = worker[w].att
        /\ me.c = worker[w].c /\ me.a = a
    BY <1>1, <1>2 DEF WorkerState
  <2>2. worker' = [worker EXCEPT ![w] = me] /\ worker[w].pc # "idle"
        /\ UNCHANGED <<ledger, registry, readers, wire, faults>>
    BY <1>1, <1>4 DEF ReadAttempt, DrainsTyped
  <2>3. Follows(a, a)
    BY <1>2 DEF Follows, Attempt
  <2> HIDE DEF me
  <2> QED
    BY <1>1, <1>2, <2>1, <2>2, <2>3, OnlyWorker
<1> QED
  BY <1>3, <1>4

\* The charge c is written over the row it was decided on.
LEMMA ApplyMoves ==
    ASSUME IInv, NEW x \in Attempts, NEW s \in Summary, NEW c \in Charge,
           InUse(x, c), SettleOutcome(attempt[x], c) = "applied",
           summary' = SettledSummary(s, attempt[x], c),
           attempt' = [attempt EXCEPT ![x] = SettledAttempt(attempt[x], c)]
    PROVE  LedgerTyped' /\ RowsFollow /\ IsCharged(attempt'[x], c)
<1>1. LedgerTyped /\ Evidence /\ \A y \in Attempts : attempt[y] \in Attempt /\ RowOK(y, attempt[y])
  BY TypeParts DEF IInv, Evidence, LedgerTyped, RowsOK
<1>2. PICK b : b = SettledAttempt(attempt[x], c)
  OBVIOUS
<1>3. b \in Attempt /\ RowOK(x, b) /\ Follows(attempt[x], b) /\ IsCharged(b, c)
  BY <1>1, <1>2, SettledRow
<1>4. summary' \in Summary
  BY <1>1, SettledTypes
<1>5. LedgerTyped' /\ attempt'[x] = b /\ \A y \in Attempts \ {x} : attempt'[y] = attempt[y]
  BY <1>1, <1>2, <1>3, <1>4, OneRow
<1>6. \A y \in Attempts : Follows(attempt[y], attempt[y])
  BY <1>1 DEF Follows, Attempt
<1> QED
  BY <1>1, <1>3, <1>5, <1>6 DEF RowsFollow

LEMMA LandPreserves ==
    ASSUME IInv, NEW m \in wire, Land(m)
    PROVE  IInv' /\ RowsFollow
<1>1. LedgerTyped /\ RegistryTyped /\ DrainsTyped
  BY TypeParts DEF IInv
<1>2. m.att \in Attempts /\ m.s \in Summary /\ m.c \in Charge
  BY <1>1 DEF DrainsTyped, Commit
<1>3. InUse(m.att, m.c) /\ SettleOutcome(m.a, m.c) = "applied"
  BY DEF InUse, IInv, WireOK
<1>4. LedgerTyped' /\ RowsFollow
  <2>1. CASE Current(m)
    BY <1>2, <1>3, <2>1, ApplyMoves DEF Land, Current, Apply
  <2>2. CASE ~ Current(m)
    BY <1>1, <2>2, LedgerTypedStays, RowsStay DEF Land, ledger
  <2> QED
    BY <2>1, <2>2
<1>5. UNCHANGED <<registry, readers, worker, faults>> /\ wire' \subseteq wire
  BY DEF Land
<1>6. TypeOK'
  BY <1>1, <1>4, <1>5, RegistryTypedStays DEF TypeOK, LedgerTyped, RegistryTyped, DrainsTyped
<1>7. EvidenceGrows /\ ChargesKept
  BY <1>5 DEF EvidenceGrows, Stays, ChargesKept, InUse, registry
<1> QED
  BY <1>4, <1>5, <1>6, <1>7, Preserved DEF registry

LEMMA SettlePreserves ==
    ASSUME IInv, NEW w \in Workers, SettleTask(w)
    PROVE  IInv' /\ RowsFollow
<1>1. LedgerTyped /\ RegistryTyped /\ DrainsTyped /\ Evidence
  BY TypeParts DEF IInv, Evidence
<1>2. PICK me \in WorkerState : me = worker[w]
  BY <1>1 DEF DrainsTyped
<1>3. /\ me.att \in Attempts /\ me.a \in Attempt /\ me.c \in Charge /\ me.s \in Summary
      /\ me.pc = "decide" /\ UNCHANGED <<registry, readers>>
  BY <1>2 DEF WorkerState, SettleTask
<1>4. InUse(me.att, me.c) /\ RowOK(me.att, me.a) /\ Follows(me.a, attempt[me.att])
  BY <1>2, <1>3 DEF InUse, IInv, WorkersOK, WorkerOK
<1>5. wire \subseteq Commit /\ faults \in 0..MaxFaults /\ attempt[me.att] \in Attempt
  BY <1>1, <1>3 DEF DrainsTyped, LedgerTyped
<1> DEFINE m == [att |-> me.att, s |-> me.s, a |-> me.a, c |-> me.c]
           outcome == SettleOutcome(me.a, me.c)
<1>6. ASSUME outcome = "ignored", Step(w, "acknowledge"), UNCHANGED <<ledger, wire, faults>>
      PROVE  IInv' /\ RowsFollow
  <2>1. IsCharged(attempt[me.att], me.c)
    BY <1>1, <1>3, <1>4, <1>5, <1>6, IgnoredIsCharged, FollowsOn
  <2>2. PICK n \in WorkerState : /\ worker' = [worker EXCEPT ![w] = n] /\ n.pc = "acknowledge"
                                 /\ n.att = me.att /\ n.c = me.c
    BY <1>1, <1>2, <1>6, StepTyped
  <2> QED
    BY <1>2, <1>3, <1>5, <1>6, <2>1, <2>2, OnlyWorker, RowsStay DEF ledger
<1>7. ASSUME Step(w, "retry"), UNCHANGED <<ledger, wire, faults>>
      PROVE  IInv' /\ RowsFollow
  <2>1. PICK n \in WorkerState : /\ worker' = [worker EXCEPT ![w] = n] /\ n.pc = "retry"
                                 /\ n.att = me.att /\ n.c = me.c
    BY <1>1, <1>2, <1>7, StepTyped
  <2> QED
    BY <1>2, <1>3, <1>5, <1>7, <2>1, OnlyWorker, RowsStay DEF ledger
<1>8. ASSUME outcome = "applied", Current(m), Apply(m), Step(w, "acknowledge"),
             UNCHANGED <<wire, faults>>
      PROVE  IInv' /\ RowsFollow
  <2>1. /\ attempt[me.att] = me.a
        /\ summary' = SettledSummary(me.s, attempt[me.att], me.c)
        /\ attempt' = [attempt EXCEPT ![me.att] = SettledAttempt(attempt[me.att], me.c)]
    BY <1>8 DEF Current, Apply
  <2>2. LedgerTyped' /\ RowsFollow /\ IsCharged(attempt'[me.att], me.c)
    BY <1>3, <1>4, <1>8, <2>1, ApplyMoves
  <2>3. PICK n \in WorkerState : /\ worker' = [worker EXCEPT ![w] = n] /\ n.pc = "acknowledge"
                                 /\ n.att = me.att /\ n.c = me.c
    BY <1>1, <1>2, <1>8, StepTyped
  <2>4. RegistryTyped' /\ task' = task
    BY <1>1, <1>3, RegistryTypedStays DEF registry
  <2>5. TypeOK'
    BY <1>1, <1>5, <1>8, <2>2, <2>3, <2>4, TurnTyped
  <2>6. \A x \in Attempts : Stays(x) /\ task'[x].applied = task[x].applied
    BY <2>4 DEF Stays
  <2> HIDE DEF m, outcome
  <2> QED
    BY <1>2, <1>3, <1>8, <2>2, <2>3, <2>5, <2>6, Turn
<1>9. ASSUME outcome = "applied", Again(w), UNCHANGED ledger, wire' \subseteq wire \union {m},
             faults' \in 0..MaxFaults
      PROVE  IInv' /\ RowsFollow
  <2>1. PICK n \in WorkerState : /\ worker' = [worker EXCEPT ![w] = n]
                                 /\ n.pc \in {"read_summary", "retry"}
                                 /\ n.att = me.att /\ n.c = me.c
    BY <1>1, <1>2, <1>9, AgainTyped
  <2>2. m \in Commit /\ m.att = me.att /\ m.c = me.c /\ m.a = me.a
    BY <1>3 DEF Commit
  <2>3. InUse(m.att, m.c) /\ SettleOutcome(m.a, m.c) = "applied"
    BY <1>4, <1>9, <2>2
  <2> HIDE DEF m
  <2>4. wire' \subseteq Commit
    BY <1>5, <1>9, <2>2
  <2>5. \A v \in wire' : v \in wire \/ (InUse(v.att, v.c) /\ SettleOutcome(v.a, v.c) = "applied")
    BY <1>9, <2>3
  <2> QED
    BY <1>2, <1>3, <1>9, <2>1, <2>4, <2>5, OnlyWorker, RowsStay DEF ledger
<1>10. faults < MaxFaults /\ faults' = faults + 1 => faults' \in 0..MaxFaults
  BY <1>1, FaultTyped
<1> HIDE DEF m
<1>11. \/ outcome = "ignored" /\ Step(w, "acknowledge") /\ UNCHANGED <<ledger, wire, faults>>
       \/ Step(w, "retry") /\ UNCHANGED <<ledger, wire, faults>>
       \/ outcome = "applied" /\ Current(m) /\ Apply(m) /\ Step(w, "acknowledge")
          /\ UNCHANGED <<wire, faults>>
       \/ /\ outcome = "applied" /\ Again(w) /\ UNCHANGED ledger
          /\ \/ UNCHANGED <<wire, faults>>
             \/ faults < MaxFaults /\ faults' = faults + 1 /\ wire' = wire \union {m}
  BY <1>2 DEF SettleTask, m
<1> QED
  BY <1>5, <1>6, <1>7, <1>8, <1>9, <1>10, <1>11

LEMMA ClaimPreserves ==
    ASSUME IInv, NEW w \in Workers, NEW x \in Attempts, Claim(w, x)
    PROVE  IInv'
<1>1. LedgerTyped /\ RegistryTyped /\ DrainsTyped /\ TypeOK /\ TasksOK
  BY TypeParts DEF IInv
<1>2. task[x].revision > 0
  BY <1>1, TaskTyped DEF Claim, Claimable
<1> DEFINE c == ChargeOf(task[x])
           me == [Idle EXCEPT !.pc = "read_summary", !.att = x, !.c = c]
<1>3. c \in Charge
  BY <1>1, <1>2, ChargeTyped
<1>4. me \in WorkerState /\ me.pc = "read_summary" /\ me.att = x /\ me.c = c
  <2> HIDE DEF c
  <2> QED
    BY <1>3, IdleTyped DEF WorkerState
<1>5. worker' = [worker EXCEPT ![w] = me] /\ task' = [task EXCEPT ![x].owner = w]
      /\ UNCHANGED <<ledger, recorded, complete, ack, finalized, readers, wire, faults>>
  BY DEF Claim
<1>6. /\ task' \in [Attempts -> Task]
      /\ \A y \in Attempts : Stays(y) /\ task'[y].applied = task[y].applied
      /\ \A y \in Attempts : task'[y].applied <= task'[y].revision
  BY <1>1, <1>5, OwnerMoves
<1>7. RegistryTyped' /\ LedgerTyped' /\ wire' \subseteq Commit /\ faults' \in 0..MaxFaults
  BY <1>1, <1>5, <1>6 DEF RegistryTyped, LedgerTyped, DrainsTyped, ledger, readers
<1>8. task'[x].revision > 0 /\ c = ChargeOf(task'[x])
  BY <1>2, <1>6 DEF Stays
<1> HIDE DEF me, c
<1>9. TypeOK' /\ RowsFollow
  BY <1>1, <1>4, <1>5, <1>7, TurnTyped, RowsStay DEF ledger
<1> QED
  BY <1>4, <1>5, <1>6, <1>8, <1>9, Turn

\* A worker puts its claim away.
LEMMA BackToIdle ==
    ASSUME IInv, NEW w \in Workers, worker' = [worker EXCEPT ![w] = Idle],
           UNCHANGED <<ledger, recorded, complete, ack, finalized, readers, wire>>,
           faults' \in 0..MaxFaults, task' \in [Attempts -> Task],
           \A x \in Attempts : task'[x].applied <= task'[x].revision /\ Stays(x),
           \A x \in Attempts :
               \/ task'[x].applied = task[x].applied
               \/ task'[x].applied = task'[x].revision => IsCharged(attempt[x], ChargeOf(task'[x]))
    PROVE  IInv'
<1>1. LedgerTyped /\ RegistryTyped /\ DrainsTyped
  BY TypeParts DEF IInv
<1>2. RegistryTyped' /\ LedgerTyped' /\ wire' \subseteq Commit /\ attempt' = attempt
  BY <1>1 DEF RegistryTyped, LedgerTyped, DrainsTyped, ledger, readers
<1>3. TypeOK' /\ RowsFollow
  BY <1>1, <1>2, IdleTyped, TurnTyped, RowsStay
<1> QED
  BY <1>2, <1>3, IdleTyped, Turn

LEMMA AcknowledgeTaskPreserves ==
    ASSUME IInv, NEW w \in Workers, AcknowledgeTask(w)
    PROVE  IInv'
<1>1. RegistryTyped /\ DrainsTyped /\ Evidence
  BY TypeParts DEF IInv, Evidence
<1>2. PICK me \in WorkerState : me = worker[w]
  BY <1>1 DEF DrainsTyped
<1>3. me.att \in Attempts /\ me.c \in Charge /\ me.pc = "acknowledge"
  BY <1>2 DEF WorkerState, AcknowledgeTask
<1> DEFINE x == me.att
           u == Acknowledged(task[x], me.c)
<1>4. InUse(x, me.c) /\ IsCharged(attempt[x], me.c) /\ ChargeOK(x, me.c)
  BY <1>1, <1>2, <1>3 DEF InUse, IInv, WorkersOK, WorkerOK, ChargesOK
<1>5. task[x] \in Task /\ task[x].applied <= task[x].revision
      /\ me.c.revision \in Nat /\ me.c.revision <= task[x].revision
  BY <1>1, <1>3, <1>4 DEF RegistryTyped, Charge, ChargeOK
<1>6. /\ u \in Task /\ u.revision = task[x].revision /\ ChargeOf(u) = ChargeOf(task[x])
      /\ u.applied = IF task[x].applied < me.c.revision THEN me.c.revision ELSE task[x].applied
  <2> DEFINE k == IF task[x].applied < me.c.revision THEN me.c.revision ELSE task[x].applied
             u1 == [task[x] EXCEPT !.applied = k]
  <2>1. k \in Nat
    BY <1>5 DEF Task
  <2>2. u1 \in Task
    BY <1>5, <2>1 DEF Task
  <2>3. [u1 EXCEPT !.owner = "nobody"] \in Task
    BY <2>2 DEF Task
  <2>4. u = [u1 EXCEPT !.owner = "nobody"]
    BY <1>5 DEF Acknowledged, Task
  <2>5. u.revision = task[x].revision /\ ChargeOf(u) = ChargeOf(task[x]) /\ u.applied = k
    BY <1>5 DEF Acknowledged, Task, ChargeOf
  <2> QED
    BY <2>3, <2>4, <2>5
<1>7. u.applied <= u.revision
  BY <1>5, <1>6
<1>8. u.applied = task[x].applied \/ (u.applied = u.revision => me.c = ChargeOf(u))
  BY <1>4, <1>5, <1>6 DEF ChargeOK
<1>9. task' = task \/ task' = [task EXCEPT ![x] = u]
  BY <1>1, <1>2, <1>3 DEF AcknowledgeTask, RegistryTyped
<1>10. worker' = [worker EXCEPT ![w] = Idle] /\ faults' \in 0..MaxFaults
       /\ UNCHANGED <<ledger, recorded, complete, ack, finalized, readers, wire>>
  BY <1>1 DEF AcknowledgeTask, DrainsTyped
<1> HIDE DEF u
<1>11. CASE task' = task
  BY <1>1, <1>10, <1>11, BackToIdle DEF RegistryTyped, Stays
<1>12. CASE task' = [task EXCEPT ![x] = u]
  <2>1. /\ task' \in [Attempts -> Task] /\ task'[x] = u
        /\ \A y \in Attempts : task'[y].applied <= task'[y].revision
        /\ \A y \in Attempts \ {x} : task'[y] = task[y]
    BY <1>1, <1>3, <1>6, <1>7, <1>12, OneTask
  <2>2. \A y \in Attempts : Stays(y)
    BY <1>6, <2>1 DEF Stays
  <2>3. \A y \in Attempts :
            \/ task'[y].applied = task[y].applied
            \/ task'[y].applied = task'[y].revision => IsCharged(attempt[y], ChargeOf(task'[y]))
    BY <1>4, <1>8, <2>1
  <2> QED
    BY <1>10, <2>1, <2>2, <2>3, BackToIdle
<1> QED
  BY <1>9, <1>11, <1>12

LEMMA RetryPreserves ==
    ASSUME IInv, NEW w \in Workers, RetryTask(w)
    PROVE  IInv'
<1>1. RegistryTyped /\ DrainsTyped /\ worker[w].att \in Attempts
  BY TypeParts DEF IInv, DrainsTyped, WorkerState
<1>2. worker' = [worker EXCEPT ![w] = Idle] /\ faults' \in 0..MaxFaults
      /\ UNCHANGED <<ledger, recorded, complete, ack, finalized, readers, wire>>
  BY <1>1 DEF RetryTask, DrainsTyped
<1>3. task' = task \/ task' = [task EXCEPT ![worker[w].att].owner = "nobody"]
  BY DEF RetryTask
<1>4. CASE task' = task
  BY <1>1, <1>2, <1>4, BackToIdle DEF RegistryTyped, Stays
<1>5. CASE task' = [task EXCEPT ![worker[w].att].owner = "nobody"]
  <2>1. /\ task' \in [Attempts -> Task]
        /\ \A y \in Attempts : Stays(y) /\ task'[y].applied = task[y].applied
        /\ \A y \in Attempts : task'[y].applied <= task'[y].revision
    BY <1>1, <1>5, OwnerMoves
  <2> QED
    BY <1>2, <2>1, BackToIdle
<1> QED
  BY <1>3, <1>4, <1>5

LEMMA FailPreserves ==
    ASSUME IInv, NEW w \in Workers, Fail(w)
    PROVE  IInv'
<1>1. RegistryTyped /\ DrainsTyped /\ wire \subseteq Commit
  BY TypeParts DEF IInv, DrainsTyped
<1>2. UNCHANGED <<ledger, registry, readers, wire>> /\ worker[w].pc # "idle"
      /\ faults' \in 0..MaxFaults
  BY <1>1, FaultTyped DEF Fail
<1>3. CASE Step(w, "retry")
  <2>1. PICK me \in WorkerState : /\ worker' = [worker EXCEPT ![w] = me] /\ me.pc = "retry"
                                  /\ me.att = worker[w].att /\ me.c = worker[w].c
    BY <1>1, <1>3, StepTyped
  <2> QED
    BY <1>1, <1>2, <2>1, OnlyWorker
<1>4. CASE worker' = [worker EXCEPT ![w] = Idle]
  BY <1>1, <1>2, <1>4, IdleTyped, OnlyWorker
<1> QED
  BY <1>3, <1>4 DEF Fail

--------------------------------------------------------------------------
LEMMA InitOK == Init => IInv
<1> SUFFICES ASSUME Init PROVE IInv
  OBVIOUS
<1>1. TypeOK
  <2>1. NoTask \in Task
    BY DEF NoTask, Task, EvidenceKeys
  <2>2. NoTask.applied <= NoTask.revision
    BY DEF NoTask
  <2>3. 0 \in 0..MaxFaults
    BY SettlementAssumption
  <2> QED
    BY <2>1, <2>2, <2>3, EmptyTypes, IdleTyped DEF Init, TypeOK
<1>2. TasksOK
  BY DEF Init, TasksOK, TaskOK, NoTask
<1>3. \A x \in Attempts, c \in Charge : ~ InUse(x, c)
  BY IdleTyped DEF Init, InUse, NoTask
<1>4. RowsOK
  BY DEF Init, RowsOK, RowOK, Sound, NoAttempt
<1>5. WorkersOK
  BY IdleTyped DEF Init, WorkersOK, WorkerOK
<1>6. WireOK /\ AppliedOK
  BY DEF Init, WireOK, AppliedOK, NoTask
<1> QED
  BY <1>1, <1>2, <1>3, <1>4, <1>5, <1>6 DEF IInv, ChargesOK

LEMMA NextOK == IInv /\ [Next]_vars => IInv'
<1> SUFFICES ASSUME IInv, [Next]_vars PROVE IInv'
  OBVIOUS
<1>1. ASSUME NEW x \in Attempts, EvidenceNext(x) PROVE IInv'
  BY <1>1, AdmitPreserves, UsageEventPreserves, AcknowledgePreserves, RegisterPreserves,
     GatewayPreserves, CollectPreserves, ApprovePreserves, FinalizePreserves,
     ReadersPreserve, LeasePreserves DEF EvidenceNext
<1>2. ASSUME NEW w \in Workers, Work(w) \/ Fail(w) PROVE IInv'
  BY <1>2, ReadPreserves, SettlePreserves, AcknowledgeTaskPreserves, RetryPreserves,
     FailPreserves DEF Work
<1>3. ASSUME NEW w \in Workers, NEW x \in Attempts, Claim(w, x) PROVE IInv'
  BY <1>3, ClaimPreserves
<1>4. ASSUME NEW m \in wire, Land(m) PROVE IInv'
  BY <1>4, LandPreserves
<1>5. CASE UNCHANGED vars
  <2>1. TypeOK'
    BY <1>5 DEF IInv, TypeOK, vars
  <2> QED
    BY <1>5, <2>1, NothingMoves DEF vars
<1> QED
  BY <1>1, <1>2, <1>3, <1>4, <1>5 DEF Next

\* The invariant holds of every behaviour.
THEOREM SettlementInvariant == Spec => []IInv
BY InitOK, NextOK, PTL DEF Spec

\* The ledger, the tasks and the workers stay well formed.
THEOREM SettlementTyped == Spec => []TypeOK
<1>1. IInv => TypeOK
  BY DEF IInv
<1> QED
  BY <1>1, SettlementInvariant, PTL

\* A task acknowledged at its revision is in the ledger, with that evidence or
\* stronger, whatever workers, leases and late commits did.
THEOREM AppliedCharged == Spec => []AppliedIsCharged
<1>1. IInv => AppliedIsCharged
  <2> SUFFICES ASSUME IInv, NEW x \in Attempts, task[x].revision > 0, ~ Pending(x)
               PROVE  /\ attempt[x].state \in {"settled", "released"}
                      /\ attempt[x].rank >= task[x].rank
                      /\ attempt[x].rank = task[x].rank => attempt[x].actual = task[x].total
    BY DEF AppliedIsCharged
  <2>1. task[x].applied = task[x].revision
    BY TaskTyped DEF IInv, Pending
  <2>2. IsCharged(attempt[x], ChargeOf(task[x])) /\ TaskOK(task[x]) /\ Sound(attempt[x])
    BY <2>1 DEF IInv, AppliedOK, TasksOK, RowsOK, RowOK
  <2>3. task[x].rank \in {2, 3} /\ attempt[x].rank >= task[x].rank
        /\ (attempt[x].rank = task[x].rank => attempt[x].actual = task[x].total)
    BY <2>2, ChargeFields DEF IsCharged, TaskOK
  <2> QED
    BY <2>2, <2>3 DEF Sound
<1> QED
  BY <1>1, SettlementInvariant, PTL

\* Every row that a step changes is followed.
LEMMA NextFollows == IInv /\ [Next]_vars => RowsFollow
<1> SUFFICES ASSUME IInv, [Next]_vars PROVE RowsFollow
  OBVIOUS
<1>1. CASE UNCHANGED attempt
  BY <1>1, RowsStay
<1>2. ASSUME NEW x \in Attempts, EvidenceNext(x) PROVE RowsFollow
  <2>1. CASE Admit(x) \/ GatewayCompletes(x) \/ Finalize(x)
    BY <2>1, AdmitPreserves, GatewayPreserves, FinalizePreserves
  <2>2. CASE UNCHANGED ledger
    BY <2>2, <1>1 DEF ledger
  <2> QED
    BY <1>2, <2>1, <2>2 DEF EvidenceNext, UsageEvent, Acknowledge, Register, CollectCompletion,
       Review, Approve, ListUnverified, Expire, Overrun
<1>3. ASSUME NEW w \in Workers, Work(w) \/ Fail(w) PROVE RowsFollow
  <2>1. CASE SettleTask(w)
    BY <2>1, SettlePreserves
  <2>2. CASE UNCHANGED ledger
    BY <2>2, <1>1 DEF ledger
  <2> QED
    BY <1>3, <2>1, <2>2 DEF Work, ReadSummary, ReadAttempt, AcknowledgeTask, RetryTask, Fail
<1>4. ASSUME NEW w \in Workers, NEW x \in Attempts, Claim(w, x) PROVE RowsFollow
  BY <1>4, <1>1 DEF Claim, ledger
<1>5. ASSUME NEW m \in wire, Land(m) PROVE RowsFollow
  BY <1>5, LandPreserves
<1>6. CASE UNCHANGED vars
  BY <1>1, <1>6 DEF vars
<1> QED
  BY <1>2, <1>3, <1>4, <1>5, <1>6 DEF Next

\* Exact charges are final, and evidence in the ledger is never replaced by weaker.
THEOREM EvidenceIsFinal == Spec => EvidenceStands
<1>1. ASSUME IInv, [Next]_vars
      PROVE  [\A x \in Attempts :
                 /\ attempt'[x].rank >= attempt[x].rank
                 /\ attempt[x].rank = 3 =>
                      attempt'[x].state = "settled" /\ attempt'[x].actual = attempt[x].actual]_vars
  <2> SUFFICES ASSUME NEW x \in Attempts
               PROVE  /\ attempt'[x].rank >= attempt[x].rank
                      /\ attempt[x].rank = 3 =>
                           /\ attempt'[x].state = "settled"
                           /\ attempt'[x].actual = attempt[x].actual
    OBVIOUS
  <2>1. PICK b \in Attempt : attempt'[x] = b /\ Follows(attempt[x], b) /\ RowOK(x, b)
    BY <1>1, NextFollows DEF RowsFollow
  <2>2. attempt[x].rank \in Nat /\ b.rank \in 0..3 /\ Sound(b)
    BY <1>1, <2>1 DEF IInv, TypeOK, Attempt, RowOK
  <2>3. attempt[x].rank <= b.rank
    BY <2>1 DEF Follows
  <2>4. ASSUME attempt[x].rank = 3
        PROVE  b.state = "settled" /\ b.actual = attempt[x].actual
    <3>1. b.rank = 3
      BY <2>2, <2>3, <2>4
    <3> QED
      BY <2>1, <2>2, <2>4, <3>1 DEF Follows, Sound
  <2> QED
    BY <2>1, <2>2, <2>3, <2>4
<1> QED
  BY <1>1, SettlementInvariant, PTL DEF Spec, EvidenceStands

--------------------------------------------------------------------------
(* The balances *)

\* A step writes a row together with its summary, or neither.
LedgerMove ==
    \/ UNCHANGED ledger
    \/ \E x \in Attempts, n \in Summary, b \in Attempt :
          /\ summary' = n /\ attempt' = [attempt EXCEPT ![x] = b]
          /\ Books(summary, n, attempt[x], b)

LEMMA WriteMove ==
    ASSUME NEW x \in Attempts, NEW n \in Summary, NEW b \in Attempt,
           summary' = n, attempt' = [attempt EXCEPT ![x] = b], Books(summary, n, attempt[x], b)
    PROVE  LedgerMove
  BY Zenon DEF LedgerMove

\* What a settlement task commits is decided on the rows it replaces.
LEMMA CommitMove ==
    ASSUME IInv, NEW m \in Commit, SettleOutcome(m.a, m.c) = "applied", Current(m), Apply(m)
    PROVE  LedgerMove
<1> DEFINE n == SettledSummary(summary, m.a, m.c)
           b == SettledAttempt(m.a, m.c)
<1>1. m.att \in Attempts /\ m.a \in Attempt /\ m.c \in Charge /\ summary \in Summary
  BY DEF Commit, IInv, TypeOK
<1>2. attempt[m.att] = m.a /\ m.s = summary
  BY DEF Current
<1>3. n \in Summary /\ b \in Attempt BY <1>1, SettledTypes
<1>4. Books(summary, n, attempt[m.att], b) BY <1>1, <1>2, SettledBooks
<1>5. summary' = n /\ attempt' = [attempt EXCEPT ![m.att] = b] BY <1>2 DEF Apply
<1> HIDE DEF n, b
<1> QED
  BY <1>1, <1>3, <1>4, <1>5, WriteMove

LEMMA OneMove == IInv /\ [Next]_vars => LedgerMove
<1> SUFFICES ASSUME IInv, [Next]_vars PROVE LedgerMove
  OBVIOUS
<1>0. /\ summary \in Summary /\ attempt \in [Attempts -> Attempt] /\ wire \subseteq Commit
      /\ \A x \in Attempts : attempt[x] \in Attempt /\ Bound[x] \in Nat
  BY SettlementAssumption DEF IInv, TypeOK
<1>1. CASE UNCHANGED ledger
  BY <1>1 DEF LedgerMove
<1>2. ASSUME NEW x \in Attempts, EvidenceNext(x) PROVE LedgerMove
  <2>1. CASE Admit(x)
    <3> DEFINE n == ReservedSummary(summary, Bound[x])
               b == NewAttempt("reserved", Bound[x])
    <3>1. n \in Summary /\ b \in Attempt BY <1>0, ReservedTypes DEF AttemptStates
    <3>2. Books(summary, n, attempt[x], b) BY <1>0, <2>1, ReservedBooks DEF Admit
    <3>3. summary' = n /\ attempt' = [attempt EXCEPT ![x] = b] BY <2>1 DEF Admit
    <3> HIDE DEF n, b
    <3> QED
      BY <3>1, <3>2, <3>3, WriteMove
  <2>2. CASE GatewayCompletes(x)
    <3>1. PICK rejection \in BOOLEAN, total \in Totals \union {0} :
             /\ summary' = CompletedSummary(summary, attempt[x], total)
             /\ attempt' = [attempt EXCEPT ![x] = CompletedAttempt(@, rejection, total)]
      BY <2>2 DEF GatewayCompletes
    <3> DEFINE n == CompletedSummary(summary, attempt[x], total)
               b == CompletedAttempt(attempt[x], rejection, total)
    <3>2. total \in Nat BY SettlementAssumption
    <3>3. n \in Summary /\ b \in Attempt BY <1>0, <3>2, CompletedTypes
    <3>4. Books(summary, n, attempt[x], b) BY <1>0, <3>2, CompletedBooks
    <3>5. summary' = n /\ attempt' = [attempt EXCEPT ![x] = b] BY <3>1
    <3> HIDE DEF n, b
    <3> QED
      BY <3>3, <3>4, <3>5, WriteMove
  <2>3. CASE Finalize(x)
    <3> DEFINE n == TransitionedSummary(summary, attempt[x], "upper_bound")
               b == TransitionedAttempt(attempt[x], "upper_bound")
    <3>1. \/ UNCHANGED ledger
          \/ /\ attempt[x].state \in HeldStates
             /\ summary' = n /\ attempt' = [attempt EXCEPT ![x] = b]
      BY <2>3 DEF Finalize, KeepsBound
    <3>2. n \in Summary /\ b \in Attempt BY <1>0, TransitionedTypes DEF AttemptStates
    <3>3. attempt[x].state \in HeldStates => Books(summary, n, attempt[x], b)
      BY <1>0, TransitionedBooks DEF TransitionAllowed
    <3> HIDE DEF n, b
    <3> QED
      BY <1>1, <3>1, <3>2, <3>3, WriteMove
  <2> QED
    BY <1>1, <1>2, <2>1, <2>2, <2>3 DEF EvidenceNext, UsageEvent, Acknowledge, Register,
       CollectCompletion, Review, Approve, ListUnverified, Expire, Overrun
<1>3. ASSUME NEW w \in Workers, Work(w) \/ Fail(w) PROVE LedgerMove
  <2>1. CASE SettleTask(w)
    <3> DEFINE me == worker[w]
               m == [att |-> me.att, s |-> me.s, a |-> me.a, c |-> me.c]
    <3>1. m \in Commit /\ m.a = me.a /\ m.c = me.c
      BY DEF IInv, TypeOK, WorkerState, Commit
    <3>2. UNCHANGED ledger \/ (SettleOutcome(me.a, me.c) = "applied" /\ Current(m) /\ Apply(m))
      BY <2>1 DEF SettleTask
    <3> HIDE DEF m, me
    <3> QED
      BY <1>1, <3>1, <3>2, CommitMove
  <2> QED
    BY <1>1, <1>3, <2>1 DEF Work, ReadSummary, ReadAttempt, AcknowledgeTask, RetryTask, Fail
<1>4. ASSUME NEW w \in Workers, NEW x \in Attempts, Claim(w, x) PROVE LedgerMove
  BY <1>1, <1>4 DEF Claim
<1>5. ASSUME NEW m \in wire, Land(m) PROVE LedgerMove
  <2>1. m \in Commit /\ SettleOutcome(m.a, m.c) = "applied"
    BY <1>0 DEF IInv, WireOK
  <2> QED
    BY <1>1, <1>5, <2>1, CommitMove DEF Land
<1>6. CASE UNCHANGED vars
  BY <1>1, <1>6 DEF vars, ledger
<1> QED
  BY <1>2, <1>3, <1>4, <1>5, <1>6 DEF Next

AllPlain == \A x \in Attempts : Plain(attempt[x])

\* The balances are the sums of the attempts' shares, however many workers
\* settle one task and whenever their commits land: for any finite set of
\* attempts.
THEOREM AlwaysBalanced == IsFiniteSet(Attempts) => (Spec => []Balanced)
<1> SUFFICES ASSUME IsFiniteSet(Attempts) PROVE Spec => []Balanced
  OBVIOUS
<1> DEFINE BInv == IInv /\ AllPlain /\ Tallies(summary, attempt, Attempts)
<1>1. Init => BInv
  <2> SUFFICES ASSUME Init PROVE AllPlain /\ Tallies(summary, attempt, Attempts)
    BY InitOK
  <2>1. \A x \in Attempts : attempt[x] = NoAttempt
    BY DEF Init
  <2>2. /\ Plain(NoAttempt) /\ ActiveShare(NoAttempt) = 0 /\ UpperShare(NoAttempt) = 0
        /\ ConfirmedShare(NoAttempt) = 0
    BY DEF Plain, NoAttempt, ActiveShare, UpperShare, ConfirmedShare, HeldStates
  <2>3. summary.active = 0 /\ summary.upper = 0 /\ summary.confirmed = 0
    BY DEF Init, EmptySummary
  <2>4. /\ ActiveSum(attempt, Attempts) = 0 /\ UpperSum(attempt, Attempts) = 0
        /\ ConfirmedSum(attempt, Attempts) = 0
    BY <2>1, <2>2, SumsOfNone
  <2> QED
    BY <2>1, <2>2, <2>3, <2>4 DEF AllPlain, Tallies
<1>2. BInv /\ [Next]_vars => BInv'
  <2> SUFFICES ASSUME BInv, [Next]_vars PROVE (AllPlain /\ Tallies(summary, attempt, Attempts))'
    BY NextOK
  <2>1. CASE UNCHANGED ledger
    BY <2>1 DEF ledger, AllPlain, Tallies
  <2>2. ASSUME NEW x \in Attempts, NEW n \in Summary, NEW b \in Attempt,
               summary' = n, attempt' = [attempt EXCEPT ![x] = b],
               Books(summary, n, attempt[x], b)
        PROVE  (AllPlain /\ Tallies(summary, attempt, Attempts))'
    <3>1. attempt \in [Attempts -> Attempt] /\ summary \in Summary
      BY DEF IInv, TypeOK
    <3>2. Plain(b) /\ Shifted(summary, n, attempt[x], b)
      BY <2>2 DEF AllPlain, Books
    <3>3. Tallies(n, [attempt EXCEPT ![x] = b], Attempts)
      BY <2>2, <3>1, <3>2, TalliesMove
    <3>4. \A y \in Attempts : attempt'[y] = b \/ attempt'[y] = attempt[y]
      BY <2>2, <3>1
    <3>5. AllPlain' BY <3>2, <3>4 DEF AllPlain
    <3> QED
      BY <2>2, <3>3, <3>5
  <2> QED
    BY <2>1, <2>2, OneMove, Zenon DEF LedgerMove
<1>3. BInv => Balanced
  BY DEF Tallies, Balanced, ActiveSum, UpperSum, ConfirmedSum
<1> QED
  BY <1>1, <1>2, <1>3, PTL DEF Spec
=============================================================================
