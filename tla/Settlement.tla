----------------------------- MODULE Settlement -----------------------------
(***************************************************************************)
(* Settlement of admitted attempts in one budget scope, from the evidence  *)
(* that reaches the control plane to the charge in the ledger.             *)
(*                                                                         *)
(* Evidence about an attempt comes from several sources, in any order and  *)
(* more than once: the exact usage event, the caller's acknowledgement,    *)
(* the gateway's own completion or rejection in the ledger, and a release  *)
(* approved by a person.  PostgreSQL keeps one settlement task per attempt *)
(* with the strongest evidence seen so far; replacing the evidence takes a *)
(* new revision.  Workers claim a task under a lease, settle its charge in *)
(* the ledger and acknowledge the revision they applied.                   *)
(*                                                                         *)
(* A worker reads rows S and A one after the other and commits both under  *)
(* their ETags; a commit that times out may land later, and the worker     *)
(* tries again from fresh reads.  Leases expire and workers die at any     *)
(* point, so several workers may settle one task at once.                  *)
(*                                                                         *)
(* A PostgreSQL transaction is one step.  A row's ETag is its content: S   *)
(* never repeats a version, and A never changes without S.  The claim's    *)
(* random token is the worker that holds it, which has at most one claim.  *)
(* Evidence rows, unique by key, rank and total, need no variable: writing *)
(* one again cannot raise the task's rank, which is all a task looks at.   *)
(*                                                                         *)
(* The attempts are those of authorized plans with a token budget; plans   *)
(* that are cancelled belong to BudgetDispatch.  An expired lease is no    *)
(* lease, since every use of a claim compares lease_until with the clock.  *)
(***************************************************************************)
EXTENDS LedgerDomain, FiniteSets, FiniteSetsExt

CONSTANTS
    Attempts,     \* admitted attempts of the scope
    Bound,        \* [Attempts -> Nat]: what each of them reserves
    Totals,       \* totals that evidence may report
    Sources,      \* what may happen to each attempt: subsets of AllSources
    Workers,      \* settlement workers
    MaxTries,     \* turns of the ledger's update loop (attempts=3)
    MaxFaults     \* bound on timeouts, errors, stalls and crashes

AllSources == {"usage", "ack", "gateway", "release", "finalization"}

ASSUME SettlementAssumption ==
    /\ Attempts # {} /\ Bound \in [Attempts -> Nat \ {0}]
    /\ Totals \subseteq Nat /\ Sources \in [Attempts -> SUBSET AllSources]
    /\ MaxTries \in Nat \ {0} /\ MaxFaults \in Nat
    /\ "nobody" \notin Workers

VARIABLES
    summary,      \* row S of the scope
    attempt,      \* [Attempts -> Attempt]: rows A
    recorded,     \* attempts with a row in PostgreSQL
    complete,     \* attempts whose usage event was complete (usage_complete)
    ack,          \* attempts with an exact acknowledgement, and its total
    task,         \* [Attempts -> Task]
    finalized,    \* attempts with uncertain_finalized_at
    reviewed,     \* attempts an operator has read as undecided
    unverified,   \* attempts a finalization pass has read as having no task
    worker,       \* [Workers -> WorkerState]
    wire,         \* timed-out commits that may still land
    faults        \* timeouts, errors, stalls and crashes so far

vars == <<summary, attempt, recorded, complete, ack, task, finalized, reviewed,
          unverified, worker, wire, faults>>
ledger == <<summary, attempt>>
registry == <<recorded, complete, ack, task, finalized>>
readers == <<reviewed, unverified>>
drains == <<worker, wire, faults>>

\* A task's evidence, the revision that was applied and the claim on it;
\* revision 0 is no task.
Task == [revision: Nat, rank: 0..3, key: EvidenceKeys, total: Nat,
         applied: Nat, owner: Workers \union {"nobody"}]

NoTask == [revision |-> 0, rank |-> 0, key |-> "none", total |-> 0,
           applied |-> 0, owner |-> "nobody"]

Pending(x) == task[x].applied < task[x].revision

\* The charge a claim hands to its worker.
ChargeOf(t) == [rank |-> t.rank, revision |-> t.revision, total |-> t.total, key |-> t.key]

\* A commit of S and A, conditional on what was read.
Commit == [att: Attempts, s: Summary, a: Attempt, c: Charge]

EmptySummary == [version |-> 0, revision |-> 0, limit |-> 0, enforce |-> TRUE,
                 enabled |-> TRUE, confirmed |-> 0, active |-> 0, upper |-> 0]

NoCharge == [rank |-> 2, revision |-> 1, total |-> 0, key |-> "none"]

WorkerState == [pc: {"idle", "read_summary", "read_attempt", "decide", "acknowledge", "retry"},
                att: Attempts, c: Charge, s: Summary, a: Attempt, tries: 0..MaxTries - 1]

Idle == [pc |-> "idle", att |-> CHOOSE x \in Attempts : TRUE, c |-> NoCharge,
         s |-> EmptySummary, a |-> NoAttempt, tries |-> 0]

TypeOK ==
    /\ summary \in Summary
    /\ attempt \in [Attempts -> Attempt]
    /\ recorded \subseteq Attempts /\ complete \subseteq recorded
    /\ ack \in [Attempts -> Totals \union {-1}]
    /\ task \in [Attempts -> Task]
    /\ \A x \in Attempts : task[x].applied <= task[x].revision
    /\ finalized \subseteq Attempts /\ reviewed \subseteq Attempts /\ unverified \subseteq Attempts
    /\ worker \in [Workers -> WorkerState]
    /\ wire \subseteq Commit
    /\ faults \in 0..MaxFaults

Init ==
    /\ summary = EmptySummary
    /\ attempt = [x \in Attempts |-> NoAttempt]
    /\ recorded = {} /\ complete = {} /\ finalized = {} /\ reviewed = {} /\ unverified = {}
    /\ ack = [x \in Attempts |-> -1]
    /\ task = [x \in Attempts |-> NoTask]
    /\ worker = [w \in Workers |-> Idle]
    /\ wire = {} /\ faults = 0

--------------------------------------------------------------------------
(* Evidence enters PostgreSQL. *)

\* Mutant: evidence of equal rank replaces what the task has.
MutOutranks(rank, t) == rank >= t.rank

Outranks(rank, t) == rank > t.rank

\* queue_budget_execution_evidence on one task: stronger evidence replaces
\* the selection under a new revision; the claim stays.
Queued(t, key, rank, total) ==
    IF Outranks(rank, t)
      THEN [t EXCEPT !.revision = @ + 1, !.rank = rank, !.key = key, !.total = total]
      ELSE t

\* enqueue_budget_execution_ack, after a change to the attempt's row.
WithAck(t, x) == IF ack[x] >= 0 THEN Queued(t, "ack", 2, ack[x]) ELSE t

\* The gateway admits the request and the scope holds its bound.
Admit(x) ==
    /\ attempt[x].state = "none"
    /\ summary' = ReservedSummary(summary, Bound[x])
    /\ attempt' = [attempt EXCEPT ![x] = NewAttempt("reserved", Bound[x])]
    /\ UNCHANGED <<registry, readers, drains>>

\* A usage event with the attempt's receipt.  Only complete usage without an
\* ingestion error is exact evidence.
UsageEvent(x) ==
    /\ "usage" \in Sources[x]
    /\ attempt[x].state # "none"
    /\ recorded' = recorded \union {x}
    /\ \/ /\ \E total \in Totals :
               task' = [task EXCEPT ![x] = WithAck(Queued(@, "usage", 3, total), x)]
          /\ complete' = complete \union {x}
       \/ /\ task' = [task EXCEPT ![x] = WithAck(@, x)]
          /\ complete' \in {complete, complete \union {x}}
    /\ UNCHANGED <<ledger, ack, finalized, readers, drains>>

\* The caller acknowledges an exact count, before or after the attempt's row
\* exists.
Acknowledge(x) ==
    /\ "ack" \in Sources[x]
    /\ attempt[x].state # "none" /\ ack[x] = -1
    /\ \E total \in Totals :
          /\ ack' = [ack EXCEPT ![x] = total]
          /\ task' = IF x \in recorded THEN [task EXCEPT ![x] = Queued(@, "ack", 2, total)]
                                       ELSE task
    /\ UNCHANGED <<ledger, recorded, complete, finalized, readers, drains>>

\* The recovery sweep registers the dispatched attempt.
Register(x) ==
    /\ attempt[x].state # "none" /\ x \notin recorded
    /\ recorded' = recorded \union {x}
    /\ task' = [task EXCEPT ![x] = WithAck(@, x)]
    /\ UNCHANGED <<ledger, complete, ack, finalized, readers, drains>>

\* The gateway writes what the provider answered straight to the ledger.
GatewayCompletes(x) ==
    /\ "gateway" \in Sources[x]
    /\ attempt[x].state # "none"
    /\ \E rejection \in BOOLEAN, total \in Totals \union {0} :
          /\ rejection => total = 0
          /\ ~ rejection => total \in Totals
          /\ CompleteOutcome(attempt[x], rejection, total) = "applied"
          /\ summary' = CompletedSummary(summary, attempt[x], total)
          /\ attempt' = [attempt EXCEPT ![x] = CompletedAttempt(@, rejection, total)]
    /\ UNCHANGED <<registry, readers, drains>>

\* completions(): evidence the ledger retains becomes a task.  The row keeps
\* both kinds, so a pass that read the rejection may record it after the
\* completion arrived.
CollectCompletion(x) ==
    /\ x \in recorded /\ task[x].rank < 3
    /\ \/ /\ attempt[x].completed
          /\ task' = [task EXCEPT ![x] = Queued(@, "completion", 3, attempt[x].actual)]
       \/ /\ attempt[x].rejected
          /\ task' = [task EXCEPT ![x] = Queued(@, "rejection", 2, 0)]
    /\ UNCHANGED <<ledger, recorded, complete, ack, finalized, readers, drains>>

--------------------------------------------------------------------------
(* Decisions without evidence: release by a person, and finalization. *)

\* approve() reads the ledger row ...
Review(x) ==
    /\ "release" \in Sources[x]
    /\ x \in recorded
    /\ attempt[x].state \notin {"none", "settled", "released", "cancelled"} /\ attempt[x].rank = 0
    /\ reviewed' = reviewed \union {x}
    /\ UNCHANGED <<ledger, registry, unverified, drains>>

\* ... and PostgreSQL accepts the release only while nothing authoritative is
\* known there.
Waivable(x) == x \in reviewed /\ x \notin complete /\ task[x].revision = 0

Approve(x) ==
    /\ Waivable(x)
    /\ task' = [task EXCEPT ![x] = Queued(@, "resolution", 2, 0)]
    /\ reviewed' = reviewed \ {x}
    /\ UNCHANGED <<ledger, recorded, complete, ack, finalized, unverified, drains>>

\* unverified_execution_attempts lists what has no task after 24 hours ...
ListUnverified(x) ==
    /\ "finalization" \in Sources[x]
    /\ x \in recorded /\ x \notin finalized /\ task[x].revision = 0
    /\ unverified' = unverified \union {x}
    /\ UNCHANGED <<ledger, registry, reviewed, drains>>

\* Mutant: only an attempt already known to be uncertain keeps its bound.
MutKeepsBound(a) == a.state = "uncertain"

KeepsBound(a) == a.state \in HeldStates

\* ... and finalize_uncertain keeps the full bound of what is still held; on
\* a released row it raises and the attempt is listed again.  The pass may
\* stop between the ledger and the mark in PostgreSQL.
Finalize(x) ==
    LET a == attempt[x]
    IN  /\ x \in unverified
        /\ unverified' = unverified \ {x}
        /\ \/ /\ a.state \in {"settled", "cancelled", "upper_bound"}
              /\ finalized' = finalized \union {x}
              /\ UNCHANGED ledger
           \/ /\ KeepsBound(a)
              /\ summary' = TransitionedSummary(summary, a, "upper_bound")
              /\ attempt' = [attempt EXCEPT ![x] = TransitionedAttempt(a, "upper_bound")]
              /\ finalized' \in {finalized, finalized \union {x}}
           \/ /\ a.state = "released"
              /\ UNCHANGED <<ledger, finalized>>
        /\ UNCHANGED <<recorded, complete, ack, task, reviewed, drains>>

--------------------------------------------------------------------------
(* Settlement workers: drain(). *)

Step(w, pc) == worker' = [worker EXCEPT ![w].pc = pc]

\* Mutant: a task is open until something of it was applied.
MutClaimable(t) == t.revision > 0 /\ t.applied = 0 /\ t.owner = "nobody"

\* A task with an unapplied revision that nobody holds a live lease on.
Claimable(t) == t.applied < t.revision /\ t.owner = "nobody"

\* claim_budget_settlement.
Claim(w, x) ==
    /\ worker[w].pc = "idle"
    /\ Claimable(task[x])
    /\ task' = [task EXCEPT ![x].owner = w]
    /\ worker' = [worker EXCEPT ![w] = [Idle EXCEPT !.pc = "read_summary", !.att = x,
                                                   !.c = ChargeOf(task[x])]]
    /\ UNCHANGED <<ledger, recorded, complete, ack, finalized, readers, wire, faults>>

\* The worker with the claim is still at it.
Attended(x) ==
    \E w \in Workers : task[x].owner = w /\ worker[w].pc # "idle" /\ worker[w].att = x

\* lease_until passes after the worker has died ...
Expire(x) ==
    /\ task[x].owner # "nobody" /\ ~ Attended(x)
    /\ task' = [task EXCEPT ![x].owner = "nobody"]
    /\ UNCHANGED <<ledger, recorded, complete, ack, finalized, readers, drains>>

\* ... or under a worker that stalls for longer than the lease.
Overrun(x) ==
    /\ Attended(x)
    /\ faults < MaxFaults /\ faults' = faults + 1
    /\ task' = [task EXCEPT ![x].owner = "nobody"]
    /\ UNCHANGED <<ledger, recorded, complete, ack, finalized, readers, worker, wire>>

\* _update_attempt reads S, then A.
ReadSummary(w) ==
    /\ worker[w].pc = "read_summary"
    /\ worker' = [worker EXCEPT ![w].pc = "read_attempt", ![w].s = summary]
    /\ UNCHANGED <<ledger, registry, readers, wire, faults>>

ReadAttempt(w) ==
    /\ worker[w].pc = "read_attempt"
    /\ worker' = [worker EXCEPT ![w].pc = "decide", ![w].a = attempt[worker[w].att]]
    /\ UNCHANGED <<ledger, registry, readers, wire, faults>>

\* Rebuilding the summary validates its balances.
Balances(s) == s.confirmed >= 0 /\ s.active >= 0 /\ s.upper >= 0

\* Mutant: the batch is conditional on row A alone.
MutCurrent(m) == attempt[m.att] = m.a

\* Mutant: the batch is not conditional at all.
MutCurrentAny(m) == TRUE

\* The ETags of both rows are the ones that were read.
Current(m) == summary = m.s /\ attempt[m.att] = m.a

Apply(m) ==
    /\ summary' = SettledSummary(m.s, m.a, m.c)
    /\ attempt' = [attempt EXCEPT ![m.att] = SettledAttempt(m.a, m.c)]

TriesLeft(tries) == tries + 1 < MaxTries

\* After a conflict or a timeout the loop reads again, or gives up.
Again(w) ==
    worker' = IF TriesLeft(worker[w].tries)
                THEN [worker EXCEPT ![w].pc = "read_summary", ![w].tries = @ + 1,
                                    ![w].s = EmptySummary, ![w].a = NoAttempt]
                ELSE [worker EXCEPT ![w].pc = "retry", ![w].s = EmptySummary, ![w].a = NoAttempt]

\* The charge is decided on what was read and committed under its ETags.
SettleTask(w) ==
    LET me == worker[w]
        m == [att |-> me.att, s |-> me.s, a |-> me.a, c |-> me.c]
        outcome == SettleOutcome(me.a, me.c)
    IN  /\ me.pc = "decide"
        /\ \/ /\ outcome = "ignored"
              /\ Step(w, "acknowledge")
              /\ UNCHANGED <<ledger, wire, faults>>
           \/ /\ \/ outcome = "conflict"
                 \/ outcome = "applied" /\ ~ Balances(SettledSummary(me.s, me.a, me.c))
              /\ Step(w, "retry")
              /\ UNCHANGED <<ledger, wire, faults>>
           \/ /\ outcome = "applied" /\ Balances(SettledSummary(me.s, me.a, me.c))
              /\ \/ Current(m) /\ Apply(m) /\ Step(w, "acknowledge") /\ UNCHANGED <<wire, faults>>
                 \/ ~ Current(m) /\ Again(w) /\ UNCHANGED <<ledger, wire, faults>>
                 \/ /\ faults < MaxFaults /\ faults' = faults + 1
                    /\ wire' = wire \union {m}
                    /\ Again(w)
                    /\ UNCHANGED ledger
        /\ UNCHANGED <<registry, readers>>

\* A timed-out commit reaches the table at last.
Land(m) ==
    /\ wire' = wire \ {m}
    /\ IF Current(m) THEN Apply(m) ELSE UNCHANGED ledger
    /\ UNCHANGED <<registry, readers, worker, faults>>

\* The worker still holds the claim (lease_token and lease_until).
Holds(w) == task[worker[w].att].owner = w

\* Mutant: the acknowledgement covers whatever revision the task has now.
MutAcknowledged(t, c) == [t EXCEPT !.applied = t.revision, !.owner = "nobody"]

\* Only the revision that was settled is acknowledged.
Acknowledged(t, c) ==
    [t EXCEPT !.applied = IF @ < c.revision THEN c.revision ELSE @, !.owner = "nobody"]

\* complete_budget_settlement, or nothing when the claim was lost.
AcknowledgeTask(w) ==
    LET x == worker[w].att
    IN  /\ worker[w].pc = "acknowledge"
        /\ task' = IF Holds(w)
                     THEN [task EXCEPT ![x] = Acknowledged(@, worker[w].c)]
                     ELSE task
        /\ worker' = [worker EXCEPT ![w] = Idle]
        /\ UNCHANGED <<ledger, recorded, complete, ack, finalized, readers, wire, faults>>

\* retry_budget_settlement gives the claim back.
RetryTask(w) ==
    LET x == worker[w].att
    IN  /\ worker[w].pc = "retry"
        /\ task' = IF Holds(w) THEN [task EXCEPT ![x].owner = "nobody"] ELSE task
        /\ worker' = [worker EXCEPT ![w] = Idle]
        /\ UNCHANGED <<ledger, recorded, complete, ack, finalized, readers, wire, faults>>

\* A read fails, or the lease ran out before the settlement began, and the
\* task is handed back; or the worker dies.
Fail(w) ==
    /\ worker[w].pc # "idle"
    /\ faults < MaxFaults /\ faults' = faults + 1
    /\ \/ worker[w].pc \in {"read_summary", "read_attempt"} /\ Step(w, "retry")
       \/ worker' = [worker EXCEPT ![w] = Idle]
    /\ UNCHANGED <<ledger, registry, readers, wire>>

--------------------------------------------------------------------------
EvidenceNext(x) ==
    \/ Admit(x) \/ UsageEvent(x) \/ Acknowledge(x) \/ Register(x)
    \/ GatewayCompletes(x) \/ CollectCompletion(x)
    \/ Review(x) \/ Approve(x) \/ ListUnverified(x) \/ Finalize(x)
    \/ Expire(x) \/ Overrun(x)

Work(w) ==
    \/ ReadSummary(w) \/ ReadAttempt(w) \/ SettleTask(w) \/ AcknowledgeTask(w) \/ RetryTask(w)

Next ==
    \/ \E x \in Attempts : EvidenceNext(x)
    \/ \E w \in Workers : Work(w) \/ Fail(w) \/ \E x \in Attempts : Claim(w, x)
    \/ \E m \in wire : Land(m)

Spec == Init /\ [][Next]_vars

\* The telemetry function's timer starts a pass every 15 seconds, leases run
\* out (120 seconds, where a settlement makes three turns of calls that time
\* out after 2: a longer stall is a fault), and pending tasks are claimed in
\* the order in which they became available, so that a task that is retried
\* does not hold back the others.
Fairness ==
    /\ \A w \in Workers : WF_vars(Work(w))
    /\ \A x \in Attempts :
          /\ SF_vars(\E w \in Workers : Claim(w, x))
          /\ WF_vars(Expire(x)) /\ WF_vars(CollectCompletion(x))
          /\ WF_vars(ListUnverified(x)) /\ WF_vars(Finalize(x))

FairSpec == Init /\ [][Next]_vars /\ Fairness

--------------------------------------------------------------------------
(* Properties *)

\* The balances are the sums of the attempts' shares, however many workers
\* settle one task and whenever their commits land.
Balanced ==
    /\ summary.active = MapThenSumSet(LAMBDA x : ActiveShare(attempt[x]), Attempts)
    /\ summary.upper = MapThenSumSet(LAMBDA x : UpperShare(attempt[x]), Attempts)
    /\ summary.confirmed = MapThenSumSet(LAMBDA x : ConfirmedShare(attempt[x]), Attempts)

\* A task acknowledged at its current revision is in the ledger: the row has
\* that evidence or stronger, and with equal strength the same total.  A task
\* whose evidence the ledger refuses stays pending.
AppliedIsCharged ==
    \A x \in Attempts :
        task[x].revision > 0 /\ ~ Pending(x) =>
            /\ attempt[x].state \in {"settled", "released"}
            /\ attempt[x].rank >= task[x].rank
            /\ attempt[x].rank = task[x].rank => attempt[x].actual = task[x].total

\* An exact charge is final, and evidence in the ledger is never replaced by
\* weaker evidence.
EvidenceStands ==
    [][\A x \in Attempts :
          /\ attempt'[x].rank >= attempt[x].rank
          /\ attempt[x].rank = 3 =>
               attempt'[x].state = "settled" /\ attempt'[x].actual = attempt[x].actual]_vars

\* Evidence that reached PostgreSQL is charged, or the ledger refuses it for
\* review: no lost lease, crash or late commit leaves a task behind.
EventuallyCharged ==
    \A x \in Attempts :
        Pending(x) ~> \/ ~ Pending(x)
                      \/ SettleOutcome(attempt[x], ChargeOf(task[x])) = "conflict"

\* A recorded attempt does not hold its reservation for ever: it is charged,
\* released or kept at its full bound.
ReservationsEnd ==
    \A x \in Attempts : x \in recorded ~> attempt[x].state \notin HeldStates
=============================================================================
