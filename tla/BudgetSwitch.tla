---------------------------- MODULE BudgetSwitch ----------------------------
(***************************************************************************)
(* A budget scope changes its unit, from tokens to USD or back.            *)
(*                                                                         *)
(* The administrator's policy is a row in PostgreSQL; the settlement timer *)
(* carries its revisions to the summary S in table storage (policies() in  *)
(* services/budget_settlement.py).  A revision that changes the unit must  *)
(* wait until every request admitted in the old unit is settled, and opens *)
(* the new balance with the usage PostgreSQL knows.  The sweep therefore   *)
(* stops admission (quiesce_budget_scope), looks again, and writes the     *)
(* policy or lifts the stop.  Each look is a separate read: requests are   *)
(* admitted and settled, and usage arrives, between any two of them.  The  *)
(* sweep may die at each step, and a commit that times out may land later, *)
(* as long as nobody else has written S (its ETag).                        *)
(*                                                                         *)
(* Abstractions.  The balances active_reserved and upper_bound are the     *)
(* sums over the attempts (Settlement checks that), so that they are zero  *)
(* exactly when no attempt is held: a model whose price is zero, which     *)
(* reserves zero USD, is left out by the assumption on Cost.  A settlement *)
(* is one step here; its reads, leases and late commits are in Settlement, *)
(* admission and cancellation in BudgetDispatch.                           *)
(***************************************************************************)
EXTENDS LedgerDomain, FiniteSets, FiniteSetsExt

CONSTANTS
    Requests,      \* requests of the scope
    Cost,          \* [Requests -> [Units -> Nat]]: what each of them uses
    Fates,         \* [Requests -> SUBSET AllFates]: what may happen to each
    MaxRevisions,  \* bound on policy revisions
    MaxFaults      \* bound on timeouts and crashes

Units == {"tokens", "usd"}

\* Every request may be admitted, registered, reported and settled; beside
\* that its plan may expire, its first usage event be estimated, the gateway
\* write its answer, a person release it, or it stay undecided for a day.
AllFates == {"expiry", "estimate", "gateway", "release", "finalization"}

ASSUME SwitchAssumption ==
    /\ Cost \in [Requests -> [Units -> Nat \ {0}]]
    /\ Fates \in [Requests -> SUBSET AllFates]
    /\ MaxRevisions \in Nat \ {0} /\ MaxFaults \in Nat

VARIABLES
    kind,         \* whose scope it is: "person" or "application"
    scope,        \* row S: unit, policy revision, enabled, confirmed balance
    attempt,      \* [Requests -> Attempt]: rows A
    unit,         \* [Requests -> Units]: the unit each was admitted in
    plan,         \* [Requests -> PlanStates]: rows D of the person's partition
    usage,        \* [Requests -> UsageStates]: rows of token_usage
    recorded,     \* attempts with a row in PostgreSQL
    task,         \* [Requests -> Task]: settlement tasks
    policy,       \* budget_execution_scope: desired policy and applied revision
    sweep,        \* the timer's pass over pending policies
    late,         \* timed-out commits of S that may still land
    faults        \* timeouts and crashes so far

vars == <<kind, scope, attempt, unit, plan, usage, recorded, task, policy,
          sweep, late, faults>>
pg == <<usage, recorded, task>>
sweeping == <<policy, sweep, faults>>

PlanStates == {"none", "preparing", "authorized", "closed", "cancelled"}
UsageStates == {"none", "estimated", "exact"}

Task == [revision: Nat, rank: 0..3, key: EvidenceKeys, applied: Nat]
NoTask == [revision |-> 0, rank |-> 0, key |-> "none", applied |-> 0]

Scope == [mode: Units, revision: Nat, enabled: BOOLEAN, confirmed: Int]

\* What a sweep has read of S: its row and whether its balances are zero.
Seen == [row: Scope, active: BOOLEAN, upper: BOOLEAN]

Update == [revision: Nat, mode: Units, enabled: BOOLEAN]

SweepPcs == {"idle", "read", "plans", "usage", "quiesce", "plans_again", "usage_again",
             "enable", "write", "complete"}

--------------------------------------------------------------------------
(* What the rows add up to. *)

Active == \E x \in Requests : attempt[x].state \in HeldStates
Upper == \E x \in Requests : attempt[x].state = "upper_bound"

\* Mutant: requests that are still held do not count.
MutSettled == ~ Upper

\* active_reserved and upper_bound are zero in both units.
Settled == ~ Active /\ ~ Upper

Look == [row |-> scope, active |-> Active, upper |-> Upper]

\* Plans with RecoveryPending.
PlansPending == \E x \in Requests : plan[x] \in {"preparing", "authorized"}

\* A request PostgreSQL knows and has no applied decision for.
AwaitsEvidence(x) ==
    \/ task[x].revision = 0
    \/ task[x].applied < task[x].revision
    \/ task[x].rank # 3 /\ task[x].key \notin {"rejection", "resolution"}

CostOf(S, u) == MapThenSumSet(LAMBDA x : Cost[x][u], S)

\* budget_scope_confirmed_tokens, and the sum of budget_usage_usd_cost.  An
\* estimated row makes the USD total unknown, and one of the two totals a
\* switch compares is in USD: what such a row adds in tokens never matters.
Total(u) == CostOf({x \in Requests : usage[x] = "exact"}, u)

TotalKnown(u) == u = "tokens" \/ \A x \in Requests : usage[x] # "estimated"

\* budget_switch_usage returns a row.
UsageKnown(update) ==
    /\ policy.revision = update.revision /\ policy.mode = update.mode
    /\ \A x \in recorded : ~ AwaitsEvidence(x)

--------------------------------------------------------------------------
NoUpdate == [revision |-> 0, mode |-> "tokens", enabled |-> TRUE]
OpenScope == [mode |-> "tokens", revision |-> 1, enabled |-> TRUE, confirmed |-> 0]
NothingSeen == [row |-> OpenScope, active |-> FALSE, upper |-> FALSE]

Idle == [pc |-> "idle", update |-> NoUpdate, seen |-> NothingSeen, plans |-> FALSE, opening |-> -1]

\* The rows, the sweep and the late commits are well formed.
TypeOK ==
    /\ kind \in {"person", "application"}
    /\ scope \in Scope /\ scope.confirmed >= 0
    /\ attempt \in [Requests -> Attempt] /\ unit \in [Requests -> Units]
    /\ plan \in [Requests -> PlanStates] /\ usage \in [Requests -> UsageStates]
    /\ recorded \subseteq Requests /\ task \in [Requests -> Task]
    /\ policy \in [revision: 1..MaxRevisions, mode: Units, enabled: BOOLEAN, applied: 1..MaxRevisions]
    /\ policy.applied <= policy.revision
    /\ sweep \in [pc: SweepPcs, update: Update, seen: Seen, plans: BOOLEAN, opening: Int]
    /\ late \subseteq Scope /\ faults \in 0..MaxFaults

Init ==
    /\ kind \in {"person", "application"}
    /\ scope = OpenScope
    /\ attempt = [x \in Requests |-> NoAttempt]
    /\ unit = [x \in Requests |-> "tokens"]
    /\ plan = [x \in Requests |-> "none"]
    /\ usage = [x \in Requests |-> "none"]
    /\ recorded = {} /\ task = [x \in Requests |-> NoTask]
    /\ policy = [revision |-> 1, mode |-> "tokens", enabled |-> TRUE, applied |-> 1]
    /\ sweep = Idle /\ late = {} /\ faults = 0

\* A write of S invalidates every earlier ETag.
Commit(s) == scope' = s /\ late' = {}
NoCommit == UNCHANGED <<scope, late>>

--------------------------------------------------------------------------
(* The gateway and the recovery of its plans. *)

\* The plan is written before the first reservation.
Begin(x) ==
    /\ plan[x] = "none"
    /\ plan' = [plan EXCEPT ![x] = "preparing"]
    /\ NoCommit
    /\ UNCHANGED <<kind, attempt, unit, pg, sweeping>>

\* reserve_ledger: an enabled scope admits in its current unit.
Admit(x) ==
    /\ plan[x] = "preparing" /\ attempt[x].state = "none"
    /\ scope.enabled
    /\ attempt' = [attempt EXCEPT ![x] = NewAttempt("reserved", Cost[x][scope.mode])]
    /\ unit' = [unit EXCEPT ![x] = scope.mode]
    /\ Commit(scope)
    /\ UNCHANGED <<kind, plan, pg, sweeping>>

\* All reservations of the plan are held and the request is forwarded.
Authorize(x) ==
    /\ plan[x] = "preparing" /\ attempt[x].state = "reserved"
    /\ plan' = [plan EXCEPT ![x] = "authorized"]
    /\ NoCommit
    /\ UNCHANGED <<kind, attempt, unit, pg, sweeping>>

\* An expired plan is cancelled, and its reservation or a tombstone with it.
Cancel(x) ==
    /\ "expiry" \in Fates[x]
    /\ plan[x] = "preparing" /\ attempt[x].state \in {"none", "reserved"}
    /\ plan' = [plan EXCEPT ![x] = "cancelled"]
    /\ attempt' = [attempt EXCEPT ![x] = TransitionedAttempt(@, "cancelled")]
    /\ Commit(scope)
    /\ UNCHANGED <<kind, unit, pg, sweeping>>

\* recover() registers the authorized plan in PostgreSQL, then clears
\* RecoveryPending; it may stop in between.
Register(x) ==
    /\ plan[x] = "authorized"
    /\ recorded' = recorded \union {x}
    /\ plan' \in {plan, [plan EXCEPT ![x] = "closed"]}
    /\ NoCommit
    /\ UNCHANGED <<kind, attempt, unit, usage, task, sweeping>>

Dispatched(x) == plan[x] \in {"authorized", "closed"}

\* The gateway writes its answer to the ledger, unless the unit has changed.
GatewayCompletes(x) ==
    /\ "gateway" \in Fates[x]
    /\ Dispatched(x) /\ unit[x] = scope.mode
    /\ \E rejection \in BOOLEAN :
          LET total == IF rejection THEN 0 ELSE Cost[x][unit[x]]
          IN  /\ CompleteOutcome(attempt[x], rejection, total) = "applied"
              /\ Commit([scope EXCEPT !.confirmed = @ + total - ConfirmedShare(attempt[x])])
              /\ attempt' = [attempt EXCEPT ![x] = CompletedAttempt(@, rejection, total)]
    /\ UNCHANGED <<kind, unit, plan, pg, sweeping>>

--------------------------------------------------------------------------
(* Evidence and settlement. *)

Queued(t, key, rank) ==
    IF rank > t.rank THEN [t EXCEPT !.revision = @ + 1, !.rank = rank, !.key = key] ELSE t

\* A usage event: exact, or estimated and completed later.
UsageEvent(x) ==
    /\ Dispatched(x) /\ usage[x] # "exact"
    /\ recorded' = recorded \union {x}
    /\ \/ /\ usage' = [usage EXCEPT ![x] = "exact"]
          /\ task' = [task EXCEPT ![x] = Queued(@, "usage", 3)]
       \/ /\ "estimate" \in Fates[x] /\ usage[x] = "none"
          /\ usage' = [usage EXCEPT ![x] = "estimated"]
          /\ UNCHANGED task
    /\ NoCommit
    /\ UNCHANGED <<kind, attempt, unit, plan, sweeping>>

\* completions(): in USD exact evidence is refused until the priced usage
\* row exists.
CollectCompletion(x) ==
    /\ x \in recorded /\ task[x].rank < 3
    /\ \/ /\ attempt[x].completed /\ (unit[x] = "tokens" \/ usage[x] = "exact")
          /\ task' = [task EXCEPT ![x] = Queued(@, "completion", 3)]
       \/ /\ attempt[x].rejected /\ ~ attempt[x].completed
          /\ task' = [task EXCEPT ![x] = Queued(@, "rejection", 2)]
    /\ task' # task
    /\ NoCommit
    /\ UNCHANGED <<kind, attempt, unit, plan, usage, recorded, sweeping>>

\* A person releases a reservation that PostgreSQL has no evidence about.
Approve(x) ==
    /\ "release" \in Fates[x]
    /\ x \in recorded /\ usage[x] # "exact" /\ task[x].revision = 0
    /\ task' = [task EXCEPT ![x] = Queued(@, "resolution", 2)]
    /\ NoCommit
    /\ UNCHANGED <<kind, attempt, unit, plan, usage, recorded, sweeping>>

\* finalize_uncertain keeps the bound of what stays undecided for a day.
Finalize(x) ==
    /\ "finalization" \in Fates[x]
    /\ x \in recorded /\ task[x].revision = 0 /\ attempt[x].state \in HeldStates
    /\ attempt' = [attempt EXCEPT ![x] = TransitionedAttempt(@, "upper_bound")]
    /\ Commit(scope)
    /\ UNCHANGED <<kind, unit, plan, pg, sweeping>>

ChargeOf(x) ==
    [rank |-> task[x].rank, revision |-> task[x].revision, key |-> task[x].key,
     total |-> IF task[x].rank = 3 THEN Cost[x][unit[x]] ELSE 0]

\* settle_ledger and resolve_ledger with the unit taken into account: after
\* a switch only a repeat of the same exact charge passes.
Outcome(x) ==
    IF unit[x] = scope.mode THEN SettleOutcome(attempt[x], ChargeOf(x))
    ELSE IF /\ task[x].key # "resolution" /\ attempt[x].state = "settled"
            /\ attempt[x].rank = 3 /\ task[x].rank = 3
            /\ attempt[x].actual = ChargeOf(x).total
         THEN "ignored"
         ELSE "conflict"

\* The task's charge is committed and acknowledged, or the worker stops in
\* between; a conflict leaves the task pending.
Settle(x) ==
    LET c == ChargeOf(x)
        released == c.key = "resolution"
    IN  /\ task[x].applied < task[x].revision
        /\ \/ /\ Outcome(x) = "applied"
              /\ attempt' = [attempt EXCEPT ![x] = SettledAttempt(@, c)]
              /\ Commit([scope EXCEPT !.confirmed =
                            IF released THEN @ ELSE @ + c.total - attempt[x].actual])
              /\ task' \in {task, [task EXCEPT ![x].applied = c.revision]}
           \/ /\ Outcome(x) = "ignored"
              /\ task' = [task EXCEPT ![x].applied = c.revision]
              /\ NoCommit /\ UNCHANGED attempt
        /\ UNCHANGED <<kind, unit, plan, usage, recorded, sweeping>>

--------------------------------------------------------------------------
(* The administrator and the sweep. *)

\* queue_budget_execution_policy: a different policy takes a new revision.
\* A person's scope is never disabled.
SetPolicy(mode, enabled) ==
    /\ policy.revision < MaxRevisions
    /\ <<mode, enabled>> # <<policy.mode, policy.enabled>>
    /\ kind = "person" => enabled
    /\ policy' = [policy EXCEPT !.revision = @ + 1, !.mode = mode, !.enabled = enabled]
    /\ NoCommit
    /\ UNCHANGED <<kind, attempt, unit, plan, pg, sweep, faults>>

outside == <<kind, attempt, unit, plan, pg>>

\* The next call, when nothing that was read is needed any more.
To(pc) == sweep' = [Idle EXCEPT !.pc = pc, !.update = sweep.update]
Stop == sweep' = Idle

\* pending_budget_policies.
ListPolicy ==
    /\ sweep.pc = "idle" /\ policy.applied < policy.revision
    /\ sweep' = [Idle EXCEPT !.pc = "read",
                    !.update = [revision |-> policy.revision, mode |-> policy.mode,
                                enabled |-> policy.enabled]]
    /\ NoCommit
    /\ UNCHANGED <<outside, policy, faults>>

\* Pending plans are looked for in a person's own partition only.
PlansOrUsage(again) ==
    IF kind = "person" THEN IF again THEN "plans_again" ELSE "plans"
                       ELSE IF again THEN "usage_again" ELSE "usage"

ReadScope ==
    /\ sweep.pc = "read"
    /\ IF scope.revision > sweep.update.revision THEN Stop
       ELSE IF scope.mode = sweep.update.mode THEN To("write")
       ELSE sweep' = [sweep EXCEPT !.seen = Look, !.pc = PlansOrUsage(FALSE)]
    /\ NoCommit
    /\ UNCHANGED <<outside, policy, faults>>

ReadPlans ==
    /\ sweep.pc = "plans"
    /\ sweep' = [sweep EXCEPT !.plans = PlansPending, !.pc = "usage"]
    /\ NoCommit
    /\ UNCHANGED <<outside, policy, faults>>

\* The source total is the one the ledger has, and the target's is known.
SourceAgrees ==
    LET row == sweep.seen.row IN TotalKnown(row.mode) /\ Total(row.mode) = row.confirmed
OpeningKnown == TotalKnown(sweep.update.mode)

\* Mutant: a disabled scope is left as it is.
MutLiftStop(wanted) == Stop

\* quiesce_budget_scope(enabled=True), when the policy wants it enabled.
LiftStop(wanted) == IF wanted THEN To("enable") ELSE Stop

\* The first look decides whether admission is worth stopping.
FirstUsage ==
    LET seen == sweep.seen
    IN  /\ sweep.pc = "usage"
        /\ IF \/ sweep.plans \/ seen.upper
              \/ ~ UsageKnown(sweep.update) \/ ~ OpeningKnown
              \/ ~ seen.active /\ ~ SourceAgrees
             THEN LiftStop(~ seen.row.enabled /\ sweep.update.enabled /\ ~ seen.active)
             ELSE To("quiesce")
        /\ NoCommit
        /\ UNCHANGED <<outside, policy, faults>>

\* One call of quiesce_budget_scope returns the row r.
Quiesced(enabled, r) ==
    IF scope.revision >= sweep.update.revision \/ scope.enabled = enabled
      THEN r = scope /\ NoCommit
      ELSE r = [scope EXCEPT !.enabled = enabled] /\ Commit(r)

\* Admission stops; requests still held, or kept at their bound, come first.
Quiesce ==
    /\ sweep.pc = "quiesce"
    /\ \E r \in {scope, [scope EXCEPT !.enabled = FALSE]} :
          /\ Quiesced(FALSE, r)
          /\ IF r.revision >= sweep.update.revision THEN Stop
             ELSE IF ~ Settled THEN LiftStop(Upper /\ ~ Active /\ sweep.update.enabled)
             ELSE sweep' = [sweep EXCEPT !.pc = PlansOrUsage(TRUE),
                               !.seen = [row |-> r, active |-> FALSE, upper |-> FALSE]]
    /\ UNCHANGED <<outside, policy, faults>>

ReadPlansAgain ==
    /\ sweep.pc = "plans_again"
    /\ IF PlansPending THEN LiftStop(sweep.update.enabled)
       ELSE sweep' = [sweep EXCEPT !.pc = "usage_again"]
    /\ NoCommit
    /\ UNCHANGED <<outside, policy, faults>>

\* Mutant: the ledger's own balance is not compared again.
MutSecondAgrees == UsageKnown(sweep.update) /\ OpeningKnown

SecondAgrees == UsageKnown(sweep.update) /\ SourceAgrees /\ OpeningKnown

\* The second look, with admission stopped, gives the opening balance.
SecondUsage ==
    /\ sweep.pc = "usage_again"
    /\ IF SecondAgrees
         THEN sweep' = [Idle EXCEPT !.pc = "write", !.update = sweep.update,
                                    !.opening = Total(sweep.update.mode)]
         ELSE LiftStop(sweep.update.enabled)
    /\ NoCommit
    /\ UNCHANGED <<outside, policy, faults>>

Enable ==
    /\ sweep.pc = "enable"
    /\ \E r \in {scope, [scope EXCEPT !.enabled = TRUE]} : Quiesced(TRUE, r)
    /\ Stop
    /\ UNCHANGED <<outside, policy, faults>>

\* write_policy: the unit changes only in a stopped, settled scope.
MaySwitch == ~ scope.enabled /\ Settled /\ sweep.opening >= 0

Written ==
    [mode |-> sweep.update.mode, revision |-> sweep.update.revision,
     enabled |-> sweep.update.enabled,
     confirmed |-> IF scope.mode = sweep.update.mode THEN scope.confirmed ELSE sweep.opening]

WritePolicy ==
    LET u == sweep.update
    IN  /\ sweep.pc = "write"
        /\ \/ /\ \/ scope.revision > u.revision
                 \/ scope.mode # u.mode /\ (scope.revision = u.revision \/ ~ MaySwitch)
              /\ Stop /\ NoCommit
           \/ /\ scope.revision = u.revision /\ scope.mode = u.mode
              /\ To("complete") /\ NoCommit
           \/ /\ scope.revision < u.revision
              /\ scope.mode # u.mode => MaySwitch
              /\ Commit(Written) /\ To("complete")
        /\ UNCHANGED <<outside, policy, faults>>

\* complete_budget_policy.
CompletePolicy ==
    /\ sweep.pc = "complete"
    /\ policy' = [policy EXCEPT !.applied =
                     IF @ < sweep.update.revision THEN sweep.update.revision ELSE @]
    /\ Stop /\ NoCommit
    /\ UNCHANGED <<outside, faults>>

\* A commit of the sweep times out: it may land later, and the call's loop
\* tries again.
Timeout ==
    /\ faults < MaxFaults /\ faults' = faults + 1
    /\ \/ /\ sweep.pc \in {"quiesce", "enable"}
          /\ scope.revision < sweep.update.revision
          /\ scope.enabled # (sweep.pc = "enable")
          /\ late' = late \union {[scope EXCEPT !.enabled = (sweep.pc = "enable")]}
       \/ /\ sweep.pc = "write" /\ scope.revision < sweep.update.revision
          /\ scope.mode # sweep.update.mode => MaySwitch
          /\ late' = late \union {Written}
    /\ UNCHANGED <<outside, policy, scope, sweep>>

Land(s) ==
    /\ Commit(s)
    /\ UNCHANGED <<outside, policy, sweep, faults>>

\* The pass dies, or a call exhausts its retries.
Fail ==
    /\ sweep.pc # "idle"
    /\ faults < MaxFaults /\ faults' = faults + 1
    /\ Stop /\ NoCommit
    /\ UNCHANGED <<outside, policy>>

--------------------------------------------------------------------------
Sweep ==
    \/ ListPolicy \/ ReadScope \/ ReadPlans \/ FirstUsage \/ Quiesce
    \/ ReadPlansAgain \/ SecondUsage \/ Enable \/ WritePolicy \/ CompletePolicy

Next ==
    \/ \E x \in Requests :
          \/ Begin(x) \/ Admit(x) \/ Authorize(x) \/ Cancel(x) \/ Register(x)
          \/ GatewayCompletes(x) \/ UsageEvent(x) \/ CollectCompletion(x)
          \/ Approve(x) \/ Finalize(x) \/ Settle(x)
    \/ \E mode \in Units, enabled \in BOOLEAN : SetPolicy(mode, enabled)
    \/ Sweep \/ Timeout \/ Fail
    \/ \E s \in late : Land(s)

\* What the timer does for a request after the policies: it recovers plans,
\* collects completions, finalizes and settles.
Maintain(x) ==
    \/ Cancel(x) \/ CollectCompletion(x) \/ Finalize(x)
    \/ Register(x) /\ plan'[x] = "closed"
    \/ Settle(x) /\ task'[x].applied = task[x].revision

\* The timer runs every 15 seconds.  A request gives it work a bounded number
\* of times, so that none of its steps can hold back another for ever.
Fairness == WF_vars(Sweep) /\ WF_vars(\E x \in Requests : Maintain(x))

Spec == Init /\ [][Next]_vars
FairSpec == Spec /\ Fairness

--------------------------------------------------------------------------
(* Properties *)

\* No request is held in a unit its scope has left: its reservation could
\* neither be settled nor released there.
HeldInUnit ==
    \A x \in Requests :
        attempt[x].state \in HeldStates \union {"upper_bound"} => unit[x] = scope.mode

Charged == {x \in Requests : attempt[x].rank = 3}

\* Requests first decided to be free, by a rejection or a release, in a scope
\* whose policy has changed.  An exact charge that overtakes such a decision
\* while a sweep is between its last look and write_policy is not in the
\* opening balance, and one that comes after the switch is refused.
Overtaken == {x \in Requests : scope.revision > 1 /\ (attempt[x].rejected \/ attempt[x].resolved)}

\* A switch compares totals, not the requests they are made of.  The known
\* requests, whose usage PostgreSQL has, stood in for lost ones of the same
\* cost, whose usage it had not: the opening balance has the former alone.
\* It begins with an overtaken request, known and not counted in the ledger.
Replaced(x, counted) ==
    /\ \E y \in counted \cap Overtaken : usage[y] = "exact"
    /\ \E u \in Units, lost \in SUBSET Charged, known \in SUBSET counted :
          /\ x \in lost /\ lost \cap known = {}
          /\ \A y \in known : usage[y] = "exact"
          /\ CostOf(lost, u) = CostOf(known, u)

\* The confirmed balance is, in the scope's current unit, the cost of the
\* requests that have an exact charge, whichever unit it was charged in, and
\* counts none twice.  A switch loses the usage of overtaken requests and of
\* requests replaced as above, and no other, whatever is late or retried and
\* whatever the requests cost.
Conserved ==
    \E counted \in SUBSET Charged :
        /\ scope.confirmed = CostOf(counted, scope.mode)
        /\ \A x \in Charged \ counted : x \in Overtaken \/ Replaced(x, counted)

\* A switch that has to wait, fails or is withdrawn does not leave the scope
\* closed: admission resumes, or the policy no longer wants it.
NotLeftDisabled == policy.enabled /\ ~ scope.enabled ~> scope.enabled \/ ~ policy.enabled
=============================================================================
