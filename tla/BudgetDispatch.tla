--------------------------- MODULE BudgetDispatch ---------------------------
(***************************************************************************)
(* Admission of a model request against the execution budget ledger.       *)
(*                                                                         *)
(* The gateway (the API Management policy compiled by                      *)
(* integrations/apim_budget_execution.py) admits a request in four durable *)
(* stages: it inserts a dispatch plan D in the partition of the first      *)
(* scope, reserves the request's bound in every scope (rows S and A in one *)
(* conditional batch), turns D from preparing to dispatching with a        *)
(* conditional write, and only then forwards the request.  When anything   *)
(* fails it tries to turn D to cancelled and denies the request.  It may   *)
(* die at any point.                                                       *)
(*                                                                         *)
(* The control plane (services/budget_settlement.py and                    *)
(* integrations/atomic_ledger.py) sweeps the plans whose preparation lease *)
(* has lapsed: it cancels the plan, releases what was reserved, writes a   *)
(* cancelled tombstone where nothing was reserved yet, registers the       *)
(* attempt in PostgreSQL and marks the plan recovered.                     *)
(*                                                                         *)
(* Storage is Azure Table Storage: a batch on one partition is atomic and  *)
(* conditional on the ETags of the rows it read.  A write that times out   *)
(* has an unknown outcome: it stays on the wire and may land much later,   *)
(* against whatever the rows are then.                                     *)
(*                                                                         *)
(* The ETag of a summary is its version (every write advances it), and the *)
(* ETag of a plan is its content (no plan state is entered twice).         *)
(* Control-plane updates that read S and A and commit both conditionally,  *)
(* retrying on conflict, are one step at their commit point.               *)
(***************************************************************************)
EXTENDS LedgerDomain, Sequences, FiniteSets, FiniteSetsExt

CONSTANTS
    Requests,     \* gateway requests, one attempt key each
    Scopes,       \* budget scopes
    Receipts,     \* [Requests -> Seq(Scopes)]: the scopes a request needs, first the coordinator
    Bound,        \* [Requests -> Nat]: the bound the gateway reserves for a request
    Actual,       \* [Requests -> Nat]: what the provider reports the request used
    InitLimit,    \* [Scopes -> Nat]: initial limits
    Limits,       \* limits a later policy revision may set
    Workers,      \* recovery sweeps that may overlap
    MaxRetries,   \* retries of the gateway's reservation loop (retry count="2")
    MaxRevision,  \* bound on policy revisions
    MaxFaults     \* bound on timeouts and crashes

Members(r) == {Receipts[r][i] : i \in 1..Len(Receipts[r])}

ASSUME RequestsAssumption == Requests # {}
ASSUME ReceiptsAssumption ==
    /\ Receipts \in [Requests -> Seq(Scopes)]
    /\ \A r \in Requests : Len(Receipts[r]) \in 1..2
    /\ \A r \in Requests : \A i, j \in 1..Len(Receipts[r]) :
          Receipts[r][i] = Receipts[r][j] => i = j
ASSUME AmountsAssumption ==
    /\ Bound \in [Requests -> Nat \ {0}]
    /\ Actual \in [Requests -> Nat]
    /\ InitLimit \in [Scopes -> Nat]
    /\ Limits \subseteq Nat
ASSUME BoundsAssumption ==
    MaxRetries \in Nat /\ MaxRevision \in Nat /\ MaxFaults \in Nat

VARIABLES
    summary,      \* [Scopes -> Summary]: row S of each partition
    attempt,      \* [Scopes -> [Requests -> Attempt]]: rows A
    dispatch,     \* [Requests -> DispatchRow]: row D
    lapsed,       \* requests whose preparation lease (expires_at) has passed
    gw,           \* [Requests -> GatewayState]: the policy execution of each request
    wire,         \* timed-out writes that may still land
    sweep,        \* [Workers -> SweepState]: the recovery sweeps
    registered,   \* requests registered in PostgreSQL
    faults        \* timeouts and crashes so far

vars == <<summary, attempt, dispatch, lapsed, gw, wire, sweep, registered, faults>>
ledger == <<summary, attempt, dispatch>>

DispatchRow == [state: {"none", "preparing", "dispatching", "cancelled"},
                recovered: BOOLEAN]

GatewayState == [pc: {"idle", "read", "write", "check", "authorize", "cancel_read",
                      "cancel_write", "denied", "forwarded", "complete", "done", "dead"},
                 idx: 1..2, tries: 0..MaxRetries, seen: Nat,
                 outcome: {"none", "usage", "rejection", "incomplete"}]

\* A write: insert of a plan, reservation batch, conditional change of a plan,
\* completion batch.  seen is the ETag of S the batch is conditional on.
Write == [kind: {"plan", "reserve", "authorize", "cancel", "complete"},
          req: Requests, scope: Scopes, seen: Nat]

SweepState == [pc: {"idle", "cancel", "compensate", "register", "finish"},
               req: Requests, idx: 1..2]

Preparing == [state |-> "preparing", recovered |-> FALSE]

\* A request the gateway has handed to the provider.
Sent(r) == gw[r].pc \in {"forwarded", "complete", "done"}

TypeOK ==
    /\ summary \in [Scopes -> Summary]
    /\ attempt \in [Scopes -> [Requests -> Attempt]]
    /\ dispatch \in [Requests -> DispatchRow]
    /\ lapsed \subseteq Requests
    /\ gw \in [Requests -> GatewayState]
    /\ \A r \in Requests : gw[r].idx <= Len(Receipts[r])
    /\ wire \subseteq Write
    /\ \A w \in wire : w.scope \in Members(w.req)
    /\ sweep \in [Workers -> SweepState]
    /\ \A k \in Workers : sweep[k].idx <= Len(Receipts[sweep[k].req])
    /\ registered \subseteq Requests
    /\ faults \in 0..MaxFaults

Init ==
    /\ summary = [s \in Scopes |->
          [version |-> 0, revision |-> 0, limit |-> InitLimit[s], enforce |-> TRUE,
           enabled |-> TRUE, confirmed |-> 0, active |-> 0, upper |-> 0]]
    /\ attempt = [s \in Scopes |-> [r \in Requests |-> NoAttempt]]
    /\ dispatch = [r \in Requests |-> [state |-> "none", recovered |-> FALSE]]
    /\ lapsed = {}
    /\ gw = [r \in Requests |->
          [pc |-> "idle", idx |-> 1, tries |-> 0, seen |-> 0, outcome |-> "none"]]
    /\ wire = {}
    /\ sweep = [k \in Workers |->
          [pc |-> "idle", req |-> CHOOSE r \in Requests : TRUE, idx |-> 1]]
    /\ registered = {}
    /\ faults = 0

--------------------------------------------------------------------------
(* Storage: what a conditional write does when it reaches the table. *)

Scope(r) == Receipts[r][gw[r].idx]

WriteOf(k, r, s, v) == [kind |-> k, req |-> r, scope |-> s, seen |-> v]

\* Mutant: the plan is replaced with If-Match: *.
MutPlanUnchanged(r) == dispatch[r].state # "none"

\* The plan is still the one the gateway inserted (its ETag matches).
PlanUnchanged(r) == dispatch[r] = Preparing

\* Mutant: the batch does not condition S on the ETag that was read.
MutReserveMatches(w) == attempt[w.scope][w.req].state = "none"

\* The reservation batch updates S under its ETag and inserts A.
ReserveMatches(w) ==
    /\ summary[w.scope].version = w.seen
    /\ attempt[w.scope][w.req].state = "none"

\* The conditions the table checks.
Matches(w) ==
    CASE w.kind = "plan" -> dispatch[w.req].state = "none"
      [] w.kind = "reserve" -> ReserveMatches(w)
      [] w.kind \in {"authorize", "cancel"} -> PlanUnchanged(w.req)
      [] w.kind = "complete" -> summary[w.scope].version = w.seen

\* The gateway's completion of one scope, from the provider's response.
IsRejection(r) == gw[r].outcome = "rejection"
CompletionTotal(r) == IF IsRejection(r) THEN 0 ELSE Actual[r]

\* The effect of a write whose conditions hold.
Apply(w) ==
    LET s == w.scope
        r == w.req
        a == attempt[s][r]
    IN  CASE w.kind = "plan" ->
               /\ dispatch' = [dispatch EXCEPT ![r] = Preparing]
               /\ UNCHANGED <<summary, attempt>>
          [] w.kind = "reserve" ->
               /\ summary' = [summary EXCEPT ![s] = ReservedSummary(@, Bound[r])]
               /\ attempt' = [attempt EXCEPT ![s][r] = NewAttempt("reserved", Bound[r])]
               /\ UNCHANGED dispatch
          [] w.kind = "authorize" ->
               /\ dispatch' = [dispatch EXCEPT ![r].state = "dispatching"]
               /\ UNCHANGED <<summary, attempt>>
          [] w.kind = "cancel" ->
               /\ dispatch' = [dispatch EXCEPT ![r].state = "cancelled"]
               /\ UNCHANGED <<summary, attempt>>
          [] w.kind = "complete" ->
               /\ summary' = [summary EXCEPT ![s] = CompletedSummary(@, a, CompletionTotal(r))]
               /\ attempt' = [attempt EXCEPT ![s][r] =
                     CompletedAttempt(a, IsRejection(r), CompletionTotal(r))]
               /\ UNCHANGED dispatch

\* The write got no answer: it is on the wire, its effect unknown.
TimeOut(w) ==
    /\ faults < MaxFaults
    /\ faults' = faults + 1
    /\ wire' = wire \union {w}
    /\ UNCHANGED ledger

\* An abandoned write reaches the table at last.
Land(w) ==
    /\ w \in wire
    /\ wire' = wire \ {w}
    /\ IF Matches(w) THEN Apply(w) ELSE UNCHANGED ledger
    /\ UNCHANGED <<lapsed, gw, sweep, registered, faults>>

--------------------------------------------------------------------------
(* The gateway. *)

Goto(r, pc) == gw' = [gw EXCEPT ![r].pc = pc, ![r].seen = 0]

\* A read or a write fails, or an answer is an error: the policy denies the
\* request and tries to cancel its plan.
Deny(r) == Goto(r, "cancel_read")

\* A read that gets no answer.
ReadFails(r, pc) ==
    /\ faults < MaxFaults
    /\ faults' = faults + 1
    /\ Goto(r, pc)
    /\ UNCHANGED <<ledger, wire>>

\* The plan is inserted in the coordinator's partition, valid for 45 seconds.
InsertPlan(r) ==
    /\ gw[r].pc = "idle"
    /\ LET w == WriteOf("plan", r, Scope(r), 0)
       IN  \/ Matches(w) /\ Apply(w) /\ Goto(r, "read") /\ UNCHANGED <<wire, faults>>
           \/ TimeOut(w) /\ Deny(r)
    /\ UNCHANGED <<lapsed, sweep, registered>>

\* Mutant: one retry more than the loop has.
MutRetryLeft(r) == gw[r].tries <= MaxRetries

\* The reservation loop has turns left.
RetryLeft(r) == gw[r].tries < MaxRetries

\* One turn of the reservation loop reads S and decides on it.
ReadSummary(r) ==
    /\ gw[r].pc = "read"
    /\ LET s == Scope(r)
           error == AdmissionError(summary[s], Bound[r])
       IN  \/ /\ error = ""
              /\ gw' = [gw EXCEPT ![r].pc = "write", ![r].seen = summary[s].version]
              /\ UNCHANGED <<ledger, wire, faults>>
           \/ /\ error = "budget_temporarily_reserved"
              /\ IF RetryLeft(r)
                   THEN gw' = [gw EXCEPT ![r].tries = @ + 1]
                   ELSE Deny(r)
              /\ UNCHANGED <<ledger, wire, faults>>
           \/ /\ error \notin {"", "budget_temporarily_reserved"}
              /\ Deny(r)
              /\ UNCHANGED <<ledger, wire, faults>>
           \/ ReadFails(r, "cancel_read")
    /\ UNCHANGED <<lapsed, sweep, registered>>

\* The batch of S and A: 204 for both continues, 409 or 412 retries, anything
\* else is unavailable and ends the loop.
WriteReservation(r) ==
    /\ gw[r].pc = "write"
    /\ LET w == WriteOf("reserve", r, Scope(r), gw[r].seen)
       IN  \/ /\ Matches(w) /\ Apply(w)
              /\ gw' = IF gw[r].idx < Len(Receipts[r])
                         THEN [gw EXCEPT ![r].pc = "read", ![r].idx = @ + 1,
                                         ![r].tries = 0, ![r].seen = 0]
                         ELSE [gw EXCEPT ![r].pc = "check", ![r].tries = 0, ![r].seen = 0]
              /\ UNCHANGED <<wire, faults>>
           \/ /\ ~ Matches(w)
              /\ IF RetryLeft(r)
                   THEN gw' = [gw EXCEPT ![r].pc = "read", ![r].tries = @ + 1, ![r].seen = 0]
                   ELSE Deny(r)
              /\ UNCHANGED <<ledger, wire, faults>>
           \/ TimeOut(w) /\ Deny(r)
    /\ UNCHANGED <<lapsed, sweep, registered>>

\* The plan must still be the one inserted and its lease alive.
CheckPlan(r) ==
    /\ gw[r].pc = "check"
    /\ \/ /\ PlanUnchanged(r) /\ r \notin lapsed
          /\ Goto(r, "authorize")
          /\ UNCHANGED <<ledger, wire, faults>>
       \/ /\ ~ PlanUnchanged(r) \/ r \in lapsed
          /\ Deny(r)
          /\ UNCHANGED <<ledger, wire, faults>>
       \/ ReadFails(r, "cancel_read")
    /\ UNCHANGED <<lapsed, sweep, registered>>

\* Only a confirmed change of the plan to dispatching forwards the request.
Authorize(r) ==
    /\ gw[r].pc = "authorize"
    /\ LET w == WriteOf("authorize", r, Receipts[r][1], 0)
       IN  \/ Matches(w) /\ Apply(w) /\ Goto(r, "forwarded") /\ UNCHANGED <<wire, faults>>
           \/ ~ Matches(w) /\ Deny(r) /\ UNCHANGED <<ledger, wire, faults>>
           \/ TimeOut(w) /\ Deny(r)
    /\ UNCHANGED <<lapsed, sweep, registered>>

\* _cancel_preparing: read the plan, and cancel it if it is still as inserted.
CancelRead(r) ==
    /\ gw[r].pc = "cancel_read"
    /\ \/ /\ Goto(r, IF PlanUnchanged(r) THEN "cancel_write" ELSE "denied")
          /\ UNCHANGED <<ledger, wire, faults>>
       \/ ReadFails(r, "denied")
    /\ UNCHANGED <<lapsed, sweep, registered>>

\* The answer of the cancelling write is not looked at.
CancelWrite(r) ==
    /\ gw[r].pc = "cancel_write"
    /\ LET w == WriteOf("cancel", r, Receipts[r][1], 0)
       IN  \/ Matches(w) /\ Apply(w) /\ UNCHANGED <<wire, faults>>
           \/ ~ Matches(w) /\ UNCHANGED <<ledger, wire, faults>>
           \/ TimeOut(w)
    /\ Goto(r, "denied")
    /\ UNCHANGED <<lapsed, sweep, registered>>

\* The provider answers: complete usage, a terminal rejection, or neither
\* (a stream, an error without counters).
Respond(r) ==
    /\ gw[r].pc = "forwarded"
    /\ \E outcome \in {"usage", "rejection", "incomplete"} :
          gw' = [gw EXCEPT ![r].pc = IF outcome = "incomplete" THEN "done" ELSE "complete",
                           ![r].idx = 1, ![r].outcome = outcome]
    /\ UNCHANGED <<ledger, lapsed, wire, sweep, registered, faults>>

\* The completion loop takes the scopes in order and goes on to the next one
\* whether or not the write was confirmed: nothing is written when the row is
\* already decided, when a read fails or when every turn loses the race for S.
CompleteScope(r) ==
    /\ gw[r].pc = "complete"
    /\ LET s == Scope(r)
           w == WriteOf("complete", r, s, summary[s].version)
           outcome == CompleteOutcome(attempt[s][r], IsRejection(r), CompletionTotal(r))
       IN  \/ outcome = "applied" /\ Apply(w) /\ UNCHANGED <<wire, faults>>
           \/ UNCHANGED <<ledger, wire, faults>>
           \/ outcome = "applied" /\ TimeOut(w)
    /\ gw' = IF gw[r].idx < Len(Receipts[r]) THEN [gw EXCEPT ![r].idx = @ + 1]
                                             ELSE [gw EXCEPT ![r].pc = "done"]
    /\ UNCHANGED <<lapsed, sweep, registered>>

\* The gateway dies before it has decided on the request.
Die(r) ==
    /\ gw[r].pc \in {"read", "write", "check", "authorize", "cancel_read", "cancel_write"}
    /\ faults < MaxFaults
    /\ faults' = faults + 1
    /\ Goto(r, "dead")
    /\ UNCHANGED <<ledger, lapsed, wire, sweep, registered>>

\* The 45 seconds of a plan pass, whoever still works on it.
Lapse(r) ==
    /\ gw[r].pc # "idle" /\ r \notin lapsed
    /\ lapsed' = lapsed \union {r}
    /\ UNCHANGED <<ledger, gw, wire, sweep, registered, faults>>

--------------------------------------------------------------------------
(* Recovery of plans by the control plane. *)

SweepGoto(k, pc) == sweep' = [sweep EXCEPT ![k].pc = pc]

\* Mutant: a preparing plan is skipped although its lease has lapsed.
MutRecoverable(r) == dispatch[r].state \in {"dispatching", "cancelled"} /\ ~ dispatch[r].recovered

\* A plan of the page, with RecoveryPending and not under a live lease.
Recoverable(r) ==
    /\ dispatch[r].state # "none" /\ ~ dispatch[r].recovered
    /\ dispatch[r].state = "preparing" => r \in lapsed

\* The sweep works from the state it reads here.
PickPlan(k, r) ==
    /\ sweep[k].pc = "idle"
    /\ Recoverable(r)
    /\ sweep' = [sweep EXCEPT ![k] =
          [pc |-> IF dispatch[r].state = "dispatching" THEN "register" ELSE "cancel",
           req |-> r, idx |-> 1]]
    /\ UNCHANGED <<ledger, lapsed, gw, wire, registered, faults>>

\* cancel_dispatch(recovery=True): a plan that was authorized meanwhile is
\* left alone.
RecoverCancel(k) ==
    LET r == sweep[k].req
        w == WriteOf("cancel", r, Receipts[r][1], 0)
    IN  /\ sweep[k].pc = "cancel"
        /\ \/ /\ dispatch[r].state = "dispatching"
              /\ SweepGoto(k, "idle")
              /\ UNCHANGED <<ledger, wire, faults>>
           \/ /\ dispatch[r].state = "cancelled"
              /\ SweepGoto(k, "compensate")
              /\ UNCHANGED <<ledger, wire, faults>>
           \/ /\ Matches(w) /\ Apply(w)
              /\ SweepGoto(k, "compensate")
              /\ UNCHANGED <<wire, faults>>
           \/ Matches(w) /\ TimeOut(w) /\ SweepGoto(k, "idle")
        /\ UNCHANGED <<lapsed, gw, registered>>

\* Mutant: nothing is written where no reservation was found.
MutCompensateReceipt(s, r) ==
    LET a == attempt[s][r]
    IN  \/ /\ a.state = "reserved"
           /\ summary' = [summary EXCEPT ![s] = TransitionedSummary(@, a, "cancelled")]
           /\ attempt' = [attempt EXCEPT ![s][r] = TransitionedAttempt(a, "cancelled")]
        \/ a.state # "reserved" /\ UNCHANGED <<summary, attempt>>

\* compensate_dispatch, one receipt: release a reservation, leave a decided
\* row, or write a tombstone that fences a reservation still on its way.
CompensateReceipt(s, r) ==
    LET a == attempt[s][r]
    IN  \/ /\ a.state = "reserved"
           /\ summary' = [summary EXCEPT ![s] = TransitionedSummary(@, a, "cancelled")]
           /\ attempt' = [attempt EXCEPT ![s][r] = TransitionedAttempt(a, "cancelled")]
        \/ /\ a.state \in {"settled", "cancelled"}
           /\ UNCHANGED <<summary, attempt>>
        \/ /\ a.state = "none"
           /\ summary' = [summary EXCEPT ![s].version = @ + 1]
           /\ attempt' = [attempt EXCEPT ![s][r] = NewAttempt("cancelled", Bound[r])]

Compensate(k) ==
    LET r == sweep[k].req
    IN  /\ sweep[k].pc = "compensate"
        /\ dispatch[r].state = "cancelled"
        /\ CompensateReceipt(Receipts[r][sweep[k].idx], r)
        /\ sweep' = IF sweep[k].idx < Len(Receipts[r])
                      THEN [sweep EXCEPT ![k].idx = @ + 1]
                      ELSE [sweep EXCEPT ![k].pc = "register"]
        /\ UNCHANGED <<dispatch, lapsed, gw, wire, registered, faults>>

\* register_budget_dispatch: the attempts become visible to settlement.
Register(k) ==
    /\ sweep[k].pc = "register"
    /\ registered' = registered \union {sweep[k].req}
    /\ SweepGoto(k, "finish")
    /\ UNCHANGED <<ledger, lapsed, gw, wire, faults>>

\* finish_dispatch_recovery takes the plan off the pending pages.
Finish(k) ==
    LET r == sweep[k].req
    IN  /\ sweep[k].pc = "finish"
        /\ dispatch[r].state # "preparing"
        /\ dispatch' = [dispatch EXCEPT ![r].recovered = TRUE]
        /\ SweepGoto(k, "idle")
        /\ UNCHANGED <<summary, attempt, lapsed, gw, wire, registered, faults>>

\* An exception, a deadline or a crash ends the pass; the cursor comes back.
SweepFails(k) ==
    /\ sweep[k].pc # "idle"
    /\ faults < MaxFaults
    /\ faults' = faults + 1
    /\ SweepGoto(k, "idle")
    /\ UNCHANGED <<ledger, lapsed, gw, wire, registered>>

--------------------------------------------------------------------------
(* Settlement of dispatched attempts and policy, at their commit points. *)

\* The exact usage event of a sent request carries its receipts, so its task
\* exists without the sweep.
UsageCharge(r) == [rank |-> 3, revision |-> 1, total |-> Actual[r], key |-> "usage"]

Settle(s, r) ==
    LET a == attempt[s][r]
    IN  /\ Sent(r) /\ gw[r].outcome # "rejection" /\ s \in Members(r)
        /\ SettleOutcome(a, UsageCharge(r)) = "applied"
        /\ summary' = [summary EXCEPT ![s] = SettledSummary(@, a, UsageCharge(r))]
        /\ attempt' = [attempt EXCEPT ![s][r] = SettledAttempt(a, UsageCharge(r))]
        /\ UNCHANGED <<dispatch, lapsed, gw, wire, sweep, registered, faults>>

\* Mutant: any attempt row is finalized, registered or not.
MutFinalizable(s, r) ==
    s \in Members(r) /\ attempt[s][r].state \in HeldStates

\* unverified_execution_attempts reads the attempts registered in PostgreSQL;
\* a decided row is left alone and a released one is a protocol conflict.
Finalizable(s, r) ==
    /\ r \in registered /\ s \in Members(r)
    /\ attempt[s][r].state \notin {"settled", "cancelled", "upper_bound"}
    /\ TransitionAllowed(attempt[s][r].state, "upper_bound")

\* A registered attempt without evidence after 24 hours keeps its full bound.
FinalizeUncertain(s, r) ==
    LET a == attempt[s][r]
    IN  /\ Finalizable(s, r)
        /\ summary' = [summary EXCEPT ![s] = TransitionedSummary(@, a, "upper_bound")]
        /\ attempt' = [attempt EXCEPT ![s][r] = TransitionedAttempt(a, "upper_bound")]
        /\ UNCHANGED <<dispatch, lapsed, gw, wire, sweep, registered, faults>>

\* An operator releases a registered attempt without evidence.
Resolve(s, r) ==
    LET a == attempt[s][r]
    IN  /\ r \in registered /\ s \in Members(r)
        /\ a.rank = 0
        /\ ResolveOutcome(a) = "applied"
        /\ summary' = [summary EXCEPT ![s] = ResolvedSummary(@, a)]
        /\ attempt' = [attempt EXCEPT ![s][r] = ResolvedAttempt(a)]
        /\ UNCHANGED <<dispatch, lapsed, gw, wire, sweep, registered, faults>>

WritePolicy(s) ==
    /\ summary[s].revision < MaxRevision
    /\ \E limit \in Limits, enforce, enabled \in BOOLEAN :
          summary' = [summary EXCEPT ![s] =
             PolicySummary(@, @.revision + 1, limit, enforce, enabled)]
    /\ UNCHANGED <<attempt, dispatch, lapsed, gw, wire, sweep, registered, faults>>

--------------------------------------------------------------------------
GatewayNext(r) ==
    \/ InsertPlan(r) \/ ReadSummary(r) \/ WriteReservation(r) \/ CheckPlan(r)
    \/ Authorize(r) \/ CancelRead(r) \/ CancelWrite(r)
    \/ Respond(r) \/ CompleteScope(r) \/ Die(r) \/ Lapse(r)

SweepNext(k) ==
    \/ \E r \in Requests : PickPlan(k, r)
    \/ RecoverCancel(k) \/ Compensate(k) \/ Register(k) \/ Finish(k)

SettlementNext(s, r) == Settle(s, r) \/ FinalizeUncertain(s, r) \/ Resolve(s, r)

Next ==
    \/ \E r \in Requests : GatewayNext(r)
    \/ \E w \in wire : Land(w)
    \/ \E k \in Workers : SweepNext(k) \/ SweepFails(k)
    \/ \E s \in Scopes, r \in Requests : SettlementNext(s, r)
    \/ \E s \in Scopes : WritePolicy(s)

Spec == Init /\ [][Next]_vars
\* Time passes, and the sweeps keep running: the timer function calls
\* recover() on every tick, and timeouts and crashes are finitely many.
Fairness ==
    /\ \A r \in Requests : WF_vars(Lapse(r))
    /\ \A k \in Workers : WF_vars(SweepNext(k))

FairSpec == Spec /\ Fairness

--------------------------------------------------------------------------
(* Properties *)

\* The balances of row S are the sums of the attempts' shares: no interleaving
\* of reservations, releases, tombstones and settlements, late writes
\* included, counts a request twice or forgets it.
Balanced ==
    \A s \in Scopes :
        /\ summary[s].active =
             MapThenSumSet(LAMBDA r : ActiveShare(attempt[s][r]), Requests)
        /\ summary[s].upper =
             MapThenSumSet(LAMBDA r : UpperShare(attempt[s][r]), Requests)
        /\ summary[s].confirmed =
             MapThenSumSet(LAMBDA r : ConfirmedShare(attempt[s][r]), Requests)

\* A request the gateway forwarded is backed: its plan is durable as
\* dispatching and no scope it needs lacks its reservation or has had it
\* cancelled, whatever the sweep and late writes did meanwhile.
ForwardedIsBacked ==
    \A r \in Requests : Sent(r) =>
        /\ dispatch[r].state = "dispatching"
        /\ \A s \in Members(r) : attempt[s][r].state \notin {"none", "cancelled"}

\* Once the sweep has taken a cancelled plan off its pages, every scope holds
\* a cancelled row for it, so no late reservation can ever hold budget for a
\* request nobody will look at again.
RecoveredIsReleased ==
    \A r \in Requests :
        dispatch[r].recovered /\ dispatch[r].state = "cancelled" =>
            \A s \in Members(r) : attempt[s][r].state = "cancelled"

\* A step that reserves in an enforced scope leaves it within the limit in
\* force at that step, however stale the summary the gateway decided on.
NoOverAdmission ==
    [][\A s \in Scopes, r \in Requests :
          attempt[s][r].state = "none" /\ attempt'[s][r].state = "reserved" =>
              /\ summary'[s].enabled
              /\ summary'[s].enforce => Available(summary'[s]) >= 0]_vars

\* Every plan that became durable is eventually taken off the recovery pages.
EventuallyRecovered ==
    \A r \in Requests : dispatch[r].state # "none" ~> dispatch[r].recovered

\* The admission protocol is an all-or-nothing decision: see AdmissionContract.
Decision(r) == CASE dispatch[r].state = "dispatching" -> "granted"
                 [] dispatch[r].state = "cancelled" -> "refused"
                 [] OTHER -> "undecided"

Slot(s, r) == CASE attempt[s][r].state = "none" -> "free"
                [] attempt[s][r].state = "cancelled" -> "closed"
                [] attempt[s][r].state = "settled" -> "charged"
                [] attempt[s][r].state = "released" -> "waived"
                [] attempt[s][r].state = "upper_bound" -> "bounded"
                [] attempt[s][r].state \in HeldStates -> "held"

Contract == INSTANCE AdmissionContract
    WITH Needs <- [r \in Requests |-> Members(r)],
         decision <- [r \in Requests |-> Decision(r)],
         slot <- [s \in Scopes |-> [r \in Requests |-> Slot(s, r)]]

\* The gateway, the storage and the sweep together implement the contract.
ImplementsContract == Contract!Spec
=============================================================================
