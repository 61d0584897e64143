# Turnstile: a TLA+ verification project

Turnstile is a self-hosted control plane for AI gateways. Azure API Management
(APIM) sits in the request path and enforces access and budgets; a web
application, two function apps and PostgreSQL govern it. This directory models
the parts whose correctness depends on interleavings, lost answers and crashes,
checks them with TLC on small instances, and proves their safety with TLAPS for
every instance.

Paths below are relative to the repository; `core/` stands for
`src/turnstile_core/`.

## Inventory

| Component | State | Operations | What is hard | What makes it correct |
| --- | --- | --- | --- | --- |
| Execution budget ledger, `core/domain/ledger.py`, `budget_completion.py` | per scope and month a summary row S (limit, confirmed, reserved, upper bound, version); per request an attempt row A | reserve, settle, complete, resolve, transition, update policy | evidence of different strength in any order | balances are the sums of the attempts; evidence is never weakened |
| Gateway policy, `core/integrations/apim_budget_execution.py` | dispatch plan D, its own execution | insert plan, reserve in each scope, authorize, cancel, complete | two-second timeouts with unknown outcome, the gateway dying, two scopes in two partitions | a request is forwarded only when backed in all its scopes; the limit is not overdrawn |
| Atomic table ledger and recovery, `core/integrations/atomic_ledger.py`, `core/services/budget_settlement.py` | rows S, A, D under ETags | cancel, compensate, register, finish, settle, finalize, policy | overlapping sweeps, late writes | a cancelled plan holds nothing once recovered; every plan is recovered |
| Settlement tasks, `core/persistence/repository_budget_execution.py`, `src/migrations/010_*`, `023_*` | attempts, evidence, tasks with revision and lease | enqueue, claim, acknowledge, retry, approve, finalize | leases that expire under a live worker, evidence that changes during settlement | an acknowledged task is charged; pending evidence is charged in the end |
| Budget-unit switch (`BudgetRecoveryService.policies`) | budget mode and opening balance of a scope | quiesce, check, write policy | several stores read in turn | no usage is lost or counted twice by a switch |
| Gateway publication worker, `core/services/gateway_publication_worker.py`, `worker_lease.py`, `core/persistence/repository_publications.py` | publication status, lease, outbox, APIM revisions | claim, advance, promote, activate, requeue, cancel, resume | lease loss, crash between promotion and activation, stale base | one publication in flight; what PostgreSQL calls active is what APIM serves |
| Release operations, `core/services/gateway_release_operation_worker.py` | operation status, rollback target | create, claim, transition, complete | shares the gateway with publications | exclusion from publications; a rollback ends on a consistent release |
| Legacy ledger projection, `core/integrations/ledger.py`, `reconciliation.py` | rows C, R, M; registered admissions and finalizations in PostgreSQL | sync totals, recover from the log, mark, delete covered reservations | partial failure, a new month during a run | usage may be counted twice for a while, never lost; silent reservations end |
| Storage routes, `core/services/storage_route_publisher.py`, `route_publication.py`, `core/integrations/storage_route_projection.py` | snapshot entities, writer row, active head and receipts in Table Storage; progress and two journals in the publication's row | stage, read back, probe, take the writer, announce, activate, recover, withdraw | batches of unknown outcome, two kinds of lease | a promoted snapshot is complete; the served head and PostgreSQL agree; a failed publication can no longer take effect |
| Model router, `src/backend/services/model_router_service.py`, `core/integrations/router_table_projection.py` | router revisions, projection | publish, roll back | projection behind PostgreSQL | the projection is a published revision |
| Model availability, `core/services/model_availability.py` | verification runs under a lease | claim, verify, record | late results | a result belongs to the version that was verified |
| Probe journal and billable requests, `core/services/probe_journal.py`, `core/persistence/repository_billable_requests.py` | intents and acknowledgements | begin, dispatch, acknowledge | a call whose answer was lost | nothing billable is sent twice |
| Onboarding and provisioning ledgers, `core/services/apim_onboarding*.py`, `application_*.py` | resumable step ledgers | step, resume, compensate | crash between steps | a resumed run repeats nothing unsafe |
| Telemetry ingestion, `core/ingestion/processor.py`, `src/functions/telemetry/` | usage rows | ingest, deduplicate, settle | at-least-once delivery | an event counts once |
| Budget administration, pricing, control-plane service, policy compilation, web API, sessions, Copilot import, frontend, infrastructure | PostgreSQL rows or none | sequential handlers, generated XML, presentation | little concurrency of their own | ordinary tests |

How the budget parts interact. The gateway reads and writes Table Storage
directly; nothing else admits requests. It never talks to PostgreSQL. The
telemetry function's timer (`src/functions/telemetry/function_app.py:78-104`)
runs every 15 seconds and calls scope preparation, policy delivery, recovery of
dispatch plans, collection of completions, finalization and settlement, in that
order; the event-hub handler settles the usage it has just committed. Usage
events and acknowledgements enter PostgreSQL, where triggers turn them into
settlement tasks. The three stores (Table Storage, PostgreSQL, the provider)
share no transaction.

How the publication parts interact. The owner's requests and the workers meet
in PostgreSQL: `gateway_publication` and its outbox, `gateway_release_operation`
and the row `effective_gateway_release`. Two timers of the control-plane
function (`src/functions/control_plane/function_app.py`, every ten seconds)
start one publication run and one operation run. Both write to APIM, which
takes part in no transaction: a worker holds a lease, does remote work and
commits a status only while the lease is live, but the remote work itself is
not fenced.

A gateway whose routes are in Table Storage is changed without a new APIM
revision: the publication worker hands such a publication to
`RouteConfigurationExecutor`, which stages a snapshot, reads it back, probes
it through the gateway and then replaces the active head by one conditional
batch. Workers are excluded by the publication's lease in PostgreSQL and by
the writer row in the table; neither store knows of the other's lease.

The legacy ledger serves the requests admitted before the execution protocol.
Its timer reads and writes Table Storage and PostgreSQL in turn; the gateway
charges a scope with `C` plus all its `R` rows.

`PROJECT.json` lists the hazards with the line where each one bites.

## Modules

| Module | Models |
| --- | --- |
| `LedgerDomain` | the pure transitions of a summary and an attempt |
| `BudgetDispatch` | admission: gateway, table, recovery sweeps, and the settlement steps that touch the same rows |
| `AdmissionContract` | what admission promises, without storage or recovery |
| `Settlement` | evidence, tasks, leases and settlement workers of one scope |
| `Publication` | publications of one gateway: queue, lease, workers, APIM revisions |
| `ReleaseRollback` | rollbacks of a release, composed with `Publication` |
| `BudgetSwitch` | a scope that changes its budget unit |
| `RouteVerification` | a route publication up to promotion: slices, probes, billing record |
| `RouteActivation` | its promotion: writer lease, journals, conditional batches, recovery |
| `LegacyLedger` | the legacy sync of confirmed totals and reservations |
| `LedgerDomainProofs` | what the transitions of the ledger do to its balances, and sums over finite sets |
| `BudgetDispatchProofs`, `SettlementProofs`, `BudgetSwitchProofs`, `RouteVerificationProofs`, `RouteActivationProofs`, `LegacyLedgerProofs` | theorems about the module of that name |
| `PublicationProofs` | theorems about `Publication` and about its composition with `ReleaseRollback` |
| `MCBudgetDispatch`, `MCSettlement`, `MCPublication`, `MCReleaseRollback`, `MCBudgetSwitch`, `MCRouteVerification`, `MCRouteActivation`, `MCLegacyLedger` | instances for TLC |

### LedgerDomain

A summary is `[version, revision, limit, enforce, enabled, confirmed, active,
upper]`; an attempt is `[state, bound, actual, rank, revision, key, completed,
rejected, resolved]`. `rank` is the strength of the evidence behind a charge
(3 exact, 2 acknowledgement, rejection or release, 0 none). Each transition of
the code is an outcome (`applied`, `ignored`, `conflict`: the code raises) and
the two successor rows, so that the modules above can decide on rows they read
earlier. Token and USD budgets have the same transitions on one unit each; the
module has one balance. Limits of the integers (2^63) are not reached: the code
validates ranges when it rebuilds a row, and refuses to write.

### BudgetDispatch

State: `summary`, `attempt`, `dispatch` are the rows of Table Storage; `gw` is
the policy's execution of each request (its program counter, scope index,
retries and the ETag it read); `wire` holds writes whose caller timed out;
`sweep` is the recovery pass of each worker; `registered` the attempts in
PostgreSQL; `lapsed` the plans whose 45 seconds are over.

| Action | Code |
| --- | --- |
| `InsertPlan`, `ReadSummary`, `WriteReservation`, `CheckPlan`, `Authorize` | the four stages of `_admission` |
| `CancelRead`, `CancelWrite` | `_cancel_preparing`, reached by every `_deny` |
| `Respond`, `CompleteScope` | the outbound `_completion` |
| `Die`, `TimeOut`, `Land` | the gateway dies; `_send` gives up after two seconds with `ignore-error`; the write reaches the table at last |
| `PickPlan`, `RecoverCancel`, `Compensate`, `Register`, `Finish`, `SweepFails` | `BudgetRecoveryService.recover` |
| `Settle`, `FinalizeUncertain`, `Resolve`, `WritePolicy` | updates by the control plane at their commit point |

A write is a value: its kind, request, scope and the ETag it is conditional on.
`Matches` is the table's check, `Apply` its effect, and both are the same for a
write that is answered and one that lands late. The ETag of S is its version,
because every write to S advances it; the ETag of D is its content, because no
state of a plan is entered twice. A completion writes both rows conditionally
and is matched on S alone: A never changes without S.

Control-plane updates that read S and A, commit both under their ETags and
retry on conflict are one step here, at the commit point. `Settlement` takes
the same loop apart. `CompleteScope` reads and writes in one step for the same
reason; its second disjunct covers the loop that loses every race.

### Settlement

State: the rows of one scope; in PostgreSQL the recorded attempts, whether
their usage was complete, the acknowledgement and the task; `reviewed` and
`unverified` are what an operator or a finalization pass has read and not yet
acted on; `worker` is a settlement worker with the claim, the rows it read and
its turn of the update loop; `wire` holds commits that timed out.

| Action | Code |
| --- | --- |
| `UsageEvent`, `Acknowledge`, `Register` | `_write_execution_receipts`, the acknowledgement trigger, `register_budget_dispatch` |
| `GatewayCompletes`, `CollectCompletion` | the gateway's completion in the ledger (or the same update from a terminal observation) and `completions()` |
| `Review`, `Approve` | `BudgetReservationService.approve` and the PostgreSQL transaction it ends in |
| `ListUnverified`, `Finalize` | `finalize_uncertain`, which reads a list and then changes ledger and PostgreSQL |
| `Claim`, `AcknowledgeTask`, `RetryTask` | the three task transactions |
| `ReadSummary`, `ReadAttempt`, `SettleTask` | `_update_attempt` with `settle_ledger` |
| `Expire`, `Overrun`, `Fail`, `Land` | a lease ends after its worker died or under a live one; a worker fails or dies; a late commit |

An expired lease is represented as no lease: every use of a claim compares
`lease_until` with the clock. Evidence rows need no variable: a task looks only
at the rank of what arrives, and an identical row cannot raise it.

### Publication

State: `pub` and `outbox` are the rows of a publication, `secret` the stored
credentials, `effective` the row `effective_gateway_release`; `current`,
`content` and `passed` are APIM: the current revision, the policies of each
revision and the policies a pass of the probes has seen; `run` is the run of
each worker with the row it claimed.

| Action | Code |
| --- | --- |
| `Create`, `Requeue`, `Resume`, `Cancel` | the owner's requests, one transaction each |
| `Claim`, `Lapse`, `LoseLease` | `claim_gateway_publication`; the lease of a finished run, or of a running one, expires |
| `Begin` | the start of `run_once`: first renewal, retry limit |
| `RecordBase`, `Validate`, `Provision`, `PutParent` then `PutOperations`, `Probe` | `_advance` in queued, validating, provisioning, building_revision, verifying |
| `Commit` | the transition at the end of `_advance` |
| `CheckPromoted`, `Promote`, `Readback`, `Activate` | `_advance` in promoting, then `activate_gateway_publication` |
| `PromoteUnanswered`, `Fault`, `Retry`, `Fail`, `Crash` | a lost answer; an error of either class; the two error paths of `run_once`; the run is cut off |

A revision is named after its publication's id and generation, so the
publication stands for its revision and a retry builds in the same one. A
revision's policies are a pair: the parent policy and the operation policies,
each reduced to the spec it was compiled from. The parent really depends on the
image profiles of a spec only; two specs stand here for two that differ in
them, which gives the checks of the parent their greatest power. A PostgreSQL
transaction is one step: each takes the outbox row or the gateway's advisory
lock before it reads. `Transition` is the whole of
`transition_gateway_publication`: the lease and the status are its guard, and a
write that fails it changes nothing and ends the run. A promotion takes effect
before its caller gives up on it: the request times out after 30 seconds and
the lease renewed just before it lasts 180.

### ReleaseRollback

Adds `op`, the latest operation of the gateway with its lease owner, and
`opRun`, the runs of its workers. `RequestRollback` is `request_rollback`; its
preview and insertion are one step, since a preview that became stale in
between is what `ValidateDependencies` refuses. The steps of a run follow
`_advance_rollback`: `OpStart`, `ValidateDependencies`, `Preflight`,
`CheckCurrent` then `OpPromote`, `OpReadback`, `PostProbe` then `Complete`, and
`Restore` then `OpPromote` and `ConfirmRestored`. `OpFail` is
`_fail_or_restore`, `OpRetry` is `_retry`, `OpBegin` holds the attempt limit.
The composition interleaves all steps of `Publication` with these: the code has
no exclusion between them. `overtaken` is a history variable: a publication and
a rollback were in progress together, or a rollback worker lost its lease.

### BudgetSwitch

State: `scope` is row S without its reserved balances, which are sums over
`attempt`; `unit` is the unit each request was admitted in; `plan`, `usage`,
`recorded` and `task` are what the sweep looks at in the other stores; `policy`
is the administrator's row; `sweep` the pass of `policies()` with what it read;
`late` the timed-out commits that may still land. Any other commit of S empties
`late`, because S has a new ETag.

| Action | Code |
| --- | --- |
| `Begin`, `Admit`, `Authorize`, `Cancel`, `Register`, `GatewayCompletes` | the gateway and recovery, each at its commit point |
| `UsageEvent`, `CollectCompletion`, `Approve`, `Finalize`, `Settle` | evidence and settlement; `Outcome` is `settle_ledger` with the rule for attempts of an earlier unit |
| `SetPolicy` | `queue_budget_execution_policy` |
| `ListPolicy`, `ReadScope`, `ReadPlans`, `FirstUsage` | the first look of `policies()` |
| `Quiesce`, `ReadPlansAgain`, `SecondUsage`, `Enable` | admission is stopped, everything is looked at again, the stop is lifted |
| `WritePolicy`, `CompletePolicy` | `write_policy`, `complete_budget_policy` |
| `Timeout`, `Land`, `Fail` | a commit of unknown outcome; the pass dies |

What the code leaves open, seen while modelling:

- `write_policy` does not compare the confirmed balance with the one the sweep
  read. An exact charge that overtakes a rejection or a release between the
  last look and the write is not in the opening balance, and one that comes
  after the switch is refused (`Overtaken`).
- A sweep compares the total of PostgreSQL with the one of the ledger, not the
  requests they are made of, and two requests often use the same number of
  tokens. The usage of one, charged by the gateway, has not arrived; that of
  another, rejected or released after the first look, has, and the ledger has
  not counted it. The totals agree, the balance opens with the second request
  alone, and the usage of the first is lost when it arrives, because its charge
  is already in the ledger (`Replaced`). The budget page says of a change of the
  unit that usage is not reset and that it takes effect once the gateway has
  settled the old requests
  (`src/frontend/src/data-sources/apim/pages/budget-page.tsx:411`); the first
  request is settled, and its usage is gone all the same.
- A request whose price is zero reserves zero USD, so that zero balances do not
  mean settled requests. `SwitchAssumption` excludes such prices.
- The settlement task of a rejection that is recorded after the switch
  conflicts for ever, and a pending task blocks every later switch.

### RouteVerification

State: `row` is the publication (phase, cursors, steps, attempts since the last
progress), `lease` its holder, `attempt` the billing record of each probe,
`reserved` the audited requests, `present` and `readback` the entities and
readback receipts in the table, `served` what reached the gateway.

| Action | Code |
| --- | --- |
| `Claim`, `Lapse`, `LoseLease`, `Crash` | the queue, as in `Publication` |
| `Begin` | `RouteConfigurationExecutor.__call__` up to the work of the phase |
| `Stage`, `Read`, `Receipt`, `Commit` | `stage_slice`, `verify_slice`, its receipt, the transition with the new cursors |
| `Probe`, `Pass` | `PublicationProbeProgress.run_step` before and after the request |
| `Open`, `Reserve`, `Post`, `Finish` | `begin_billable_request`, the audited request, the call, `finish_billable_request` |
| `CallFails`, `Retry`, `Fail` | a failing call of either class and the two error paths of `run_once` |

A slice is handled by threads: `Stage` and `Read` take its entities in any
order. An answer that validates for another request is `mismatch`; a lost
answer may or may not have reached the gateway.

### RouteActivation

State: `writer`, `active` and `receipts` are the rows of the scope's partition;
`flight` the batches that have been sent and not arrived; `row` the
publications with the two journals; `run` the workers; `lapsed` and `closed`
are time (writer leases and activation windows).

| Action | Code |
| --- | --- |
| `Arrive`, `Lose` | the table applies or refuses a batch, or never sees it |
| `Verified`, `Claim`, `Lapse`, `LoseLease`, `Crash` | a publication becomes promoting; the queue |
| `LeaseExpires`, `WindowCloses` | clocks |
| `Start`, `Open`, `Acquire`, `Prepare`, `Activate` | `_activate` without an intent on record |
| `ReadReceipt`, `ReadEtags`, `ReadAgain` | `recover_activation`, `recover_writer` |
| `Fence`, `Abort`, `Withdraw` | what follows an unknown and a fenced outcome |
| `Send`, `Refused`, `TimeOut`, `Applied` | the dispatch of a journalled batch and its outcomes |
| `Confirm`, `Commit`, `Fail` | the end of the publication |

A run keeps the batch it announced in memory (`intent`): it goes on to send
that one, whatever became of the row's journal since it lost its lease.

An ETag is the id of the batch that wrote the row. A batch is a value with the
ETags it is conditional on, so that a late batch and a timely one are applied
by the same rule. The two reads of ETags in `recover_activation` are one step:
an activation changes both rows at once.

### LegacyLedger

State: `row` is the R row of each request, `conf` the C rows of the month of
admission and the next, each as the set of requests it counts; `usage`, `ts`,
`fin` and `registered` are PostgreSQL; `log` what the gateway's log can tell;
`age` the two lags; `sync` the run with everything it has read. A step of
`sync` is one call to a store, in the order of `LedgerSyncService.run`:
`List`, `Register`, `Before`, `Fetch`, `Reconcile`, `Judge`, `Save`,
`LookSettled`, `ReadFirst`, `ReadNext`, `WriteNext`, `WriteFirst`, `Mark`,
`Delete`, then the projection of both months. `Ingest` is a usage event, and
`strict` says which side of the evidence cutover a request was admitted on.

## Runs

| Run | Instance | Checks |
| --- | --- | --- |
| `dispatch_pair` | one request, two scopes, two sweeps, 2 retries, fair, 3 faults | `TypeOK`, `ForwardedIsBacked`, `RecoveredIsReleased`, `ImplementsContract`, `EventuallyRecovered` |
| `dispatch_race` | two requests for one budget, one sweep, one policy change, 1 fault | `Balanced`, `NoOverAdmission` |
| `settle_two` | two attempts of one scope, one with usage, acknowledgement, gateway and release, two workers, 1 fault | `Balanced`, `AppliedIsCharged`, `EvidenceStands` |
| `settle_live` | one attempt, all sources, two totals, one worker, fair, 1 fault | `EvidenceStands`, `EventuallyCharged`, `ReservationsEnd` |
| `publish_live` | two publications, two workers, one retry that keeps the spec, fair, 3 faults | `TypeOK`, `NeverStranded`, `EffectiveIsActive`, `ServedIsEffective`, `CredentialErased`, `ServedIsProbed`, `Settles` |
| `publish_replaced` | one publication, a retry may replace the spec | `ServedIsProbed`, violated |
| `rollback_mixed` | two rollbacks and a publication, two operation workers that may outlive their lease, fair, 1 fault | `SettledServesEffective`, `EffectiveIsActive`, `RollbackEnds` |
| `rollback_race` | a rollback and a publication, no fault | `ServesEffective`, violated |
| `activate` | two publications in turn, two workers, 12 writer operations, fair, 1 fault | `FailedIsFenced`, `JournalIsTrue`, `WriterTracksActive`, `ActiveIsServed`, `HeadAdvances`, `Settles` |
| `verify` | six entities in slices of four, three probes (two billed), two workers, fair, 2 faults | `SentOnce`, `ChargeIsKept`, `PassedIsAnswered`, `PromotedIsComplete`, `Settles` |
| `switch` | two requests, two policy revisions, fair, 1 fault | `HeldInUnit`, `Conserved`, `NotLeftDisabled` |
| `legacy` | one request, three months, fair, 2 faults | `NeverDisappears`, `OnlyEvidenceFrees`, `RowsEnd` |

What they show:

- `ForwardedIsBacked`: whatever the sweeps and late writes did, a forwarded
  request has a dispatching plan and an uncancelled row in each scope. It rests
  on the ETag of D, which lets either the gateway or a sweep win.
- `RecoveredIsReleased`: the tombstone written where nothing was reserved makes
  a reservation that is still on its way fail its insert.
- `NoOverAdmission`: the batch is conditional on S, so the limit in force when
  it is applied is the one the decision was taken on.
- `Balanced`: no update of a balance is lost or doubled, in either module.
- `ImplementsContract`: the protocol refines `AdmissionContract`. A plan is the
  decision; a row is a slot. Among other things the refinement says that nobody
  gives a reservation back unless the request was refused.
- `AppliedIsCharged` and `EvidenceStands`: acknowledging covers only the
  revision that was settled; an exact charge is final.
- `EventuallyRecovered`, `EventuallyCharged`, `ReservationsEnd`: no plan, task or
  reservation is left behind.
- `NeverStranded`: whatever is created, retried, paused, resumed, cancelled or
  taken over, a publication is offered to workers exactly as long as it needs
  one. That one publication is in progress at a time (`OneInFlight`) is proved
  below for every instance and used by the other proofs.
- `ServedIsEffective`: the promotion in APIM and its record in PostgreSQL never
  stay apart. It rests on two guards: an error while promoting fails the
  publication only if its revision is not current, and the retry limit spares
  a publication that may be promoted.
- `ServedIsProbed`: while retries keep the spec, late writes are harmless.
- `Settles`, `RollbackEnds`: neither queue holds work for ever.
- `SettledServesEffective`: a rollback that is abandoned after its promotion
  restores the prior release, which is still effective, unless a publication or
  a second worker met it.
- `FailedIsFenced`, `JournalIsTrue`: an activation of unknown outcome is settled
  by taking the writer row over, which makes the batch inapplicable, and by
  reading the receipt once more after the ETags; a publication fails only then,
  and only after its announcement is withdrawn.
- `ActiveIsServed`, `HeadAdvances`, `WriterTracksActive`: the head moves by one
  generation, from the base of a journalled activation, and PostgreSQL calls
  active only what was applied.
- `SentOnce`, `ChargeIsKept`, `PassedIsAnswered`: the step is marked started and
  the billing record opened before a probe is sent, so a crash leaves a probe
  that is recovered from its evidence or fails the publication.
- `PromotedIsComplete`: cursors committed apart from the entities skip nothing.
- `HeldInUnit`, `Conserved`, `NotLeftDisabled`: a unit switch waits for the
  requests of the old unit, opens with what they cost in the new one, but for
  requests of the two kinds above, and never leaves admission stopped.
- `NeverDisappears`, `OnlyEvidenceFrees`, `RowsEnd`: totals are written before
  reservations are deleted, for the month of admission and the one after, and
  only what was settled before the totals were read is deleted.

What disagrees with the repository's documents and tests (`findings` in
`PROJECT.json`):

- `publish_replaced`: "promotes it only after probes pass"
  (`docs/architecture.md:53`). A worker loses its lease in `building_revision`;
  another one fails the publication; the owner retries it with another spec; it
  is built and probed in the same revision; the first worker's remaining writes
  arrive; the retry promotes them. Before the promotion only the parent policy
  is read back.
- `rollback_race`: a publication is activated while a rollback is past its
  preflight. The rollback's check of the current revision fails in status
  `promoting`, which sends it to `restoring` although it promoted nothing, and
  the restoration promotes the prior release over the new one. The operation
  ends `restored`; the tests say of that status that APIM serves the effective
  release (`src/tests/backend/model_platform/test_gateway_releases.py:1380`).

Exceptions that the properties name, each a case in which the code does not do
what the unconditional property says:

- `overtaken`: beside the race above, a rollback's promotion is not preceded by
  a renewal of the lease, unlike a publication's. A worker that stalls there for
  minutes promotes the target after another one has restored the prior release.
- `Stranded` in `RouteActivation`: a writer operation that was journalled and
  never applied leaves no trace by which a run could tell, and no other
  operation may be begun; the publication stays promoting.
- `Overtaken` and `Replaced` in `BudgetSwitch`: see above. A charge that
  `Conserved` lets go must be of a request that was first decided to be free, or
  be one that requests PostgreSQL knows have stood in for: they cost the same in
  one of the units, and a request first decided to be free, whose usage
  PostgreSQL has, is counted. Where no such decision is overtaken, no usage is
  lost, whatever the requests cost.
- `MovesMonth` in `LegacyLedger`: a request was recovered from the log, charged
  in the month of its admission and its R row deleted; its own usage event
  arrives later with a timestamp of the next month. If it arrives between the
  projections of the two months, or during a run that began before midnight,
  no C row counts it until the next run, and none ever does if the next month
  has no budget row. The comment in `core/integrations/ledger.py:23-24` says
  that a partial failure "can never make usage disappear".

Bounds. Two scopes are the most a request has (person and application). Two
sweeps and two workers are enough for every pairwise race, because each step of
a sweep or worker is conditional on rows, not on the other's position. Three
faults in `dispatch_pair` allow a reservation, an authorization and a
cancellation to be on the wire at once, or a crash together with two of them.
Bounds and totals are chosen so that a request can be admitted, refused for
want of budget and charged more or less than it reserved (`Actual` 3 on a bound
of 2). `MaxRetries`, `MaxTries`, `MaxRevision` and `MaxFaults` are the only
caps; the first two are the code's own loops, shortened where a run says so.
`MaxAttempts` is 6, the least that `control_plane_max_attempts` may be set to: a
publication needs six claims when nothing fails, so one retry is enough to reach
the limit in the later statuses, promoting included. Two publication workers
are enough for one stale and one live holder of a lease; two publications allow
a released and a new one, three in the runs with rollbacks a superseded one too.
`settle_two` uses symmetry of workers, which no definition tells apart except by
equality. In `verify` a snapshot takes two slices, the second one shorter, and
three probes two runs. In `activate` twelve writer operations are more than the
two publications can use with one fault, so the bound never blocks a run; a
batch that is late, lost or overtaken and a lost lease are each one fault. In
`switch` both requests cost the same in tokens, so that a comparison of totals can
take one for the other, and not in USD, so that a wrong opening balance shows;
the first may be released and the second completed by the gateway, which it
takes for that to happen (without `Replaced`, `Conserved` is violated in this
instance); two revisions allow one switch, with a first revision
already applied. In `legacy` requests of one scope do not interact except in
sums, which are sets here, so one request with every evidence, age and month is
enough. Runs end in states where nothing is left to do, so deadlock is not
checked.

Fairness. `Lapse` is the passing of time. A sweep and a worker that are in the
middle of a pass go on, since timeouts, crashes and stalls are actions of their
own, finitely many; a pass starts every 15 seconds. A claim is strongly fair
for each task: pending tasks are taken in the order of `available_at`, and a
retried task is put behind. `ListUnverified` and `CollectCompletion` are
visited in order of age. No fairness is assumed for usage events,
acknowledgements, approvals, the gateway or the provider. For publications and
rollbacks the timers claim every ten seconds (`Claim`, `ClaimOperation`), a run
goes on (`RunStep`, `OpStep`) and leases expire (`Lapse`, `OpLapse`), all weakly
fair; nothing is assumed of the owner. In `RouteActivation` a batch that is not
lost arrives; the expiry of a writer lease is strongly fair, because runs come
and go while it passes. In `BudgetSwitch` the timer's pass goes on, and what it
does for requests after the policies is fair as a whole: a request gives it work
a bounded number of times. In `LegacyLedger` the timer runs the sync and the
lags pass; telemetry and the log owe nothing.

Every property has a mutant in `PROJECT.json`: a plausible fault in one
definition under which TLC finds the property violated.

## Proofs

Every safety property that a passing run checks is a theorem, for any sets of
requests, attempts, scopes, publications and workers and any bounds. The modules
of proofs extend the modules TLC runs, so that both speak of the same
definitions.

| Module | Theorems |
| --- | --- |
| `BudgetDispatchProofs` | `TypeCorrect`, `Invariance`, `ForwardedBacked`, `RecoveredReleased`, `DecisionsAreFresh`, `NeverOverAdmits`, `Implements`, `AlwaysBalanced` |
| `SettlementProofs` | `SettlementInvariant`, `SettlementTyped`, `AppliedCharged`, `EvidenceIsFinal`, `AlwaysBalanced` |
| `PublicationProofs` | `PublicationInvariant`, `RowsTyped`, `AtMostOneInFlight`, `NothingStranded`, `EffectiveIsTheActive`, `ServesTheEffective`, `CredentialsErased`, `ServedProbed`, `RollbackServesEffective`, `RollbackKeepsActive`, `RollbackLeavesQueue` |
| `RouteVerificationProofs` | `VerificationInvariant`, `VerificationTyped`, `ProbesSentOnce`, `ChargesKept`, `PassedAnswered`, `PromotedComplete` |
| `RouteActivationProofs` | `ActivationInvariant`, `ActivationTyped`, `WriterTracks`, `JournalTells`, `FailedFenced`, `ActiveServed`, `HeadsAdvance` |
| `LegacyLedgerProofs` | `LegacyInvariant`, `LegacyTyped`, `EvidenceFrees`, `UsageNeverDisappears` |
| `BudgetSwitchProofs` | `SwitchInvariant`, `HeldStaysInUnit`, `BalanceInvariant`, `UsageConserved` |

Assumed of the constants (the `ASSUME`s of each module, which TLC evaluates on
every run): each request names one or two distinct scopes; bounds of requests
and prices are positive, amounts are naturals; the names that stand for nobody,
for no release and for no policy are not workers, publications or specs, and
publications are not numbers, which the ids of writer operations are; the sets
of requests, attempts, publications and specs are not empty; bounds are
naturals. Four of the properties have a hypothesis of their own: `AlwaysBalanced`,
twice, and `UsageConserved` that the requests or attempts are finitely many (a
sum needs that); and `ServedProbed` that a retry keeps the spec
(`publish_replaced` shows what happens otherwise). Costs are positive and
otherwise arbitrary: requests may cost the same.

### The inductive invariants

No property above is inductive as it stands. Each proof names its
strengthening, and TLC has checked each strengthening as an invariant of the
runs' instances before it was proved:

| Invariant | Instances, distinct states |
| --- | --- |
| `BudgetDispatchProofs!DInv` | `dispatch_pair` 343812, `dispatch_race` 1949260 |
| `SettlementProofs!IInv` | `settle_live` 458743, `settle_two` 1357888 |
| `PublicationProofs!Sound` | `publish_live` 198805 |
| `PublicationProofs!Alone`, `PublicationProofs!ComposedInv` | `rollback_mixed` 757517, `rollback_race` 2409 |
| `RouteVerificationProofs!IInv` | `verify`, 711 thousand |
| `RouteActivationProofs!IInv` | larger ones of `activate`, up to 3444786 |
| `LegacyLedgerProofs!IInv` | `legacy`, 703 thousand |
| `BudgetSwitchProofs!IInv` | `switch` 1065879 |
| `BudgetSwitchProofs!CInv` | `switch` 1065879, and with three revisions 6431352 |

**Admission.** A request may be forwarded although a sweep has cancelled its
plan, as far as `ForwardedIsBacked` alone says. `IInv` adds what the code relies
on. For each request:

- `RowsFollowPlan`: rows are only reserved or cancelled before the plan is
  authorized, and a row is cancelled only under a cancelled plan;
- `ReservedBeforeAuthorized`: who stands at the check, has authorized, or has
  an authorization on the wire, has a row in every scope, and the loop has one
  in every scope it has passed;
- `AuthorizedBeforeSent`: only an authorized request is sent or has a
  completion on the wire;
- `RecoveredIsClosed`: a registered or recovered plan is dispatching, or is
  cancelled with all rows cancelled.

For each sweep `SweepProgress` says what it has established at its program
counter.

The step lemma is not proved action by action on the whole state. A step
changes at most one request's plan and rows, so `Effect(q)` names the few
changes one request can undergo and `Control(q)` what its gateway and its
writes on the wire may become. Each action is shown to be an `Effect` and a
`Control` of every request (`GatewayPreserves`, `LandPreserves`,
`SweepPreserves`, `SettlementPreserves`), and `RequestStep` shows once that
these preserve the invariant. Late writes come in here: `Land` is an `Effect`
because the table's conditions are the same for a late write.

`LedgerMove` says the same of the ledger as a whole: a step moves one plan, or
one row by one of the transitions of `LedgerDomain`, or changes a policy. The
three remaining theorems follow from it. `Implements` maps each move to a step
of `AdmissionContract` or a stutter. `NeverOverAdmits` needs `DInv`, which adds
`Decided`: a gateway whose copy of a summary has the current version decided on
the current balances; every transition that applies advances the version
(`TransitionsAdvance`), so that a copy which still matches is current.
`AlwaysBalanced` needs the sums below.

**Balances.** `Balanced` compares a balance with a sum over a set of requests.
The library's sums are defined by recursion over finite sets and the induction
theorems take an operator as a parameter, which none of the provers can
instantiate. `LedgerDomainProofs` goes another way: a sum that did not have the
wanted property for some set would fail for a smallest one (`SmallestSubset`),
since the naturals are well founded as sets, and that one is contradicted.
This gives existence and uniqueness of sums (`SumExists`, `SumUnique`), that the
community module's operator is this sum (`SumsIs`), and what happens to it when
one summand changes (`SumChange`). For each transition of `LedgerDomain`
`ReservedBooks`, `TransitionedBooks`, `ResolvedBooks`, `SettledBooks`,
`CompletedBooks` and `TombstoneBooks` show that the summary moves by exactly what
the attempt moves. Both uses need that a row holds no charge before it is
settled (`Plain`), which is part of the invariant.

**Settlement.** The evidence of a task only grows: it has at most one charge of
rank 2, its first, and one of rank 3, its last. `InUse` are the charges that
still count (the task's, those of workers, those of late commits); `ChargesOK`
says they are the task's, and that two of rank 2 are the same; `WorkerOK` and
`WireOK` say what a worker that decided on rows it read before may conclude of
the rows as they are. Without the single charge of rank 2, two workers under
one expired lease could each believe that the other's total is weaker.

**Publications.** `ServedIsEffective` says nothing while a publication is in
progress, which is when it is put at risk. `IInv` adds

- `RunsOK`: what a run's program counter says about the row it claimed (a run
  that commits past provisioning has its revision, one that promotes is
  promoting);
- `HeldRow`: under a live lease the row's status is the one that was claimed;
- `ServedOrPromoting`: APIM serves the effective release or a publication whose
  status is promoting;
- `SeenServed`: who holds the lease and is about to activate a revision is
  about to activate the current one.

`RunMoves` and `TransitionPreserves` show once that a run that goes on and a run
that ends with a write keep the invariant, if the row that is written is one of
`Allowed`; the lemmas of the actions reduce each of them to one of the two. The
key conjunct of `Allowed` is that a promoting row whose revision is current
stays promoting. `PromotionPreserves` and `ActivatePreserves` are the two steps
that are neither. `SeenServed` survives a promotion because `OneInFlight` and
`HeldRow` leave only one publication that a live lease can promote.

For `ServedProbed`, `Sound` adds what a row's status promises of its revision and
that runs carry the spec of the row, so that late writes repeat what is there.

With rollbacks `ServedOrPromoting` fails while
one is in progress; `Between` states it for the time in between and `During`
what a rollback at each of its statuses leaves in APIM. `Alone` is this
invariant, or the history says `overtaken`.

What `overtaken` excuses is what APIM serves, never the rows. `ComposedInv` leaves
APIM and all that a worker believes without its lease aside and keeps, in every
state, that the effective release is the one active publication: an open rollback
leads from one release to another (`RollbackShaped`; its target stays a release
while publications activate others, `StaysReleased`), and who holds its lease works
on this rollback and not on an earlier one (`OwnerKnows`), so that the rows which
`Complete` exchanges are the effective one and a release.

**Probing.** `IInv` says for each worker at each program counter what the
journal and the billing record show (`SentOK`), what the holder of the lease may
add (`HeldOK`), that two workers never send one probe (`OneSender`) and that a
probe the row has not started left no trace (`Untouched`).

**Activation.** The partition never returns to an ETag it had, since an applied
batch leaves its own operation behind. One applied batch therefore refuses all
others that are known, and a batch that is inapplicable stays so
(`ArriveApplied`): an applicable batch meets the rows it was computed from
(`BatchOK`). A worker that lost its lease goes on sending what it has in memory;
only the holder writes the journals. `HeldOK` is what a holder has established
at each program counter, `EntryOK` what an outcome in a journal says of batches
still on their way, and `ThreatOK` which batch could announce a publication once
more.

**Legacy ledger.** `Counted` says of the deleted rows that they are settled and
counted by the C rows; `Listed` and `Reading` say it of the rows a sync has yet
to delete and of the totals it has read and has yet to write. Stale totals are
harmless because evidence is not withdrawn and only what was settled before
the totals were read is deleted.

**Unit switch.** Whatever admits a request, or changes what one holds, writes S,
so every commit on its way loses its ETag. A late commit that changes the unit
was therefore sent in a settled scope that is settled still (`LateIsSettled`).

`Conserved` needs more. `RowFacts`, `TaskFacts` and `AppliedFacts` say what a row
and a task tell of each other: a charge of rank 3 is the whole cost, one of rank
2 a decision that the request is free, evidence exists only of dispatched
requests, whose reservation is held until it is charged, and an exact decision
that PostgreSQL takes for applied is in the ledger. `BalanceOK` says that the
confirmed balance is the cost of the exact charges but for some that `Misses`
allows, and of all of them in the first revision. `Misses` allows a charge to be
left out that overtook a decision that the request is free, or that others have
stood in for: requests whose usage PostgreSQL has cost the same in one of the
units (`Outweighed`), and one that overtook such a decision is counted although
it did (`Overtakes`). Costs are fixed, and neither usage nor an exact charge goes
away, so an allowance once given stays (`MissesKept`).

From its second look to its write a sweep relies on a scope that is stopped
(`Frozen`): nothing is held or admitted, so that nothing but an overtaken request
can be charged, and the balance it compared, and the opening balance that it
computes, leave out no more than that (`FrozenOK`, `Opens`). A late commit either
keeps the balance or opens one of that kind (`LateOpens`); and it cannot bring
back a frozen scope: once a commit has ended it, every commit still on its way
carries the sweep's unit (`StaysEnded`). The step where the totals are compared
is `SameTotal`. Let U be the requests whose usage PostgreSQL has and B those the
ledger has counted. All of U is charged, since PostgreSQL takes every decision
for applied, and both cost the same, so U without B costs what B without U does
(`CostOfDifference`). If the ledger alone has counted somebody, prices being
positive, PostgreSQL alone knows somebody, who is missing from B and therefore
overtook a decision, or has an excuse that says that another did.

### Only model-checked

Liveness (`EventuallyRecovered`, `EventuallyCharged`, `ReservationsEnd`,
`Settles` twice, `RollbackEnds`, `NotLeftDisabled`, `RowsEnd`): fairness and
`ENABLED` are out of the prover's reach.

## Plan

Modelled: admission and settlement of execution budgets, the unit switch, the
legacy ledger, publications, rollbacks, and publications of storage-routed
gateways. Left, in this order:

1. The batches of `TableRouteProjection` that add or remove a single model, with
   the journal of `RouteActivation`.
2. Model availability checks over the billing record; seeding of a scope at the
   cutover; two legacy syncs at once (the bootstrap command runs one beside the
   timer, `src/backend/bootstrap_storage_route.py:478`).

## Not modelled

USD arithmetic, price snapshots and counting of request bounds (they only
produce the amounts); identities and epochs, whose comparison the code turns
into an error; publication of a route program, additions and removals of single
models, multi-target rollouts and the model registry that activation also
writes; the lifecycle of a scope (preparing, active, draining), its seeding from
the legacy ledger, and the recovery cursors, whose effect is that a sweep starts
from some page; Q and M rows of the legacy ledger; health metrics, logging and
HTTP. The components marked `not_modelled` in `PROJECT.json` give their reasons.
