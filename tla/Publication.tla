----------------------------- MODULE Publication -----------------------------
(***************************************************************************)
(* Publications of one APIM gateway: the queue in PostgreSQL, the workers  *)
(* that take a publication from queued to active one status at a time, and *)
(* the API revisions they build, probe and promote.                        *)
(*                                                                         *)
(* A worker claims a publication under a lease, does the remote work of    *)
(* its status and commits the next status only while it still holds the    *)
(* lease.  Remote work is not fenced: a worker whose lease expired goes on *)
(* writing to APIM until it reaches PostgreSQL again.                      *)
(*                                                                         *)
(* A PostgreSQL transaction is one step, and so are a read of APIM and a   *)
(* pass of the probes.  A revision's name comes from its publication's id  *)
(* and generation, so a publication stands for its revision; a retried     *)
(* publication builds in the same one.  A revision's policies are the      *)
(* parent policy and the operation policies, each reduced to the spec it   *)
(* was compiled from.                                                      *)
(* Every run has a worker id of its own; here it is the worker, which has  *)
(* one run at a time.  An expired lease is a leased row owned by nobody.   *)
(*                                                                         *)
(* The publications are those of the revision protocol, of any kind; fixed *)
(* route programs, whose publications write configuration tables, are not  *)
(* modelled.  Compilation, credentials, permissions and identity checks    *)
(* either do nothing here or fail, which is a fault.  A promotion takes    *)
(* effect before its caller gives up on it: the request times out after 30 *)
(* seconds and the lease renewed just before it lasts 180.                 *)
(***************************************************************************)
EXTENDS Integers, FiniteSets

CONSTANTS
    Publications,   \* publication ids, each with its revision
    Specs,          \* desired release specs
    Workers,        \* publication workers
    Released,       \* the release the gateway starts with, or "initial"
    Earlier,        \* releases that were superseded before it
    MaxAttempts,    \* control_plane_max_attempts
    ReplaceSpec,    \* whether a retry may replace the spec
    MaxRetries,     \* bound on retries of failed publications
    MaxFaults       \* bound on errors, lost leases and crashes

ASSUME PublicationAssumption ==
    /\ MaxAttempts \in Nat \ {0} /\ MaxRetries \in Nat /\ MaxFaults \in Nat
    /\ ReplaceSpec \in BOOLEAN
    /\ Released \in Publications \union {"initial"}
    /\ Earlier \subseteq Publications \ {Released}
    /\ "initial" \notin Publications /\ "nobody" \notin Workers
    /\ {"installed", "absent"} \cap Specs = {} /\ Specs # {} /\ Publications # {}

VARIABLES
    pub,         \* [Publications -> Row]: gateway_publication
    outbox,      \* [Publications -> Outbox]: gateway_publication_outbox
    secret,      \* publications with a row in gateway_publication_secret
    effective,   \* effective_gateway_release; "initial" is no row
    current,     \* the API's current revision
    content,     \* [Revisions -> Content]: policies of the revisions
    passed,      \* [Publications -> SUBSET Content]: what passed the probes
    run,         \* [Workers -> Run]
    retries,     \* retries of failed publications so far
    faults       \* errors, lost leases and crashes so far

vars == <<pub, outbox, secret, effective, current, content, passed, run, retries, faults>>
queue == <<pub, outbox, secret>>
apim == <<current, content, passed>>

Revisions == Publications \union {"initial"}
Policies == Specs \union {"installed", "absent"}
Content == [parent: Policies, operations: Policies]

Statuses == {"none", "queued", "validating", "provisioning", "building_revision",
             "verifying", "promoting", "awaiting_authorization", "active", "failed",
             "superseded", "rolled_back"}

\* The statuses that exclude another publication ("rolling_back", which no
\* code assigns, is left out).
InFlightStatuses == {"queued", "validating", "provisioning", "building_revision",
                     "verifying", "awaiting_authorization", "promoting"}

\* Mutant: provisioning is skipped.
MutNextStatus == [s \in {"queued", "validating", "building_revision", "verifying"} |->
                     CASE s = "queued" -> "validating"
                       [] s = "validating" -> "building_revision"
                       [] s = "building_revision" -> "verifying"
                       [] s = "verifying" -> "promoting"]

NextStatus == [s \in {"queued", "validating", "provisioning", "building_revision",
                      "verifying"} |->
                  CASE s = "queued" -> "validating"
                    [] s = "validating" -> "provisioning"
                    [] s = "provisioning" -> "building_revision"
                    [] s = "building_revision" -> "verifying"
                    [] s = "verifying" -> "promoting"]

\* The base is the revision and parent policy found when work began.
Base == [revision: Revisions, parent: Policies]

\* attempts counts claims up to one above MaxAttempts, which is all that is
\* compared; revised says that apim_revision is set.
Row == [status: Statuses, spec: Specs, base: Base, revised: BOOLEAN,
        attempts: 0..MaxAttempts + 1]

Outbox == [status: {"none", "queued", "leased", "completed"},
           owner: Workers \union {"nobody"}]

Pcs == {"idle", "begin", "work", "operations", "commit", "promote", "readback",
        "activate", "retry", "fail"}

Run == [pc: Pcs, pub: Publications, row: Row]

NoBase == [revision |-> "initial", parent |-> "absent"]

NewRow(spec) == [status |-> "queued", spec |-> spec, base |-> NoBase,
                 revised |-> FALSE, attempts |-> 0]

Waiting == [status |-> "queued", owner |-> "nobody"]
Completed == [status |-> "completed", owner |-> "nobody"]

InitSpec == CHOOSE s \in Specs : TRUE
EarlierSpec == CHOOSE s \in Specs : s # InitSpec \/ Specs = {InitSpec}
Built(spec) == [parent |-> spec, operations |-> spec]
Missing == [parent |-> "absent", operations |-> "absent"]

InitRow(p) ==
    CASE p = Released -> [NewRow(InitSpec) EXCEPT !.status = "active", !.revised = TRUE]
      [] p \in Earlier -> [NewRow(EarlierSpec) EXCEPT !.status = "superseded", !.revised = TRUE]
      [] OTHER -> [NewRow(InitSpec) EXCEPT !.status = "none"]

InitContent(v) ==
    IF v = "initial" THEN Built("installed")
    ELSE IF v \in Earlier \union {Released} THEN Built(InitRow(v).spec)
    ELSE Missing

\* A gateway as installed, or with releases published.
Init ==
    /\ pub = [p \in Publications |-> InitRow(p)]
    /\ outbox = [p \in Publications |->
                    IF InitRow(p).status # "none" THEN Completed
                    ELSE [Completed EXCEPT !.status = "none"]]
    /\ secret = {}
    /\ effective = Released /\ current = Released
    /\ content = [v \in Revisions |-> InitContent(v)]
    /\ passed = [p \in Publications |-> {InitContent(p)} \ {Missing}]
    /\ run = [w \in Workers |->
                 [pc |-> "idle", pub |-> CHOOSE p \in Publications : TRUE, row |-> NewRow(InitSpec)]]
    /\ retries = 0 /\ faults = 0

--------------------------------------------------------------------------
(* Requests of the owner. *)

InFlight(p) == pub[p].status \in InFlightStatuses

NoneInFlight == \A p \in Publications : ~ InFlight(p)

\* create_gateway_publication: a spec that is already published, in progress
\* or failed has its row returned or retried instead.
Create(p, spec, credential) ==
    /\ pub[p].status = "none"
    /\ \A q \in Publications :
          pub[q].spec = spec => pub[q].status \in {"none", "superseded", "rolled_back"}
    /\ NoneInFlight
    /\ pub' = [pub EXCEPT ![p] = NewRow(spec)]
    /\ outbox' = [outbox EXCEPT ![p] = Waiting]
    /\ secret' = IF credential THEN secret \union {p} ELSE secret
    /\ UNCHANGED <<effective, current, content, passed, run, retries, faults>>

\* requeue_gateway_publication, by id or by creating the same spec again.
Requeue(p, spec, credential) ==
    /\ retries < MaxRetries
    /\ pub[p].status = "failed"
    /\ NoneInFlight
    /\ pub' = [pub EXCEPT ![p] = NewRow(spec)]
    /\ outbox' = [outbox EXCEPT ![p] = Waiting]
    /\ secret' = IF credential THEN secret \union {p} ELSE secret \ {p}
    /\ retries' = retries + 1
    /\ UNCHANGED <<effective, current, content, passed, run, faults>>

\* resume_gateway_publication_authorization
Resume(p) ==
    /\ pub[p].status = "awaiting_authorization"
    /\ pub' = [pub EXCEPT ![p].status = "verifying"]
    /\ outbox' = [outbox EXCEPT ![p] = Waiting]
    /\ UNCHANGED <<secret, effective, current, content, passed, run, retries, faults>>

\* cancel_authorization: before any claim, or while waiting.
Cancel(p) ==
    /\ \/ pub[p].status = "queued" /\ pub[p].attempts = 0 /\ outbox[p].status = "queued"
       \/ pub[p].status = "awaiting_authorization"
    /\ pub' = [pub EXCEPT ![p].status = "rolled_back"]
    /\ outbox' = [outbox EXCEPT ![p] = Completed]
    /\ secret' = secret \ {p}
    /\ UNCHANGED <<effective, current, content, passed, run, retries, faults>>

OwnerNext ==
    \E p \in Publications :
        \/ \E spec \in Specs, credential \in BOOLEAN : Create(p, spec, credential)
        \/ \E spec \in IF ReplaceSpec THEN Specs ELSE {pub[p].spec}, credential \in BOOLEAN :
              Requeue(p, spec, credential)
        \/ Resume(p)
        \/ Cancel(p)

--------------------------------------------------------------------------
(* The lease. *)

\* Mutant: a row whose lease expired is not offered again.
MutClaimable(p) == outbox[p].status = "queued"

Claimable(p) ==
    \/ outbox[p].status = "queued"
    \/ outbox[p].status = "leased" /\ outbox[p].owner = "nobody"

\* The worker's lease is live (the condition of every write it makes).
Held(w) == outbox[run[w].pub] = [status |-> "leased", owner |-> w]

\* claim_gateway_publication
Claim(w) ==
    \E p \in Publications :
        /\ run[w].pc = "idle" /\ Claimable(p)
        /\ outbox' = [outbox EXCEPT ![p] = [status |-> "leased", owner |-> w]]
        /\ pub' = [pub EXCEPT ![p].attempts = IF @ > MaxAttempts THEN @ ELSE @ + 1]
        /\ run' = [run EXCEPT ![w] = [pc |-> "begin", pub |-> p, row |-> pub'[p]]]
        /\ UNCHANGED <<secret, effective, current, content, passed, retries, faults>>

\* The lease of a run that ended without a write expires with the time.
Lapse(w) ==
    \E p \in Publications :
        /\ outbox[p] = [status |-> "leased", owner |-> w]
        /\ run[w].pc = "idle" \/ run[w].pub # p
        /\ outbox' = [outbox EXCEPT ![p].owner = "nobody"]
        /\ UNCHANGED <<pub, secret, effective, current, content, passed, run, retries, faults>>

\* Renewal fails or the worker stalls: the lease expires under its run.
LoseLease(w) ==
    /\ faults < MaxFaults /\ run[w].pc # "idle" /\ Held(w)
    /\ outbox' = [outbox EXCEPT ![run[w].pub].owner = "nobody"]
    /\ faults' = faults + 1
    /\ UNCHANGED <<pub, secret, effective, current, content, passed, run, retries>>

\* The run is cut off between two steps.
Crash(w) ==
    /\ faults < MaxFaults /\ run[w].pc # "idle"
    /\ run' = [run EXCEPT ![w].pc = "idle"]
    /\ faults' = faults + 1
    /\ UNCHANGED <<pub, outbox, secret, effective, current, content, passed, retries>>

--------------------------------------------------------------------------
(* Steps of a run. *)

Goto(w, pc) == run' = [run EXCEPT ![w].pc = pc]

Terminal == {"active", "failed", "rolled_back"}

\* Mutant: a publication that waits for authorization stays in the outbox.
MutLeavesOutbox(to) == to \in Terminal

\* The statuses no worker acts on.
LeavesOutbox(to) == to \in Terminal \union {"awaiting_authorization"}

\* Mutant: the credential is kept until the publication ends.
MutErasesSecret(from, to) == to \in Terminal

\* The stored credential is of no more use.
ErasesSecret(from, to) == to \in Terminal \/ (from = "validating" /\ to = "provisioning")

\* transition_gateway_publication, then the end of the run: a write by a
\* worker that lost its lease changes nothing.  row holds the new columns.
Transition(w, row) ==
    LET p == run[w].pub
        from == run[w].row.status
    IN  /\ IF Held(w) /\ pub[p].status = from
           THEN /\ pub' = [pub EXCEPT ![p] = row]
                /\ outbox' = [outbox EXCEPT ![p] =
                                 IF LeavesOutbox(row.status) THEN Completed ELSE Waiting]
                /\ secret' = IF ErasesSecret(from, row.status) THEN secret \ {p} ELSE secret
           ELSE UNCHANGED queue
        /\ Goto(w, "idle")

\* The row with another status.
To(w, status) == [pub[run[w].pub] EXCEPT !.status = status]

\* The run goes on at pc having changed nothing.
Continue(w, pc) == Goto(w, pc) /\ UNCHANGED queue

At(w, status) == run[w].pc = "work" /\ run[w].row.status = status

\* run_once fails a publication that was claimed too often, unless it may
\* already be promoted.
OutOfAttempts(row) ==
    row.attempts > MaxAttempts /\ ~ (row.status = "promoting" /\ row.revised)

\* The first renewal of the lease and the retry limit.
Begin(w) ==
    /\ run[w].pc = "begin"
    /\ \/ ~ Held(w) /\ Continue(w, "idle")
       \/ Held(w) /\ OutOfAttempts(run[w].row) /\ Transition(w, To(w, "failed"))
       \/ Held(w) /\ ~ OutOfAttempts(run[w].row) /\ Continue(w, "work")
    /\ UNCHANGED <<effective, current, content, passed, retries, faults>>

\* queued: the base is recorded.
RecordBase(w) ==
    /\ At(w, "queued")
    /\ run' = [run EXCEPT ![w].pc = "commit",
                          ![w].row.base = [revision |-> current,
                                           parent |-> content[current].parent]]
    /\ UNCHANGED <<pub, outbox, secret, effective, current, content, passed, retries, faults>>

\* validating: credentials and backends are put in place.
Validate(w) ==
    /\ At(w, "validating") /\ Continue(w, "commit")
    /\ UNCHANGED <<effective, current, content, passed, retries, faults>>

\* provisioning: the revision is created as a copy of the current one.
Provision(w) ==
    LET p == run[w].pub
    IN  /\ At(w, "provisioning")
        /\ content' = IF content[p] = Missing THEN [content EXCEPT ![p] = content[current]]
                      ELSE content
        /\ run' = [run EXCEPT ![w].pc = "commit", ![w].row.revised = TRUE]
        /\ UNCHANGED <<pub, outbox, secret, effective, current, passed, retries, faults>>

BaseUnchanged(row) ==
    row.base = [revision |-> current, parent |-> content[current].parent]

\* building_revision: the base must be what it was; the parent is written.
PutParent(w) ==
    LET p == run[w].pub
        row == run[w].row
    IN  /\ At(w, "building_revision")
        /\ IF BaseUnchanged(row)
           THEN content' = [content EXCEPT ![p].parent = row.spec] /\ Goto(w, "operations")
           ELSE Goto(w, "fail") /\ UNCHANGED content
        /\ UNCHANGED <<pub, outbox, secret, effective, current, passed, retries, faults>>

\* Then the policies of the operations.
PutOperations(w) ==
    /\ run[w].pc = "operations"
    /\ content' = [content EXCEPT ![run[w].pub].operations = run[w].row.spec]
    /\ Goto(w, "commit")
    /\ UNCHANGED <<pub, outbox, secret, effective, current, passed, retries, faults>>

\* The candidate's parent policy is what was built (_validate_candidate_parent).
ParentAsBuilt(w) == content[run[w].pub].parent = run[w].row.spec

\* Mutant: a publication proceeds without a result of its probes.
MutProbeResult(p) == passed' \in {passed, [passed EXCEPT ![p] = @ \union {content[p]}]}

ProbeResult(p) == passed' = [passed EXCEPT ![p] = @ \union {content[p]}]

\* verifying: the probes pass, stop half way, or meet a provider that has to
\* be authorized.
Probe(w) ==
    LET p == run[w].pub
    IN  /\ At(w, "verifying")
        /\ \/ ~ ParentAsBuilt(w) /\ Continue(w, "fail") /\ UNCHANGED passed
           \/ ParentAsBuilt(w) /\ Continue(w, "commit") /\ ProbeResult(p)
           \/ /\ ParentAsBuilt(w)
              /\ \E to \in {"verifying", "awaiting_authorization"} : Transition(w, To(w, to))
              /\ UNCHANGED passed
        /\ UNCHANGED <<effective, current, content, retries, faults>>

\* promoting: an earlier run may have promoted the revision.
CheckPromoted(w) ==
    LET promoted == current = run[w].pub
    IN  /\ At(w, "promoting")
        /\ \/ ~ promoted /\ run[w].row.attempts > MaxAttempts /\ Transition(w, To(w, "failed"))
           \/ /\ promoted \/ run[w].row.attempts <= MaxAttempts
              /\ Continue(w, IF ~ ParentAsBuilt(w) THEN "fail"
                             ELSE IF promoted THEN "readback" ELSE "promote")
        /\ UNCHANGED <<effective, current, content, passed, retries, faults>>

\* The lease is renewed and the revision promoted.
Promote(w) ==
    /\ run[w].pc = "promote"
    /\ \/ ~ Held(w) /\ Continue(w, "idle") /\ UNCHANGED current
       \/ Held(w) /\ Continue(w, "readback") /\ current' = run[w].pub
    /\ UNCHANGED <<effective, content, passed, retries, faults>>

\* The same when the answer is lost, with or without effect.
PromoteUnanswered(w) ==
    /\ run[w].pc = "promote" /\ Held(w) /\ faults < MaxFaults
    /\ current' \in {current, run[w].pub}
    /\ Continue(w, "retry")
    /\ faults' = faults + 1
    /\ UNCHANGED <<effective, content, passed, retries>>

Readback(w) ==
    /\ run[w].pc = "readback"
    /\ Continue(w, IF current = run[w].pub THEN "activate" ELSE "retry")
    /\ UNCHANGED <<effective, current, content, passed, retries, faults>>

\* Mutant: the release that is replaced stays active.
MutSuperseded(q) == pub[q]

\* What the release that is replaced becomes.
Superseded(q) == IF pub[q].status = "active" THEN [pub[q] EXCEPT !.status = "superseded"] ELSE pub[q]

\* activate_gateway_publication; a run without the lease ends.
Activate(w) ==
    LET p == run[w].pub
    IN  /\ run[w].pc = "activate" /\ Goto(w, "idle")
        /\ IF Held(w) /\ pub[p].status = "promoting"
           THEN /\ pub' = [q \in Publications |->
                              IF q = p THEN [pub[p] EXCEPT !.status = "active"]
                              ELSE IF q = effective THEN Superseded(q) ELSE pub[q]]
                /\ effective' = p
                /\ outbox' = [outbox EXCEPT ![p] = Completed]
           ELSE UNCHANGED <<pub, effective, outbox>>
        /\ UNCHANGED <<secret, current, content, passed, retries, faults>>

\* The next status, with the base or the revision the run has found.
Commit(w) ==
    LET row == run[w].row
    IN  /\ run[w].pc = "commit"
        /\ Transition(w, [To(w, NextStatus[row.status]) EXCEPT !.base = row.base,
                                                                !.revised = row.revised])
        /\ UNCHANGED <<effective, current, content, passed, retries, faults>>

\* A remote call, a check or a write fails, for a while or for good; the last
\* is a failing run that cannot read the current revision.
Fault(w) ==
    /\ faults < MaxFaults
    /\ \/ /\ run[w].pc \in {"work", "operations", "commit", "promote", "readback", "activate"}
          /\ \E pc \in {"retry", "fail"} : Continue(w, pc)
       \/ /\ run[w].pc = "fail" /\ run[w].row.status = "promoting" /\ run[w].row.revised
          /\ Continue(w, "retry")
    /\ faults' = faults + 1
    /\ UNCHANGED <<effective, current, content, passed, retries>>

\* A retryable error: the same status is offered again.
Retry(w) ==
    /\ run[w].pc = "retry"
    /\ Transition(w, To(w, run[w].row.status))
    /\ UNCHANGED <<effective, current, content, passed, retries, faults>>

\* Mutant: an error while promoting fails the publication.
MutMayBePromoted(w) == FALSE

\* While promoting, the revision is or may be current.
MayBePromoted(w) == run[w].row.status = "promoting" /\ run[w].row.revised /\ current = run[w].pub

\* Any other error.
Fail(w) ==
    /\ run[w].pc = "fail"
    /\ Transition(w, To(w, IF MayBePromoted(w) THEN "promoting" ELSE "failed"))
    /\ UNCHANGED <<effective, current, content, passed, retries, faults>>

RunStep(w) ==
    \/ Begin(w) \/ RecordBase(w) \/ Validate(w) \/ Provision(w)
    \/ PutParent(w) \/ PutOperations(w) \/ Probe(w)
    \/ CheckPromoted(w) \/ Promote(w) \/ Readback(w) \/ Activate(w)
    \/ Commit(w) \/ Retry(w) \/ Fail(w)

WorkerNext ==
    \E w \in Workers :
        \/ Claim(w) \/ RunStep(w) \/ Lapse(w)
        \/ LoseLease(w) \/ Crash(w) \/ PromoteUnanswered(w) \/ Fault(w)

Next == OwnerNext \/ WorkerNext

Spec == Init /\ [][Next]_vars

\* Timers start runs again and again, runs go on, and time passes.  Errors,
\* lost leases and crashes are finitely many.
Fairness ==
    \A w \in Workers : WF_vars(Claim(w)) /\ WF_vars(RunStep(w)) /\ WF_vars(Lapse(w))

FairSpec == Spec /\ Fairness

--------------------------------------------------------------------------
(* Properties. *)

\* Rows are well formed, and a publication that is past provisioning has its
\* revision: no run meets "Publication is missing its APIM revision".
TypeOK ==
    /\ pub \in [Publications -> Row]
    /\ outbox \in [Publications -> Outbox]
    /\ secret \subseteq Publications
    /\ effective \in Revisions /\ current \in Revisions
    /\ content \in [Revisions -> Content]
    /\ passed \in [Publications -> SUBSET Content]
    /\ run \in [Workers -> Run]
    /\ retries \in 0..MaxRetries /\ faults \in 0..MaxFaults
    /\ \A p \in Publications :
          pub[p].status \in {"building_revision", "verifying", "awaiting_authorization",
                            "promoting", "active", "superseded"} => pub[p].revised

\* At most one publication of the gateway is in progress, whatever is created,
\* retried, resumed, cancelled or taken over by another worker.
OneInFlight ==
    \A p, q \in Publications :
        pub[p].status \notin {"none", "active", "failed", "superseded", "rolled_back"} /\
        pub[q].status \notin {"none", "active", "failed", "superseded", "rolled_back"} => p = q

\* No publication is stranded: a row that needs a worker is in the outbox, and
\* the outbox offers no row that is finished or waits for its owner.
NeverStranded ==
    \A p \in Publications :
        (outbox[p].status \in {"queued", "leased"}) <=>
        (pub[p].status \in {"queued", "validating", "provisioning", "building_revision",
                           "verifying", "promoting"})

\* The effective release is the one active publication.
EffectiveIsActive ==
    \A p \in Publications : pub[p].status = "active" <=> effective = p

\* Whenever no publication is in progress APIM serves the effective release:
\* a crash, a lost answer or a lost lease between the promotion and its record
\* never ends with the promoted revision disowned.
ServedIsEffective == NoneInFlight => current = effective

\* A provider credential is stored only until the gateway has it.
CredentialErased ==
    \A p \in secret : pub[p].status \in {"queued", "validating"}

\* APIM serves policies that passed their probes ("promotes it only after
\* probes pass").
ServedIsProbed ==
    current \in Publications => content[current] \in passed[current]

\* A publication in progress reaches a final status or waits for its owner.
Settles ==
    \A p \in Publications :
        (pub[p].status \in {"queued", "validating", "provisioning", "building_revision",
                           "verifying", "promoting"})
        ~> (pub[p].status \in {"active", "failed", "rolled_back", "awaiting_authorization"})
=============================================================================
