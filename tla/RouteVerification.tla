------------------------- MODULE RouteVerification -------------------------
(***************************************************************************)
(* A publication of a storage-routed gateway up to its promotion:          *)
(* RouteConfigurationExecutor prepares it, stages the entities of its      *)
(* snapshot in slices, reads them back in slices that leave a receipt, and *)
(* sends the probes it has planned, each through PublicationProbeProgress  *)
(* (a step is marked started in PostgreSQL before anything is sent) and,   *)
(* if it is billed, PersistentProbeJournal (an attempt row is inserted     *)
(* before the request and finished after it).                              *)
(*                                                                         *)
(* A run may stop anywhere, lose its lease and go on, or see a call fail;  *)
(* the next run goes on from what is in PostgreSQL and in the table.       *)
(* RouteActivation takes over once the publication is promoting.           *)
(***************************************************************************)
EXTENDS Naturals, FiniteSets

CONSTANTS
    Total,        \* entities of the snapshot, three per route and scope
    SliceLength,  \* entities handled by a run
    Steps,        \* number of planned probes
    Billable,     \* the ones that call a model
    SliceSteps,   \* probes sent by a run
    MaxAttempts,  \* claims without progress
    Workers,
    MaxFaults     \* bound: crashes, lost leases, failing calls

ASSUME VerificationAssumption ==
    /\ Total \in Nat /\ Steps \in Nat
    /\ {SliceLength, SliceSteps, MaxAttempts} \subseteq Nat \ {0}
    /\ Billable \subseteq 1..Steps
    /\ MaxFaults \in Nat
    /\ "nobody" \notin Workers

VARIABLES
    row,       \* the publication in PostgreSQL
    lease,     \* the worker that holds it
    attempt,   \* billable_request_attempt of each probe
    reserved,  \* probe requests recorded in the audit
    present,   \* snapshot entities in the table
    readback,  \* cursors with a readback receipt
    served,    \* how often each probe reached the gateway
    run,       \* what each worker is doing
    faults

vars == <<row, lease, attempt, reserved, present, readback, served, run, faults>>

Probes == 1..Steps
Entities == 1..Total
Nobody == "nobody"

\* The tasks: a changed configuration, one that only adds or removes
\* entries, and an added model.
Kinds == {"change", "configuration", "addition"}

Phases == {"queued", "validating", "provisioning", "building_revision", "verifying"}

\* tries is attempt_count - route_last_progress_attempt; prepared says that
\* route_configuration is in the manifest.
Row == [status: Phases \union {"promoting", "failed"}, kind: Kinds, prepared: BOOLEAN,
        tries: 0..MaxAttempts + 1, staged: 0..Total, verified: 0..Total,
        steps: [Probes -> {"none", "started", "passed"}]]

\* evidence of an exact attempt may be that of another request.
Attempts == {"none", "started", "uncertain", "validated", "mismatched"}

Pcs == {"idle", "begin", "stage", "read", "receipt", "probe", "open", "reserve", "post",
        "finish", "pass", "commit", "retry", "fail"}

\* todo are the entities left of the slice and next the phase a run will
\* commit, end the cursor it reaches; answer is what came back for probe.
Run == [pc: Pcs, next: Phases \union {"promoting"}, end: 0..Total, todo: SUBSET Entities,
        probe: 0..Steps, sent: Nat, answer: {"none", "valid", "mismatch", "refused", "error"}]

InitRun == [pc |-> "idle", next |-> "queued", end |-> 0, todo |-> {}, probe |-> 0, sent |-> 0,
            answer |-> "none"]

Init ==
    /\ row \in [status: {"queued"}, kind: Kinds, prepared: {FALSE}, tries: {0}, staged: {0},
                verified: {0}, steps: {[s \in Probes |-> "none"]}]
    /\ lease = Nobody
    /\ attempt = [s \in Probes |-> "none"] /\ reserved = 0
    /\ present = {} /\ readback = {}
    /\ served = [s \in Probes |-> 0]
    /\ run = [w \in Workers |-> InitRun]
    /\ faults = 0

\* configuration_probe_steps: only a changed configuration is probed.
Planned == IF row.kind = "change" THEN Probes ELSE {}

--------------------------------------------------------------------------
(* The queue. *)

table == <<present, readback>>
billing == <<attempt, reserved, served>>

At(w, pc) == run[w].pc = pc
Working(w) == run[w].pc # "idle"
Held(w) == lease = w

\* Mutant: a publication whose holder is gone is not offered again.
MutClaimable == lease = Nobody /\ row.tries = 0

Claimable == lease = Nobody

\* claim_gateway_publication
Claim(w) ==
    /\ run[w].pc = "idle" /\ Claimable /\ row.status \in Phases
    /\ lease' = w
    /\ row' = [row EXCEPT !.tries = IF @ > MaxAttempts THEN @ ELSE @ + 1]
    /\ run' = [run EXCEPT ![w] = [InitRun EXCEPT !.pc = "begin"]]
    /\ UNCHANGED <<table, billing, faults>>

\* The lease of a run that is over expires.
Lapse(w) ==
    /\ Held(w) /\ run[w].pc = "idle"
    /\ lease' = Nobody
    /\ UNCHANGED <<row, table, billing, run, faults>>

LoseLease(w) ==
    /\ Held(w) /\ Working(w) /\ faults < MaxFaults
    /\ lease' = Nobody /\ faults' = faults + 1
    /\ UNCHANGED <<row, table, billing, run>>

Crash(w) ==
    /\ Working(w) /\ faults < MaxFaults
    /\ run' = [run EXCEPT ![w].pc = "idle"] /\ faults' = faults + 1
    /\ UNCHANGED <<row, lease, table, billing>>

Goto(w, pc) == run' = [run EXCEPT ![w].pc = pc]

\* transition_gateway_publication at the end of a run: nothing is written
\* without the lease.
Transition(w, new) ==
    /\ IF Held(w) THEN row' = new /\ lease' = Nobody ELSE UNCHANGED <<row, lease>>
    /\ Goto(w, "idle")

\* A retryable error leaves the publication as it is, any other one fails it.
Retry(w) ==
    /\ At(w, "retry") /\ Transition(w, row)
    /\ UNCHANGED <<table, billing, faults>>

Fail(w) ==
    /\ At(w, "fail") /\ Transition(w, [row EXCEPT !.status = "failed"])
    /\ UNCHANGED <<table, billing, faults>>

\* port.check, preparation or a storage call fails: an outage is retried, a
\* changed program, fence or connection is not.
CallFails(w) ==
    /\ run[w].pc \in {"begin", "stage", "read", "receipt", "open"} /\ faults < MaxFaults
    /\ \E pc \in {"retry", "fail"} : Goto(w, pc)
    /\ faults' = faults + 1
    /\ UNCHANGED <<row, lease, table, billing>>

--------------------------------------------------------------------------
(* Staging and readback. *)

End(cursor) == IF cursor + SliceLength < Total THEN cursor + SliceLength ELSE Total

\* Mutant: the slice starts one entity too late.
MutSlice(cursor) == cursor + 2..End(cursor)

\* stage_slice and verify_slice handle a slice in parallel.
Slice(cursor) == cursor + 1..End(cursor)

Exhausted == row.tries > MaxAttempts

\* The phase after the one-step phases.
Following ==
    CASE row.status = "queued" /\ row.kind # "change" -> "provisioning"
      [] row.status = "queued" /\ row.kind = "change" -> "validating"
      [] OTHER -> "provisioning"

\* A run starts on what its phase calls for.
Begin(w) ==
    /\ At(w, "begin")
    /\ LET Set(pc, next, end, todo) ==
              run' = [run EXCEPT ![w].pc = pc, ![w].next = next, ![w].end = end,
                                 ![w].todo = todo]
       IN  CASE ~ Held(w) -> Goto(w, "idle")
             [] Held(w) /\ Exhausted -> Goto(w, "fail")
             [] Held(w) /\ ~ Exhausted /\ ~ row.prepared -> Set("commit", "queued", 0, {})
             [] Held(w) /\ ~ Exhausted /\ row.prepared
                /\ row.status \in {"queued", "validating"} -> Set("commit", Following, 0, {})
             [] Held(w) /\ ~ Exhausted /\ row.kind = "addition"
                /\ row.status \in {"provisioning", "building_revision"} ->
                    Set("stage", "verifying", Total, Entities)
             [] Held(w) /\ ~ Exhausted /\ row.kind # "addition"
                /\ row.status = "provisioning" ->
                    Set("stage", "provisioning", End(row.staged), Slice(row.staged))
             [] Held(w) /\ ~ Exhausted /\ row.kind # "addition"
                /\ row.status = "building_revision" ->
                    IF row.verified # 0 /\ row.verified \notin readback THEN Goto(w, "fail")
                    ELSE Set("read", "building_revision", End(row.verified),
                             Slice(row.verified))
             [] Held(w) /\ ~ Exhausted /\ row.status = "verifying" ->
                    IF row.verified # Total
                       \/ (row.kind = "configuration" /\ Total \notin readback)
                    THEN Goto(w, "fail")
                    ELSE Set("probe", "verifying", Total, {})
    /\ UNCHANGED <<row, lease, table, billing, faults>>

\* _stage_entity: an entity is inserted unless it is there.
Stage(w) ==
    /\ At(w, "stage")
    /\ \/ \E e \in run[w].todo :
             /\ present' = present \union {e}
             /\ run' = [run EXCEPT ![w].todo = @ \ {e}]
       \/ /\ run[w].todo = {} /\ UNCHANGED present
          /\ IF row.kind = "addition"
             THEN run' = [run EXCEPT ![w].pc = "read", ![w].todo = Entities]
             ELSE Goto(w, "commit")
    /\ UNCHANGED <<row, lease, readback, billing, faults>>

Read(w) ==
    /\ At(w, "read")
    /\ \/ \E e \in run[w].todo \cap present : run' = [run EXCEPT ![w].todo = @ \ {e}]
       \/ run[w].todo \ present # {} /\ Goto(w, "fail")
       \/ run[w].todo = {} /\ Goto(w, "receipt")
    /\ UNCHANGED <<row, lease, table, billing, faults>>

\* verify_slice_recorded: the receipt is an entity of its own.
Receipt(w) ==
    /\ At(w, "receipt")
    /\ readback' = readback \union {run[w].end}
    /\ Goto(w, "commit")
    /\ UNCHANGED <<row, lease, present, billing, faults>>

\* The row a run commits: its cursors and phase, and the progress that
\* resets the count of attempts.
Progressed(w) ==
    LET end == run[w].end
        reached == CASE run[w].next = "provisioning" /\ row.status = "provisioning"
                           /\ end = Total -> "building_revision"
                     [] run[w].next = "building_revision" /\ end = Total -> "verifying"
                     [] OTHER -> run[w].next
    IN  [row EXCEPT
            !.status = reached,
            !.prepared = TRUE,
            !.staged = IF row.status = "provisioning" THEN end ELSE @,
            !.verified = IF row.status = "building_revision"
                            \/ (row.kind = "addition" /\ row.status = "provisioning")
                         THEN end ELSE @,
            !.tries = IF row.status = "verifying" /\ run[w].sent = 0 /\ reached # "promoting"
                      THEN @ ELSE 0]

Commit(w) ==
    /\ At(w, "commit") /\ Transition(w, Progressed(w))
    /\ UNCHANGED <<table, billing, faults>>

--------------------------------------------------------------------------
(* Probes. *)

\* The first probe that has not passed.
NextProbe == CHOOSE s \in Planned : /\ row.steps[s] # "passed"
                                    /\ \A t \in 1..s - 1 : row.steps[t] = "passed"

AllPassed == \A s \in Planned : row.steps[s] = "passed"

\* Mutant: any exact charge will do.
MutRecoverable(s) == s \in Billable /\ attempt[s] \in {"validated", "mismatched"}

\* recover_billable_request: the evidence of the original attempt.
Recoverable(s) == s \in Billable /\ attempt[s] = "validated"

\* Mutant: a started probe is sent again.
MutResume(s) == IF Recoverable(s) THEN "pass" ELSE "reserve"

\* A probe found started is not sent again: its evidence is there, or the
\* publication fails.
Resume(s) == IF Recoverable(s) THEN "pass" ELSE "fail"

\* run_step up to the checkpoint that the probe is started; a run yields
\* after SliceSteps probes or when its time is up.
Probe(w) ==
    /\ At(w, "probe")
    /\ IF AllPassed
       THEN /\ run' = [run EXCEPT ![w].pc = "commit", ![w].next = "promoting"]
            /\ UNCHANGED <<row, lease>>
       ELSE LET s == NextProbe
            IN  \/ /\ row.steps[s] = "started"
                   /\ run' = [run EXCEPT ![w].pc = Resume(s), ![w].probe = s]
                   /\ UNCHANGED <<row, lease>>
                \/ /\ row.steps[s] = "none" /\ run[w].sent > 0
                   /\ Goto(w, "commit") /\ UNCHANGED <<row, lease>>
                \/ /\ row.steps[s] = "none" /\ run[w].sent < SliceSteps
                   /\ IF Held(w)
                      THEN /\ row' = [row EXCEPT !.steps[s] = "started"]
                           /\ run' = [run EXCEPT ![w].probe = s, ![w].pc =
                                         IF s \in Billable THEN "open" ELSE "reserve"]
                           /\ UNCHANGED lease
                      ELSE Goto(w, "retry") /\ UNCHANGED <<row, lease>>
    /\ UNCHANGED <<table, billing, faults>>

\* Mutant: the attempt is recorded only when it ends.
MutOpened(s) == attempt

Opened(s) == [attempt EXCEPT ![s] = "started"]

\* begin_billable_request: validated evidence is reused, a second attempt
\* is refused.
Open(w) ==
    LET s == run[w].probe
    IN  /\ At(w, "open")
        /\ CASE attempt[s] = "validated" -> Goto(w, "pass") /\ UNCHANGED attempt
             [] attempt[s] \notin {"none", "validated"} -> Goto(w, "fail") /\ UNCHANGED attempt
             [] attempt[s] = "none" -> attempt' = Opened(s) /\ Goto(w, "reserve")
        /\ UNCHANGED <<row, lease, table, reserved, served, faults>>

\* Where the end of a request leads: a billed attempt is finished first.
Answered(w, answer) ==
    run' = [run EXCEPT ![w].answer = answer,
                       ![w].pc = IF run[w].probe \in Billable THEN "finish"
                                 ELSE CASE answer = "valid" -> "pass"
                                        [] answer = "error" -> "retry"
                                        [] OTHER -> "fail"]

\* The number of requests the publication has planned.
Allowance == Steps

\* record_request: the lease is renewed and the request recorded within the
\* plan of the publication.
Reserve(w) ==
    /\ At(w, "reserve")
    /\ IF Held(w) /\ reserved < Allowance
       THEN reserved' = reserved + 1 /\ Goto(w, "post")
       ELSE Answered(w, IF Held(w) THEN "refused" ELSE "error") /\ UNCHANGED reserved
    /\ UNCHANGED <<row, lease, table, attempt, served, faults>>

\* The request: answered as expected, answered for another request, refused,
\* or without an answer, having reached the gateway or not.
Post(w) ==
    /\ At(w, "post")
    /\ \E answer \in {"valid", "mismatch", "refused", "error"}, reached \in BOOLEAN :
          /\ answer \in {"valid", "mismatch"} => reached
          /\ answer # "valid" => faults < MaxFaults
          /\ faults' = IF answer = "valid" THEN faults ELSE faults + 1
          /\ served' = IF reached THEN [served EXCEPT ![run[w].probe] = @ + 1] ELSE served
          /\ Answered(w, answer)
    /\ UNCHANGED <<row, lease, table, attempt, reserved>>

\* finish_billable_request needs no lease and leaves an exact attempt alone.
Finish(w) ==
    LET s == run[w].probe
        answer == run[w].answer
    IN  /\ At(w, "finish")
        /\ attempt' = IF attempt[s] \in {"validated", "mismatched"} THEN attempt
                      ELSE [attempt EXCEPT ![s] = CASE answer = "valid" -> "validated"
                                                    [] answer = "mismatch" -> "mismatched"
                                                    [] OTHER -> "uncertain"]
        /\ Goto(w, CASE answer = "valid" -> "pass"
                     [] answer = "error" -> "retry"
                     [] OTHER -> "fail")
        /\ UNCHANGED <<row, lease, table, reserved, served, faults>>

Pass(w) ==
    /\ At(w, "pass")
    /\ IF Held(w)
       THEN /\ row' = [row EXCEPT !.steps[run[w].probe] = "passed"]
            /\ run' = [run EXCEPT ![w].pc = "probe", ![w].sent = @ + 1]
       ELSE Goto(w, "retry") /\ UNCHANGED row
    /\ UNCHANGED <<lease, table, billing, faults>>

RunStep(w) ==
    \/ Begin(w) \/ Stage(w) \/ Read(w) \/ Receipt(w) \/ Commit(w)
    \/ Probe(w) \/ Open(w) \/ Reserve(w) \/ Post(w) \/ Finish(w) \/ Pass(w)
    \/ Retry(w) \/ Fail(w)

Next == \E w \in Workers :
            Claim(w) \/ Lapse(w) \/ LoseLease(w) \/ Crash(w) \/ CallFails(w) \/ RunStep(w)

Spec == Init /\ [][Next]_vars

\* The timer claims, the worker runs and a lease that is not renewed expires.
Fairness == \A w \in Workers :
                WF_vars(Claim(w)) /\ WF_vars(Lapse(w)) /\ WF_vars(RunStep(w))

FairSpec == Spec /\ Fairness

--------------------------------------------------------------------------
\* The publication, its billing record, the table and the runs are well formed.
TypeOK ==
    /\ row \in Row /\ lease \in Workers \union {Nobody}
    /\ attempt \in [Probes -> Attempts] /\ reserved \in 0..Allowance
    /\ present \subseteq Entities /\ readback \subseteq 0..Total
    /\ served \in [Probes -> Nat]
    /\ run \in [Workers -> Run]
    /\ faults \in 0..MaxFaults

\* No probe reaches the gateway twice, whichever run sent it and however the
\* run before it ended.
SentOnce == \A s \in Probes : served[s] <= 1

\* A request that calls a model is in the billing record from before it is
\* sent, and an exact charge stands for a request that was served.
ChargeIsKept ==
    \A s \in Billable :
        /\ served[s] > 0 => attempt[s] # "none"
        /\ attempt[s] \in {"validated", "mismatched"} => served[s] > 0

\* A probe that passed was answered, for the request that was sent.
PassedIsAnswered ==
    \A s \in Probes : row.steps[s] = "passed" =>
        served[s] > 0 /\ (s \in Billable => attempt[s] = "validated")

\* A publication is promoting only with its whole snapshot in the table, the
\* readback receipt that activation asks for, and every planned probe passed.
PromotedIsComplete ==
    row.status = "promoting" =>
        /\ present = Entities /\ Total \in readback
        /\ \A s \in Planned : row.steps[s] = "passed"

\* A publication is promoted or fails.
Settles == <>(row.status \in {"promoting", "failed"})
=============================================================================
