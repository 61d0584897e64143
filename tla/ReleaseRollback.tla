--------------------------- MODULE ReleaseRollback ---------------------------
(***************************************************************************)
(* Rollbacks of a gateway's release, composed with its publications.       *)
(*                                                                         *)
(* A rollback promotes the revision of an earlier release, probes it and   *)
(* makes it effective; when that fails it restores the release that was    *)
(* effective before (prior).  It has a queue, a lease and workers of its   *)
(* own.  Publications and rollbacks of one gateway share APIM's current    *)
(* revision and the row effective_gateway_release, and neither looks       *)
(* whether the other is in progress.                                       *)
(*                                                                         *)
(* The operation kinds that change neither (integrity checks, garbage      *)
(* collection plans, onboarding, provisioning) and the rollbacks of fixed  *)
(* route programs, which queue a publication, are not modelled.  The       *)
(* health of a release's dependencies is a check that may fail.            *)
(***************************************************************************)
EXTENDS Publication

CONSTANTS
    OpWorkers,       \* release operation workers
    MayOutlive,      \* whether a worker may outlive its lease
    MaxOperations    \* bound on rollbacks

ASSUME RollbackAssumption ==
    MayOutlive \in BOOLEAN /\ MaxOperations \in Nat /\ "nobody" \notin OpWorkers

VARIABLES
    op,              \* the gateway's latest gateway_release_operation
    opRun,           \* [OpWorkers -> OpRun]
    operations,      \* rollbacks so far
    overtaken        \* history: a publication or a second worker met a rollback

opVars == <<op, opRun, operations, overtaken>>
allVars == <<vars, opVars>>

OpStatuses == {"none", "queued", "validating_dependencies", "preflight_probing", "promoting",
               "verifying_readback", "post_promotion_probing", "restoring", "succeeded",
               "failed", "restored"}

\* A worker without its lease no longer owns the operation.
Operation == [status: OpStatuses, target: Publications, prior: Publications,
              attempts: 0..MaxAttempts + 1, owner: OpWorkers \union {"nobody"}]

OpPcs == {"idle", "begin", "work", "promote", "complete", "restore", "confirm", "commit",
          "retry", "fail"}

OpRun == [pc: OpPcs, row: Operation]

NoOperation == LET p == CHOOSE q \in Publications : TRUE
               IN  [status |-> "none", target |-> p, prior |-> p, attempts |-> 0,
                    owner |-> "nobody"]

RollbackInit ==
    /\ Init
    /\ op = NoOperation
    /\ opRun = [w \in OpWorkers |-> [pc |-> "idle", row |-> NoOperation]]
    /\ operations = 0 /\ overtaken = FALSE

Closed == {"none", "succeeded", "failed", "restored"}

\* rollback_preview: the release was promoted once and is not the current one.
Eligible(p) == p # effective /\ pub[p].status \in {"active", "superseded"}

\* request_rollback, create_gateway_release_operation
RequestRollback(target) ==
    /\ operations < MaxOperations
    /\ op.status \in Closed
    /\ effective \in Publications /\ Eligible(target)
    /\ op' = [status |-> "queued", target |-> target, prior |-> effective,
              attempts |-> 0, owner |-> "nobody"]
    /\ operations' = operations + 1
    /\ overtaken' = (overtaken \/ ~ NoneInFlight)
    /\ UNCHANGED <<vars, opRun>>

--------------------------------------------------------------------------
(* The lease. *)

OpHeld(w) == op.owner = w

\* claim_gateway_release_operation
ClaimOperation(w) ==
    /\ opRun[w].pc = "idle"
    /\ op.status \notin Closed /\ op.owner = "nobody"
    /\ op' = [op EXCEPT !.owner = w,
                        !.attempts = IF @ > MaxAttempts THEN @ ELSE @ + 1]
    /\ opRun' = [opRun EXCEPT ![w] = [pc |-> "begin", row |-> op']]
    /\ UNCHANGED <<vars, operations, overtaken>>

\* The lease of a run that ended without a write expires.
OpLapse(w) ==
    /\ opRun[w].pc = "idle" /\ OpHeld(w)
    /\ op' = [op EXCEPT !.owner = "nobody"]
    /\ UNCHANGED <<vars, opRun, operations, overtaken>>

\* The lease expires under its run: one failed renewal ends the renewals.
OpLoseLease(w) ==
    /\ MayOutlive /\ faults < MaxFaults
    /\ opRun[w].pc # "idle" /\ OpHeld(w)
    /\ op' = [op EXCEPT !.owner = "nobody"]
    /\ faults' = faults + 1
    /\ overtaken' = TRUE
    /\ UNCHANGED <<queue, effective, apim, run, retries, opRun, operations>>

OpCrash(w) ==
    /\ faults < MaxFaults /\ opRun[w].pc # "idle"
    /\ opRun' = [opRun EXCEPT ![w].pc = "idle"]
    /\ faults' = faults + 1
    /\ UNCHANGED <<queue, effective, apim, run, retries, op, operations, overtaken>>

--------------------------------------------------------------------------
(* Steps of a run. *)

OpGoto(w, pc) == opRun' = [opRun EXCEPT ![w].pc = pc] /\ UNCHANGED <<op, operations, overtaken>>

OpAt(w, status) == opRun[w].pc = "work" /\ opRun[w].row.status = status

\* transition_gateway_release_operation, then the end of the run.
OpTransition(w, status) ==
    /\ op' = IF OpHeld(w) /\ op.status = opRun[w].row.status
             THEN [op EXCEPT !.status = status, !.owner = "nobody"] ELSE op
    /\ opRun' = [opRun EXCEPT ![w].pc = "idle"]
    /\ UNCHANGED <<operations, overtaken>>

\* Mutant: an error after the promotion ends the rollback.
MutAfterError(status) == IF status = "restoring" THEN "restoring" ELSE "failed"

\* _fail_or_restore, and _handle_attempt_exhaustion for all but restoring.
AfterError(status) ==
    IF status \in {"promoting", "verifying_readback", "post_promotion_probing", "restoring"}
    THEN "restoring" ELSE "failed"

\* Mutant: a rollback is retried without limit.
MutExhausted(row) == FALSE

\* A rollback that was claimed too often; restoring has no limit.
Exhausted(row) == row.attempts > MaxAttempts /\ row.status # "restoring"

\* The retry limit and the first renewal of the lease.
OpBegin(w) ==
    LET row == opRun[w].row
    IN  /\ opRun[w].pc = "begin"
        /\ \/ Exhausted(row) /\ OpTransition(w, AfterError(row.status))
           \/ ~ Exhausted(row) /\ OpGoto(w, IF OpHeld(w) THEN "work" ELSE "idle")
        /\ UNCHANGED vars

\* The revision's parent policy is what its release recorded.
ReleaseParentAsBuilt(p) == content[p].parent = pub[p].spec

\* queued
OpStart(w) ==
    /\ OpAt(w, "queued") /\ OpGoto(w, "commit")
    /\ UNCHANGED vars

\* validating_dependencies: the preview still holds.
ValidateDependencies(w) ==
    LET row == opRun[w].row
    IN  /\ OpAt(w, "validating_dependencies")
        /\ OpGoto(w, IF effective = row.prior /\ Eligible(row.target) THEN "commit" ELSE "fail")
        /\ UNCHANGED vars

\* preflight_probing: the target's revision is probed.
Preflight(w) ==
    /\ OpAt(w, "preflight_probing")
    /\ OpGoto(w, IF ReleaseParentAsBuilt(opRun[w].row.target) THEN "commit" ELSE "fail")
    /\ UNCHANGED vars

\* promoting: APIM must serve the prior release.
CheckCurrent(w) ==
    LET row == opRun[w].row
    IN  /\ OpAt(w, "promoting")
        /\ OpGoto(w, IF ReleaseParentAsBuilt(row.target) /\ current = row.prior
                     THEN "promote" ELSE "fail")
        /\ UNCHANGED vars

\* promote_revision of the target, or of the prior release when restoring.
OpPromote(w) ==
    LET row == opRun[w].row
    IN  /\ opRun[w].pc \in {"promote", "restore"}
        /\ current' = IF opRun[w].pc = "promote" THEN row.target ELSE row.prior
        /\ OpGoto(w, IF opRun[w].pc = "promote" THEN "commit" ELSE "confirm")
        /\ UNCHANGED <<queue, effective, content, passed, run, retries, faults>>

\* The same when the answer is lost, with or without effect.
OpPromoteUnanswered(w) ==
    LET row == opRun[w].row
    IN  /\ faults < MaxFaults
        /\ opRun[w].pc \in {"promote", "restore"}
        /\ current' \in {current, IF opRun[w].pc = "promote" THEN row.target ELSE row.prior}
        /\ OpGoto(w, "retry")
        /\ faults' = faults + 1
        /\ UNCHANGED <<queue, effective, content, passed, run, retries>>

\* verifying_readback
OpReadback(w) ==
    /\ OpAt(w, "verifying_readback")
    /\ OpGoto(w, IF current = opRun[w].row.target THEN "commit" ELSE "retry")
    /\ UNCHANGED vars

\* post_promotion_probing: the target's revision is probed again.
PostProbe(w) ==
    /\ OpAt(w, "post_promotion_probing")
    /\ OpGoto(w, IF ReleaseParentAsBuilt(opRun[w].row.target) THEN "complete" ELSE "fail")
    /\ UNCHANGED vars

\* Mutant: completion does not look at the effective release.
MutStillPrior(row) == TRUE

\* The release to be replaced is still the effective one.
StillPrior(row) == effective = row.prior

\* complete_gateway_release_rollback, or its error.
Complete(w) ==
    LET row == opRun[w].row
        ready == OpHeld(w) /\ op.status = "post_promotion_probing" /\ StillPrior(row)
    IN  /\ opRun[w].pc = "complete"
        /\ \/ /\ ready
              /\ pub' = [pub EXCEPT ![row.prior].status = "rolled_back",
                                    ![row.target].status = "active"]
              /\ effective' = row.target
              /\ OpTransition(w, "succeeded")
           \/ ~ ready /\ OpGoto(w, "fail") /\ UNCHANGED <<pub, effective>>
        /\ UNCHANGED <<outbox, secret, apim, run, retries, faults>>

\* restoring: the prior release is promoted unless it is current.
Restore(w) ==
    LET prior == opRun[w].row.prior
    IN  /\ OpAt(w, "restoring")
        /\ OpGoto(w, IF ~ ReleaseParentAsBuilt(prior) THEN "fail"
                     ELSE IF current # prior THEN "restore" ELSE "confirm")
        /\ UNCHANGED vars

\* It must be current, and is probed.
ConfirmRestored(w) ==
    /\ opRun[w].pc = "confirm"
    /\ OpGoto(w, IF current = opRun[w].row.prior THEN "commit" ELSE "retry")
    /\ UNCHANGED vars

OpNextStatus(status) ==
    CASE status = "queued" -> "validating_dependencies"
      [] status = "validating_dependencies" -> "preflight_probing"
      [] status = "preflight_probing" -> "promoting"
      [] status = "promoting" -> "verifying_readback"
      [] status = "verifying_readback" -> "post_promotion_probing"
      [] status = "restoring" -> "restored"

OpCommit(w) ==
    /\ opRun[w].pc = "commit"
    /\ OpTransition(w, OpNextStatus(opRun[w].row.status))
    /\ UNCHANGED vars

\* A remote call, a check or a write fails, for a while or for good.
OpFault(w) ==
    /\ faults < MaxFaults
    /\ opRun[w].pc \in {"work", "promote", "complete", "restore", "confirm", "commit"}
    /\ \E pc \in {"retry", "fail"} : OpGoto(w, pc)
    /\ faults' = faults + 1
    /\ UNCHANGED <<queue, effective, apim, run, retries>>

OpRetry(w) ==
    /\ opRun[w].pc = "retry" /\ OpTransition(w, opRun[w].row.status)
    /\ UNCHANGED vars

OpFail(w) ==
    /\ opRun[w].pc = "fail" /\ OpTransition(w, AfterError(opRun[w].row.status))
    /\ UNCHANGED vars

OpStep(w) ==
    \/ OpBegin(w) \/ OpStart(w) \/ ValidateDependencies(w) \/ Preflight(w)
    \/ CheckCurrent(w) \/ OpPromote(w) \/ OpReadback(w) \/ PostProbe(w) \/ Complete(w)
    \/ Restore(w) \/ ConfirmRestored(w) \/ OpCommit(w) \/ OpRetry(w) \/ OpFail(w)

RollbackNext ==
    \/ \E p \in Publications : RequestRollback(p)
    \/ \E w \in OpWorkers :
          \/ ClaimOperation(w) \/ OpStep(w) \/ OpLapse(w)
          \/ OpLoseLease(w) \/ OpCrash(w) \/ OpPromoteUnanswered(w) \/ OpFault(w)

PublicationStep ==
    /\ Next
    /\ overtaken' = (overtaken \/ op.status \notin Closed)
    /\ UNCHANGED <<op, opRun, operations>>

ComposedNext == RollbackNext \/ PublicationStep

ComposedSpec == RollbackInit /\ [][ComposedNext]_allVars

\* As for publications, for the workers of both kinds.
ComposedFairness ==
    /\ \A w \in Workers :
          /\ WF_allVars(Claim(w) /\ PublicationStep)
          /\ WF_allVars(RunStep(w) /\ PublicationStep)
          /\ WF_allVars(Lapse(w) /\ PublicationStep)
    /\ \A w \in OpWorkers :
          WF_allVars(ClaimOperation(w)) /\ WF_allVars(OpStep(w)) /\ WF_allVars(OpLapse(w))

FairComposedSpec == ComposedSpec /\ ComposedFairness

--------------------------------------------------------------------------
(* Properties. *)

\* Rows and runs are well formed; a rollback concerns two releases that have
\* revisions.
RollbackTypeOK ==
    /\ TypeOK
    /\ op \in Operation /\ opRun \in [OpWorkers -> OpRun] /\ operations \in 0..MaxOperations
    /\ op.status # "none" =>
          op.target # op.prior /\ pub[op.target].revised /\ pub[op.prior].revised

\* When no rollback and no publication is in progress, APIM serves the
\* effective release: a rollback that was abandoned after its promotion has
\* restored what is effective.
ServesEffective == op.status \in Closed /\ NoneInFlight => current = effective

\* So it does as long as no rollback met a publication in progress, nor ran on
\* without its lease.
SettledServesEffective == overtaken \/ ServesEffective

\* Every rollback ends, also one that a publication overtakes.
RollbackEnds == (op.status \notin Closed) ~> (op.status \in Closed)
=============================================================================
