-------------------------- MODULE RouteActivation --------------------------
(***************************************************************************)
(* The promoting phase of a publication that changes a storage-routed      *)
(* gateway: RouteConfigurationExecutor._activate, the two journals it      *)
(* keeps in the publication's row, and the conditional batches by which    *)
(* TableRouteProjection changes the partition of the scope.                *)
(*                                                                         *)
(* The partition holds the writer row (who may change the scope, until     *)
(* when, and the activation it has announced), the active head, and one    *)
(* receipt per applied batch.  A batch applies whole or not at all, when   *)
(* it arrives: it may arrive after its sender gave up, or never.  A worker *)
(* journals every batch in PostgreSQL before it sends it, under its lease  *)
(* of the publication, and a later run decides from the receipt and the    *)
(* etags whether a batch of unknown outcome was applied; it never sends    *)
(* one again.                                                              *)
(*                                                                         *)
(* Row contents are abstracted: an etag is the id of the batch that wrote  *)
(* the row, a head and a pending activation are the publication they are   *)
(* of.  A lease is named by the operation that took it; since every writer *)
(* lease is as long as every other they expire in the order of their       *)
(* operations.                                                             *)
(***************************************************************************)
EXTENDS Integers, FiniteSets

CONSTANTS
    Publications,  \* publications of this scope
    Workers,       \* publication workers
    MaxOps,        \* bound: writer operations
    MaxFaults      \* bound: crashes, lost leases, timeouts and lost batches

ASSUME RouteAssumption ==
    /\ Publications # {} /\ Publications \cap Int = {}
    /\ "nobody" \notin Workers
    /\ MaxOps \in Nat \ {0}
    /\ MaxFaults \in Nat

VARIABLES
    writer,    \* the row "writer"
    active,    \* the row "active"
    receipts,  \* operations with a receipt row
    flight,    \* batches sent and not yet arrived
    row,       \* the publications' rows in PostgreSQL
    lease,     \* holder of the lease of each publication
    run,       \* what each worker is doing
    ops,       \* writer operations so far
    lapsed,    \* writer leases up to this operation have expired
    closed,    \* publications whose activation window is over
    faults

table == <<writer, active, receipts>>
time == <<lapsed, closed>>
vars == <<table, flight, row, lease, run, ops, time, faults>>

Absent == 0       \* etag of a row that does not exist
Initial == 1      \* the operation that set the scope up
Nobody == "nobody"

Operations == 0..MaxOps \union Publications
Heads == {Absent, Initial} \union Publications

\* RouteWriterState: owner is owner_token and names the lease; gen and head
\* are active_generation and active_sha256.
WriterRow == [etag: Operations, owner: 0..MaxOps, pub: {Initial} \union Publications,
              pending: {Absent} \union Publications, gen: Nat, head: Heads]

\* ActiveRouteHead
ActiveRow == [etag: {Absent, Initial} \union Publications, head: Heads, gen: Nat]

\* RouteWriterIntent and RouteActivationIntent: the writer etag and, of an
\* activation, the active etag the batch is conditional on, and the writer
\* row it leaves.
Batch == [op: Operations, wif: Operations, after: WriterRow, aif: Operations]

Outcomes == {"none", "started", "expired", "conflict", "unknown", "confirmed", "fenced"}

NoWriter == [etag |-> Absent, owner |-> Absent, pub |-> Initial, pending |-> Absent,
             gen |-> 0, head |-> Absent]
NoBatch == [op |-> Absent, wif |-> Absent, after |-> NoWriter, aif |-> Absent]
NoEntry == [batch |-> NoBatch, outcome |-> "none"]

\* A checkpoint of one of the two journals.  Of the writer journal only the
\* last operation matters: the ones before it are resolved.
Entry == [batch: Batch, outcome: Outcomes]

Row == [status: {"none", "promoting", "active", "failed"}, base: Heads,
        activation: Entry, journal: Entry]

Pcs == {"idle", "start", "receipt", "etags", "again", "fence", "abort", "begin", "claim",
        "send", "wait", "applied", "refused", "prepare", "activate", "recover", "withdraw",
        "confirm", "commit", "fail"}

\* seen is the writer row returned by the last read or change, etag that of
\* the active row; intent is the batch the run sends or recovers, target
\* tells whether it is an activation or a writer operation, then where the
\* run goes on afterwards.
Run == [pc: Pcs, pub: Publications, target: {"activation", "journal"},
        then: Pcs, intent: Batch, seen: WriterRow, etag: Operations]

InitRun == [pc |-> "idle", pub |-> CHOOSE p \in Publications : TRUE, target |-> "journal",
            then |-> "idle", intent |-> NoBatch, seen |-> NoWriter, etag |-> Absent]

\* A scope with no configuration, one just initialised, or one in use whose
\* last writer is gone.
Init ==
    /\ \/ /\ active = [etag |-> Absent, head |-> Absent, gen |-> 0]
          /\ writer = NoWriter
       \/ /\ active = [etag |-> Initial, head |-> Initial, gen |-> 1]
          /\ writer \in {NoWriter, [NoWriter EXCEPT !.etag = Initial, !.owner = Initial,
                                                    !.gen = 1, !.head = Initial]}
    /\ receipts = {} /\ flight = {}
    /\ row = [p \in Publications |-> [status |-> "none", base |-> Absent,
                                      activation |-> NoEntry, journal |-> NoEntry]]
    /\ lease = [p \in Publications |-> Nobody]
    /\ run = [w \in Workers |-> InitRun]
    /\ ops = Initial /\ lapsed = Initial /\ closed = {}
    /\ faults = 0

--------------------------------------------------------------------------
(* Table storage. *)

Activates(b) == b.op \in Publications

\* Mutant: the batch does not name the etag of the writer row.
MutApplicable(b) ==
    /\ Activates(b) => active.etag = b.aif
    /\ b.op \notin receipts

\* The preconditions of a batch: the etags it names and no receipt of it.
Applicable(b) ==
    /\ writer.etag = b.wif
    /\ Activates(b) => active.etag = b.aif
    /\ b.op \notin receipts

\* The run that waits for the answer to b.
Awaits(w, b) ==
    /\ run[w].pc = "wait" /\ run[w].intent = b

\* A batch arrives and is applied or refused; its sender, if it still waits,
\* gets the answer.
Arrive(b) ==
    /\ b \in flight
    /\ flight' = flight \ {b}
    /\ IF Applicable(b)
       THEN /\ writer' = b.after
            /\ active' = IF Activates(b)
                         THEN [etag |-> b.op, head |-> b.op, gen |-> b.after.gen]
                         ELSE active
            /\ receipts' = receipts \union {b.op}
       ELSE UNCHANGED table
    /\ run' = [w \in Workers |->
                  IF Awaits(w, b)
                  THEN [run[w] EXCEPT !.pc = IF Applicable(b) THEN "applied" ELSE "refused"]
                  ELSE run[w]]
    /\ UNCHANGED <<row, lease, ops, time, faults>>

\* A batch never arrives.
Lose(b) ==
    /\ b \in flight /\ faults < MaxFaults
    /\ flight' = flight \ {b}
    /\ faults' = faults + 1
    /\ UNCHANGED <<table, row, lease, run, ops, time>>

--------------------------------------------------------------------------
(* Time and the publication queue. *)

Working(w) == run[w].pc # "idle"
Pub(w) == run[w].pub
Held(w) == lease[Pub(w)] = w

\* The lease of the writer row, seen by a clock.
Live(owner) == owner > lapsed

\* Writer leases expire.  Under a run that holds its publication it takes a
\* delay as long as the lease, which is a fault.
LeaseExpires ==
    /\ lapsed < ops /\ lapsed' = ops
    /\ IF \E w \in Workers : Working(w) /\ Held(w)
       THEN faults < MaxFaults /\ faults' = faults + 1
       ELSE UNCHANGED faults
    /\ UNCHANGED <<table, flight, row, lease, run, ops, closed>>

\* activate_before_epoch of the commit approval passes.
WindowCloses(p) ==
    /\ row[p].status = "promoting" /\ p \notin closed
    /\ closed' = closed \union {p}
    /\ UNCHANGED <<table, flight, row, lease, run, ops, lapsed, faults>>

\* A publication is prepared on the active head, verified and now promoting;
\* a gateway has one publication in flight.
Verified(p) ==
    /\ row[p].status = "none"
    /\ \A q \in Publications : row[q].status # "promoting"
    /\ row' = [row EXCEPT ![p].status = "promoting", ![p].base = active.head]
    /\ UNCHANGED <<table, flight, lease, run, ops, time, faults>>

\* claim_gateway_publication
Claim(w, p) ==
    /\ run[w].pc = "idle" /\ row[p].status = "promoting" /\ lease[p] = Nobody
    /\ lease' = [lease EXCEPT ![p] = w]
    /\ run' = [run EXCEPT ![w] = [InitRun EXCEPT !.pc = "start", !.pub = p]]
    /\ UNCHANGED <<table, flight, row, ops, time, faults>>

\* The lease of a run that is over expires.
Lapse(w, p) ==
    /\ lease[p] = w /\ (run[w].pc = "idle" \/ run[w].pub # p)
    /\ lease' = [lease EXCEPT ![p] = Nobody]
    /\ UNCHANGED <<table, flight, row, run, ops, time, faults>>

\* The lease is lost under the run.
LoseLease(w) ==
    /\ Working(w) /\ Held(w) /\ faults < MaxFaults
    /\ lease' = [lease EXCEPT ![Pub(w)] = Nobody]
    /\ faults' = faults + 1
    /\ UNCHANGED <<table, flight, row, run, ops, time>>

\* The worker stops.
Crash(w) ==
    /\ Working(w) /\ faults < MaxFaults
    /\ run' = [run EXCEPT ![w] = InitRun]
    /\ faults' = faults + 1
    /\ UNCHANGED <<table, flight, row, lease, ops, time>>

--------------------------------------------------------------------------
(* What runs do. *)

At(w, pc) == run[w].pc = pc

Goto(w, pc) == run' = [run EXCEPT ![w].pc = pc]

\* The run ends: run_once leaves the publication promoting, to be claimed
\* again, after RetryablePublicationError and after any other exception, as
\* long as the lease is held.
Leave(w) ==
    /\ run' = [run EXCEPT ![w] = InitRun]
    /\ lease' = IF Held(w) THEN [lease EXCEPT ![Pub(w)] = Nobody] ELSE lease

\* The run ends without a write.
End(w) == Leave(w) /\ UNCHANGED row

\* The outcomes of a writer operation after which another one may be begun.
Resolved(entry) == entry.outcome \in {"none", "confirmed", "fenced", "expired"}

\* record_outcome of both journals.  (A conflict here is the refusal of a
\* batch; that a receipt has other contents is not possible.)
MayRecord(target, old, new) ==
    \/ old = new
    \/ old \in {"started", "unknown", "conflict"}
       /\ (new \in {"expired", "conflict"} => old = "started")
    \/ target = "activation" /\ old = "expired" /\ new = "fenced"

\* _checkpoint_gateway_publication: only the holder of the lease writes.
Recorded(w, outcome) == [row EXCEPT ![Pub(w)][run[w].target].outcome = outcome]

\* begin_once of the writer journal, then on to the dispatch.
Begin(w, before, after, then) ==
    LET b == [op |-> ops + 1, wif |-> before.etag, aif |-> Absent,
              after |-> [after EXCEPT !.etag = ops + 1]]
    IN  IF Held(w) /\ Resolved(row[Pub(w)].journal)
        THEN /\ ops < MaxOps /\ ops' = ops + 1
             /\ row' = [row EXCEPT ![Pub(w)].journal = [batch |-> b, outcome |-> "started"]]
             /\ run' = [run EXCEPT ![w].pc = "send", ![w].target = "journal", ![w].then = then,
                                   ![w].intent = b]
             /\ UNCHANGED lease
        ELSE End(w) /\ UNCHANGED ops

\* Mutant: the lease of the writer is never taken over.
MutFree == FALSE

\* The writer's lease is over.
Free == writer.etag # Absent /\ ~ Live(writer.owner)

\* takeover: only of a lease that has expired; the pending activation stays.
Takeover(w, then) ==
    Begin(w, writer, [writer EXCEPT !.owner = ops + 1, !.pub = Pub(w)], then)

\* claim_writer
ClaimWriter(w, then) ==
    Begin(w, NoWriter, [NoWriter EXCEPT !.owner = ops + 1, !.pub = Pub(w),
                                        !.gen = active.gen, !.head = active.head], then)

Withdrawn(current) == [current EXCEPT !.pending = Absent]

\* abort_writer
AbortWriter(w, current) ==
    IF Live(current.owner) /\ current.pub = Pub(w)
    THEN Begin(w, current, Withdrawn(current), "fail")
    ELSE End(w) /\ UNCHANGED ops

\* prepare_writer
PrepareWriter(w) ==
    IF Live(run[w].seen.owner)
    THEN Begin(w, run[w].seen, [run[w].seen EXCEPT !.pending = Pub(w)], "activate")
    ELSE End(w) /\ UNCHANGED ops

outside == <<table, flight, time, faults>>

ReadReceipts(w, target, then) ==
    run' = [run EXCEPT ![w].pc = "receipt", ![w].target = target, ![w].then = then,
                       ![w].intent = row[Pub(w)][target].batch]

\* _activate with an intent on record recovers it; without one it first
\* resolves the writer journal.
Start(w) ==
    /\ At(w, "start")
    /\ LET p == row[Pub(w)]
       IN  \/ p.activation.outcome # "none" /\ ReadReceipts(w, "activation", "fence")
           \/ p.activation.outcome = "none" /\ Resolved(p.journal) /\ Goto(w, "begin")
           \/ /\ p.activation.outcome = "none" /\ ~ Resolved(p.journal)
              /\ ReadReceipts(w, "journal", "begin")
    /\ UNCHANGED <<outside, row, lease, ops>>

--------------------------------------------------------------------------
(* recover_activation and recover_writer: receipt, etags, receipt again. *)

\* What the run has in memory: the journal it loads or the batch it begins.
Intent(w) == run[w].intent

\* Where a run goes with the outcome of a recovery.
Onward(w, outcome) ==
    IF run[w].target = "activation"
    THEN CASE outcome = "confirmed" -> "confirm"
           [] outcome = "fenced" -> "abort"
           [] outcome = "unknown" -> run[w].then
    ELSE IF outcome = "confirmed" \/ (outcome = "fenced" /\ run[w].then # "abort")
         THEN run[w].then
         ELSE "idle"

\* The outcome is recorded, except that an activation known to be unsent
\* stays so while nothing else is known.
Conclude(w, outcome) ==
    LET old == row[Pub(w)][run[w].target].outcome
        kept == run[w].target = "activation" /\ old = "expired" /\ outcome = "unknown"
    IN  IF Held(w) /\ (kept \/ MayRecord(run[w].target, old, outcome))
        THEN /\ row' = IF kept THEN row ELSE Recorded(w, outcome)
             /\ IF Onward(w, outcome) = "idle" THEN Leave(w)
                ELSE Goto(w, Onward(w, outcome)) /\ UNCHANGED lease
        ELSE End(w)

\* Mutant: the etags are not compared.
MutMoved(b) == TRUE

\* A row the batch is conditional on is there and is not what it expects.
Moved(b) ==
    \/ writer.etag \notin {Absent, b.wif}
    \/ Activates(b) /\ active.etag \notin {Absent, b.aif}

ReadReceipt(w) ==
    /\ At(w, "receipt")
    /\ IF Intent(w).op \in receipts THEN Conclude(w, "confirmed")
       ELSE Goto(w, "etags") /\ UNCHANGED <<row, lease>>
    /\ UNCHANGED <<outside, ops>>

ReadEtags(w) ==
    /\ At(w, "etags")
    /\ IF Moved(Intent(w)) THEN Goto(w, "again") /\ UNCHANGED <<row, lease>>
       ELSE Conclude(w, "unknown")
    /\ UNCHANGED <<outside, ops>>

\* Mutant: the receipt is not read a second time.
MutSecondReading(w) == "fenced"

SecondReading(w) == IF Intent(w).op \in receipts THEN "confirmed" ELSE "fenced"

ReadAgain(w) ==
    /\ At(w, "again")
    /\ Conclude(w, SecondReading(w))
    /\ UNCHANGED <<outside, ops>>

\* The outcome of the activation is unknown: its writer lease is waited for
\* and taken over, so that the batch can no longer apply.
Fence(w) ==
    /\ At(w, "fence")
    /\ LET journal == row[Pub(w)].journal
       IN  \/ /\ ~ Resolved(journal) /\ ReadReceipts(w, "journal", "fence")
              /\ UNCHANGED <<row, lease, ops>>
           \/ Resolved(journal) /\ ~ Free /\ End(w) /\ UNCHANGED ops
           \/ Resolved(journal) /\ Free /\ Takeover(w, "recover")
    /\ UNCHANGED outside

\* Mutant: an announcement of the publication's own is left standing.
MutUnannounced(w) == writer.pending \in {Absent, Pub(w)}

Unannounced(w) == writer.pending = Absent

\* The activation cannot apply any more: its announcement is withdrawn.
Abort(w) ==
    /\ At(w, "abort")
    /\ LET journal == row[Pub(w)].journal
       IN  \/ /\ ~ Resolved(journal) /\ ReadReceipts(w, "journal", "abort")
              /\ UNCHANGED <<row, lease, ops>>
           \/ /\ Resolved(journal) /\ writer.etag = Absent
              /\ End(w) /\ UNCHANGED ops
           \/ /\ Resolved(journal) /\ writer.etag # Absent /\ Unannounced(w)
              /\ Goto(w, "fail") /\ UNCHANGED <<row, lease, ops>>
           \/ /\ Resolved(journal) /\ writer.pending = Pub(w)
              /\ IF Live(writer.owner) THEN AbortWriter(w, writer)
                 ELSE Takeover(w, "withdraw")
           \/ /\ Resolved(journal) /\ writer.pending \notin {Absent, Pub(w)}
              /\ End(w) /\ UNCHANGED ops
    /\ UNCHANGED outside

Withdraw(w) ==
    /\ At(w, "withdraw")
    /\ AbortWriter(w, run[w].seen)
    /\ UNCHANGED outside

--------------------------------------------------------------------------
(* A first activation. *)

\* No intent on record: an approval whose window is over is given up;
\* otherwise the head must still be the one the publication was prepared on.
Open(w) ==
    /\ At(w, "begin")
    /\ \/ /\ Pub(w) \in closed
          /\ \/ /\ Unannounced(w)
                /\ Goto(w, "fail") /\ UNCHANGED <<row, lease, ops>>
             \/ /\ writer.pending # Absent
                /\ writer.pub # Pub(w) \/ writer.pending # Pub(w) \/ Live(writer.owner)
                /\ End(w) /\ UNCHANGED ops
             \/ /\ writer.pending = Pub(w) /\ writer.pub = Pub(w) /\ ~ Live(writer.owner)
                /\ Takeover(w, "withdraw")
       \/ /\ Pub(w) \notin closed /\ active.head # row[Pub(w)].base
          /\ End(w) /\ UNCHANGED ops
       \/ /\ Pub(w) \notin closed /\ active.head = row[Pub(w)].base
          /\ run' = [run EXCEPT ![w].pc = "claim", ![w].etag = active.etag]
          /\ UNCHANGED <<row, lease, ops>>
    /\ UNCHANGED outside

\* The writer row is claimed, or taken over once its lease has expired.
Acquire(w) ==
    /\ At(w, "claim")
    /\ \/ writer.etag = Absent /\ ClaimWriter(w, "prepare")
       \/ writer.etag # Absent /\ Live(writer.owner) /\ End(w) /\ UNCHANGED ops
       \/ writer.etag # Absent /\ ~ Live(writer.owner) /\ Takeover(w, "prepare")
    /\ UNCHANGED outside

\* The activation is announced in the writer row, unless it already is.
Prepare(w) ==
    /\ At(w, "prepare")
    /\ \/ run[w].seen.pending = Absent /\ PrepareWriter(w)
       \/ /\ run[w].seen.pending = Pub(w)
          /\ Goto(w, "activate") /\ UNCHANGED <<row, lease, ops>>
       \/ /\ run[w].seen.pending \notin {Absent, Pub(w)}
          /\ End(w) /\ UNCHANGED ops
    /\ UNCHANGED outside

\* What activate requires before it journals the intent.
Ready(w) ==
    /\ writer = run[w].seen
    /\ active.etag = run[w].etag
    /\ Pub(w) \notin closed /\ Live(writer.owner)
    /\ writer.gen = active.gen /\ writer.head = active.head
    /\ writer.pending = Pub(w)
    /\ Pub(w) \notin receipts

\* begin_once of the activation journal: a publication has one intent.
Unbegun(w) == row[Pub(w)].activation.outcome = "none"

\* Mutant: the writer row keeps the digest of the replaced head.
MutAdvanced(p) == [writer EXCEPT !.etag = p, !.pending = Absent, !.gen = @ + 1]

\* The writer row after the activation.
Advanced(p) == [writer EXCEPT !.etag = p, !.pending = Absent, !.gen = @ + 1, !.head = p]

\* activate up to the dispatch: writer, head and receipt in one batch.
Activate(w) ==
    LET p == Pub(w)
        b == [op |-> p, wif |-> writer.etag, aif |-> active.etag,
              after |-> Advanced(p)]
    IN  /\ At(w, "activate")
        /\ IF Ready(w) /\ Held(w) /\ Unbegun(w)
           THEN /\ row' = [row EXCEPT ![p].activation = [batch |-> b, outcome |-> "started"]]
                /\ run' = [run EXCEPT ![w].pc = "send", ![w].target = "activation",
                                      ![w].intent = b]
                /\ UNCHANGED lease
           ELSE End(w)
        /\ UNCHANGED <<outside, ops>>

--------------------------------------------------------------------------
(* The dispatch of a journalled batch. *)

\* The outcome is written if the lease is still held; the run ends.
Stop(w, outcome) ==
    /\ row' = IF Held(w) THEN Recorded(w, outcome) ELSE row
    /\ Leave(w)

\* The lease the change was made under, and the window of an activation.
InTime(w) ==
    /\ Live(Intent(w).after.owner)
    /\ run[w].target = "activation" => Pub(w) \notin closed

Send(w) ==
    /\ At(w, "send")
    /\ IF InTime(w)
       THEN /\ flight' = flight \union {Intent(w)}
            /\ Goto(w, "wait") /\ UNCHANGED <<row, lease>>
       ELSE Stop(w, "expired") /\ UNCHANGED flight
    /\ UNCHANGED <<table, ops, time, faults>>

Refused(w) == At(w, "refused") /\ Stop(w, "conflict") /\ UNCHANGED <<outside, ops>>

\* No answer: the batch is never sent again.
TimeOut(w) ==
    /\ At(w, "wait")
    /\ Intent(w) \notin flight \/ faults < MaxFaults
    /\ faults' = IF Intent(w) \in flight THEN faults + 1 ELSE faults
    /\ Stop(w, "unknown")
    /\ UNCHANGED <<table, flight, ops, time>>

\* The answer is confirmed by the receipt; after a writer operation the row
\* must still be the one written, under a live lease.
Applied(w) ==
    /\ At(w, "applied")
    /\ IF ~ Held(w) THEN End(w)
       ELSE /\ row' = Recorded(w, "confirmed")
            /\ \/ /\ run[w].target = "activation"
                  /\ Goto(w, "confirm") /\ UNCHANGED lease
               \/ /\ run[w].target = "journal"
                  /\ writer # Intent(w).after \/ ~ Live(writer.owner)
                  /\ Leave(w)
               \/ /\ run[w].target = "journal"
                  /\ writer = Intent(w).after /\ Live(writer.owner)
                  /\ run' = [run EXCEPT
                                ![w].seen = writer,
                                ![w].pc = IF run[w].then = "recover" THEN "receipt"
                                          ELSE run[w].then,
                                ![w].target = IF run[w].then = "recover" THEN "activation"
                                              ELSE @,
                                ![w].intent = IF run[w].then = "recover"
                                              THEN row[Pub(w)].activation.batch ELSE @,
                                ![w].then = "idle"]
                  /\ UNCHANGED lease
    /\ UNCHANGED <<outside, ops>>

--------------------------------------------------------------------------
(* The end of a publication. *)

\* The head must be the activated one; port.confirm reads it back through
\* the gateway and may fail.
Confirm(w) ==
    /\ At(w, "confirm")
    /\ \/ active.head = Pub(w) /\ Goto(w, "commit") /\ UNCHANGED <<row, lease, faults>>
       \/ active.head # Pub(w) /\ End(w) /\ UNCHANGED faults
       \/ faults < MaxFaults /\ faults' = faults + 1 /\ End(w)
    /\ UNCHANGED <<table, flight, ops, time>>

\* activate_gateway_publication
Commit(w) ==
    /\ At(w, "commit")
    /\ row' = IF Held(w) THEN [row EXCEPT ![Pub(w)].status = "active"] ELSE row
    /\ Leave(w)
    /\ UNCHANGED <<outside, ops>>

\* RouteActivationNotApplied
Fail(w) ==
    /\ At(w, "fail")
    /\ row' = IF Held(w) THEN [row EXCEPT ![Pub(w)].status = "failed"] ELSE row
    /\ Leave(w)
    /\ UNCHANGED <<outside, ops>>

RunStep(w) ==
    \/ Start(w) \/ ReadReceipt(w) \/ ReadEtags(w) \/ ReadAgain(w)
    \/ Fence(w) \/ Abort(w) \/ Withdraw(w)
    \/ Open(w) \/ Acquire(w) \/ Prepare(w) \/ Activate(w)
    \/ Send(w) \/ Refused(w) \/ TimeOut(w) \/ Applied(w)
    \/ Confirm(w) \/ Commit(w) \/ Fail(w)

Next ==
    \/ \E b \in flight : Arrive(b) \/ Lose(b)
    \/ LeaseExpires
    \/ \E p \in Publications : WindowCloses(p) \/ Verified(p)
    \/ \E w \in Workers :
          \/ \E p \in Publications : Claim(w, p) \/ Lapse(w, p)
          \/ LoseLease(w) \/ Crash(w) \/ RunStep(w)

Spec == Init /\ [][Next]_vars

\* Workers run, requests arrive and time passes: runs come and go while a
\* writer lease expires, so its expiry is strongly fair.
Fairness ==
    /\ WF_vars(\E b \in flight : Arrive(b))
    /\ SF_vars(LeaseExpires)
    /\ \A w \in Workers :
          /\ WF_vars(RunStep(w))
          /\ WF_vars(\E p \in Publications : Claim(w, p))
          /\ WF_vars(\E p \in Publications : Lapse(w, p))

FairSpec == Spec /\ Fairness

--------------------------------------------------------------------------
\* The rows of the partition and of PostgreSQL, the batches on the wire and
\* the runs are well formed.
TypeOK ==
    /\ writer \in WriterRow /\ active \in ActiveRow
    /\ receipts \subseteq Operations
    /\ flight \subseteq Batch
    /\ row \in [Publications -> Row]
    /\ lease \in [Publications -> Workers \union {Nobody}]
    /\ run \in [Workers -> Run]
    /\ ops \in 1..MaxOps /\ lapsed \in 1..MaxOps
    /\ closed \subseteq Publications
    /\ faults \in 0..MaxFaults

\* A publication the worker fails (RouteActivationNotApplied) has not been
\* activated and never will be: no batch of it that is still under way can
\* apply, and the writer row no longer announces it.
FailedIsFenced ==
    \A p \in Publications : row[p].status = "failed" =>
        /\ p \notin receipts /\ active.head # p
        /\ writer.pending # p
        /\ \A b \in flight : b.op = p => ~ Applicable(b)

\* The journal tells the truth: an activation or writer operation on record
\* as confirmed has been applied, and one on record as fenced or expired has
\* not and cannot be.
JournalIsTrue ==
    \A p \in Publications, target \in {"activation", "journal"} :
        LET entry == row[p][target]
        IN  /\ entry.outcome = "confirmed" => entry.batch.op \in receipts
            /\ entry.outcome \in {"fenced", "expired"} =>
                  /\ entry.batch.op \notin receipts
                  /\ entry.batch \in flight => ~ Applicable(entry.batch)

\* The writer row always describes the active head it guards.
WriterTracksActive ==
    writer.etag # Absent => writer.gen = active.gen /\ writer.head = active.head

\* PostgreSQL and the gateway agree on what is released: an active publication
\* was applied and is served until one based on it is, and what is served is
\* in progress or active.
ActiveIsServed ==
    /\ active.head \in Publications => row[active.head].status \in {"promoting", "active"}
    /\ \A p \in Publications : row[p].status = "active" =>
          /\ p \in receipts
          /\ active.head # p => \E q \in Publications \cap receipts : row[q].base = p

\* The head changes by a whole activation only: one generation further, to a
\* publication in progress whose activation is journalled and whose base is
\* the head it replaces.
HeadAdvances ==
    [][active' # active =>
        /\ active'.gen = active.gen + 1
        /\ row[active'.head].status = "promoting"
        /\ row[active'.head].activation.outcome # "none"
        /\ row[active'.head].base = active.head]_vars

\* The last writer operation of p was journalled and never sent, or never
\* arrived: the row it would change is as it was, so that its outcome remains
\* unknown and nothing else may be begun.
Stranded(p) ==
    LET entry == row[p].journal
    IN  /\ entry.outcome = "unknown"
        /\ entry.batch \notin flight /\ entry.batch.op \notin receipts
        /\ ~ Moved(entry.batch)
        /\ \A w \in Workers : ~ (At(w, "send") /\ Intent(w) = entry.batch)

\* A promoting publication becomes active or fails, whatever happened to its
\* activation; only a writer operation that is never applied holds it up.
Settles ==
    \A p \in Publications :
        row[p].status = "promoting" ~> (row[p].status # "promoting" \/ Stranded(p))
=============================================================================
