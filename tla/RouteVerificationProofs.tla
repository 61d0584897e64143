---------------------- MODULE RouteVerificationProofs ----------------------
(***************************************************************************)
(* Theorems about RouteVerification, for any snapshot, plan of probes,     *)
(* slices, workers and bounds.                                             *)
(*                                                                         *)
(* Two arguments make the invariant.  A probe is sent by the one run that  *)
(* found its step untouched and marked it started, with or without the     *)
(* lease: Sent and OneSender follow that run to the end of its request.    *)
(* The cursors and the phase of the publication are only written by the    *)
(* holder of the lease, who has held it since it claimed: HeldOK says what *)
(* such a run has established at each program counter, from the slice it   *)
(* stages to the promotion it commits.                                     *)
(***************************************************************************)
EXTENDS RouteVerification, WellFoundedInduction, TLAPS

\* A request of the run may still be sent or its attempt finished.
Sending(r) == r.pc \in {"open", "reserve", "post", "finish"}

\* What a run knows of its probe, holding the lease or not.
SentOK(r) ==
    LET s == r.probe
    IN  /\ r.pc \in {"open", "reserve", "post"} =>
              /\ s \in Probes /\ row.steps[s] = "started" /\ served[s] = 0
              /\ r.pc = "open" => s \in Billable
              /\ s \in Billable =>
                    attempt[s] = IF r.pc = "open" THEN "none" ELSE "started"
        /\ r.pc = "finish" =>
              /\ s \in Billable /\ attempt[s] = "started"
              /\ r.answer \in {"valid", "mismatch"} => served[s] > 0
        /\ r.pc = "pass" =>
              /\ s \in Probes /\ served[s] > 0
              /\ s \in Billable => attempt[s] = "validated"

Sent == \A w \in Workers : SentOK(run[w])

\* No two runs have the same probe in flight.
OneSender == \A v, w \in Workers :
    Sending(run[v]) /\ Sending(run[w]) /\ run[v].probe = run[w].probe => v = w

\* A probe that nobody has started was not sent.
Untouched == \A s \in Probes :
    row.steps[s] = "none" => served[s] = 0 /\ attempt[s] = "none"

\* What a run has established at its program counter while it holds the lease.
HeldOK(r) ==
    /\ r.pc = "stage" =>
          /\ row.status = "provisioning" /\ row.prepared /\ (1..r.end) \ r.todo \subseteq present
          /\ IF row.kind = "addition" THEN r.next = "verifying" /\ r.end = Total
             ELSE r.next = "provisioning"
    /\ r.pc \in {"read", "receipt"} =>
          /\ row.prepared
          /\ IF row.kind = "addition"
             THEN /\ r.next = "verifying" /\ r.end = Total
                  /\ row.status = "provisioning" /\ present = Entities
             ELSE r.next = "building_revision" /\ row.status = "building_revision"
    /\ r.pc \in {"probe", "open", "reserve", "post", "finish", "pass"} =>
          row.status = "verifying" /\ r.next = "verifying"
    /\ r.pc = "commit" =>
          \/ r.next = "queued" /\ row.status = "queued"
          \/ r.next \in {"validating", "provisioning"} /\ row.status \in {"queued", "validating"}
          \/ /\ r.next = "provisioning" /\ row.status = "provisioning"
             /\ row.kind # "addition" /\ 1..r.end \subseteq present
          \/ /\ r.next = "building_revision" /\ row.status = "building_revision"
             /\ r.end \in readback
          \/ /\ r.next = "verifying" /\ row.status = "provisioning" /\ r.end = Total
             /\ row.kind = "addition" /\ present = Entities /\ Total \in readback
          \/ r.next = "verifying" /\ row.status = "verifying"
          \/ r.next = "promoting" /\ row.status = "verifying" /\ AllPassed

Holding == \A w \in Workers : Held(w) => HeldOK(run[w])

\* What the publication in PostgreSQL says of the table and of its probes.
RowOK ==
    /\ lease # Nobody => row.status \in Phases
    /\ ~ row.prepared => row.status \in {"queued", "failed"}
    /\ 1..row.staged \subseteq present
    /\ row.status = "building_revision" => row.kind # "addition" /\ row.staged = Total
    /\ row.status \in {"verifying", "promoting"} => present = Entities /\ Total \in readback
    /\ row.status = "promoting" => AllPassed

IInv == /\ TypeOK /\ SentOnce /\ ChargeIsKept /\ PassedIsAnswered
        /\ Sent /\ OneSender /\ Untouched /\ Holding /\ RowOK

--------------------------------------------------------------------------
\* Init establishes the invariant.
LEMMA InitOK == Init => IInv
<1> SUFFICES ASSUME Init PROVE IInv
  OBVIOUS
<1> USE VerificationAssumption
<1>1. row \in Row
  <2>1. PICK kind \in Kinds :
           row = [status |-> "queued", kind |-> kind, prepared |-> FALSE, tries |-> 0,
                  staged |-> 0, verified |-> 0, steps |-> [s \in Probes |-> "none"]]
    BY DEF Init
  <2>2. 0 \in 0..Total /\ 0 \in 0..MaxAttempts + 1
    OBVIOUS
  <2> QED
    BY <2>1, <2>2 DEF Row, Phases
<1>2. run \in [Workers -> Run]
  BY DEF Init, Run, InitRun, Pcs, Phases
<1>3. TypeOK
  BY <1>1, <1>2 DEF Init, TypeOK, Attempts, Allowance
<1>4. \A w \in Workers : run[w].pc = "idle"
  BY DEF Init, InitRun
<1>5. Sent /\ OneSender /\ Holding
  BY <1>4 DEF Sent, SentOK, OneSender, Sending, Holding, HeldOK
<1>6. \A s \in Probes : row.steps[s] = "none" /\ served[s] = 0 /\ attempt[s] = "none"
  BY DEF Init
<1>7. SentOnce /\ ChargeIsKept /\ PassedIsAnswered /\ Untouched
  BY <1>6 DEF SentOnce, ChargeIsKept, PassedIsAnswered, Untouched, Probes
<1>8. RowOK
  BY DEF Init, RowOK
<1> QED
  BY <1>3, <1>5, <1>7, <1>8 DEF IInv

\* What every step starts from.
LEMMA Typed ==
    ASSUME IInv, NEW w \in Workers
    PROVE  /\ run \in [Workers -> Run] /\ run[w] \in Run /\ row \in Row
           /\ SentOK(run[w]) /\ (Held(w) => HeldOK(run[w]) /\ row.status \in Phases)
BY VerificationAssumption DEF IInv, TypeOK, Sent, Holding, Held, RowOK, Nobody

--------------------------------------------------------------------------
\* A run that goes on without a write to the publication or to the billing
\* record keeps the invariant; entities and receipts are only added.
LEMMA MovesOn ==
    ASSUME IInv, NEW w \in Workers, NEW r \in Run,
           run' = [run EXCEPT ![w] = r],
           UNCHANGED <<row, attempt, served>>,
           lease' \in {lease, Nobody},
           reserved' \in 0..Allowance,
           present \subseteq present', present' \subseteq Entities,
           readback \subseteq readback', readback' \subseteq 0..Total,
           faults' \in 0..MaxFaults,
           SentOK(r), lease' = w => HeldOK(run[w])',
           Sending(r) => Sending(run[w]) /\ r.probe = run[w].probe
    PROVE  IInv'
<1> USE VerificationAssumption
<1>1. run \in [Workers -> Run]
  BY DEF IInv, TypeOK
<1>2. run'[w] = r /\ \A v \in Workers : v # w => run'[v] = run[v]
  BY <1>1
<1>3. TypeOK'
  BY <1>1 DEF IInv, TypeOK, Nobody
<1>4. (SentOnce /\ ChargeIsKept /\ PassedIsAnswered /\ Untouched)'
  BY DEF IInv, SentOnce, ChargeIsKept, PassedIsAnswered, Untouched
<1>5. Sent'
  BY <1>2 DEF IInv, Sent, SentOK
<1>6. OneSender'
  BY <1>2 DEF IInv, OneSender
<1>7. Holding'
  <2> SUFFICES ASSUME NEW v \in Workers, lease' = v PROVE HeldOK(run[v])'
    BY DEF Holding, Held
  <2>1. CASE v = w
    BY <1>2, <2>1
  <2>2. CASE v # w
    <3>1. HeldOK(run[v]) /\ run'[v] = run[v]
      BY <1>2, <2>2 DEF IInv, Holding, Held, Nobody
    <3>2. present = Entities => present' = Entities
      OBVIOUS
    <3> QED
      BY <3>1, <3>2 DEF HeldOK, AllPassed, Planned
  <2> QED
    BY <2>1, <2>2
<1>8. RowOK'
  BY DEF IInv, RowOK, AllPassed, Planned
<1> QED
  BY <1>3, <1>4, <1>5, <1>6, <1>7, <1>8 DEF IInv

\* The same for a run that only changes its program counter.
LEMMA GotoPreserves ==
    ASSUME IInv, NEW w \in Workers, NEW pc \in Pcs, Goto(w, pc),
           UNCHANGED <<row, attempt, served, reserved>>,
           lease' \in {lease, Nobody},
           present' = present,
           readback \subseteq readback', readback' \subseteq 0..Total,
           faults' \in 0..MaxFaults,
           pc \in {"idle", "begin", "fail", "retry", "commit", "receipt"},
           lease' = w => HeldOK(run[w])'
    PROVE  IInv'
<1> DEFINE r == [run[w] EXCEPT !.pc = pc]
<1>1. run[w] \in Run
  BY Typed
<1>2. r \in Run /\ r.pc = pc
  BY <1>1 DEF Run
<1>3. run' = [run EXCEPT ![w] = r]
  BY DEF Goto
<1>4. SentOK(r) /\ ~ Sending(r)
  BY <1>2 DEF SentOK, Sending
<1>5. reserved' \in 0..Allowance /\ present' \subseteq Entities
  BY DEF IInv, TypeOK
<1> HIDE DEF r
<1> QED
  BY <1>2, <1>3, <1>4, <1>5, MovesOn

\* A run that ends with a write of the lease holder keeps the invariant when the
\* row it writes does.
LEMMA TransitionPreserves ==
    ASSUME IInv, NEW w \in Workers, NEW new,
           Transition(w, new), UNCHANGED <<table, billing, faults>>,
           Held(w) => /\ new \in Row /\ new.steps = row.steps /\ new.kind = row.kind
                      /\ ~ new.prepared => new.status \in {"queued", "failed"}
                      /\ 1..new.staged \subseteq present
                      /\ new.status = "building_revision" =>
                             new.kind # "addition" /\ new.staged = Total
                      /\ new.status \in {"verifying", "promoting"} =>
                             present = Entities /\ Total \in readback
                      /\ new.status = "promoting" => AllPassed
    PROVE  IInv'
<1> USE VerificationAssumption
<1>1. run \in [Workers -> Run] /\ run[w] \in Run
  BY Typed
<1>2. Goto(w, "idle") /\ UNCHANGED <<present, readback, attempt, reserved, served, faults>>
  BY DEF Transition, table, billing
<1>3. /\ run'[w] = [run[w] EXCEPT !.pc = "idle"] /\ run'[w].pc = "idle"
      /\ \A v \in Workers : v # w => run'[v] = run[v]
  BY <1>1, <1>2 DEF Goto, Run
<1>4. CASE ~ Held(w)
  <2>1. UNCHANGED <<row, lease>>
    BY <1>4 DEF Transition
  <2>2. faults' \in 0..MaxFaults /\ readback' \subseteq 0..Total
    BY <1>2 DEF IInv, TypeOK
  <2>3. HeldOK(run[w])'
    BY <1>3 DEF HeldOK
  <2> QED
    BY <1>2, <2>1, <2>2, <2>3, GotoPreserves DEF Pcs
<1>5. CASE Held(w)
  <2>1. row' = new /\ lease' = Nobody
    BY <1>5 DEF Transition
  <2>2. \A v \in Workers : ~ Held(v)'
    BY <2>1 DEF Held, Nobody
  <2>3. run' \in [Workers -> Run]
    BY <1>1, <1>2 DEF Goto, Run, Pcs
  <2>4. TypeOK'
    BY <1>2, <1>5, <2>1, <2>3 DEF IInv, TypeOK
  <2>5. (SentOnce /\ ChargeIsKept /\ PassedIsAnswered /\ Untouched)'
    BY <1>2, <1>5, <2>1 DEF IInv, SentOnce, ChargeIsKept, PassedIsAnswered, Untouched
  <2>6. Sent'
    <3> SUFFICES ASSUME NEW v \in Workers PROVE SentOK(run[v])'
      BY DEF Sent
    <3>1. row'.steps = row.steps
      BY <1>5, <2>1
    <3>2. CASE v = w
      BY <1>3, <3>2 DEF SentOK
    <3>3. CASE v # w
      <4>1. SentOK(run[v]) /\ run'[v] = run[v]
        BY <1>3, <3>3 DEF IInv, Sent
      <4> QED
        BY <1>2, <3>1, <4>1 DEF SentOK
    <3> QED
      BY <3>2, <3>3
  <2>7. OneSender'
    <3>1. \A v \in Workers : Sending(run[v])' => v # w /\ run'[v] = run[v]
      BY <1>3 DEF Sending
    <3> QED
      BY <3>1 DEF IInv, OneSender, Sending
  <2>8. Holding'
    BY <2>2 DEF Holding
  <2>9. RowOK'
    BY <1>2, <1>5, <2>1 DEF RowOK, AllPassed, Planned
  <2> QED
    BY <2>4, <2>5, <2>6, <2>7, <2>8, <2>9 DEF IInv
<1> QED
  BY <1>4, <1>5

--------------------------------------------------------------------------
\* The queue.
LEMMA ClaimPreserves == ASSUME IInv, NEW w \in Workers, Claim(w) PROVE IInv'
<1> USE VerificationAssumption
<1>1. run \in [Workers -> Run] /\ run[w] \in Run /\ row \in Row
  BY Typed
<1>2. /\ lease = Nobody /\ lease' = w /\ row.status \in Phases
      /\ UNCHANGED <<present, readback, attempt, reserved, served, faults>>
  BY DEF Claim, Claimable, table, billing
<1>3. /\ row'.steps = row.steps /\ row'.kind = row.kind /\ row'.status = row.status
      /\ row'.prepared = row.prepared /\ row'.staged = row.staged /\ row' \in Row
  BY <1>1 DEF Claim, Row
<1>4. /\ run'[w].pc = "begin" /\ run'[w] \in Run /\ run' \in [Workers -> Run]
      /\ \A v \in Workers : v # w => run'[v] = run[v]
  BY <1>1 DEF Claim, InitRun, Run, Pcs, Phases
<1>5. TypeOK'
  BY <1>2, <1>3, <1>4 DEF IInv, TypeOK
<1>6. (SentOnce /\ ChargeIsKept /\ PassedIsAnswered /\ Untouched)'
  BY <1>2, <1>3 DEF IInv, SentOnce, ChargeIsKept, PassedIsAnswered, Untouched
<1>7. Sent'
  BY <1>2, <1>3, <1>4 DEF IInv, Sent, SentOK
<1>8. OneSender'
  BY <1>4 DEF IInv, OneSender, Sending
<1>9. Holding'
  BY <1>2, <1>4 DEF Holding, HeldOK, Held
<1>10. RowOK'
  BY <1>2, <1>3 DEF IInv, RowOK, AllPassed, Planned
<1> QED
  BY <1>5, <1>6, <1>7, <1>8, <1>9, <1>10 DEF IInv

LEMMA LapsePreserves ==
    ASSUME IInv, NEW w \in Workers, Lapse(w) \/ LoseLease(w) PROVE IInv'
<1> USE VerificationAssumption
<1>1. run \in [Workers -> Run] /\ run[w] \in Run /\ SentOK(run[w])
  BY Typed
<1>2. /\ lease' = Nobody
      /\ UNCHANGED <<row, present, readback, attempt, reserved, served, run>>
      /\ faults' \in 0..MaxFaults
  BY DEF Lapse, LoseLease, table, billing, IInv, TypeOK
<1>3. run' = [run EXCEPT ![w] = run[w]] /\ lease' # w
  BY <1>1, <1>2 DEF Nobody
<1> QED
  BY <1>1, <1>2, <1>3, MovesOn DEF IInv, TypeOK

LEMMA CrashPreserves ==
    ASSUME IInv, NEW w \in Workers, Crash(w) \/ CallFails(w) PROVE IInv'
<1> USE VerificationAssumption
<1>1. PICK pc \in {"idle", "retry", "fail"} : Goto(w, pc)
  BY DEF Crash, CallFails, Goto
<1>2. /\ UNCHANGED <<row, lease, present, readback, attempt, reserved, served>>
      /\ faults' \in 0..MaxFaults /\ readback' \subseteq 0..Total
  BY DEF Crash, CallFails, table, billing, IInv, TypeOK
<1>3. run'[w].pc = pc
  BY <1>1, Typed DEF Goto, Run
<1>4. HeldOK(run[w])'
  BY <1>3 DEF HeldOK
<1> QED
  BY <1>1, <1>2, <1>4, GotoPreserves DEF Pcs

LEMMA RetryPreserves == ASSUME IInv, NEW w \in Workers, Retry(w) PROVE IInv'
<1>1. row \in Row /\ RowOK
  BY Typed DEF IInv
<1> QED
  BY <1>1, TransitionPreserves DEF Retry, RowOK

LEMMA FailPreserves == ASSUME IInv, NEW w \in Workers, Fail(w) PROVE IInv'
<1> DEFINE new == [row EXCEPT !.status = "failed"]
<1>1. row \in Row /\ RowOK
  BY Typed DEF IInv
<1>2. /\ new \in Row /\ new.steps = row.steps /\ new.kind = row.kind
      /\ new.status = "failed" /\ new.staged = row.staged
  BY <1>1 DEF Row
<1>3. Transition(w, new) /\ UNCHANGED <<table, billing, faults>>
  BY DEF Fail
<1> HIDE DEF new
<1> QED
  BY <1>1, <1>2, <1>3, TransitionPreserves DEF RowOK

--------------------------------------------------------------------------
\* Staging and readback.
LEMMA SliceFacts ==
    ASSUME NEW cursor \in 0..Total
    PROVE  /\ End(cursor) \in 0..Total /\ Slice(cursor) \subseteq Entities
           /\ (1..End(cursor)) \ Slice(cursor) \subseteq 1..cursor
<1>1. SliceLength \in Nat /\ Total \in Nat
  BY VerificationAssumption
<1>2. End(cursor) \in 0..Total
  BY <1>1 DEF End
<1> QED
  BY <1>1, <1>2 DEF Slice, Entities

\* A run is given a phase to commit and a slice to handle.
SetTo(w, pc, next, end, todo) ==
    run' = [run EXCEPT ![w].pc = pc, ![w].next = next, ![w].end = end, ![w].todo = todo]

\* It keeps the invariant when the phase and the slice fit the publication.
LEMMA SetPreserves ==
    ASSUME IInv, NEW w \in Workers,
           NEW pc \in {"commit", "stage", "read", "probe"},
           NEW next \in Phases, NEW end \in 0..Total, NEW todo \in SUBSET Entities,
           SetTo(w, pc, next, end, todo),
           UNCHANGED <<row, lease, table, billing, faults>>,
           (/\ run'[w].pc = pc /\ run'[w].next = next
            /\ run'[w].end = end /\ run'[w].todo = todo) => HeldOK(run[w])'
    PROVE  IInv'
<1> DEFINE r == [run[w] EXCEPT !.pc = pc, !.next = next, !.end = end, !.todo = todo]
<1>1. run \in [Workers -> Run] /\ run[w] \in Run
  BY Typed
<1>2. r \in Run /\ r.pc = pc /\ r.next = next /\ r.end = end /\ r.todo = todo
  BY <1>1 DEF Run, Pcs
<1>3. run' = [run EXCEPT ![w] = r]
  BY <1>1 DEF Run, SetTo
<1>4. run'[w] = r
  BY <1>1, <1>3
<1> HIDE DEF r
<1>5. SentOK(r) /\ ~ Sending(r)
  BY <1>2 DEF SentOK, Sending
<1>6. /\ UNCHANGED <<row, lease, present, readback, attempt, reserved, served, faults>>
      /\ reserved' \in 0..Allowance /\ present' \subseteq Entities
      /\ readback' \subseteq 0..Total /\ faults' \in 0..MaxFaults
  BY DEF table, billing, IInv, TypeOK
<1>7. HeldOK(run[w])'
  BY <1>2, <1>4
<1> QED
  BY <1>2, <1>3, <1>5, <1>6, <1>7, MovesOn

LEMMA BeginPreserves == ASSUME IInv, NEW w \in Workers, Begin(w) PROVE IInv'
<1> USE VerificationAssumption
<1>1. /\ run \in [Workers -> Run] /\ run[w] \in Run /\ row \in Row
      /\ Held(w) => row.status \in Phases
  BY Typed
<1>2. UNCHANGED <<row, lease, table, billing, faults>>
  BY DEF Begin
<1>3. RowOK /\ UNCHANGED <<row, present, readback>>
  BY <1>2 DEF IInv, table
<1>4. ASSUME NEW pc \in {"idle", "fail"}, Goto(w, pc) PROVE IInv'
  <2>1. run'[w].pc = pc
    BY <1>1, <1>4 DEF Goto, Run
  <2>2. HeldOK(run[w])'
    BY <1>3, <2>1 DEF HeldOK
  <2>3. /\ UNCHANGED <<present, readback, attempt, reserved, served>>
        /\ readback' \subseteq 0..Total /\ faults' \in 0..MaxFaults
    BY <1>2 DEF table, billing, IInv, TypeOK
  <2> QED
    BY <1>2, <1>4, <2>2, <2>3, GotoPreserves DEF Pcs
<1>5. /\ row.staged \in 0..Total /\ row.verified \in 0..Total
      /\ 0 \in 0..Total /\ Total \in 0..Total
      /\ row.kind \in Kinds /\ row.prepared \in BOOLEAN
  BY <1>1 DEF Row
<1>6. CASE ~ Held(w) \/ Exhausted
  <2>1. Goto(w, "idle") \/ Goto(w, "fail")
    BY <1>6 DEF Begin
  <2> QED
    BY <1>4, <2>1
<1>7. CASE Held(w) /\ ~ Exhausted /\ ~ row.prepared
  <2>1. row.status = "queued"
    BY <1>1, <1>3, <1>7 DEF RowOK, Phases
  <2>2. SetTo(w, "commit", "queued", 0, {})
    BY <1>7, <2>1 DEF Begin, SetTo
  <2>3. run'[w].pc = "commit" /\ run'[w].next = "queued" => HeldOK(run[w])'
    BY <1>3, <2>1 DEF HeldOK
  <2> QED
    BY <1>2, <1>5, <2>2, <2>3, SetPreserves DEF Phases
<1>8. CASE Held(w) /\ ~ Exhausted /\ row.prepared /\ row.status \in {"queued", "validating"}
  <2>1. SetTo(w, "commit", Following, 0, {})
    BY <1>8 DEF Begin, SetTo
  <2>2. Following \in {"validating", "provisioning"}
    BY <1>8 DEF Following
  <2>3. run'[w].pc = "commit" /\ run'[w].next = Following => HeldOK(run[w])'
    BY <1>3, <1>8, <2>2 DEF HeldOK
  <2> QED
    BY <1>2, <1>5, <2>1, <2>2, <2>3, SetPreserves DEF Phases
<1>9. CASE /\ Held(w) /\ ~ Exhausted /\ row.prepared /\ row.kind = "addition"
           /\ row.status \in {"provisioning", "building_revision"}
  <2>1. SetTo(w, "stage", "verifying", Total, Entities)
    BY <1>9 DEF Begin, SetTo
  <2>2. row.status = "provisioning"
    BY <1>3, <1>9 DEF RowOK
  <2>3. run'[w].pc = "stage" /\ run'[w].next = "verifying" /\ run'[w].end = Total
                          /\ run'[w].todo = Entities => HeldOK(run[w])'
    BY <1>3, <1>9, <2>2 DEF HeldOK, Entities
  <2> QED
    BY <1>2, <1>5, <2>1, <2>3, SetPreserves DEF Phases
<1>10. CASE /\ Held(w) /\ ~ Exhausted /\ row.prepared /\ row.kind # "addition"
            /\ row.status = "provisioning"
  <2>1. SetTo(w, "stage", "provisioning", End(row.staged), Slice(row.staged))
    BY <1>10 DEF Begin, SetTo
  <2>2. /\ End(row.staged) \in 0..Total /\ Slice(row.staged) \in SUBSET Entities
        /\ (1..End(row.staged)) \ Slice(row.staged) \subseteq present
    BY <1>3, <1>5, SliceFacts DEF RowOK
  <2>3. run'[w].pc = "stage" /\ run'[w].next = "provisioning" /\ run'[w].end = End(row.staged)
                          /\ run'[w].todo = Slice(row.staged) => HeldOK(run[w])'
    BY <1>3, <1>10, <2>2 DEF HeldOK
  <2> QED
    BY <1>2, <2>1, <2>2, <2>3, SetPreserves DEF Phases
<1>11. CASE /\ Held(w) /\ ~ Exhausted /\ row.prepared /\ row.kind # "addition"
            /\ row.status = "building_revision"
  <2>1. \/ Goto(w, "fail")
        \/ SetTo(w, "read", "building_revision", End(row.verified), Slice(row.verified))
    BY <1>11 DEF Begin, SetTo
  <2>2. End(row.verified) \in 0..Total /\ Slice(row.verified) \in SUBSET Entities
    BY <1>5, SliceFacts
  <2>3. run'[w].pc = "read" /\ run'[w].next = "building_revision" => HeldOK(run[w])'
    BY <1>3, <1>11 DEF HeldOK
  <2>4. CASE SetTo(w, "read", "building_revision", End(row.verified), Slice(row.verified))
    BY <1>2, <2>2, <2>3, <2>4, SetPreserves DEF Phases
  <2> QED
    BY <1>4, <2>1, <2>4
<1>12. CASE Held(w) /\ ~ Exhausted /\ row.prepared /\ row.status = "verifying"
  <2>1. Goto(w, "fail") \/ SetTo(w, "probe", "verifying", Total, {})
    BY <1>12 DEF Begin, SetTo
  <2>2. run'[w].pc = "probe" /\ run'[w].next = "verifying" => HeldOK(run[w])'
    BY <1>3, <1>12 DEF HeldOK
  <2>3. CASE SetTo(w, "probe", "verifying", Total, {})
    BY <1>2, <1>5, <2>2, <2>3, SetPreserves DEF Phases
  <2> QED
    BY <1>4, <2>1, <2>3
<1> QED
  BY <1>1, <1>5, <1>6, <1>7, <1>8, <1>9, <1>10, <1>11, <1>12 DEF Phases

LEMMA StagePreserves == ASSUME IInv, NEW w \in Workers, Stage(w) PROVE IInv'
<1> USE VerificationAssumption
<1>1. /\ run \in [Workers -> Run] /\ run[w] \in Run /\ row \in Row
      /\ run[w].pc = "stage" /\ (Held(w) => HeldOK(run[w]))
      /\ run[w].end \in 0..Total /\ run[w].todo \in SUBSET Entities
  BY Typed DEF Stage, At, Run
<1>2. /\ UNCHANGED <<row, lease, readback, attempt, reserved, served, faults>>
      /\ reserved' \in 0..Allowance /\ readback' \subseteq 0..Total
      /\ faults' \in 0..MaxFaults /\ present \subseteq Entities
  BY DEF Stage, billing, IInv, TypeOK
<1>3. CASE \E e \in run[w].todo : /\ present' = present \union {e}
                                  /\ run' = [run EXCEPT ![w].todo = @ \ {e}]
  <2>1. PICK e \in run[w].todo : /\ present' = present \union {e}
                                 /\ run' = [run EXCEPT ![w].todo = @ \ {e}]
    BY <1>3
  <2> DEFINE r == [run[w] EXCEPT !.todo = @ \ {e}]
  <2>2. /\ r \in Run /\ r.pc = "stage" /\ r.todo = run[w].todo \ {e}
        /\ r.end = run[w].end /\ r.next = run[w].next
    BY <1>1 DEF Run
  <2>3. run' = [run EXCEPT ![w] = r]
    BY <1>1, <2>1 DEF Run
  <2>4. run'[w] = r
    BY <1>1, <2>3
  <2> HIDE DEF r
  <2>5. SentOK(r) /\ ~ Sending(r)
    BY <2>2 DEF SentOK, Sending
  <2>6. lease' = w => HeldOK(run[w])'
    BY <1>1, <1>2, <2>1, <2>2, <2>4 DEF Held, HeldOK
  <2>7. present \subseteq present' /\ present' \subseteq Entities
    BY <1>1, <1>2, <2>1
  <2> QED
    BY <1>2, <2>2, <2>3, <2>5, <2>6, <2>7, MovesOn
<1>4. CASE run[w].todo = {} /\ UNCHANGED present /\ row.kind # "addition" /\ Goto(w, "commit")
  <2>1. /\ run'[w].pc = "commit" /\ run'[w].end = run[w].end /\ run'[w].next = run[w].next
    BY <1>1, <1>4 DEF Goto, Run
  <2>2. lease' = w => HeldOK(run[w])'
    BY <1>1, <1>2, <1>4, <2>1 DEF Held, HeldOK
  <2> QED
    BY <1>2, <1>4, <2>2, GotoPreserves DEF Pcs
<1>5. CASE /\ run[w].todo = {} /\ UNCHANGED present /\ row.kind = "addition"
           /\ run' = [run EXCEPT ![w].pc = "read", ![w].todo = Entities]
  <2> DEFINE r == [run[w] EXCEPT !.pc = "read", !.todo = Entities]
  <2>2. /\ r \in Run /\ r.pc = "read" /\ r.end = run[w].end /\ r.next = run[w].next
    BY <1>1 DEF Run, Pcs
  <2>3. run' = [run EXCEPT ![w] = r]
    BY <1>1, <1>5 DEF Run
  <2>4. run'[w] = r
    BY <1>1, <2>3
  <2> HIDE DEF r
  <2>5. SentOK(r) /\ ~ Sending(r)
    BY <2>2 DEF SentOK, Sending
  <2>6. lease' = w => HeldOK(run[w])'
    BY <1>1, <1>2, <1>5, <2>2, <2>4 DEF Held, HeldOK, Entities
  <2> QED
    BY <1>2, <1>5, <2>2, <2>3, <2>5, <2>6, MovesOn
<1> QED
  BY <1>3, <1>4, <1>5 DEF Stage

LEMMA ReadPreserves == ASSUME IInv, NEW w \in Workers, Read(w) PROVE IInv'
<1>1. /\ run \in [Workers -> Run] /\ run[w] \in Run
      /\ run[w].pc = "read" /\ (Held(w) => HeldOK(run[w]))
  BY Typed DEF Read, At
<1>2. /\ UNCHANGED <<row, lease, present, readback, attempt, reserved, served, faults>>
      /\ reserved' \in 0..Allowance /\ readback' \subseteq 0..Total
      /\ faults' \in 0..MaxFaults /\ present' \subseteq Entities
  BY DEF Read, table, billing, IInv, TypeOK
<1>3. CASE \E e \in run[w].todo \cap present : run' = [run EXCEPT ![w].todo = @ \ {e}]
  <2>1. PICK e \in run[w].todo \cap present : run' = [run EXCEPT ![w].todo = @ \ {e}]
    BY <1>3
  <2> DEFINE r == [run[w] EXCEPT !.todo = @ \ {e}]
  <2>2. /\ r \in Run /\ r.pc = "read" /\ r.end = run[w].end /\ r.next = run[w].next
    BY <1>1 DEF Run
  <2>3. run' = [run EXCEPT ![w] = r]
    BY <1>1, <2>1 DEF Run
  <2>4. run'[w] = r
    BY <1>1, <2>3
  <2> HIDE DEF r
  <2>5. SentOK(r) /\ ~ Sending(r)
    BY <2>2 DEF SentOK, Sending
  <2>6. lease' = w => HeldOK(run[w])'
    BY <1>1, <1>2, <2>2, <2>4 DEF Held, HeldOK
  <2> QED
    BY <1>2, <2>2, <2>3, <2>5, <2>6, MovesOn
<1>4. ASSUME NEW pc \in {"fail", "receipt"}, Goto(w, pc) PROVE IInv'
  <2>1. run'[w].pc = pc /\ run'[w].end = run[w].end /\ run'[w].next = run[w].next
    BY <1>1, <1>4 DEF Goto, Run
  <2>2. lease' = w => HeldOK(run[w])'
    BY <1>1, <1>2, <2>1 DEF Held, HeldOK
  <2> QED
    BY <1>2, <1>4, <2>2, GotoPreserves DEF Pcs
<1> QED
  BY <1>3, <1>4 DEF Read

LEMMA ReceiptPreserves == ASSUME IInv, NEW w \in Workers, Receipt(w) PROVE IInv'
<1>1. /\ run \in [Workers -> Run] /\ run[w] \in Run /\ run[w].end \in 0..Total
      /\ run[w].pc = "receipt" /\ (Held(w) => HeldOK(run[w]))
  BY Typed DEF Receipt, At, Run
<1>2. /\ UNCHANGED <<row, lease, present, attempt, reserved, served, faults>>
      /\ readback' = readback \union {run[w].end} /\ readback' \subseteq 0..Total
      /\ faults' \in 0..MaxFaults /\ Goto(w, "commit")
  BY <1>1 DEF Receipt, billing, IInv, TypeOK
<1>3. run'[w].pc = "commit" /\ run'[w].end = run[w].end /\ run'[w].next = run[w].next
  BY <1>1, <1>2 DEF Goto, Run
<1>4. lease' = w => HeldOK(run[w])'
  BY <1>1, <1>2, <1>3 DEF Held, HeldOK
<1> QED
  BY <1>2, <1>4, GotoPreserves DEF Pcs

LEMMA CommitPreserves == ASSUME IInv, NEW w \in Workers, Commit(w) PROVE IInv'
<1> DEFINE new == Progressed(w)
<1> USE VerificationAssumption
<1>1. Transition(w, new) /\ UNCHANGED <<table, billing, faults>>
  BY DEF Commit
<1>2. SUFFICES ASSUME Held(w)
               PROVE  /\ new \in Row /\ new.steps = row.steps /\ new.kind = row.kind
                      /\ ~ new.prepared => new.status \in {"queued", "failed"}
                      /\ 1..new.staged \subseteq present
                      /\ new.status = "building_revision" =>
                             new.kind # "addition" /\ new.staged = Total
                      /\ new.status \in {"verifying", "promoting"} =>
                             present = Entities /\ Total \in readback
                      /\ new.status = "promoting" => AllPassed
  BY <1>1, TransitionPreserves
<1>3. /\ run[w] \in Run /\ row \in Row /\ run[w].pc = "commit" /\ HeldOK(run[w]) /\ RowOK
      /\ run[w].end \in 0..Total /\ run[w].next \in Phases \union {"promoting"}
      /\ row.status \in Phases
  BY <1>2, Typed DEF Commit, At, Run, IInv
<1> DEFINE reached ==
        CASE run[w].next = "provisioning" /\ row.status = "provisioning"
               /\ run[w].end = Total -> "building_revision"
          [] run[w].next = "building_revision" /\ run[w].end = Total -> "verifying"
          [] OTHER -> run[w].next
<1>4. reached \in Phases \union {"promoting"}
  BY <1>3 DEF Phases
<1>5. /\ new.steps = row.steps /\ new.kind = row.kind /\ new.prepared = TRUE
      /\ new.status = reached
      /\ new.staged = IF row.status = "provisioning" THEN run[w].end ELSE row.staged
  BY <1>3 DEF Progressed, Row
<1>6. new \in Row
  <2> HIDE DEF reached
  <2>1. new = [row EXCEPT
            !.status = reached,
            !.prepared = TRUE,
            !.staged = IF row.status = "provisioning" THEN run[w].end ELSE @,
            !.verified = IF row.status = "building_revision"
                            \/ (row.kind = "addition" /\ row.status = "provisioning")
                         THEN run[w].end ELSE @,
            !.tries = IF row.status = "verifying" /\ run[w].sent = 0 /\ reached # "promoting"
                      THEN @ ELSE 0]
    BY DEF Progressed, reached
  <2>2. 0 \in 0..MaxAttempts + 1
    OBVIOUS
  <2> QED
    BY <1>3, <1>4, <2>1, <2>2 DEF Row
<1> HIDE DEF new
<1>7. 1..new.staged \subseteq present
  BY <1>3, <1>5 DEF HeldOK, RowOK, Entities
<1>8. new.status = "building_revision" => new.kind # "addition" /\ new.staged = Total
  BY <1>3, <1>5 DEF HeldOK, RowOK
<1>9. new.status \in {"verifying", "promoting"} => present = Entities /\ Total \in readback
  <2>1. row.status = "building_revision" => present = Entities
    BY <1>3 DEF RowOK, Entities, IInv, TypeOK
  <2> QED
    BY <1>3, <1>5, <2>1 DEF HeldOK, RowOK
<1>10. new.status = "promoting" => AllPassed
  BY <1>3, <1>5 DEF HeldOK, RowOK
<1> QED
  BY <1>5, <1>6, <1>7, <1>8, <1>9, <1>10

--------------------------------------------------------------------------
\* Probes.

\* When not all planned probes have passed, NextProbe is one of them.
LEMMA NextProbeIsOpen ==
    ASSUME row \in Row, ~ AllPassed
    PROVE  NextProbe \in Probes /\ row.steps[NextProbe] # "passed"
<1> DEFINE Unpassed == {s \in Planned : row.steps[s] # "passed"}
<1>1. Steps \in Nat /\ Planned \subseteq Probes /\ (Planned = Probes \/ Planned = {})
  BY VerificationAssumption DEF Planned
<1>2. Unpassed # {} /\ Unpassed \subseteq Nat /\ Planned = Probes
  BY <1>1 DEF AllPassed, Probes
<1>3. PICK s \in Unpassed : \A t \in Unpassed : ~ (<<t, s>> \in OpToRel(<, Nat))
  BY <1>2, WFMin, NatLessThanWellFounded
<1>4. \A t \in Unpassed : ~ (t < s)
  BY <1>2, <1>3 DEF OpToRel
<1>5. \A t \in 1..s - 1 : row.steps[t] = "passed"
  <2> SUFFICES ASSUME NEW t \in 1..s - 1 PROVE row.steps[t] = "passed"
    OBVIOUS
  <2>1. s \in 1..Steps
    BY <1>2 DEF Probes
  <2>2. t \in 1..Steps /\ t < s
    BY <1>1, <2>1
  <2> QED
    BY <1>2, <1>4, <2>2 DEF Probes
<1>6. NextProbe \in Planned /\ row.steps[NextProbe] # "passed"
  BY <1>5 DEF NextProbe
<1> QED
  BY <1>1, <1>6

\* What the parts of the invariant say of one probe.
PointOK(s) ==
    /\ served[s] <= 1
    /\ s \in Billable =>
          /\ served[s] > 0 => attempt[s] # "none"
          /\ attempt[s] \in {"validated", "mismatched"} => served[s] > 0
    /\ row.steps[s] = "passed" =>
          served[s] > 0 /\ (s \in Billable => attempt[s] = "validated")
    /\ row.steps[s] = "none" => served[s] = 0 /\ attempt[s] = "none"

\* A step on probe s leaves the other probes, and the publication but for its steps.
OnlyProbe(s) ==
    /\ row' \in Row /\ attempt' \in [Probes -> Attempts] /\ served' \in [Probes -> Nat]
    /\ row'.status = row.status /\ row'.kind = row.kind /\ row'.prepared = row.prepared
    /\ row'.staged = row.staged
    /\ \A t \in Probes \ {s} : /\ row'.steps[t] = row.steps[t]
                               /\ attempt'[t] = attempt[t] /\ served'[t] = served[t]
    /\ row.steps[s] = "passed" => row'.steps[s] = "passed"

\* No other run has a request of probe s in flight, or is disturbed by the step.
OthersOK(w, s) ==
    \A v \in Workers \ {w} : run[v].probe = s =>
        ~ Sending(run[v]) /\ (run'[v] = run[v] => SentOK(run[v])')

\* A step of one run on one probe keeps the invariant when it keeps what is said of
\* that probe and of the runs that deal with it.
LEMMA ProbeMoves ==
    ASSUME IInv, NEW w \in Workers, NEW r \in Run, NEW s \in Probes,
           run' = [run EXCEPT ![w] = r],
           UNCHANGED <<lease, present, readback>>,
           reserved' \in 0..Allowance, faults' \in 0..MaxFaults,
           OnlyProbe(s), OthersOK(w, s),
           PointOK(s)', SentOK(run[w])', Held(w) => HeldOK(run[w])',
           Sending(r) => r.probe = s
    PROVE  IInv'
<1> USE VerificationAssumption DEF OnlyProbe, OthersOK
<1>1. run \in [Workers -> Run] /\ Billable \subseteq Probes
  BY DEF IInv, TypeOK, Probes
<1>2. run'[w] = r /\ \A v \in Workers : v # w => run'[v] = run[v]
  BY <1>1
<1>3. TypeOK'
  BY <1>1 DEF IInv, TypeOK
<1>4. \A t \in Probes : PointOK(t)'
  <2>1. \A t \in Probes : PointOK(t)
    BY DEF IInv, SentOnce, ChargeIsKept, PassedIsAnswered, Untouched, PointOK
  <2> QED
    BY <2>1 DEF PointOK
<1>5. (SentOnce /\ ChargeIsKept /\ PassedIsAnswered /\ Untouched)'
  BY <1>1, <1>4 DEF SentOnce, ChargeIsKept, PassedIsAnswered, Untouched, PointOK
<1>6. Sent'
  <2> SUFFICES ASSUME NEW v \in Workers PROVE SentOK(run[v])'
    BY DEF Sent
  <2>1. CASE v = w
    BY <2>1
  <2>2. CASE v # w /\ run[v].probe = s
    BY <1>2, <2>2
  <2>3. CASE v # w /\ run[v].probe # s
    <3>1. SentOK(run[v]) /\ run'[v] = run[v]
      BY <1>2, <2>3 DEF IInv, Sent
    <3> QED
      BY <1>1, <2>3, <3>1 DEF SentOK
  <2> QED
    BY <2>1, <2>2, <2>3
<1>7. OneSender'
  BY <1>2 DEF IInv, OneSender
<1>8. AllPassed => AllPassed'
  BY DEF AllPassed, Planned
<1>9. Holding'
  <2> SUFFICES ASSUME NEW v \in Workers, Held(v)' PROVE HeldOK(run[v])'
    BY DEF Holding
  <2>1. Held(v)
    BY DEF Held
  <2>2. CASE v = w
    BY <2>1, <2>2
  <2>3. CASE v # w
    <3>1. HeldOK(run[v]) /\ run'[v] = run[v]
      BY <1>2, <2>1, <2>3 DEF IInv, Holding
    <3> QED
      BY <1>8, <3>1 DEF HeldOK
  <2> QED
    BY <2>2, <2>3
<1>10. RowOK'
  BY <1>8 DEF IInv, RowOK
<1> QED
  BY <1>3, <1>5, <1>6, <1>7, <1>9, <1>10 DEF IInv

\* A run with a request in flight is the only one, and no run passes its probe.
LEMMA SenderFacts ==
    ASSUME IInv, NEW w \in Workers, Sending(run[w])
    PROVE  /\ run[w].probe \in Probes /\ PointOK(run[w].probe)
           /\ \A v \in Workers \ {w} : run[v].probe = run[w].probe => ~ Sending(run[v])
<1>1. SentOK(run[w])
  BY Typed
<1>2. run[w].probe \in Probes
  BY <1>1, VerificationAssumption DEF SentOK, Sending, Probes
<1> QED
  BY <1>2 DEF IInv, SentOnce, ChargeIsKept, PassedIsAnswered, Untouched, PointOK, OneSender

LEMMA ProbePreserves == ASSUME IInv, NEW w \in Workers, Probe(w) PROVE IInv'
<1> USE VerificationAssumption
<1>1. /\ run \in [Workers -> Run] /\ run[w] \in Run /\ row \in Row
      /\ run[w].pc = "probe" /\ (Held(w) => HeldOK(run[w]))
  BY Typed DEF Probe, At
<1>2. /\ UNCHANGED <<lease, present, readback, attempt, reserved, served, faults>>
      /\ reserved' \in 0..Allowance /\ readback' \subseteq 0..Total
      /\ faults' \in 0..MaxFaults /\ present' \subseteq Entities
  BY DEF Probe, table, billing, IInv, TypeOK
<1>3. CASE /\ AllPassed /\ UNCHANGED row
           /\ run' = [run EXCEPT ![w].pc = "commit", ![w].next = "promoting"]
  <2> DEFINE r == [run[w] EXCEPT !.pc = "commit", !.next = "promoting"]
  <2>1. r \in Run /\ r.pc = "commit" /\ r.next = "promoting"
    BY <1>1 DEF Run, Pcs
  <2>2. run' = [run EXCEPT ![w] = r]
    BY <1>1, <1>3 DEF Run
  <2>3. run'[w] = r
    BY <1>1, <2>2
  <2> HIDE DEF r
  <2>4. SentOK(r) /\ ~ Sending(r)
    BY <2>1 DEF SentOK, Sending
  <2>5. lease' = w => HeldOK(run[w])'
    BY <1>1, <1>2, <1>3, <2>1, <2>3 DEF Held, HeldOK, AllPassed, Planned
  <2> QED
    BY <1>2, <1>3, <2>1, <2>2, <2>4, <2>5, MovesOn
<1>4. ASSUME NEW s \in Probes, UNCHANGED row, row.steps[s] = "started",
             run' = [run EXCEPT ![w].pc = Resume(s), ![w].probe = s]
      PROVE  IInv'
  <2> DEFINE r == [run[w] EXCEPT !.pc = Resume(s), !.probe = s]
  <2>0. s \in 0..Steps /\ Resume(s) \in {"pass", "fail"}
    BY <1>4 DEF Resume, Probes
  <2>1. r \in Run /\ r.pc = Resume(s) /\ r.probe = s /\ r.next = run[w].next
    BY <1>1, <2>0 DEF Run, Pcs
  <2>2. run' = [run EXCEPT ![w] = r]
    BY <1>1, <1>4 DEF Run
  <2>3. run'[w] = r
    BY <1>1, <2>2
  <2> HIDE DEF r
  <2>4. Resume(s) = "pass" => s \in Billable /\ attempt[s] = "validated" /\ served[s] > 0
    BY <2>0 DEF Resume, Recoverable, IInv, ChargeIsKept
  <2>5. SentOK(r) /\ ~ Sending(r)
    BY <2>0, <2>1, <2>4 DEF SentOK, Sending
  <2>6. lease' = w => HeldOK(run[w])'
    BY <1>1, <1>2, <1>4, <2>0, <2>1, <2>3 DEF Held, HeldOK
  <2> QED
    BY <1>2, <1>4, <2>1, <2>2, <2>5, <2>6, MovesOn
<1>5. ASSUME NEW pc \in {"commit", "retry"}, Goto(w, pc), UNCHANGED row PROVE IInv'
  <2>1. run'[w].pc = pc /\ run'[w].next = run[w].next
    BY <1>1, <1>5 DEF Goto, Run
  <2>2. lease' = w => HeldOK(run[w])'
    BY <1>1, <1>2, <1>5, <2>1 DEF Held, HeldOK
  <2> QED
    BY <1>2, <1>5, <2>2, GotoPreserves DEF Pcs
<1>6. ASSUME NEW s \in Probes, row.steps[s] = "none",
             row' = [row EXCEPT !.steps[s] = "started"],
             run' = [run EXCEPT ![w].probe = s, ![w].pc =
                         IF s \in Billable THEN "open" ELSE "reserve"]
      PROVE  IInv'
  <2> DEFINE pc == IF s \in Billable THEN "open" ELSE "reserve"
             r == [run[w] EXCEPT !.probe = s, !.pc = pc]
  <2>0. s \in 0..Steps
    BY <1>6 DEF Probes
  <2>1. r \in Run /\ r.pc = pc /\ r.probe = s /\ r.next = run[w].next
    BY <1>1, <2>0 DEF Run, Pcs
  <2>2. run' = [run EXCEPT ![w] = r]
    BY <1>1, <1>6 DEF Run
  <2>3. run'[w] = r
    BY <1>1, <2>2
  <2> HIDE DEF r
  <2>4. /\ row' \in Row /\ row'.steps = [row.steps EXCEPT ![s] = "started"]
        /\ row'.status = row.status /\ row'.kind = row.kind /\ row'.prepared = row.prepared
        /\ row'.staged = row.staged
    BY <1>1, <1>6, <2>0 DEF Row
  <2>5. row'.steps[s] = "started" /\ \A t \in Probes \ {s} : row'.steps[t] = row.steps[t]
    BY <1>1, <2>0, <2>4 DEF Row
  <2>6. served[s] = 0 /\ attempt[s] = "none"
    BY <1>6, <2>0 DEF IInv, Untouched
  <2>7. PointOK(s)' /\ SentOK(run[w])'
    BY <1>2, <2>0, <2>1, <2>3, <2>5, <2>6 DEF PointOK, SentOK
  <2>8. Held(w) => HeldOK(run[w])'
    BY <1>1, <2>1, <2>3, <2>4 DEF HeldOK
  <2>9. ASSUME NEW v \in Workers \ {w}, run[v].probe = s
        PROVE  run[v].pc \notin {"open", "reserve", "post", "finish", "pass"}
    BY <1>6, <2>6, <2>9 DEF IInv, Sent, SentOK
  <2>10. OthersOK(w, s)
    BY <2>9 DEF Sending, SentOK, OthersOK
  <2>11. OnlyProbe(s)
    BY <1>2, <1>6, <2>4, <2>5 DEF IInv, TypeOK, OnlyProbe
  <2> QED
    BY <1>2, <2>1, <2>2, <2>7, <2>8, <2>10, <2>11, ProbeMoves
<1>7. ~ AllPassed => NextProbe \in Probes
  BY <1>1, NextProbeIsOpen
<1> QED
  BY <1>3, <1>4, <1>5, <1>6, <1>7 DEF Probe

LEMMA OpenPreserves == ASSUME IInv, NEW w \in Workers, Open(w) PROVE IInv'
<1>1. /\ run \in [Workers -> Run] /\ run[w] \in Run /\ row \in Row
      /\ run[w].pc = "open" /\ Sending(run[w]) /\ SentOK(run[w])
      /\ (Held(w) => HeldOK(run[w]))
  BY Typed DEF Open, At, Sending
<1>s. PICK s \in Probes : s = run[w].probe
  BY <1>1, SenderFacts
<1>2. /\ s \in Billable /\ attempt[s] = "none" /\ served[s] = 0
      /\ row.steps[s] = "started"
      /\ \A v \in Workers \ {w} : run[v].probe = s => ~ Sending(run[v])
  BY <1>1, <1>s, SenderFacts DEF SentOK
<1>3. /\ UNCHANGED <<row, lease, present, readback, reserved, served, faults>>
      /\ reserved' \in 0..Allowance /\ faults' \in 0..MaxFaults
      /\ attempt \in [Probes -> Attempts] /\ served' \in [Probes -> Nat]
  BY DEF Open, table, IInv, TypeOK
<1>4. attempt' = [attempt EXCEPT ![s] = "started"] /\ Goto(w, "reserve")
  BY <1>2, <1>s DEF Open, Opened
<1>5. /\ attempt' \in [Probes -> Attempts] /\ attempt'[s] = "started"
      /\ \A t \in Probes \ {s} : attempt'[t] = attempt[t]
  BY <1>2, <1>3, <1>4 DEF Attempts
<1> DEFINE r == [run[w] EXCEPT !.pc = "reserve"]
<1>6. r \in Run /\ r.pc = "reserve" /\ r.probe = s /\ r.next = run[w].next
  BY <1>1, <1>s DEF Run, Pcs
<1>7. run' = [run EXCEPT ![w] = r] /\ run'[w] = r
  BY <1>1, <1>4 DEF Goto
<1> HIDE DEF r
<1>8. PointOK(s)' /\ SentOK(run[w])'
  BY <1>2, <1>3, <1>5, <1>6, <1>7 DEF PointOK, SentOK
<1>9. Held(w) => HeldOK(run[w])'
  BY <1>1, <1>3, <1>6, <1>7 DEF HeldOK
<1>10. OthersOK(w, s)
  BY <1>2 DEF IInv, Sent, SentOK, Sending, OthersOK
<1>11. OnlyProbe(s)
  BY <1>1, <1>2, <1>3, <1>5 DEF OnlyProbe
<1> QED
  BY <1>3, <1>6, <1>7, <1>8, <1>9, <1>10, <1>11, ProbeMoves

\* Where an answer leads: the run keeps its probe and its phase, and only a billed
\* request is still to be finished.
LEMMA AnsweredMoves ==
    ASSUME run \in [Workers -> Run], NEW w \in Workers,
           NEW answer \in {"valid", "mismatch", "refused", "error"}, Answered(w, answer)
    PROVE  \E r \in Run :
              /\ run' = [run EXCEPT ![w] = r] /\ run'[w] = r
              /\ r.probe = run[w].probe /\ r.next = run[w].next /\ r.answer = answer
              /\ r.pc \in {"finish", "pass", "retry", "fail"}
              /\ r.pc = "finish" <=> r.probe \in Billable
              /\ r.pc = "pass" => answer = "valid"
<1> DEFINE pc == IF run[w].probe \in Billable THEN "finish"
                 ELSE CASE answer = "valid" -> "pass"
                        [] answer = "error" -> "retry"
                        [] OTHER -> "fail"
           r == [run[w] EXCEPT !.answer = answer, !.pc = pc]
<1>1. /\ pc \in {"finish", "pass", "retry", "fail"}
      /\ pc = "finish" <=> run[w].probe \in Billable
      /\ pc = "pass" => answer = "valid"
  OBVIOUS
<1>2. run' = [run EXCEPT ![w] = r]
  BY DEF Answered, Run
<1> HIDE DEF pc
<1>3. /\ r \in Run /\ r.pc = pc /\ r.probe = run[w].probe /\ r.next = run[w].next
      /\ r.answer = answer
  BY <1>1 DEF Run, Pcs
<1>4. run'[w] = r
  BY <1>2
<1> HIDE DEF r
<1> QED
  BY <1>1, <1>2, <1>3, <1>4

LEMMA ReservePreserves == ASSUME IInv, NEW w \in Workers, Reserve(w) PROVE IInv'
<1> USE VerificationAssumption
<1>1. /\ run \in [Workers -> Run] /\ run[w] \in Run
      /\ run[w].pc = "reserve" /\ Sending(run[w]) /\ SentOK(run[w])
      /\ (Held(w) => HeldOK(run[w]))
  BY Typed DEF Reserve, At, Sending
<1>2. /\ UNCHANGED <<row, lease, present, readback, attempt, served, faults>>
      /\ reserved \in 0..Allowance /\ readback' \subseteq 0..Total
      /\ faults' \in 0..MaxFaults /\ present' \subseteq Entities
  BY DEF Reserve, table, IInv, TypeOK
<1>3. CASE reserved < Allowance /\ reserved' = reserved + 1 /\ Goto(w, "post")
  <2> DEFINE r == [run[w] EXCEPT !.pc = "post"]
  <2>1. r \in Run /\ r.pc = "post" /\ r.probe = run[w].probe /\ r.next = run[w].next
    BY <1>1 DEF Run, Pcs
  <2>2. run' = [run EXCEPT ![w] = r] /\ run'[w] = r
    BY <1>1, <1>3 DEF Goto
  <2> HIDE DEF r
  <2>3. SentOK(r)
    BY <1>1, <2>1 DEF SentOK
  <2>4. lease' = w => HeldOK(run[w])'
    BY <1>1, <1>2, <2>1, <2>2 DEF Held, HeldOK
  <2>5. reserved' \in 0..Allowance
    BY <1>2, <1>3 DEF Allowance
  <2> QED
    BY <1>1, <1>2, <2>1, <2>2, <2>3, <2>4, <2>5, MovesOn
<1>4. ASSUME NEW answer \in {"refused", "error"}, Answered(w, answer), UNCHANGED reserved
      PROVE  IInv'
  <2>1. PICK r \in Run :
              /\ run' = [run EXCEPT ![w] = r] /\ run'[w] = r
              /\ r.probe = run[w].probe /\ r.next = run[w].next /\ r.answer = answer
              /\ r.pc \in {"finish", "pass", "retry", "fail"}
              /\ r.pc = "finish" <=> r.probe \in Billable
              /\ r.pc = "pass" => answer = "valid"
    BY <1>1, <1>4, AnsweredMoves
  <2>2. SentOK(r)
    BY <1>1, <1>4, <2>1 DEF SentOK
  <2>3. lease' = w => HeldOK(run[w])'
    BY <1>1, <1>2, <1>4, <2>1 DEF Held, HeldOK
  <2> QED
    BY <1>1, <1>2, <1>4, <2>1, <2>2, <2>3, MovesOn
<1> QED
  BY <1>3, <1>4 DEF Reserve

LEMMA PostPreserves == ASSUME IInv, NEW w \in Workers, Post(w) PROVE IInv'
<1> USE VerificationAssumption
<1>1. /\ run \in [Workers -> Run] /\ run[w] \in Run /\ row \in Row
      /\ run[w].pc = "post" /\ Sending(run[w]) /\ SentOK(run[w])
      /\ (Held(w) => HeldOK(run[w]))
  BY Typed DEF Post, At, Sending
<1>2. PICK s \in Probes : s = run[w].probe
  BY <1>1, SenderFacts
<1>3. /\ served[s] = 0 /\ row.steps[s] = "started"
      /\ s \in Billable => attempt[s] = "started"
      /\ \A v \in Workers \ {w} : run[v].probe = s => ~ Sending(run[v])
  BY <1>1, <1>2, SenderFacts DEF SentOK
<1>4. /\ UNCHANGED <<row, lease, present, readback, attempt, reserved>>
      /\ reserved' \in 0..Allowance
      /\ attempt' \in [Probes -> Attempts] /\ served \in [Probes -> Nat]
  BY DEF Post, table, IInv, TypeOK
<1>5. PICK answer \in {"valid", "mismatch", "refused", "error"}, reached \in BOOLEAN :
          /\ answer \in {"valid", "mismatch"} => reached
          /\ answer # "valid" => faults < MaxFaults
          /\ faults' = IF answer = "valid" THEN faults ELSE faults + 1
          /\ served' = IF reached THEN [served EXCEPT ![s] = @ + 1] ELSE served
          /\ Answered(w, answer)
  BY <1>2 DEF Post
<1>6. faults' \in 0..MaxFaults
  BY <1>5 DEF IInv, TypeOK
<1>7. /\ served' \in [Probes -> Nat] /\ served'[s] <= 1
      /\ answer \in {"valid", "mismatch"} => served'[s] > 0
      /\ \A t \in Probes \ {s} : served'[t] = served[t]
  BY <1>3, <1>4, <1>5
<1>8. PICK r \in Run :
          /\ run' = [run EXCEPT ![w] = r] /\ run'[w] = r
          /\ r.probe = run[w].probe /\ r.next = run[w].next /\ r.answer = answer
          /\ r.pc \in {"finish", "pass", "retry", "fail"}
          /\ r.pc = "finish" <=> r.probe \in Billable
          /\ r.pc = "pass" => answer = "valid"
  BY <1>1, <1>5, AnsweredMoves
<1>9. PointOK(s)' /\ SentOK(run[w])'
  BY <1>2, <1>3, <1>4, <1>7, <1>8 DEF PointOK, SentOK
<1>10. Held(w) => HeldOK(run[w])'
  BY <1>1, <1>4, <1>8 DEF HeldOK
<1>11. OthersOK(w, s)
  BY <1>3 DEF IInv, Sent, SentOK, Sending, OthersOK
<1>12. OnlyProbe(s)
  BY <1>1, <1>4, <1>7 DEF OnlyProbe
<1> QED
  BY <1>2, <1>4, <1>6, <1>8, <1>9, <1>10, <1>11, <1>12, ProbeMoves

LEMMA FinishPreserves == ASSUME IInv, NEW w \in Workers, Finish(w) PROVE IInv'
<1> USE VerificationAssumption
<1>1. /\ run \in [Workers -> Run] /\ run[w] \in Run /\ row \in Row
      /\ run[w].pc = "finish" /\ Sending(run[w]) /\ SentOK(run[w])
      /\ (Held(w) => HeldOK(run[w]))
  BY Typed DEF Finish, At, Sending
<1>2. PICK s \in Probes : s = run[w].probe
  BY <1>1, SenderFacts
<1>3. /\ s \in Billable /\ attempt[s] = "started"
      /\ run[w].answer \in {"valid", "mismatch"} => served[s] > 0
      /\ PointOK(s)
      /\ \A v \in Workers \ {w} : run[v].probe = s => ~ Sending(run[v])
  BY <1>1, <1>2, SenderFacts DEF SentOK
<1>4. /\ UNCHANGED <<row, lease, present, readback, reserved, served, faults>>
      /\ reserved' \in 0..Allowance /\ faults' \in 0..MaxFaults
      /\ attempt \in [Probes -> Attempts] /\ served' \in [Probes -> Nat]
  BY DEF Finish, table, IInv, TypeOK
<1> DEFINE outcome == CASE run[w].answer = "valid" -> "validated"
                        [] run[w].answer = "mismatch" -> "mismatched"
                        [] OTHER -> "uncertain"
           pc == CASE run[w].answer = "valid" -> "pass"
                   [] run[w].answer = "error" -> "retry"
                   [] OTHER -> "fail"
           r == [run[w] EXCEPT !.pc = pc]
<1>5. attempt' = [attempt EXCEPT ![s] = outcome] /\ Goto(w, pc)
  BY <1>2, <1>3 DEF Finish
<1>6. /\ outcome \in {"validated", "mismatched", "uncertain"}
      /\ outcome \in {"validated", "mismatched"} => run[w].answer \in {"valid", "mismatch"}
      /\ pc \in {"pass", "retry", "fail"} /\ (pc = "pass" => outcome = "validated")
  OBVIOUS
<1> HIDE DEF outcome, pc
<1>7. /\ attempt' \in [Probes -> Attempts] /\ attempt'[s] = outcome
      /\ \A t \in Probes \ {s} : attempt'[t] = attempt[t]
  BY <1>4, <1>5, <1>6 DEF Attempts
<1>8. r \in Run /\ r.pc = pc /\ r.probe = s /\ r.next = run[w].next
  BY <1>1, <1>2, <1>6 DEF Run, Pcs
<1>9. run' = [run EXCEPT ![w] = r] /\ run'[w] = r
  BY <1>1, <1>5 DEF Goto
<1> HIDE DEF r
<1>10. row.steps[s] \in {"none", "started", "passed"} /\ served[s] \in Nat
  BY <1>1, <1>4 DEF Row
<1>11. PointOK(s)' /\ SentOK(run[w])'
  BY <1>3, <1>4, <1>6, <1>7, <1>8, <1>9, <1>10 DEF PointOK, SentOK
<1>12. Held(w) => HeldOK(run[w])'
  BY <1>1, <1>4, <1>6, <1>8, <1>9 DEF HeldOK
<1>13. OthersOK(w, s)
  BY <1>3 DEF IInv, Sent, SentOK, Sending, OthersOK
<1>14. OnlyProbe(s)
  BY <1>1, <1>4, <1>7 DEF OnlyProbe
<1>15. Sending(r) => r.probe = s
  BY <1>8
<1> QED
  BY <1>4, <1>8, <1>9, <1>11, <1>12, <1>13, <1>14, <1>15, ProbeMoves

LEMMA PassPreserves == ASSUME IInv, NEW w \in Workers, Pass(w) PROVE IInv'
<1> USE VerificationAssumption
<1>1. /\ run \in [Workers -> Run] /\ run[w] \in Run /\ row \in Row
      /\ run[w].pc = "pass" /\ SentOK(run[w]) /\ (Held(w) => HeldOK(run[w]))
  BY Typed DEF Pass, At
<1>2. PICK s \in Probes : s = run[w].probe
  BY <1>1 DEF SentOK
<1>3. served[s] > 0 /\ (s \in Billable => attempt[s] = "validated")
  BY <1>1, <1>2 DEF SentOK
<1>4. /\ UNCHANGED <<lease, present, readback, attempt, reserved, served, faults>>
      /\ reserved' \in 0..Allowance /\ faults' \in 0..MaxFaults
      /\ readback' \subseteq 0..Total
      /\ attempt \in [Probes -> Attempts] /\ served \in [Probes -> Nat]
  BY DEF Pass, table, billing, IInv, TypeOK
<1>5. CASE ~ Held(w)
  <2>1. Goto(w, "retry") /\ UNCHANGED row
    BY <1>5 DEF Pass
  <2>2. lease' # w
    BY <1>4, <1>5 DEF Held
  <2> QED
    BY <1>4, <2>1, <2>2, GotoPreserves DEF Pcs
<1>6. CASE Held(w)
  <2>1. /\ row' = [row EXCEPT !.steps[s] = "passed"]
        /\ run' = [run EXCEPT ![w].pc = "probe", ![w].sent = @ + 1]
    BY <1>2, <1>6 DEF Pass
  <2> DEFINE r == [run[w] EXCEPT !.pc = "probe", !.sent = @ + 1]
  <2>2. r \in Run /\ r.pc = "probe" /\ r.next = run[w].next
    <3>1. run[w].sent + 1 \in Nat
      BY <1>1 DEF Run
    <3> QED
      BY <1>1, <3>1 DEF Run, Pcs
  <2>3. run' = [run EXCEPT ![w] = r]
    BY <1>1, <2>1 DEF Run
  <2>4. run'[w] = r
    BY <1>1, <2>3
  <2> HIDE DEF r
  <2>5. /\ row' \in Row /\ row'.steps = [row.steps EXCEPT ![s] = "passed"]
        /\ row'.status = row.status /\ row'.kind = row.kind /\ row'.prepared = row.prepared
        /\ row'.staged = row.staged
    BY <1>1, <2>1 DEF Row
  <2>6. row'.steps[s] = "passed" /\ \A t \in Probes \ {s} : row'.steps[t] = row.steps[t]
    BY <1>1, <2>5 DEF Row
  <2>7. OnlyProbe(s)
    BY <1>4, <2>5, <2>6 DEF OnlyProbe
  <2>8. PointOK(s)
    BY DEF IInv, SentOnce, ChargeIsKept, PassedIsAnswered, Untouched, PointOK
  <2>9. PointOK(s)' /\ SentOK(run[w])'
    BY <1>3, <1>4, <2>2, <2>4, <2>6, <2>8 DEF PointOK, SentOK
  <2>10. HeldOK(run[w])'
    BY <1>1, <1>6, <2>2, <2>4, <2>5 DEF HeldOK
  <2>11. served[s] \in Nat
    BY <1>4
  <2>12. OthersOK(w, s)
    BY <1>3, <1>4, <2>11 DEF IInv, Sent, SentOK, Sending, OthersOK
  <2>13. ~ Sending(r)
    BY <2>2 DEF Sending
  <2> QED
    BY <1>4, <2>2, <2>3, <2>7, <2>9, <2>10, <2>12, <2>13, ProbeMoves
<1> QED
  BY <1>5, <1>6

--------------------------------------------------------------------------
\* Every step keeps the invariant.
LEMMA NextOK == IInv /\ [Next]_vars => IInv'
<1> SUFFICES ASSUME IInv, [Next]_vars PROVE IInv'
  OBVIOUS
<1>1. ASSUME NEW w \in Workers, RunStep(w) PROVE IInv'
  BY <1>1, BeginPreserves, StagePreserves, ReadPreserves, ReceiptPreserves, CommitPreserves,
     ProbePreserves, OpenPreserves, ReservePreserves, PostPreserves, FinishPreserves,
     PassPreserves, RetryPreserves, FailPreserves DEF RunStep
<1>2. CASE Next
  BY <1>1, <1>2, ClaimPreserves, LapsePreserves, CrashPreserves DEF Next
<1>3. CASE UNCHANGED vars
  BY <1>3 DEF vars, IInv, TypeOK, SentOnce, ChargeIsKept, PassedIsAnswered, Sent, SentOK,
              OneSender, Sending, Untouched, Holding, HeldOK, Held, RowOK, AllPassed, Planned
<1> QED
  BY <1>2, <1>3

\* The invariant holds of every behaviour.
THEOREM VerificationInvariant == Spec => []IInv
BY InitOK, NextOK, PTL DEF Spec

\* The publication, its billing record, the table and the runs stay well formed.
THEOREM VerificationTyped == Spec => []TypeOK
<1>1. IInv => TypeOK
  BY DEF IInv
<1> QED
  BY <1>1, VerificationInvariant, PTL

\* No probe reaches the gateway twice, however many runs crash, lose their lease or
\* go on without it.
THEOREM ProbesSentOnce == Spec => []SentOnce
<1>1. IInv => SentOnce
  BY DEF IInv
<1> QED
  BY <1>1, VerificationInvariant, PTL

\* A billed request is in the billing record before it is sent, and an exact charge
\* stands for a request that was served.
THEOREM ChargesKept == Spec => []ChargeIsKept
<1>1. IInv => ChargeIsKept
  BY DEF IInv
<1> QED
  BY <1>1, VerificationInvariant, PTL

\* A probe is marked passed only when it was answered for the request that was sent.
THEOREM PassedAnswered == Spec => []PassedIsAnswered
<1>1. IInv => PassedIsAnswered
  BY DEF IInv
<1> QED
  BY <1>1, VerificationInvariant, PTL

\* A publication is promoting only with its whole snapshot staged and read back and
\* every planned probe passed.
THEOREM PromotedComplete == Spec => []PromotedIsComplete
<1>1. IInv => PromotedIsComplete
  BY DEF IInv, RowOK, PromotedIsComplete, AllPassed
<1> QED
  BY <1>1, VerificationInvariant, PTL
=============================================================================
