-------------------------- MODULE PublicationProofs --------------------------
(***************************************************************************)
(* Theorems about Publication, for any publications, specs, workers and    *)
(* bounds, and about its composition with ReleaseRollback.                 *)
(*                                                                         *)
(* A step changes the row of one publication, the run of one worker or     *)
(* both; RunMoves and TransitionPreserves show once that a run that goes   *)
(* on and a run that ends with a write keep the invariant, and every       *)
(* action of a worker is an instance of one of them or has a lemma.  The   *)
(* second part adds what the probes have shown, the third the rollbacks    *)
(* that nothing overtakes, the fourth all of them.                         *)
(***************************************************************************)
EXTENDS ReleaseRollback, TLAPS

\* The statuses a worker acts on.
Busy == {"queued", "validating", "provisioning", "building_revision", "verifying", "promoting"}

\* What a run has established at its program counter.
RunOK(r) ==
    r.pc # "idle" =>
        /\ r.row.status \in Busy
        /\ r.row.status \in {"building_revision", "verifying", "promoting"} => r.row.revised
        /\ r.pc \in {"promote", "readback", "activate"} => r.row.status = "promoting"
        /\ r.pc = "operations" => r.row.status = "building_revision"
        /\ r.pc = "commit" => /\ r.row.status # "promoting"
                              /\ r.row.status = "provisioning" => r.row.revised

\* Every run is where its row allows it to be.
RunsOK == \A w \in Workers : RunOK(run[w])

\* A live lease keeps the row as it was claimed.
HeldRow == \A w \in Workers :
    Held(w) /\ run[w].pc # "idle" => pub[run[w].pub].status = run[w].row.status

\* APIM serves the effective release or the one that is being promoted.
ServedOrPromoting ==
    current = effective \/ (current \in Publications /\ pub[current].status = "promoting")

\* Who is about to activate a revision has seen it served, and it still is.
SeenServed == \A w \in Workers :
    Held(w) /\ run[w].pc = "activate" => current = run[w].pub

IInv == /\ TypeOK /\ OneInFlight /\ NeverStranded /\ EffectiveIsActive /\ CredentialErased
        /\ RunsOK /\ HeldRow /\ ServedOrPromoting /\ SeenServed

\* Init establishes the invariant.
LEMMA InitOK == Init => IInv
<1> SUFFICES ASSUME Init PROVE IInv
  OBVIOUS
<1> USE PublicationAssumption
<1>1. InitSpec \in Specs /\ EarlierSpec \in Specs
  BY DEF InitSpec, EarlierSpec
<1>2. \A p \in Publications : InitRow(p) \in Row
  <2>1. \A s \in Specs : NewRow(s) \in Row /\ NewRow(s).revised = FALSE
    BY DEF Row, NewRow, NoBase, Base, Revisions, Policies, Statuses
  <2>2. \A r \in Row, st \in Statuses : [r EXCEPT !.status = st, !.revised = TRUE] \in Row
    BY DEF Row
  <2>3. \A r \in Row, st \in Statuses : [r EXCEPT !.status = st] \in Row
    BY DEF Row
  <2> QED
    BY <1>1, <2>1, <2>2, <2>3 DEF InitRow, Statuses
<1>3. \A p \in Publications : InitRow(p).status \in {"none", "active", "superseded"}
  BY DEF InitRow, NewRow
<1>4. \A p \in Publications : InitRow(p).status = "active" <=> p = Released
  BY DEF InitRow, NewRow
<1>5. \A p \in Publications : InitRow(p).status # "none" => InitRow(p).revised
  BY DEF InitRow, NewRow
<1>6. \A v \in Revisions : InitContent(v) \in Content
  BY <1>2 DEF InitContent, Built, Missing, Content, Policies, Revisions, Row
<1>7. \A p \in Publications : p \in Revisions
  BY DEF Revisions
<1>8. TypeOK
  <2>1. pub \in [Publications -> Row]
    BY <1>2 DEF Init
  <2>2. outbox \in [Publications -> Outbox]
    BY DEF Init, Outbox, Completed
  <2>3. effective \in Revisions /\ current \in Revisions /\ secret \subseteq Publications
    BY DEF Init, Revisions
  <2>4. content \in [Revisions -> Content] /\ passed \in [Publications -> SUBSET Content]
    BY <1>6, <1>7 DEF Init
  <2>5. run \in [Workers -> Run]
    <3>1. (CHOOSE p \in Publications : TRUE) \in Publications
      OBVIOUS
    <3>2. NewRow(InitSpec) \in Row
      BY <1>1 DEF Row, NewRow, NoBase, Base, Revisions, Policies, Statuses
    <3> QED
      BY <3>1, <3>2 DEF Init, Run, Pcs
  <2>6. retries \in 0..MaxRetries /\ faults \in 0..MaxFaults
    BY DEF Init
  <2> QED
    BY <2>1, <2>2, <2>3, <2>4, <2>5, <2>6, <1>3, <1>5 DEF TypeOK, Init
<1>9. RunsOK /\ HeldRow /\ SeenServed
  BY DEF Init, RunsOK, RunOK, HeldRow, SeenServed
<1>10. OneInFlight /\ NeverStranded
  BY <1>3 DEF OneInFlight, NeverStranded, Init, Completed
<1>11. EffectiveIsActive /\ CredentialErased /\ ServedOrPromoting
  BY <1>4 DEF EffectiveIsActive, CredentialErased, ServedOrPromoting, Init
<1> QED
  BY <1>8, <1>9, <1>10, <1>11 DEF IInv

--------------------------------------------------------------------------
\* A run that goes on, or ends without a write, keeps the invariant.
LEMMA RunMoves ==
    ASSUME IInv, NEW w \in Workers, NEW r \in Run,
           run[w].pc # "idle", RunOK(r),
           r.pub = run[w].pub, r.row.status = run[w].row.status,
           r.pc = "activate" => current = r.pub,
           run' = [run EXCEPT ![w] = r],
           UNCHANGED <<pub, outbox, secret, effective, current, retries>>,
           content' \in [Revisions -> Content],
           passed' \in [Publications -> SUBSET Content],
           faults' \in 0..MaxFaults
    PROVE  IInv'
<1>1. run \in [Workers -> Run]
  BY DEF IInv, TypeOK
<1>2. TypeOK'
  BY <1>1 DEF IInv, TypeOK
<1>3. (OneInFlight /\ NeverStranded /\ EffectiveIsActive /\ CredentialErased)'
  BY DEF IInv, OneInFlight, NeverStranded, EffectiveIsActive, CredentialErased
<1>4. run'[w] = r /\ \A v \in Workers : v # w => run'[v] = run[v]
  BY <1>1
<1>5. RunsOK'
  BY <1>4 DEF IInv, RunsOK
<1>6. (HeldRow /\ SeenServed)'
  BY <1>4 DEF IInv, HeldRow, SeenServed, Held
<1>7. ServedOrPromoting'
  BY DEF IInv, ServedOrPromoting
<1> QED
  BY <1>2, <1>3, <1>5, <1>6, <1>7 DEF IInv

\* The rows that a run may write.
Allowed(w, row) ==
    LET from == run[w].row.status
        later == {"building_revision", "verifying", "promoting"}
    IN  /\ row \in Row
        /\ row.status \in Busy \union {"failed", "awaiting_authorization"}
        /\ row.status \in later \union {"awaiting_authorization"} => row.revised
        /\ from = "queued" => row.status \in {"queued", "validating", "failed"}
        /\ from = "validating" => row.status \in {"validating", "provisioning", "failed"}
        /\ row.status = "promoting" \/ from # "promoting" \/ current # run[w].pub

\* A run that ends with a write keeps the invariant.
LEMMA TransitionPreserves ==
    ASSUME IInv, NEW w \in Workers, NEW row,
           run[w].pc # "idle", Held(w) => Allowed(w, row), Transition(w, row),
           UNCHANGED <<effective, current, content, passed, retries, faults>>
    PROVE  IInv'
<1> DEFINE p == run[w].pub
<1>1. /\ run \in [Workers -> Run] /\ run[w] \in Run /\ p \in Publications
      /\ pub \in [Publications -> Row] /\ outbox \in [Publications -> Outbox]
  BY DEF IInv, TypeOK, Run
<1>2. run' = [run EXCEPT ![w].pc = "idle"]
  BY DEF Transition, Goto
<1>3. CASE ~ (Held(w) /\ pub[p].status = run[w].row.status)
  <2> DEFINE r == [run[w] EXCEPT !.pc = "idle"]
  <2>1. r \in Run /\ r.pc = "idle" /\ r.pub = p /\ r.row = run[w].row
    BY <1>1 DEF Run, Pcs
  <2>2. run' = [run EXCEPT ![w] = r]
    BY <1>2
  <2>3. UNCHANGED <<pub, outbox, secret>>
    BY <1>3 DEF Transition, queue
  <2>4. RunOK(r)
    BY <2>1 DEF RunOK
  <2> HIDE DEF r
  <2> QED
    BY <2>1, <2>2, <2>3, <2>4, RunMoves DEF IInv, TypeOK
<1>4. CASE Held(w) /\ pub[p].status = run[w].row.status
  <2>0. Allowed(w, row)
    BY <1>4
  <2> DEFINE o == IF LeavesOutbox(row.status) THEN Completed ELSE Waiting
  <2>1. /\ pub' = [pub EXCEPT ![p] = row] /\ outbox' = [outbox EXCEPT ![p] = o]
        /\ secret' = IF ErasesSecret(run[w].row.status, row.status) THEN secret \ {p} ELSE secret
    BY <1>4 DEF Transition
  <2>2. /\ pub'[p] = row /\ \A q \in Publications : q # p => pub'[q] = pub[q]
        /\ outbox'[p] = o /\ \A q \in Publications : q # p => outbox'[q] = outbox[q]
    BY <1>1, <2>1
  <2>3. /\ o \in Outbox /\ o.owner = "nobody"
        /\ o.status \in {"queued", "leased"} <=> row.status \in Busy
    BY <2>0 DEF Allowed, Outbox, LeavesOutbox, Terminal, Completed, Waiting, Busy
  <2>4. /\ run'[w].pc = "idle" /\ run'[w].pub = p /\ run'[w] \in Run
        /\ \A v \in Workers : v # w => run'[v] = run[v]
    BY <1>1, <1>2 DEF Run, Pcs
  <2>5. run[w].row.status \in Busy
    BY DEF IInv, RunsOK, RunOK
  <2> HIDE DEF o, p
  <2>6. TypeOK'
    <3>1. pub' \in [Publications -> Row] /\ outbox' \in [Publications -> Outbox]
      BY <1>1, <2>0, <2>1, <2>3 DEF Allowed
    <3>2. run' \in [Workers -> Run]
      BY <1>1, <1>2, <2>4
    <3>3. secret' \subseteq Publications
      BY <2>1 DEF IInv, TypeOK
    <3>4. \A q \in Publications :
             pub'[q].status \in {"building_revision", "verifying", "awaiting_authorization",
                                 "promoting", "active", "superseded"} => pub'[q].revised
      BY <2>0, <2>2 DEF IInv, TypeOK, Allowed, Busy
    <3> QED
      BY <3>1, <3>2, <3>3, <3>4 DEF IInv, TypeOK
  <2>7. OneInFlight'
    BY <1>1, <1>4, <2>2, <2>5 DEF IInv, OneInFlight, Busy, p
  <2>8. NeverStranded'
    BY <1>1, <2>2, <2>3 DEF IInv, NeverStranded, Busy
  <2>9. EffectiveIsActive'
    BY <1>1, <1>4, <2>0, <2>2, <2>5 DEF IInv, EffectiveIsActive, Busy, Allowed, p
  <2>10. CredentialErased'
    BY <1>1, <1>4, <2>0, <2>1, <2>2, <2>5
       DEF IInv, CredentialErased, Allowed, ErasesSecret, Terminal, Busy, p
  <2>11. RunsOK'
    BY <2>4 DEF IInv, RunsOK, RunOK
  <2>12. \A v \in Workers : Held(v)' => v # w /\ Held(v) /\ run[v].pub # p
    BY <1>1, <2>2, <2>3, <2>4, PublicationAssumption DEF Held, Run, p
  <2>13. (HeldRow /\ SeenServed)'
    BY <2>2, <2>4, <2>12, <1>1 DEF IInv, HeldRow, SeenServed, Run
  <2>14. ServedOrPromoting'
    BY <1>1, <1>4, <2>0, <2>2 DEF IInv, ServedOrPromoting, Allowed, p
  <2> QED
    BY <2>6, <2>7, <2>8, <2>9, <2>10, <2>11, <2>13, <2>14 DEF IInv
<1> QED
  BY <1>3, <1>4

--------------------------------------------------------------------------
\* A run that only changes its program counter.
LEMMA GotoPreserves ==
    ASSUME IInv, NEW w \in Workers, NEW pc \in Pcs,
           run[w].pc # "idle", RunOK([run[w] EXCEPT !.pc = pc]),
           pc = "activate" => current = run[w].pub,
           Goto(w, pc),
           UNCHANGED <<pub, outbox, secret, effective, current, retries>>,
           content' \in [Revisions -> Content],
           passed' \in [Publications -> SUBSET Content],
           faults' \in 0..MaxFaults
    PROVE  IInv'
<1> DEFINE r == [run[w] EXCEPT !.pc = pc]
<1>1. run[w] \in Run
  BY DEF IInv, TypeOK
<1>2. r \in Run /\ r.pc = pc /\ r.pub = run[w].pub /\ r.row = run[w].row
  BY <1>1 DEF Run
<1>3. run' = [run EXCEPT ![w] = r]
  BY DEF Goto
<1> HIDE DEF r
<1> QED
  BY <1>2, <1>3, RunMoves DEF r

\* The same when nothing but the run changes, or what the probes passed.
LEMMA ContinuePreserves ==
    ASSUME IInv, NEW w \in Workers, NEW pc \in Pcs,
           run[w].pc # "idle", RunOK([run[w] EXCEPT !.pc = pc]),
           pc = "activate" => current = run[w].pub,
           Continue(w, pc),
           UNCHANGED <<effective, current, content, retries>>,
           passed' \in [Publications -> SUBSET Content],
           faults' \in 0..MaxFaults
    PROVE  IInv'
<1>1. Goto(w, pc) /\ UNCHANGED <<pub, outbox, secret>>
  BY DEF Continue, queue
<1>2. content' \in [Revisions -> Content]
  BY DEF IInv, TypeOK
<1> QED
  BY <1>1, <1>2, GotoPreserves

\* What a run at work relies on.
LEMMA AtWork ==
    ASSUME IInv, NEW w \in Workers, run[w].pc # "idle"
    PROVE  /\ run[w] \in Run /\ run[w].pub \in Publications /\ run[w].row \in Row
           /\ run[w].row.status \in Busy
           /\ pub[run[w].pub] \in Row
           /\ run[w].row.status \in {"building_revision", "verifying", "promoting"} =>
                  run[w].row.revised
           /\ \A pc : /\ [run[w] EXCEPT !.pc = pc].pc = pc
                      /\ [run[w] EXCEPT !.pc = pc].row = run[w].row
                      /\ [run[w] EXCEPT !.pc = pc].pub = run[w].pub
BY DEF IInv, TypeOK, RunsOK, RunOK, Run

\* A write that keeps the columns, or gives a retried or failed row.
LEMMA ToAllowed ==
    ASSUME IInv, NEW w \in Workers, run[w].pc # "idle",
           NEW status \in {run[w].row.status, "failed", "awaiting_authorization"},
           status = "awaiting_authorization" => run[w].row.status = "verifying",
           status = "failed" =>
               run[w].row.status # "promoting" \/ current # run[w].pub,
           Held(w)
    PROVE  Allowed(w, To(w, status))
<1>1. pub[run[w].pub].status = run[w].row.status
  BY DEF IInv, HeldRow
<1>2. pub[run[w].pub] \in Row /\ run[w].row.status \in Busy /\ run[w].pub \in Publications
  BY AtWork
<1>3. /\ To(w, status) \in Row /\ To(w, status).status = status
      /\ To(w, status).revised = pub[run[w].pub].revised
  BY <1>2 DEF To, Row, Statuses, Busy
<1>4. run[w].row.status \in {"building_revision", "verifying", "promoting"} =>
         pub[run[w].pub].revised
  BY <1>1, <1>2 DEF IInv, TypeOK
<1> QED
  BY <1>1, <1>2, <1>3, <1>4 DEF Allowed, Busy

--------------------------------------------------------------------------
\* The steps of a run, one lemma for each.
LEMMA BeginPreserves == ASSUME IInv, NEW w \in Workers, Begin(w) PROVE IInv'
<1>1. run[w].pc = "begin" /\ run[w].pc # "idle"
  BY DEF Begin
<1>2. UNCHANGED <<effective, current, content, passed, retries, faults>>
  BY DEF Begin
<1>3. passed' \in [Publications -> SUBSET Content] /\ faults' \in 0..MaxFaults
  BY <1>2 DEF IInv, TypeOK
<1>4. \A pc \in {"idle", "work"} : RunOK([run[w] EXCEPT !.pc = pc])
  BY <1>1, AtWork DEF RunOK
<1>5. CASE ~ Held(w) /\ Continue(w, "idle")
  BY <1>1, <1>2, <1>3, <1>4, <1>5, ContinuePreserves DEF Pcs
<1>6. CASE Held(w) /\ OutOfAttempts(run[w].row) /\ Transition(w, To(w, "failed"))
  <2>1. run[w].row.status # "promoting"
    BY <1>1, <1>6, AtWork DEF OutOfAttempts
  <2>2. Allowed(w, To(w, "failed"))
    BY <1>1, <1>6, <2>1, ToAllowed
  <2> QED
    BY <1>1, <1>2, <1>6, <2>2, TransitionPreserves
<1>7. CASE Held(w) /\ ~ OutOfAttempts(run[w].row) /\ Continue(w, "work")
  BY <1>1, <1>2, <1>3, <1>4, <1>7, ContinuePreserves DEF Pcs
<1> QED
  BY <1>5, <1>6, <1>7 DEF Begin

\* In validating a run only goes on.
LEMMA ValidatePreserves == ASSUME IInv, NEW w \in Workers, Validate(w) PROVE IInv'
<1>1. /\ run[w].pc # "idle" /\ run[w].row.status = "validating" /\ Continue(w, "commit")
      /\ UNCHANGED <<effective, current, content, passed, retries, faults>>
  BY DEF Validate, At
<1>2. passed' \in [Publications -> SUBSET Content] /\ faults' \in 0..MaxFaults
  BY <1>1 DEF IInv, TypeOK
<1>3. RunOK([run[w] EXCEPT !.pc = "commit"])
  BY <1>1, AtWork DEF RunOK
<1> QED
  BY <1>1, <1>2, <1>3, ContinuePreserves DEF Pcs

\* Recording the base changes the run alone.
LEMMA RecordBasePreserves == ASSUME IInv, NEW w \in Workers, RecordBase(w) PROVE IInv'
<1> DEFINE b == [revision |-> current, parent |-> content[current].parent]
           r == [run[w] EXCEPT !.pc = "commit", !.row.base = b]
<1>1. /\ run[w].pc # "idle" /\ run[w].row.status = "queued"
      /\ UNCHANGED <<pub, outbox, secret, effective, current, content, passed, retries, faults>>
  BY DEF RecordBase, At
<1>2. run' = [run EXCEPT ![w] = r]
  BY DEF RecordBase
<1>3. b \in Base
  BY DEF IInv, TypeOK, Content, Base
<1>4. run[w] \in Run /\ run[w].row \in Row
  BY <1>1, AtWork
<1>5. [run[w].row EXCEPT !.base = b] \in Row /\ [run[w].row EXCEPT !.base = b].status = "queued"
  BY <1>1, <1>3, <1>4 DEF Row
<1> HIDE DEF b
<1>6. /\ r \in Run /\ r.pc = "commit" /\ r.pub = run[w].pub
      /\ r.row = [run[w].row EXCEPT !.base = b]
  BY <1>4, <1>5 DEF Run, Pcs
<1> HIDE DEF r
<1>7. RunOK(r)
  BY <1>5, <1>6 DEF RunOK, Busy
<1>8. /\ content' \in [Revisions -> Content] /\ passed' \in [Publications -> SUBSET Content]
      /\ faults' \in 0..MaxFaults
  BY <1>1 DEF IInv, TypeOK
<1> QED
  BY <1>1, <1>2, <1>5, <1>6, <1>7, <1>8, RunMoves

\* Creating the revision changes its policies and marks the run revised.
LEMMA ProvisionPreserves == ASSUME IInv, NEW w \in Workers, Provision(w) PROVE IInv'
<1> DEFINE r == [run[w] EXCEPT !.pc = "commit", !.row.revised = TRUE]
<1>1. /\ run[w].pc # "idle" /\ run[w].row.status = "provisioning"
      /\ UNCHANGED <<pub, outbox, secret, effective, current, passed, retries, faults>>
  BY DEF Provision, At
<1>2. run' = [run EXCEPT ![w] = r]
  BY DEF Provision
<1>3. run[w] \in Run /\ run[w].row \in Row /\ run[w].pub \in Publications
  BY <1>1, AtWork
<1>4. /\ [run[w].row EXCEPT !.revised = TRUE] \in Row
      /\ [run[w].row EXCEPT !.revised = TRUE].status = "provisioning"
      /\ [run[w].row EXCEPT !.revised = TRUE].revised
  BY <1>1, <1>3 DEF Row
<1>5. /\ r \in Run /\ r.pc = "commit" /\ r.pub = run[w].pub
      /\ r.row = [run[w].row EXCEPT !.revised = TRUE]
  BY <1>3, <1>4 DEF Run, Pcs
<1> HIDE DEF r
<1>6. RunOK(r)
  BY <1>4, <1>5 DEF RunOK, Busy
<1>7. content' \in [Revisions -> Content]
  BY <1>3 DEF IInv, TypeOK, Provision, Revisions
<1>8. passed' \in [Publications -> SUBSET Content] /\ faults' \in 0..MaxFaults
  BY <1>1 DEF IInv, TypeOK
<1> QED
  BY <1>1, <1>2, <1>4, <1>5, <1>6, <1>7, <1>8, RunMoves

\* Writing the parent policy changes no row.
LEMMA PutParentPreserves == ASSUME IInv, NEW w \in Workers, PutParent(w) PROVE IInv'
<1>1. /\ run[w].pc # "idle" /\ run[w].row.status = "building_revision"
      /\ UNCHANGED <<pub, outbox, secret, effective, current, passed, retries, faults>>
  BY DEF PutParent, At
<1>2. run[w].pub \in Revisions /\ run[w].row.spec \in Policies
  BY <1>1, AtWork DEF Row, Revisions, Policies
<1>3. content' \in [Revisions -> Content]
  BY <1>2 DEF IInv, TypeOK, PutParent, Content
<1>4. passed' \in [Publications -> SUBSET Content] /\ faults' \in 0..MaxFaults
  BY <1>1 DEF IInv, TypeOK
<1>5. \A pc \in {"operations", "fail"} : RunOK([run[w] EXCEPT !.pc = pc])
  BY <1>1, AtWork DEF RunOK
<1>6. \E pc \in {"operations", "fail"} : Goto(w, pc)
  BY DEF PutParent
<1> QED
  BY <1>1, <1>3, <1>4, <1>5, <1>6, GotoPreserves DEF Pcs

\* Writing the operation policies changes no row.
LEMMA PutOperationsPreserves == ASSUME IInv, NEW w \in Workers, PutOperations(w) PROVE IInv'
<1>1. /\ run[w].pc # "idle" /\ Goto(w, "commit") /\ run[w].row.status = "building_revision"
      /\ UNCHANGED <<pub, outbox, secret, effective, current, passed, retries, faults>>
  BY DEF PutOperations, IInv, RunsOK, RunOK
<1>2. run[w].pub \in Revisions /\ run[w].row.spec \in Policies
  BY <1>1, AtWork DEF Row, Revisions, Policies
<1>3. content' \in [Revisions -> Content]
  BY <1>2 DEF IInv, TypeOK, PutOperations, Content
<1>4. passed' \in [Publications -> SUBSET Content] /\ faults' \in 0..MaxFaults
  BY <1>1 DEF IInv, TypeOK
<1>5. RunOK([run[w] EXCEPT !.pc = "commit"])
  BY <1>1, AtWork DEF RunOK
<1> QED
  BY <1>1, <1>3, <1>4, <1>5, GotoPreserves DEF Pcs

\* Probing goes on, or ends with the same or a waiting status.
LEMMA ProbePreserves == ASSUME IInv, NEW w \in Workers, Probe(w) PROVE IInv'
<1>1. /\ run[w].pc # "idle" /\ run[w].row.status = "verifying"
      /\ UNCHANGED <<effective, current, content, retries, faults>>
  BY DEF Probe, At
<1>2. run[w].pub \in Publications /\ run[w].pub \in Revisions
  BY <1>1, AtWork DEF Revisions
<1>3. faults' \in 0..MaxFaults /\ passed \in [Publications -> SUBSET Content]
  BY <1>1 DEF IInv, TypeOK
<1>4. \A pc \in {"commit", "fail"} : RunOK([run[w] EXCEPT !.pc = pc])
  BY <1>1, AtWork DEF RunOK
<1>5. CASE Continue(w, "fail") /\ UNCHANGED passed
  BY <1>1, <1>3, <1>4, <1>5, ContinuePreserves DEF Pcs
<1>6. CASE Continue(w, "commit") /\ ProbeResult(run[w].pub)
  <2>1. content[run[w].pub] \in Content
    BY <1>2 DEF IInv, TypeOK
  <2>2. passed' \in [Publications -> SUBSET Content]
    BY <1>2, <1>3, <1>6, <2>1 DEF ProbeResult
  <2> QED
    BY <1>1, <1>3, <1>4, <1>6, <2>2, ContinuePreserves DEF Pcs
<1>7. ASSUME NEW to \in {"verifying", "awaiting_authorization"}, Transition(w, To(w, to)),
             UNCHANGED passed
      PROVE  IInv'
  <2>1. Held(w) => Allowed(w, To(w, to))
    BY <1>1, ToAllowed
  <2> QED
    BY <1>1, <1>7, <2>1, TransitionPreserves
<1> QED
  BY <1>5, <1>6, <1>7 DEF Probe

\* Only a revision that is not current is failed here.
LEMMA CheckPromotedPreserves == ASSUME IInv, NEW w \in Workers, CheckPromoted(w) PROVE IInv'
<1>1. /\ run[w].pc # "idle" /\ run[w].row.status = "promoting"
      /\ UNCHANGED <<effective, current, content, passed, retries, faults>>
  BY DEF CheckPromoted, At
<1>2. passed' \in [Publications -> SUBSET Content] /\ faults' \in 0..MaxFaults
  BY <1>1 DEF IInv, TypeOK
<1>3. \A pc \in {"fail", "readback", "promote"} : RunOK([run[w] EXCEPT !.pc = pc])
  BY <1>1, AtWork DEF RunOK
<1>4. CASE current # run[w].pub /\ Transition(w, To(w, "failed"))
  <2>1. Held(w) => Allowed(w, To(w, "failed"))
    BY <1>1, <1>4, ToAllowed
  <2> QED
    BY <1>1, <1>4, <2>1, TransitionPreserves
<1>5. CASE \E pc \in {"fail", "readback", "promote"} : Continue(w, pc)
  BY <1>1, <1>2, <1>3, <1>5, ContinuePreserves DEF Pcs
<1> QED
  BY <1>4, <1>5 DEF CheckPromoted

\* Reading back sends only who saw the revision served to activate.
LEMMA ReadbackPreserves == ASSUME IInv, NEW w \in Workers, Readback(w) PROVE IInv'
<1>1. /\ run[w].pc # "idle" /\ run[w].row.status = "promoting"
      /\ UNCHANGED <<effective, current, content, passed, retries, faults>>
  BY DEF Readback, IInv, RunsOK, RunOK
<1>2. passed' \in [Publications -> SUBSET Content] /\ faults' \in 0..MaxFaults
  BY <1>1 DEF IInv, TypeOK
<1>3. \A pc \in {"activate", "retry"} : RunOK([run[w] EXCEPT !.pc = pc])
  BY <1>1, AtWork DEF RunOK
<1>4. CASE current = run[w].pub /\ Continue(w, "activate")
  BY <1>1, <1>2, <1>3, <1>4, ContinuePreserves DEF Pcs
<1>5. CASE Continue(w, "retry")
  BY <1>1, <1>2, <1>3, <1>5, ContinuePreserves DEF Pcs
<1> QED
  BY <1>4, <1>5 DEF Readback

\* A promotion under the lease, answered or not.
LEMMA PromotionPreserves ==
    ASSUME IInv, NEW w \in Workers, NEW pc \in {"readback", "retry"},
           run[w].pc = "promote", Held(w), Continue(w, pc),
           current' \in {current, run[w].pub},
           UNCHANGED <<effective, content, passed, retries>>,
           faults' \in 0..MaxFaults
    PROVE  IInv'
<1> DEFINE p == run[w].pub
<1>1. run[w].row.status = "promoting"
  BY DEF IInv, RunsOK, RunOK
<1>2. p \in Publications /\ run[w] \in Run
  BY AtWork
<1>3. pub[p].status = "promoting"
  BY <1>1 DEF IInv, HeldRow
<1>4. run' = [run EXCEPT ![w].pc = pc] /\ UNCHANGED <<pub, outbox, secret>>
  BY DEF Continue, Goto, queue
<1>5. /\ run'[w].pc = pc /\ run'[w].pub = p /\ run'[w].row = run[w].row /\ run'[w] \in Run
      /\ \A v \in Workers : v # w => run'[v] = run[v]
      /\ run' \in [Workers -> Run]
  BY <1>2, <1>4 DEF IInv, TypeOK, Run, Pcs
<1>6. TypeOK'
  BY <1>2, <1>4, <1>5 DEF IInv, TypeOK, Revisions
<1>7. (OneInFlight /\ NeverStranded /\ EffectiveIsActive /\ CredentialErased)'
  BY <1>4 DEF IInv, OneInFlight, NeverStranded, EffectiveIsActive, CredentialErased
<1>8. RunsOK'
  BY <1>1, <1>5, AtWork DEF IInv, RunsOK, RunOK
<1>9. HeldRow'
  BY <1>4, <1>5, <1>1, <1>3 DEF IInv, HeldRow, Held
<1>10. ServedOrPromoting'
  BY <1>2, <1>3, <1>4 DEF IInv, ServedOrPromoting
<1>11. SeenServed'
  <2> SUFFICES ASSUME NEW v \in Workers, Held(v)', run'[v].pc = "activate"
               PROVE  current' = run'[v].pub
    BY DEF SeenServed
  <2>1. v # w /\ run'[v] = run[v] /\ Held(v)
    BY <1>4, <1>5 DEF Held
  <2>2. run[v].pub \in Publications /\ run[v].row.status = "promoting"
    BY <2>1, AtWork DEF IInv, RunsOK, RunOK
  <2>3. pub[run[v].pub].status = "promoting"
    BY <2>1, <2>2 DEF IInv, HeldRow
  <2>4. run[v].pub = p
    BY <1>2, <1>3, <2>2, <2>3 DEF IInv, OneInFlight
  <2> QED
    BY <2>1, <2>4 DEF Held
<1> QED
  BY <1>6, <1>7, <1>8, <1>9, <1>10, <1>11 DEF IInv

\* The holder of the lease promotes, anyone else stops.
LEMMA PromotePreserves == ASSUME IInv, NEW w \in Workers, Promote(w) PROVE IInv'
<1>1. /\ run[w].pc = "promote" /\ UNCHANGED <<effective, content, passed, retries, faults>>
  BY DEF Promote
<1>2. passed' \in [Publications -> SUBSET Content] /\ faults' \in 0..MaxFaults
  BY <1>1 DEF IInv, TypeOK
<1>3. CASE Continue(w, "idle") /\ UNCHANGED current
  <2>1. RunOK([run[w] EXCEPT !.pc = "idle"])
    BY <1>1, AtWork DEF RunOK
  <2> QED
    BY <1>1, <1>2, <1>3, <2>1, ContinuePreserves DEF Pcs
<1>4. CASE Held(w) /\ Continue(w, "readback") /\ current' = run[w].pub
  BY <1>1, <1>2, <1>4, PromotionPreserves
<1> QED
  BY <1>3, <1>4 DEF Promote

\* One more fault stays within its bound.
LEMMA OneMoreFault ==
    ASSUME IInv, faults < MaxFaults, faults' = faults + 1 PROVE faults' \in 0..MaxFaults
BY PublicationAssumption DEF IInv, TypeOK

\* A promotion whose answer is lost is a promotion or nothing.
LEMMA PromoteUnansweredPreserves ==
    ASSUME IInv, NEW w \in Workers, PromoteUnanswered(w) PROVE IInv'
<1>1. faults' \in 0..MaxFaults
  BY OneMoreFault DEF PromoteUnanswered
<1> QED
  BY <1>1, PromotionPreserves DEF PromoteUnanswered

\* Activation moves the effective release to what APIM serves.
LEMMA ActivatePreserves == ASSUME IInv, NEW w \in Workers, Activate(w) PROVE IInv'
<1> DEFINE p == run[w].pub
<1>1. /\ run[w].pc = "activate" /\ Goto(w, "idle")
      /\ UNCHANGED <<secret, current, content, passed, retries, faults>>
  BY DEF Activate
<1>2. /\ p \in Publications /\ run[w] \in Run /\ run[w].row.status = "promoting"
      /\ RunOK([run[w] EXCEPT !.pc = "idle"])
  BY <1>1, AtWork DEF IInv, RunsOK, RunOK
<1>3. CASE ~ (Held(w) /\ pub[p].status = "promoting")
  <2>1. UNCHANGED <<pub, outbox, effective>>
    BY <1>3 DEF Activate
  <2>2. /\ content' \in [Revisions -> Content] /\ passed' \in [Publications -> SUBSET Content]
        /\ faults' \in 0..MaxFaults
    BY <1>1 DEF IInv, TypeOK
  <2> QED
    BY <1>1, <1>2, <2>1, <2>2, GotoPreserves DEF Pcs
<1>4. CASE Held(w) /\ pub[p].status = "promoting"
  <2>1. /\ pub' = [q \in Publications |->
                      IF q = p THEN [pub[p] EXCEPT !.status = "active"]
                      ELSE IF q = effective THEN Superseded(q) ELSE pub[q]]
        /\ effective' = p /\ outbox' = [outbox EXCEPT ![p] = Completed]
    BY <1>4 DEF Activate
  <2>2. /\ pub \in [Publications -> Row] /\ outbox \in [Publications -> Outbox]
        /\ run \in [Workers -> Run]
    BY DEF IInv, TypeOK
  <2>3. current = p
    BY <1>1, <1>4 DEF IInv, SeenServed
  <2>4. \A q \in Publications : q # p => pub[q].status \notin Busy
    BY <1>2, <1>4, <2>2 DEF IInv, OneInFlight, Busy
  <2>5. /\ pub'[p].status = "active" /\ pub'[p].revised
        /\ pub'[p] \in Row
    BY <1>2, <1>4, <2>1, <2>2 DEF IInv, TypeOK, Row, Statuses
  <2>6. \A q \in Publications : q # p =>
           /\ pub'[q] \in Row /\ pub'[q].revised = pub[q].revised
           /\ pub'[q].status = IF q = effective THEN "superseded" ELSE pub[q].status
           /\ pub'[q].status = "superseded" => pub[q].status \in {"active", "superseded"}
    <3> TAKE q \in Publications
    <3> HAVE q # p
    <3>1. pub'[q] = IF q = effective THEN Superseded(q) ELSE pub[q]
      BY <2>1
    <3>2. pub[q] \in Row
      BY <2>2
    <3>3. q = effective => pub[q].status = "active"
      BY DEF IInv, EffectiveIsActive
    <3> QED
      BY <3>1, <3>2, <3>3 DEF Superseded, Row, Statuses
  <2>7. /\ outbox'[p] = Completed /\ \A q \in Publications : q # p => outbox'[q] = outbox[q]
        /\ Completed \in Outbox /\ Completed.owner = "nobody" /\ Completed.status = "completed"
    BY <1>2, <2>1, <2>2 DEF Completed, Outbox
  <2>8. /\ run'[w].pc = "idle" /\ run'[w].pub = p /\ run'[w] \in Run
        /\ \A v \in Workers : v # w => run'[v] = run[v]
    BY <1>1, <1>2, <2>2 DEF Goto, Run, Pcs
  <2> HIDE DEF p
  <2>9. TypeOK'
    <3>1. pub' \in [Publications -> Row]
      BY <2>1, <2>5, <2>6
    <3>2. outbox' \in [Publications -> Outbox]
      BY <2>1, <2>2, <2>7
    <3>3. run' \in [Workers -> Run]
      BY <1>1, <2>2, <2>8 DEF Goto
    <3>4. effective' \in Revisions
      BY <1>2, <2>1 DEF Revisions, p
    <3>5. \A q \in Publications :
             pub'[q].status \in {"building_revision", "verifying", "awaiting_authorization",
                                 "promoting", "active", "superseded"} => pub'[q].revised
      BY <2>5, <2>6 DEF IInv, TypeOK
    <3> QED
      BY <1>1, <3>1, <3>2, <3>3, <3>4, <3>5 DEF IInv, TypeOK
  <2>10. OneInFlight'
    BY <2>4, <2>5, <2>6, <1>2, <1>4 DEF IInv, OneInFlight, p
  <2>11. NeverStranded'
    BY <2>5, <2>6, <2>7, <2>4 DEF IInv, NeverStranded, Busy
  <2>12. EffectiveIsActive'
    BY <2>1, <2>5, <2>6 DEF IInv, EffectiveIsActive
  <2>13. CredentialErased'
    BY <1>1, <1>2, <1>4, <2>5, <2>6, <2>4 DEF IInv, CredentialErased, TypeOK, Busy, p
  <2>14. RunsOK'
    BY <2>8 DEF IInv, RunsOK, RunOK
  <2>15. \A v \in Workers : Held(v)' => v # w /\ Held(v) /\ run[v].pub # p /\ run[v].pub \in Publications
    BY <2>2, <2>7, <2>8, PublicationAssumption DEF Held, Run
  <2>16. \A v \in Workers : Held(v)' /\ run'[v].pc # "idle" => FALSE
    <3> SUFFICES ASSUME NEW v \in Workers, Held(v)', run'[v].pc # "idle" PROVE FALSE
      OBVIOUS
    <3>1. Held(v) /\ run[v].pc # "idle" /\ run[v].pub # p /\ run[v].pub \in Publications
      BY <2>8, <2>15
    <3>2. run[v].row.status \in Busy /\ pub[run[v].pub].status = run[v].row.status
      BY <3>1, AtWork DEF IInv, HeldRow
    <3> QED
      BY <2>4, <3>1, <3>2
  <2>17. (HeldRow /\ SeenServed)'
    BY <2>16 DEF HeldRow, SeenServed
  <2>18. ServedOrPromoting'
    BY <1>1, <2>1, <2>3 DEF ServedOrPromoting
  <2> QED
    BY <2>9, <2>10, <2>11, <2>12, <2>13, <2>14, <2>17, <2>18 DEF IInv
<1> QED
  BY <1>3, <1>4

\* The next status is one that the run may write.
LEMMA CommitPreserves == ASSUME IInv, NEW w \in Workers, Commit(w) PROVE IInv'
<1> DEFINE from == run[w].row.status
           new == [To(w, NextStatus[from]) EXCEPT !.base = run[w].row.base,
                                                  !.revised = run[w].row.revised]
<1>1. /\ run[w].pc = "commit" /\ Transition(w, new)
      /\ UNCHANGED <<effective, current, content, passed, retries, faults>>
  BY DEF Commit
<1>2. /\ run[w].row \in Row /\ pub[run[w].pub] \in Row /\ from \in Busy
      /\ from # "promoting" /\ (from = "provisioning" => run[w].row.revised)
      /\ (from \in {"building_revision", "verifying"} => run[w].row.revised)
  BY <1>1, AtWork DEF IInv, RunsOK, RunOK
<1>3. /\ NextStatus[from] \in Busy /\ NextStatus[from] # "queued"
      /\ NextStatus[from] = "validating" => from = "queued"
      /\ from = "queued" => NextStatus[from] = "validating"
      /\ from = "validating" => NextStatus[from] = "provisioning"
      /\ NextStatus[from] \in {"building_revision", "verifying", "promoting"} =>
             from \in {"provisioning", "building_revision", "verifying"}
  BY <1>2 DEF NextStatus, Busy
<1> HIDE DEF from
<1>4. To(w, NextStatus[from]) \in Row /\ To(w, NextStatus[from]).status = NextStatus[from]
  BY <1>2, <1>3 DEF To, Row, Busy, Statuses
<1>5. new \in Row /\ new.status = NextStatus[from] /\ new.revised = run[w].row.revised
  BY <1>2, <1>4 DEF Row
<1> HIDE DEF new
<1>6. Allowed(w, new)
  BY <1>2, <1>3, <1>5 DEF Allowed, Busy, from
<1> QED
  BY <1>1, <1>6, TransitionPreserves

\* A retry writes the status it found.
LEMMA RetryPreserves == ASSUME IInv, NEW w \in Workers, Retry(w) PROVE IInv'
<1>1. Held(w) => Allowed(w, To(w, run[w].row.status))
  BY ToAllowed, AtWork DEF Retry, Busy
<1> QED
  BY <1>1, TransitionPreserves DEF Retry

\* A failing run never disowns a revision that is current.
LEMMA FailPreserves == ASSUME IInv, NEW w \in Workers, Fail(w) PROVE IInv'
<1> DEFINE to == IF MayBePromoted(w) THEN "promoting" ELSE "failed"
<1>1. /\ run[w].pc = "fail" /\ Transition(w, To(w, to))
      /\ UNCHANGED <<effective, current, content, passed, retries, faults>>
  BY DEF Fail
<1>2. run[w].row.status = "promoting" => run[w].row.revised
  BY <1>1, AtWork
<1>3. Held(w) => Allowed(w, To(w, to))
  <2>1. CASE MayBePromoted(w)
    BY <1>1, <2>1, ToAllowed DEF MayBePromoted
  <2>2. CASE ~ MayBePromoted(w)
    BY <1>1, <1>2, <2>2, ToAllowed DEF MayBePromoted
  <2> QED
    BY <2>1, <2>2
<1> QED
  BY <1>1, <1>3, TransitionPreserves

\* An error changes the run alone.
LEMMA FaultPreserves == ASSUME IInv, NEW w \in Workers, Fault(w) PROVE IInv'
<1>1. /\ run[w].pc # "idle" /\ \E pc \in {"retry", "fail"} : Continue(w, pc)
      /\ UNCHANGED <<effective, current, content, passed, retries>>
  BY DEF Fault
<1>2. passed' \in [Publications -> SUBSET Content] /\ faults' \in 0..MaxFaults
  BY <1>1, OneMoreFault DEF IInv, TypeOK, Fault
<1>3. \A pc \in {"retry", "fail"} : RunOK([run[w] EXCEPT !.pc = pc])
  BY <1>1, AtWork DEF RunOK
<1> QED
  BY <1>1, <1>2, <1>3, ContinuePreserves DEF Pcs

\* A crash changes the run alone.
LEMMA CrashPreserves == ASSUME IInv, NEW w \in Workers, Crash(w) PROVE IInv'
<1>1. /\ run[w].pc # "idle" /\ Goto(w, "idle")
      /\ UNCHANGED <<pub, outbox, secret, effective, current, content, passed, retries>>
  BY DEF Crash, Goto
<1>2. /\ content' \in [Revisions -> Content] /\ passed' \in [Publications -> SUBSET Content]
      /\ faults' \in 0..MaxFaults
  BY <1>1, OneMoreFault DEF IInv, TypeOK, Crash
<1>3. RunOK([run[w] EXCEPT !.pc = "idle"])
  BY <1>1, AtWork DEF RunOK
<1> QED
  BY <1>1, <1>2, <1>3, GotoPreserves DEF Pcs

--------------------------------------------------------------------------
\* A lease that ends leaves everything else as it is.
LEMMA LeaseEnds ==
    ASSUME IInv, NEW p \in Publications,
           outbox[p].status = "leased",
           outbox' = [outbox EXCEPT ![p].owner = "nobody"],
           UNCHANGED <<pub, secret, effective, current, content, passed, run, retries>>,
           faults' \in 0..MaxFaults
    PROVE  IInv'
<1>1. outbox \in [Publications -> Outbox]
  BY DEF IInv, TypeOK
<1>2. outbox' \in [Publications -> Outbox]
  BY <1>1 DEF Outbox
<1>3. /\ outbox'[p].status = "leased" /\ outbox'[p].owner = "nobody"
      /\ \A q \in Publications : q # p => outbox'[q] = outbox[q]
  BY <1>1 DEF Outbox
<1>4. TypeOK'
  BY <1>2 DEF IInv, TypeOK
<1>5. NeverStranded'
  BY <1>3 DEF IInv, NeverStranded
<1>6. (OneInFlight /\ EffectiveIsActive /\ CredentialErased /\ RunsOK /\ ServedOrPromoting)'
  BY DEF IInv, OneInFlight, EffectiveIsActive, CredentialErased, RunsOK, ServedOrPromoting
<1>7. \A v \in Workers : Held(v)' => Held(v)
  BY <1>3, PublicationAssumption DEF Held, IInv, TypeOK, Run
<1>8. (HeldRow /\ SeenServed)'
  BY <1>7 DEF IInv, HeldRow, SeenServed
<1> QED
  BY <1>4, <1>5, <1>6, <1>8 DEF IInv

\* Both ways a lease ends without a write.
LEMMA LeasePreserves ==
    ASSUME IInv, NEW w \in Workers, Lapse(w) \/ LoseLease(w) PROVE IInv'
<1>1. CASE Lapse(w)
  <2>1. PICK p \in Publications :
          /\ outbox[p] = [status |-> "leased", owner |-> w]
          /\ outbox' = [outbox EXCEPT ![p].owner = "nobody"]
    BY <1>1 DEF Lapse
  <2>2. UNCHANGED <<pub, secret, effective, current, content, passed, run, retries, faults>>
    BY <1>1 DEF Lapse
  <2>3. outbox[p].status = "leased" /\ faults' \in 0..MaxFaults
    BY <2>1, <2>2 DEF IInv, TypeOK
  <2> QED
    BY <2>1, <2>2, <2>3, LeaseEnds
<1>2. CASE LoseLease(w)
  <2>1. run[w].pub \in Publications /\ faults' \in 0..MaxFaults
    BY <1>2, AtWork, OneMoreFault DEF LoseLease
  <2>2. outbox[run[w].pub].status = "leased"
    BY <1>2 DEF LoseLease, Held
  <2>3. /\ outbox' = [outbox EXCEPT ![run[w].pub].owner = "nobody"]
        /\ UNCHANGED <<pub, secret, effective, current, content, passed, run, retries>>
    BY <1>2 DEF LoseLease
  <2> QED
    BY <2>1, <2>2, <2>3, LeaseEnds
<1> QED
  BY <1>1, <1>2

\* A claim takes a row that nobody holds and starts a run on it.
LEMMA ClaimPreserves == ASSUME IInv, NEW w \in Workers, Claim(w) PROVE IInv'
<1>1. PICK p \in Publications :
        /\ run[w].pc = "idle" /\ Claimable(p)
        /\ outbox' = [outbox EXCEPT ![p] = [status |-> "leased", owner |-> w]]
        /\ pub' = [pub EXCEPT ![p].attempts = IF @ > MaxAttempts THEN @ ELSE @ + 1]
        /\ run' = [run EXCEPT ![w] = [pc |-> "begin", pub |-> p, row |-> pub'[p]]]
        /\ UNCHANGED <<secret, effective, current, content, passed, retries, faults>>
  BY DEF Claim
<1>2. /\ pub \in [Publications -> Row] /\ outbox \in [Publications -> Outbox]
      /\ run \in [Workers -> Run]
  BY DEF IInv, TypeOK
<1>3. /\ outbox[p].status \in {"queued", "leased"}
      /\ outbox[p].status = "leased" => outbox[p].owner = "nobody"
  BY <1>1 DEF Claimable
<1>4. pub[p].status \in Busy
  BY <1>3 DEF IInv, NeverStranded, Busy
<1>5. /\ pub'[p] \in Row /\ pub'[p].status = pub[p].status /\ pub'[p].revised = pub[p].revised
      /\ \A q \in Publications : q # p => pub'[q] = pub[q]
      /\ pub' \in [Publications -> Row]
  <2>1. (IF pub[p].attempts > MaxAttempts THEN pub[p].attempts ELSE pub[p].attempts + 1)
           \in 0..MaxAttempts + 1
    BY <1>2, PublicationAssumption DEF Row
  <2>2. pub'[p] = [pub[p] EXCEPT !.attempts = IF @ > MaxAttempts THEN @ ELSE @ + 1]
    BY <1>1, <1>2
  <2>3. pub[p] \in Row
    BY <1>2
  <2>4. pub'[p] \in Row /\ pub'[p].status = pub[p].status /\ pub'[p].revised = pub[p].revised
    BY <2>1, <2>2, <2>3 DEF Row
  <2>5. \A q \in Publications : q # p => pub'[q] = pub[q]
    BY <1>1, <1>2
  <2>6. pub' \in [Publications -> Row]
    BY <1>1, <1>2, <2>4
  <2> QED
    BY <2>4, <2>5, <2>6
<1>6. /\ outbox'[p].status = "leased" /\ outbox'[p].owner = w
      /\ \A q \in Publications : q # p => outbox'[q] = outbox[q]
      /\ outbox' \in [Publications -> Outbox]
  BY <1>1, <1>2 DEF Outbox
<1>7. /\ run'[w].pc = "begin" /\ run'[w].pub = p /\ run'[w].row = pub'[p]
      /\ \A v \in Workers : v # w => run'[v] = run[v]
      /\ run' \in [Workers -> Run]
  BY <1>1, <1>2, <1>5 DEF Run, Pcs
<1>8. pub[p].status \in {"building_revision", "verifying", "promoting"} => pub[p].revised
  BY DEF IInv, TypeOK
<1>9. TypeOK'
  BY <1>1, <1>5, <1>6, <1>7 DEF IInv, TypeOK
<1>10. (OneInFlight /\ EffectiveIsActive /\ CredentialErased)'
  BY <1>1, <1>5 DEF IInv, OneInFlight, EffectiveIsActive, CredentialErased, TypeOK
<1>11. NeverStranded'
  BY <1>4, <1>5, <1>6 DEF IInv, NeverStranded, Busy
<1>12. RunsOK'
  BY <1>4, <1>5, <1>7, <1>8 DEF IInv, RunsOK, RunOK
<1>13. \A v \in Workers : v # w => (Held(v)' => Held(v) /\ run[v].pub # p)
  BY <1>2, <1>6, <1>7 DEF Held, Run
<1>14. (HeldRow /\ SeenServed)'
  BY <1>1, <1>5, <1>7, <1>13, <1>2 DEF IInv, HeldRow, SeenServed, Run
<1>15. ServedOrPromoting'
  BY <1>1, <1>5 DEF IInv, ServedOrPromoting
<1> QED
  BY <1>9, <1>10, <1>11, <1>12, <1>14, <1>15 DEF IInv

--------------------------------------------------------------------------
\* A request of the owner writes a row that no worker holds.
LEMMA RequestPreserves ==
    ASSUME IInv, NEW p \in Publications, NEW row \in Row, NEW o \in Outbox,
           ~ (outbox[p].status = "leased"),
           pub[p].status # "active", pub[p].status # "promoting",
           pub' = [pub EXCEPT ![p] = row], outbox' = [outbox EXCEPT ![p] = o],
           row.status \in {"queued", "verifying", "rolled_back"},
           row.status = "verifying" => row.revised,
           row.status \in {"queued", "verifying"} =>
               \A q \in Publications : q # p => ~ InFlight(q),
           o.status = IF row.status = "rolled_back" THEN "completed" ELSE "queued",
           secret' \subseteq secret \union {p},
           p \in secret' => row.status = "queued",
           UNCHANGED <<effective, current, content, passed, run, faults>>,
           retries' \in 0..MaxRetries
    PROVE  IInv'
<1>1. /\ pub \in [Publications -> Row] /\ outbox \in [Publications -> Outbox]
      /\ run \in [Workers -> Run]
  BY DEF IInv, TypeOK
<1>2. /\ pub'[p] = row /\ \A q \in Publications : q # p => pub'[q] = pub[q]
      /\ outbox'[p] = o /\ \A q \in Publications : q # p => outbox'[q] = outbox[q]
      /\ pub' \in [Publications -> Row] /\ outbox' \in [Publications -> Outbox]
  BY <1>1
<1>3. TypeOK'
  <2>1. secret' \subseteq Publications
    BY DEF IInv, TypeOK
  <2>2. \A q \in Publications :
           pub'[q].status \in {"building_revision", "verifying", "awaiting_authorization",
                               "promoting", "active", "superseded"} => pub'[q].revised
    BY <1>2 DEF IInv, TypeOK
  <2> QED
    BY <1>2, <2>1, <2>2 DEF IInv, TypeOK
<1>4. OneInFlight'
  <2>1. \A q \in Publications : pub[q].status \in Statuses
    BY <1>1 DEF Row
  <2>2. CASE row.status = "rolled_back"
    BY <1>2, <2>2 DEF IInv, OneInFlight
  <2>3. CASE row.status # "rolled_back"
    BY <1>2, <2>1, <2>3 DEF OneInFlight, InFlight, InFlightStatuses, Statuses
  <2> QED
    BY <2>2, <2>3
<1>5. NeverStranded'
  BY <1>2 DEF IInv, NeverStranded
<1>6. (EffectiveIsActive /\ ServedOrPromoting)'
  BY <1>2 DEF IInv, EffectiveIsActive, ServedOrPromoting
<1>7. CredentialErased'
  BY <1>2 DEF IInv, CredentialErased, TypeOK
<1>8. RunsOK'
  BY DEF IInv, RunsOK
<1>9. \A v \in Workers : Held(v)' => Held(v) /\ run[v].pub # p /\ run[v].pub \in Publications
  BY <1>1, <1>2 DEF Held, Run
<1>10. (HeldRow /\ SeenServed)'
  BY <1>2, <1>9 DEF IInv, HeldRow, SeenServed
<1> QED
  BY <1>3, <1>4, <1>5, <1>6, <1>7, <1>8, <1>10 DEF IInv

\* The rows and outbox entries that requests write.
LEMMA RequestRows ==
    /\ \A s \in Specs : NewRow(s) \in Row /\ NewRow(s).status = "queued"
    /\ \A r \in Row, s \in Statuses :
          /\ [r EXCEPT !.status = s] \in Row /\ [r EXCEPT !.status = s].status = s
          /\ [r EXCEPT !.status = s].revised = r.revised
    /\ Waiting \in Outbox /\ Waiting.status = "queued"
    /\ Completed \in Outbox /\ Completed.status = "completed"
<1>1. \A s \in Specs : NewRow(s) \in Row /\ NewRow(s).status = "queued"
  BY PublicationAssumption DEF Row, NewRow, NoBase, Base, Revisions, Policies, Statuses
<1>2. \A r \in Row, s \in Statuses :
         /\ [r EXCEPT !.status = s] \in Row /\ [r EXCEPT !.status = s].status = s
         /\ [r EXCEPT !.status = s].revised = r.revised
  BY DEF Row
<1>3. /\ Waiting \in Outbox /\ Waiting.status = "queued"
      /\ Completed \in Outbox /\ Completed.status = "completed"
  BY DEF Waiting, Completed, Outbox
<1> QED
  BY <1>1, <1>2, <1>3

\* A new or retried publication starts when none is in progress.
LEMMA CreatePreserves ==
    ASSUME IInv, NEW p \in Publications, NEW spec \in Specs, NEW credential \in BOOLEAN,
           Create(p, spec, credential) \/ Requeue(p, spec, credential)
    PROVE  IInv'
<1>1. /\ pub[p].status \in {"none", "failed"} /\ NoneInFlight
      /\ pub' = [pub EXCEPT ![p] = NewRow(spec)] /\ outbox' = [outbox EXCEPT ![p] = Waiting]
      /\ secret' \subseteq secret \union {p}
      /\ UNCHANGED <<effective, current, content, passed, run, faults>>
  BY DEF Create, Requeue
<1>2. outbox[p].status # "leased"
  BY <1>1 DEF IInv, NeverStranded
<1>3. retries' \in 0..MaxRetries
  BY PublicationAssumption DEF Create, Requeue, IInv, TypeOK
<1>4. \A q \in Publications : ~ InFlight(q)
  BY <1>1 DEF NoneInFlight
<1>5. /\ NewRow(spec) \in Row /\ NewRow(spec).status = "queued"
      /\ Waiting \in Outbox /\ Waiting.status = "queued"
  BY RequestRows
<1> QED
  BY <1>1, <1>2, <1>3, <1>4, <1>5, RequestPreserves

\* An authorized publication is offered again.
LEMMA ResumePreserves == ASSUME IInv, NEW p \in Publications, Resume(p) PROVE IInv'
<1> DEFINE row == [pub[p] EXCEPT !.status = "verifying"]
<1>1. /\ pub[p].status = "awaiting_authorization"
      /\ pub' = [pub EXCEPT ![p] = row] /\ outbox' = [outbox EXCEPT ![p] = Waiting]
      /\ UNCHANGED <<secret, effective, current, content, passed, run, retries, faults>>
  BY DEF Resume
<1>2. pub[p] \in Row /\ pub[p].revised /\ outbox[p].status # "leased"
  BY <1>1 DEF IInv, TypeOK, NeverStranded
<1>3. row \in Row /\ row.status = "verifying" /\ row.revised
  <2>1. row \in Row /\ row.status = "verifying" /\ row.revised = pub[p].revised
    BY <1>2, RequestRows DEF Statuses
  <2> QED
    BY <1>2, <2>1
<1>4. \A q \in Publications : q # p => ~ InFlight(q)
  BY <1>1 DEF IInv, OneInFlight, InFlight, InFlightStatuses
<1>5. p \notin secret /\ retries' \in 0..MaxRetries
  BY <1>1 DEF IInv, CredentialErased, TypeOK
<1>6. Waiting \in Outbox /\ Waiting.status = "queued"
  BY RequestRows
<1> HIDE DEF row
<1> QED
  BY <1>1, <1>2, <1>3, <1>4, <1>5, <1>6, RequestPreserves

\* A cancelled publication leaves the outbox with its credential.
LEMMA CancelPreserves == ASSUME IInv, NEW p \in Publications, Cancel(p) PROVE IInv'
<1> DEFINE row == [pub[p] EXCEPT !.status = "rolled_back"]
<1>1. /\ pub[p].status \in {"queued", "awaiting_authorization"}
      /\ pub[p].status = "queued" => outbox[p].status = "queued"
      /\ pub' = [pub EXCEPT ![p] = row] /\ outbox' = [outbox EXCEPT ![p] = Completed]
      /\ secret' = secret \ {p}
      /\ UNCHANGED <<effective, current, content, passed, run, retries, faults>>
  BY DEF Cancel
<1>2. pub[p] \in Row /\ outbox[p].status # "leased" /\ retries' \in 0..MaxRetries
  BY <1>1 DEF IInv, TypeOK, NeverStranded
<1>3. row \in Row /\ row.status = "rolled_back"
  BY <1>2, RequestRows DEF Statuses
<1>4. Completed \in Outbox /\ Completed.status = "completed"
  BY RequestRows
<1> HIDE DEF row
<1> QED
  BY <1>1, <1>2, <1>3, <1>4, RequestPreserves

--------------------------------------------------------------------------
\* Every step of the system keeps the invariant.
LEMMA NextPreserves == IInv /\ [Next]_vars => IInv'
<1> SUFFICES ASSUME IInv, [Next]_vars PROVE IInv'
  OBVIOUS
<1>1. CASE OwnerNext
  <2>1. PICK p \in Publications :
          \/ \E spec \in Specs, credential \in BOOLEAN : Create(p, spec, credential)
          \/ \E spec \in IF ReplaceSpec THEN Specs ELSE {pub[p].spec}, credential \in BOOLEAN :
                Requeue(p, spec, credential)
          \/ Resume(p)
          \/ Cancel(p)
    BY <1>1 DEF OwnerNext
  <2>2. pub[p].spec \in Specs
    BY DEF IInv, TypeOK, Row
  <2> QED
    BY <2>1, <2>2, CreatePreserves, ResumePreserves, CancelPreserves
<1>2. CASE WorkerNext
  <2>1. PICK w \in Workers :
          \/ Claim(w) \/ RunStep(w) \/ Lapse(w)
          \/ LoseLease(w) \/ Crash(w) \/ PromoteUnanswered(w) \/ Fault(w)
    BY <1>2 DEF WorkerNext
  <2>2. CASE RunStep(w)
    BY <2>2, BeginPreserves, RecordBasePreserves, ValidatePreserves, ProvisionPreserves,
       PutParentPreserves, PutOperationsPreserves, ProbePreserves, CheckPromotedPreserves,
       PromotePreserves, ReadbackPreserves, ActivatePreserves, CommitPreserves,
       RetryPreserves, FailPreserves DEF RunStep
  <2> QED
    BY <2>1, <2>2, ClaimPreserves, LeasePreserves, CrashPreserves,
       PromoteUnansweredPreserves, FaultPreserves
<1>3. CASE UNCHANGED vars
  BY <1>3 DEF vars, IInv, TypeOK, OneInFlight, NeverStranded, EffectiveIsActive,
              CredentialErased, RunsOK, HeldRow, ServedOrPromoting, SeenServed, Held
<1> QED
  BY <1>1, <1>2, <1>3 DEF Next

\* The invariant holds in every reachable state.
THEOREM PublicationInvariant == Spec => []IInv
  BY InitOK, NextPreserves, PTL DEF Spec

\* Rows stay well formed, and a publication past provisioning has its
\* revision, however runs are cut off, retried and taken over.
THEOREM RowsTyped == Spec => []TypeOK
<1>1. IInv => TypeOK
  BY DEF IInv
<1> QED
  BY <1>1, PublicationInvariant, PTL

\* At most one publication of the gateway is in progress, for any number of
\* publications, workers, faults and retries.
THEOREM AtMostOneInFlight == Spec => []OneInFlight
<1>1. IInv => OneInFlight
  BY DEF IInv
<1> QED
  BY <1>1, PublicationInvariant, PTL

\* The outbox offers exactly the publications that need a worker.
THEOREM NothingStranded == Spec => []NeverStranded
<1>1. IInv => NeverStranded
  BY DEF IInv
<1> QED
  BY <1>1, PublicationInvariant, PTL

\* The effective release is the one active publication.
THEOREM EffectiveIsTheActive == Spec => []EffectiveIsActive
<1>1. IInv => EffectiveIsActive
  BY DEF IInv
<1> QED
  BY <1>1, PublicationInvariant, PTL

\* When no publication is in progress APIM serves the effective release: the
\* promotion and its record never stay apart.
THEOREM ServesTheEffective == Spec => []ServedIsEffective
<1>1. IInv => ServedIsEffective
  BY DEF IInv, ServedIsEffective, ServedOrPromoting, NoneInFlight, InFlight, InFlightStatuses
<1> QED
  BY <1>1, PublicationInvariant, PTL

\* A stored provider credential belongs to a publication that has not yet
\* handed it to the gateway.
THEOREM CredentialsErased == Spec => []CredentialErased
<1>1. IInv => CredentialErased
  BY DEF IInv
<1> QED
  BY <1>1, PublicationInvariant, PTL

--------------------------------------------------------------------------
(* What APIM serves passed its probes, when a retry keeps the spec.  A run *)
(* that lost its lease goes on writing to the revision, but only what the  *)
(* row's spec says: whatever a row's status promises of its revision stays *)
(* true of it, whoever writes.                                             *)

BuiltRow(p) == content[p] = Built(pub[p].spec)
PassedRow(p) == Built(pub[p].spec) \in passed[p]

\* What a row's status promises of its revision.
RowSound(p) ==
    /\ pub[p].status \in {"verifying", "awaiting_authorization", "promoting", "active",
                         "superseded"} => BuiltRow(p)
    /\ pub[p].status \in {"promoting", "active", "superseded"} => PassedRow(p)

\* What a run knows of the revision it works on, with a lease or without.
RunSound(r) ==
    r.pc # "idle" =>
        /\ pub[r.pub].status # "none" /\ r.row.spec = pub[r.pub].spec
        /\ r.row.status \in {"verifying", "promoting"} => BuiltRow(r.pub)
        /\ r.row.status = "promoting" => PassedRow(r.pub)
        /\ r.pc = "operations" => content[r.pub].parent = r.row.spec
        /\ r.pc = "commit" /\ r.row.status = "building_revision" => BuiltRow(r.pub)
        /\ r.pc = "commit" /\ r.row.status = "verifying" => PassedRow(r.pub)

\* The revision that is served is built and probed.
ServedSound ==
    current \in Publications =>
        pub[current].status # "none" /\ BuiltRow(current) /\ PassedRow(current)

Sound == /\ \A p \in Publications : RowSound(p)
         /\ \A w \in Workers : RunSound(run[w])
         /\ ServedSound

\* Nothing that a row or a run relies on is taken back.
Keeps(p) ==
    pub[p].status # "none" =>
        /\ pub'[p].status # "none" /\ pub'[p].spec = pub[p].spec
        /\ content[p].parent = pub[p].spec => content'[p].parent = pub[p].spec
        /\ BuiltRow(p) => content'[p] = Built(pub[p].spec)
        /\ passed[p] \subseteq passed'[p]

\* Init establishes it: a gateway starts with releases that were published.
LEMMA InitSound == Init => Sound
<1> SUFFICES ASSUME Init PROVE Sound
  OBVIOUS
<1>1. \A p \in Publications : p # "initial"
  BY PublicationAssumption
<1>2. \A p \in Publications :
         /\ pub[p] = InitRow(p) /\ content[p] = InitContent(p)
         /\ passed[p] = {InitContent(p)} \ {Missing}
  BY DEF Init, Revisions
<1>3. \A p \in Publications :
         InitRow(p).status # "none" => p \in Earlier \union {Released} /\ InitRow(p).spec \in Specs
  <2>1. InitSpec \in Specs /\ EarlierSpec \in Specs
    BY PublicationAssumption DEF InitSpec, EarlierSpec
  <2> QED
    BY <2>1 DEF InitRow, NewRow
<1>4. \A s \in Specs : Built(s) # Missing
  BY PublicationAssumption DEF Built, Missing
<1>5. \A p \in Publications : pub[p].status # "none" => BuiltRow(p) /\ PassedRow(p)
  BY <1>1, <1>2, <1>3, <1>4 DEF BuiltRow, PassedRow, InitContent
<1>6. current \in Publications => pub[current].status # "none"
  BY <1>2 DEF Init, InitRow, NewRow
<1>7. \A w \in Workers : run[w].pc = "idle"
  BY DEF Init
<1> QED
  BY <1>5, <1>6, <1>7 DEF Sound, RowSound, RunSound, ServedSound

\* What a run that does not move knows stays true.
LEMMA RunKept ==
    ASSUME Sound, NEW v \in Workers, run[v].pub \in Publications, Keeps(run[v].pub),
           run'[v] = run[v]
    PROVE  RunSound(run[v])'
BY DEF Sound, RunSound, Keeps, BuiltRow, PassedRow

\* What is served stays as it passed.
LEMMA ServedKept ==
    ASSUME Sound, \A p \in Publications : Keeps(p), UNCHANGED current
    PROVE  ServedSound'
BY DEF Sound, ServedSound, Keeps, BuiltRow, PassedRow

\* A run that goes on, or ends without a write, keeps what is known.
LEMMA SoundMoves ==
    ASSUME IInv, Sound, NEW w \in Workers, NEW r, NEW p \in Publications,
           run[w].pc # "idle", p = run[w].pub,
           r.pub = p, r.row.spec = run[w].row.spec, r.row.status = run[w].row.status,
           run' = [run EXCEPT ![w] = r], UNCHANGED pub,
           \A q \in Publications : Keeps(q),
           r.pc = "operations" => content'[p].parent = r.row.spec,
           r.pc = "commit" /\ r.row.status = "building_revision" =>
               content'[p] = Built(r.row.spec),
           r.pc = "commit" /\ r.row.status = "verifying" => Built(r.row.spec) \in passed'[p],
           \/ UNCHANGED current
           \/ current' = p /\ run[w].row.status = "promoting"
    PROVE  Sound'
<1>1. run \in [Workers -> Run] /\ \A v \in Workers : run[v].pub \in Publications
  BY DEF IInv, TypeOK, Run
<1>2. run'[w] = r /\ \A v \in Workers : v # w => run'[v] = run[v]
  BY <1>1
<1>3. /\ pub[p].status # "none" /\ run[w].row.spec = pub[p].spec
      /\ run[w].row.status \in {"verifying", "promoting"} => BuiltRow(p)
      /\ run[w].row.status = "promoting" => PassedRow(p)
  BY DEF Sound, RunSound
<1>4. Keeps(p)
  OBVIOUS
<1>5. (\A q \in Publications : RowSound(q))'
  BY DEF Sound, RowSound, Keeps, BuiltRow, PassedRow
<1>6. RunSound(run[w])'
  BY <1>2, <1>3, <1>4 DEF RunSound, Keeps, BuiltRow, PassedRow
<1>7. \A v \in Workers : v # w => RunSound(run[v])'
  BY <1>1, <1>2, RunKept
<1>8. ServedSound'
  <2>1. CASE UNCHANGED current
    BY <2>1, ServedKept
  <2>2. CASE current' = p /\ run[w].row.status = "promoting"
    BY <1>3, <1>4, <2>2 DEF ServedSound, Keeps, BuiltRow, PassedRow
  <2> QED
    BY <2>1, <2>2
<1> QED
  BY <1>5, <1>6, <1>7, <1>8 DEF Sound

\* The row a run writes promises no more than it has established.
Earned(p, row) ==
    /\ row.status # "none" /\ row.spec = pub[p].spec
    /\ row.status \in {"verifying", "awaiting_authorization", "promoting", "active",
                       "superseded"} => BuiltRow(p)
    /\ row.status \in {"promoting", "active", "superseded"} => PassedRow(p)

\* A row that is written keeps what is known when it is earned.
LEMMA SoundRow ==
    ASSUME IInv, Sound, NEW p \in Publications, NEW row,
           pub' = [pub EXCEPT ![p] = row],
           pub[p].status # "none", Earned(p, row),
           UNCHANGED <<current, content, passed>>,
           \A v \in Workers : run'[v] = run[v] \/ run'[v].pc = "idle"
    PROVE  Sound'
<1>1. pub \in [Publications -> Row] /\ \A v \in Workers : run[v].pub \in Publications
  BY DEF IInv, TypeOK, Run
<1>2. pub'[p] = row /\ \A q \in Publications : q # p => pub'[q] = pub[q]
  BY <1>1
<1>3. \A q \in Publications : Keeps(q)
  BY <1>2 DEF Keeps, Earned, BuiltRow
<1>4. (\A q \in Publications : RowSound(q))'
  BY <1>2 DEF Sound, RowSound, Earned, BuiltRow, PassedRow
<1>5. \A v \in Workers : RunSound(run[v])'
  <2> TAKE v \in Workers
  <2>1. CASE run'[v].pc = "idle"
    BY <2>1 DEF RunSound
  <2>2. CASE run'[v] = run[v]
    BY <1>1, <1>3, <2>2, RunKept
  <2> QED
    BY <2>1, <2>2
<1>6. ServedSound'
  BY <1>3, ServedKept
<1> QED
  BY <1>4, <1>5, <1>6 DEF Sound

\* A run that ends with a write keeps what is known.
LEMMA SoundTransition ==
    ASSUME IInv, Sound, NEW w \in Workers, NEW row,
           run[w].pc # "idle", Transition(w, row),
           Held(w) => Earned(run[w].pub, row),
           UNCHANGED <<current, content, passed>>
    PROVE  Sound'
<1> DEFINE p == run[w].pub
<1>1. p \in Publications /\ pub[p].status # "none"
  BY AtWork DEF Sound, RunSound
<1>2. \A v \in Workers : run'[v] = run[v] \/ run'[v].pc = "idle"
  BY DEF Transition, Goto, IInv, TypeOK
<1>3. CASE Held(w) /\ pub[p].status = run[w].row.status
  <2>1. pub' = [pub EXCEPT ![p] = row]
    BY <1>3 DEF Transition
  <2> QED
    BY <1>1, <1>2, <1>3, <2>1, SoundRow
<1>4. CASE ~ (Held(w) /\ pub[p].status = run[w].row.status)
  <2>1. pub' = pub
    BY <1>4 DEF Transition, queue
  <2>2. pub' = [pub EXCEPT ![p] = pub[p]] /\ Earned(p, pub[p])
    BY <1>1, <2>1 DEF IInv, TypeOK, Earned, Sound, RowSound
  <2> QED
    BY <1>1, <1>2, <2>2, SoundRow
<1> QED
  BY <1>3, <1>4

\* The same when only the run's program counter moves.
LEMMA SoundGoto ==
    ASSUME IInv, Sound, NEW w \in Workers, NEW pc, run[w].pc # "idle", Goto(w, pc),
           UNCHANGED <<pub, current>>,
           \A q \in Publications : Keeps(q),
           pc = "operations" => content'[run[w].pub].parent = run[w].row.spec,
           pc = "commit" /\ run[w].row.status = "building_revision" =>
               content'[run[w].pub] = Built(run[w].row.spec),
           pc = "commit" /\ run[w].row.status = "verifying" =>
               Built(run[w].row.spec) \in passed'[run[w].pub]
    PROVE  Sound'
<1> DEFINE r == [run[w] EXCEPT !.pc = pc]
<1>1. run[w].pub \in Publications /\ r.pc = pc /\ r.row = run[w].row /\ r.pub = run[w].pub
  BY AtWork
<1>2. run' = [run EXCEPT ![w] = r]
  BY DEF Goto
<1> HIDE DEF r
<1> QED
  BY <1>1, <1>2, SoundMoves

\* Where nothing that is known is touched nothing is taken back.
LEMMA NothingTaken ==
    ASSUME UNCHANGED <<pub, content, passed>>
    PROVE  \A q \in Publications : Keeps(q)
BY DEF Keeps, BuiltRow

\* The same when the run establishes nothing new.
LEMMA SoundContinue ==
    ASSUME IInv, Sound, NEW w \in Workers,
           NEW pc \in {"idle", "work", "promote", "readback", "activate", "retry", "fail"},
           run[w].pc # "idle", Continue(w, pc), UNCHANGED <<current, content, passed>>
    PROVE  Sound'
<1>1. Goto(w, pc) /\ UNCHANGED pub
  BY DEF Continue, queue
<1> QED
  BY <1>1, NothingTaken, SoundGoto

\* A write that keeps the columns is earned.
LEMMA ToEarned ==
    ASSUME IInv, Sound, NEW w \in Workers, run[w].pc # "idle", Held(w),
           NEW status \in {run[w].row.status, "failed", "awaiting_authorization"},
           status = "awaiting_authorization" => run[w].row.status = "verifying"
    PROVE  Earned(run[w].pub, To(w, status))
<1>1. /\ pub[run[w].pub].status = run[w].row.status /\ run[w].row.status \in Busy
      /\ run[w].pub \in Publications /\ pub[run[w].pub] \in Row
  BY AtWork DEF IInv, HeldRow
<1>2. To(w, status).status = status /\ To(w, status).spec = pub[run[w].pub].spec
  BY <1>1 DEF To, Row
<1> QED
  BY <1>1, <1>2 DEF Earned, Sound, RowSound, Busy

--------------------------------------------------------------------------
\* The steps of a run.
LEMMA BeginSound == ASSUME IInv, Sound, NEW w \in Workers, Begin(w) PROVE Sound'
<1>1. run[w].pc # "idle" /\ UNCHANGED <<current, content, passed>>
  BY DEF Begin
<1>2. CASE Held(w) /\ Transition(w, To(w, "failed"))
  BY <1>1, <1>2, ToEarned, SoundTransition
<1>3. CASE \E pc \in {"idle", "work"} : Continue(w, pc)
  BY <1>1, <1>3, SoundContinue
<1> QED
  BY <1>2, <1>3 DEF Begin

\* Before it builds the revision a run has only its spec to keep.
LEMMA EarlySound ==
    ASSUME IInv, Sound, NEW w \in Workers, RecordBase(w) \/ Validate(w) \/ Provision(w)
    PROVE  Sound'
<1> DEFINE p == run[w].pub
<1>1. /\ run[w].pc # "idle" /\ UNCHANGED <<pub, current, passed>>
      /\ run[w].row.status \in {"queued", "validating", "provisioning"}
  BY DEF RecordBase, Validate, Provision, At, Continue, queue
<1>2. p \in Publications /\ run[w] \in Run /\ run[w].row \in Row
  BY <1>1, AtWork
<1>3. \A q \in Publications : Keeps(q)
  <2>1. CASE UNCHANGED content
    BY <1>1, <2>1, NothingTaken
  <2>2. CASE Provision(w) /\ content[p] = Missing /\ content' = [content EXCEPT ![p] = content[current]]
    <3>1. \A q \in Publications : q # p => content'[q] = content[q]
      BY <2>2, <1>2 DEF IInv, TypeOK, Revisions
    <3>2. pub[p].spec \in Specs
      BY <1>2 DEF IInv, TypeOK, Row
    <3>3. content[p].parent # pub[p].spec /\ ~ BuiltRow(p)
      BY <2>2, <3>2, PublicationAssumption DEF BuiltRow, Missing, Built
    <3> QED
      BY <1>1, <3>1, <3>3 DEF Keeps, BuiltRow
  <2> QED
    BY <2>1, <2>2 DEF RecordBase, Validate, Provision
<1>4. CASE Validate(w)
  BY <1>1, <1>3, <1>4, SoundGoto DEF Validate, At, Continue
<1>5. CASE RecordBase(w)
  <2> DEFINE b == [revision |-> current, parent |-> content[current].parent]
             r == [run[w] EXCEPT !.pc = "commit", !.row.base = b]
  <2>1. run' = [run EXCEPT ![w] = r]
    BY <1>5 DEF RecordBase
  <2>2. [run[w].row EXCEPT !.base = b].status = run[w].row.status
        /\ [run[w].row EXCEPT !.base = b].spec = run[w].row.spec
    BY <1>2 DEF Row
  <2>3. /\ r.pc = "commit" /\ r.pub = p /\ r.row = [run[w].row EXCEPT !.base = b]
    BY <1>2 DEF Run
  <2>4. r.row.status = run[w].row.status /\ r.row.spec = run[w].row.spec
    BY <2>2, <2>3
  <2> HIDE DEF r, b
  <2> QED
    BY <1>1, <1>2, <1>3, <2>1, <2>3, <2>4, SoundMoves
<1>6. CASE Provision(w)
  <2> DEFINE r == [run[w] EXCEPT !.pc = "commit", !.row.revised = TRUE]
  <2>1. run' = [run EXCEPT ![w] = r]
    BY <1>6 DEF Provision
  <2>2. [run[w].row EXCEPT !.revised = TRUE].status = run[w].row.status
        /\ [run[w].row EXCEPT !.revised = TRUE].spec = run[w].row.spec
    BY <1>2 DEF Row
  <2>3. /\ r.pc = "commit" /\ r.pub = p /\ r.row = [run[w].row EXCEPT !.revised = TRUE]
    BY <1>2 DEF Run
  <2>4. r.row.status = run[w].row.status /\ r.row.spec = run[w].row.spec
    BY <2>2, <2>3
  <2> HIDE DEF r
  <2> QED
    BY <1>1, <1>2, <1>3, <2>1, <2>3, <2>4, SoundMoves
<1> QED
  BY <1>4, <1>5, <1>6

\* Writing the policies, lease or not, writes what the row's spec says.
LEMMA PutSound ==
    ASSUME IInv, Sound, NEW w \in Workers, PutParent(w) \/ PutOperations(w) PROVE Sound'
<1> DEFINE p == run[w].pub
<1>1. /\ run[w].pc # "idle" /\ UNCHANGED <<pub, current, passed>>
      /\ run[w].row.status = "building_revision"
  BY DEF PutParent, PutOperations, At, IInv, RunsOK, RunOK
<1>2. /\ p \in Publications /\ p \in Revisions
      /\ content \in [Revisions -> Content] /\ Publications \subseteq Revisions
  BY <1>1, AtWork DEF IInv, TypeOK, Revisions
<1>3. /\ run[w].row.spec = pub[p].spec
      /\ run[w].pc = "operations" => content[p].parent = run[w].row.spec
  BY <1>1 DEF Sound, RunSound
<1>4. CASE Goto(w, "fail") /\ UNCHANGED content
  BY <1>1, <1>4, NothingTaken, SoundGoto
<1>5. CASE content' = [content EXCEPT ![p].parent = run[w].row.spec] /\ Goto(w, "operations")
  <2>1. /\ content'[p].parent = run[w].row.spec
        /\ content'[p] = [content[p] EXCEPT !.parent = run[w].row.spec]
        /\ \A q \in Publications : q # p => content'[q] = content[q]
    BY <1>2, <1>5 DEF Content
  <2>2. BuiltRow(p) => content'[p] = Built(pub[p].spec)
    BY <1>3, <2>1 DEF BuiltRow, Built
  <2>3. \A q \in Publications : Keeps(q)
    BY <1>1, <1>3, <2>1, <2>2 DEF Keeps, BuiltRow
  <2> QED
    BY <1>1, <1>5, <2>1, <2>3, SoundGoto
<1>6. CASE PutOperations(w)
  <2>1. /\ content' = [content EXCEPT ![p].operations = run[w].row.spec]
        /\ run[w].pc = "operations" /\ Goto(w, "commit")
    BY <1>6 DEF PutOperations
  <2>2. /\ content'[p] = Built(run[w].row.spec)
        /\ \A q \in Publications : q # p => content'[q] = content[q]
    BY <1>2, <1>3, <2>1 DEF Content, Built
  <2>3. \A q \in Publications : Keeps(q)
    BY <1>1, <1>3, <2>2 DEF Keeps, BuiltRow, Built
  <2> QED
    BY <1>1, <2>1, <2>2, <2>3, SoundGoto
<1> QED
  BY <1>4, <1>5, <1>6 DEF PutParent

\* What passes the probes is what was built.
LEMMA ProbeSound == ASSUME IInv, Sound, NEW w \in Workers, Probe(w) PROVE Sound'
<1> DEFINE p == run[w].pub
<1>1. run[w].pc # "idle" /\ run[w].row.status = "verifying" /\ UNCHANGED <<current, content>>
  BY DEF Probe, At
<1>2. CASE Continue(w, "fail") /\ UNCHANGED passed
  BY <1>1, <1>2, SoundContinue
<1>3. CASE Continue(w, "commit") /\ ProbeResult(p)
  <2>1. p \in Publications /\ passed \in [Publications -> SUBSET Content]
    BY <1>1, AtWork DEF IInv, TypeOK
  <2>2. /\ content[p] \in passed'[p]
        /\ \A q \in Publications : passed[q] \subseteq passed'[q]
    BY <1>3, <2>1 DEF ProbeResult
  <2>3. content[p] = Built(run[w].row.spec)
    BY <1>1 DEF Sound, RunSound, BuiltRow
  <2>4. Goto(w, "commit") /\ UNCHANGED pub
    BY <1>3 DEF Continue, queue
  <2>5. \A q \in Publications : Keeps(q)
    BY <1>1, <2>2, <2>4 DEF Keeps, BuiltRow
  <2> QED
    BY <1>1, <2>2, <2>3, <2>4, <2>5, SoundGoto
<1>4. ASSUME NEW to \in {"verifying", "awaiting_authorization"}, Transition(w, To(w, to)),
             UNCHANGED passed
      PROVE  Sound'
  BY <1>1, <1>4, ToEarned, SoundTransition
<1> QED
  BY <1>2, <1>3, <1>4 DEF Probe

\* Only a revision that was built and probed is promoted.
LEMMA PromotingSound ==
    ASSUME IInv, Sound, NEW w \in Workers,
           CheckPromoted(w) \/ Promote(w) \/ PromoteUnanswered(w) \/ Readback(w)
    PROVE  Sound'
<1>1. /\ run[w].pc # "idle" /\ run[w].row.status = "promoting"
      /\ UNCHANGED <<content, passed>>
  BY DEF CheckPromoted, Promote, PromoteUnanswered, Readback, At, IInv, RunsOK, RunOK
<1>2. CASE Transition(w, To(w, "failed")) /\ UNCHANGED current
  BY <1>1, <1>2, ToEarned, SoundTransition
<1>3. CASE \E pc \in {"idle", "promote", "readback", "activate", "retry", "fail"} :
              Continue(w, pc) /\ UNCHANGED current
  BY <1>1, <1>3, SoundContinue
<1>4. CASE \E pc \in {"readback", "retry"} : Continue(w, pc) /\ current' = run[w].pub
  <2>1. PICK pc \in {"readback", "retry"} : Continue(w, pc)
    BY <1>4
  <2> DEFINE r == [run[w] EXCEPT !.pc = pc]
  <2>2. /\ run[w].pub \in Publications
        /\ r.pc = pc /\ r.row = run[w].row /\ r.pub = run[w].pub
    BY <1>1, AtWork
  <2>3. run' = [run EXCEPT ![w] = r] /\ UNCHANGED pub
    BY <2>1 DEF Continue, Goto, queue
  <2>4. \A q \in Publications : Keeps(q)
    BY <1>1, <2>3, NothingTaken
  <2> HIDE DEF r
  <2> QED
    BY <1>1, <1>4, <2>2, <2>3, <2>4, SoundMoves
<1> QED
  BY <1>2, <1>3, <1>4 DEF CheckPromoted, Promote, PromoteUnanswered, Readback

\* The next status is written by a run that has done its work.
LEMMA CommitSound == ASSUME IInv, Sound, NEW w \in Workers, Commit(w) PROVE Sound'
<1> DEFINE p == run[w].pub
           from == run[w].row.status
           new == [To(w, NextStatus[from]) EXCEPT !.base = run[w].row.base,
                                                  !.revised = run[w].row.revised]
<1>1. run[w].pc = "commit" /\ Transition(w, new) /\ UNCHANGED <<current, content, passed>>
  BY DEF Commit
<1>2. /\ p \in Publications /\ pub[p] \in Row /\ from \in Busy /\ from # "promoting"
  BY <1>1, AtWork DEF IInv, RunsOK, RunOK
<1>3. /\ NextStatus[from] \in Busy
      /\ NextStatus[from] = "verifying" => from = "building_revision"
      /\ NextStatus[from] = "promoting" => from = "verifying"
  BY <1>2 DEF NextStatus, Busy
<1> HIDE DEF from
<1>4. new.status = NextStatus[from] /\ new.spec = pub[p].spec
  BY <1>2, <1>3 DEF To, Row
<1> HIDE DEF new
<1>5. /\ from = "building_revision" => BuiltRow(p)
      /\ from = "verifying" => BuiltRow(p) /\ PassedRow(p)
  BY <1>1 DEF Sound, RunSound, from
<1>6. Earned(p, new)
  BY <1>3, <1>4, <1>5 DEF Earned, Busy
<1> QED
  BY <1>1, <1>6, SoundTransition

\* A run that ends early writes the status it found, or gives up.
LEMMA EndingSound ==
    ASSUME IInv, Sound, NEW w \in Workers, Retry(w) \/ Fail(w) PROVE Sound'
<1>1. PICK status \in {run[w].row.status, "failed"} :
        Transition(w, To(w, status)) /\ UNCHANGED <<current, content, passed>>
  BY DEF Retry, Fail, MayBePromoted
<1>2. run[w].pc # "idle" /\ run[w].row.status \in Busy
  BY AtWork DEF Retry, Fail
<1>3. Held(w) => Earned(run[w].pub, To(w, status))
  BY <1>2, ToEarned DEF Busy
<1> QED
  BY <1>1, <1>2, <1>3, SoundTransition

\* Errors, crashes and leases that end touch no revision.
LEMMA FaultSound ==
    ASSUME IInv, Sound, NEW w \in Workers, Fault(w) \/ Crash(w) \/ Lapse(w) \/ LoseLease(w)
    PROVE  Sound'
<1>1. CASE Fault(w)
  BY <1>1, SoundContinue DEF Fault
<1>2. CASE Crash(w)
  BY <1>2, NothingTaken, SoundGoto DEF Crash, Goto
<1>3. CASE Lapse(w) \/ LoseLease(w)
  BY <1>3 DEF Lapse, LoseLease, Sound, RowSound, RunSound, ServedSound, BuiltRow, PassedRow
<1> QED
  BY <1>1, <1>2, <1>3

\* Activation changes the status of releases that were probed.
LEMMA ActivateSound == ASSUME IInv, Sound, NEW w \in Workers, Activate(w) PROVE Sound'
<1> DEFINE p == run[w].pub
<1>1. /\ run[w].pc = "activate" /\ UNCHANGED <<current, content, passed>>
      /\ p \in Publications /\ Goto(w, "idle")
  BY AtWork DEF Activate
<1>2. CASE UNCHANGED pub
  BY <1>1, <1>2, NothingTaken, SoundGoto
<1>3. CASE ~ UNCHANGED pub
  <2>1. /\ pub[p].status = "promoting"
        /\ pub' = [q \in Publications |->
                      IF q = p THEN [pub[p] EXCEPT !.status = "active"]
                      ELSE IF q = effective THEN Superseded(q) ELSE pub[q]]
    BY <1>3 DEF Activate
  <2>2. \A q \in Publications :
           /\ pub'[q].spec = pub[q].spec
           /\ \/ pub'[q].status = pub[q].status
              \/ pub[q].status = "promoting" /\ pub'[q].status = "active"
              \/ pub[q].status = "active" /\ pub'[q].status = "superseded"
    <3> TAKE q \in Publications
    <3>1. pub[q] \in Row
      BY DEF IInv, TypeOK
    <3> QED
      BY <2>1, <3>1 DEF Superseded, Row
  <2>3. \A q \in Publications : Keeps(q)
    BY <1>1, <2>2 DEF Keeps, BuiltRow
  <2>4. (\A q \in Publications : RowSound(q))'
    BY <1>1, <2>2 DEF Sound, RowSound, BuiltRow, PassedRow
  <2>5. \A v \in Workers : RunSound(run[v])'
    <3> TAKE v \in Workers
    <3>1. run'[v].pc = "idle" \/ (run'[v] = run[v] /\ run[v].pub \in Publications)
      BY <1>1 DEF Goto, IInv, TypeOK, Run
    <3> QED
      BY <2>3, <3>1, RunKept DEF RunSound
  <2> QED
    BY <1>1, <2>3, <2>4, <2>5, ServedKept DEF Sound
<1> QED
  BY <1>2, <1>3

\* A claim reads what the row promises.
LEMMA ClaimSound == ASSUME IInv, Sound, NEW w \in Workers, Claim(w) PROVE Sound'
<1>1. PICK p \in Publications :
        /\ Claimable(p)
        /\ pub' = [pub EXCEPT ![p].attempts = IF @ > MaxAttempts THEN @ ELSE @ + 1]
        /\ run' = [run EXCEPT ![w] = [pc |-> "begin", pub |-> p, row |-> pub'[p]]]
        /\ UNCHANGED <<current, content, passed>>
  BY DEF Claim
<1>2. pub \in [Publications -> Row] /\ run \in [Workers -> Run] /\ outbox \in [Publications -> Outbox]
  BY DEF IInv, TypeOK
<1>3. pub[p].status \in Busy
  BY <1>1 DEF Claimable, IInv, NeverStranded, Busy
<1>4. \A q \in Publications : pub'[q].status = pub[q].status /\ pub'[q].spec = pub[q].spec
  BY <1>1, <1>2 DEF Row
<1>5. \A q \in Publications : Keeps(q)
  BY <1>1, <1>4 DEF Keeps, BuiltRow
<1>6. (\A q \in Publications : RowSound(q))'
  BY <1>1, <1>4 DEF Sound, RowSound, BuiltRow, PassedRow
<1>7. \A v \in Workers : RunSound(run[v])'
  <2> TAKE v \in Workers
  <2>1. CASE v = w
    <3>1. run'[v].pc = "begin" /\ run'[v].pub = p /\ run'[v].row = pub'[p]
      BY <1>1, <1>2, <2>1
    <3>2. (RowSound(p))'
      BY <1>6
    <3> QED
      BY <1>3, <1>4, <3>1, <3>2 DEF RunSound, RowSound, Busy
  <2>2. CASE v # w
    <3>1. run'[v] = run[v] /\ run[v].pub \in Publications
      BY <1>1, <1>2, <2>2 DEF Run
    <3> QED
      BY <1>5, <3>1, RunKept
  <2> QED
    BY <2>1, <2>2
<1> QED
  BY <1>1, <1>5, <1>6, <1>7, ServedKept DEF Sound

\* The owner's requests keep the spec of a publication that has one, when a
\* retry may not replace it.
LEMMA OwnerSound == ASSUME IInv, Sound, ReplaceSpec = FALSE, OwnerNext PROVE Sound'
<1>1. PICK p \in Publications :
          \/ \E spec \in Specs, credential \in BOOLEAN : Create(p, spec, credential)
          \/ \E spec \in {pub[p].spec}, credential \in BOOLEAN : Requeue(p, spec, credential)
          \/ Resume(p)
          \/ Cancel(p)
  BY DEF OwnerNext
<1>2. UNCHANGED <<current, content, passed, run>>
  BY <1>1 DEF Create, Requeue, Resume, Cancel
<1>3. pub[p] \in Row
  BY DEF IInv, TypeOK
<1>4. CASE \E spec \in Specs, credential \in BOOLEAN : Create(p, spec, credential)
  <2>1. PICK spec \in Specs : pub[p].status = "none" /\ pub' = [pub EXCEPT ![p] = NewRow(spec)]
    BY <1>4 DEF Create
  <2>2. pub'[p].status = "queued" /\ \A q \in Publications : q # p => pub'[q] = pub[q]
    BY <2>1 DEF NewRow, IInv, TypeOK
  <2>3. \A q \in Publications : Keeps(q)
    BY <1>2, <2>1, <2>2 DEF Keeps, BuiltRow
  <2>4. (\A q \in Publications : RowSound(q))'
    BY <1>2, <2>2 DEF Sound, RowSound, BuiltRow, PassedRow
  <2>5. \A v \in Workers : run[v].pub \in Publications /\ run'[v] = run[v]
    BY <1>2 DEF IInv, TypeOK, Run
  <2> QED
    BY <1>2, <2>3, <2>4, <2>5, RunKept, ServedKept DEF Sound
<1>5. ASSUME NEW row, pub' = [pub EXCEPT ![p] = row], pub[p].status # "none", Earned(p, row)
      PROVE  Sound'
  BY <1>2, <1>5, SoundRow
<1>6. CASE \E credential \in BOOLEAN : Requeue(p, pub[p].spec, credential)
  <2>1. pub[p].status # "none" /\ pub' = [pub EXCEPT ![p] = NewRow(pub[p].spec)]
    BY <1>6 DEF Requeue
  <2>2. Earned(p, NewRow(pub[p].spec))
    BY DEF Earned, NewRow
  <2> QED
    BY <1>5, <2>1, <2>2
<1>7. CASE Resume(p)
  <2>1. /\ pub[p].status = "awaiting_authorization"
        /\ pub' = [pub EXCEPT ![p] = [pub[p] EXCEPT !.status = "verifying"]]
    BY <1>7 DEF Resume
  <2>2. Earned(p, [pub[p] EXCEPT !.status = "verifying"])
    BY <1>3, <2>1 DEF Earned, Sound, RowSound, Row
  <2> QED
    BY <1>5, <2>1, <2>2
<1>8. CASE Cancel(p)
  <2>1. /\ pub[p].status # "none"
        /\ pub' = [pub EXCEPT ![p] = [pub[p] EXCEPT !.status = "rolled_back"]]
    BY <1>8 DEF Cancel
  <2>2. Earned(p, [pub[p] EXCEPT !.status = "rolled_back"])
    BY <1>3 DEF Earned, Row
  <2> QED
    BY <1>5, <2>1, <2>2
<1> QED
  BY <1>1, <1>4, <1>6, <1>7, <1>8

\* Every step keeps what rows and runs rely on.
LEMMA NextSound ==
    ASSUME IInv, Sound, ReplaceSpec = FALSE, [Next]_vars PROVE Sound'
<1>1. CASE OwnerNext
  BY <1>1, OwnerSound
<1>2. CASE WorkerNext
  BY <1>2, ClaimSound, BeginSound, EarlySound, PutSound, ProbeSound, PromotingSound,
     ActivateSound, CommitSound, EndingSound, FaultSound DEF WorkerNext, RunStep
<1>3. CASE UNCHANGED vars
  BY <1>3 DEF vars, Sound, RowSound, RunSound, ServedSound, BuiltRow, PassedRow
<1> QED
  BY <1>1, <1>2, <1>3 DEF Next

\* APIM serves policies that passed their probes, for any number of
\* publications, workers, faults and retries, as long as a retry keeps the
\* spec: also when a worker without a lease writes to the revision meanwhile.
THEOREM ServedProbed == (ReplaceSpec = FALSE) => (Spec => []ServedIsProbed)
<1> SUFFICES ASSUME ReplaceSpec = FALSE PROVE Spec => []ServedIsProbed
  OBVIOUS
<1>1. Init => Sound
  BY InitSound
<1>2. IInv /\ Sound /\ [Next]_vars => Sound'
  BY NextSound
<1>3. Sound => ServedIsProbed
  BY DEF Sound, ServedSound, BuiltRow, PassedRow, ServedIsProbed
<1> QED
  BY <1>1, <1>2, <1>3, PublicationInvariant, PTL DEF Spec

--------------------------------------------------------------------------
(* Rollbacks.  As long as no publication and no second worker met one, the *)
(* gateway belongs to the rollback while it is open, and to publications   *)
(* in between: the invariant of publications holds but for what is served, *)
(* which the open rollback accounts for.                                   *)

\* The invariant of publications without what APIM serves.
QueueInv == /\ TypeOK /\ OneInFlight /\ NeverStranded /\ EffectiveIsActive /\ CredentialErased
            /\ RunsOK /\ HeldRow /\ SeenServed

\* No rollback is open: nobody works on one, and publications are served.
Between ==
    op.status \in Closed =>
        /\ op.owner = "nobody" /\ \A w \in OpWorkers : opRun[w].pc = "idle"
        /\ ServedOrPromoting

\* A rollback is open: its releases are what they were when it was requested,
\* and APIM serves one of them.
During ==
    op.status \notin Closed =>
        /\ NoneInFlight /\ effective = op.prior /\ Eligible(op.target)
        /\ current \in {op.prior, op.target}
        /\ op.status \in {"queued", "validating_dependencies", "preflight_probing"} =>
               current = op.prior
        /\ op.status = "post_promotion_probing" => current = op.target

\* A run works on the rollback as it claimed it, and what it has established.
OpRunOK(w) ==
    opRun[w].pc # "idle" =>
        /\ op.owner = w /\ opRun[w].row = op
        /\ opRun[w].pc = "promote" => op.status = "promoting"
        /\ opRun[w].pc = "complete" => op.status = "post_promotion_probing"
        /\ opRun[w].pc \in {"restore", "confirm"} => op.status = "restoring"
        /\ opRun[w].pc = "commit" =>
              /\ op.status # "post_promotion_probing"
              /\ op.status = "verifying_readback" => current = op.target
              /\ op.status = "restoring" => current = op.prior

OpTyped == op \in Operation /\ opRun \in [OpWorkers -> OpRun]

Calm == QueueInv /\ OpTyped /\ Between /\ During /\ \A w \in OpWorkers : OpRunOK(w)

Alone == overtaken \/ Calm

\* Init establishes it.
LEMMA InitAlone == RollbackInit => Alone
<1> SUFFICES ASSUME RollbackInit PROVE Calm
  BY DEF Alone
<1>1. IInv
  BY InitOK DEF RollbackInit
<1>2. NoOperation \in Operation /\ NoOperation.status = "none" /\ NoOperation.owner = "nobody"
  BY PublicationAssumption DEF NoOperation, Operation, OpStatuses
<1>3. op = NoOperation /\ opRun = [w \in OpWorkers |-> [pc |-> "idle", row |-> NoOperation]]
  BY DEF RollbackInit
<1>4. OpTyped
  BY <1>2, <1>3 DEF OpTyped, OpRun, OpPcs
<1> QED
  BY <1>1, <1>2, <1>3, <1>4 DEF Calm, IInv, QueueInv, Between, During, OpRunOK, Closed

\* While a rollback is open no publication is held.
LEMMA OpenQuiet ==
    ASSUME Calm, op.status \notin Closed PROVE \A w \in Workers : ~ Held(w)
<1>1. \A p \in Publications : pub[p].status \notin InFlightStatuses
  BY DEF Calm, During, NoneInFlight, InFlight
<1>2. \A p \in Publications : outbox[p].status # "leased"
  BY <1>1 DEF Calm, QueueInv, NeverStranded, InFlightStatuses
<1> QED
  BY <1>2 DEF Held, Calm, QueueInv, TypeOK, Run

\* What a rollback does to APIM leaves the queue of publications as it is.
LEMMA QueueKept ==
    ASSUME QueueInv, UNCHANGED <<queue, effective, content, passed, run, retries>>,
           faults' \in 0..MaxFaults, current' \in Revisions,
           UNCHANGED current \/ \A w \in Workers : ~ Held(w)
    PROVE  QueueInv'
<1>1. (\A w \in Workers : Held(w)' <=> Held(w)) /\ UNCHANGED <<pub, outbox, secret>>
  BY DEF Held, queue
<1> QED
  BY <1>1 DEF QueueInv, TypeOK, OneInFlight, NeverStranded, EffectiveIsActive, CredentialErased,
              RunsOK, HeldRow, SeenServed

\* What a run of a rollback relies on.
LEMMA OpAtWork ==
    ASSUME Calm, NEW w \in OpWorkers, opRun[w].pc # "idle"
    PROVE  /\ op.status \notin Closed /\ op \in Operation /\ opRun[w] \in OpRun
           /\ OpHeld(w) /\ opRun[w].row = op
           /\ \A v \in OpWorkers : v # w => opRun[v].pc = "idle"
           /\ op.prior \in Publications /\ op.target \in Publications /\ op.prior # op.target
<1>1. OpRunOK(w) /\ op \in Operation /\ opRun[w] \in OpRun
  BY DEF Calm, OpTyped
<1>2. op.status \notin Closed
  BY DEF Calm, Between
<1>3. op.prior # op.target
  BY <1>2 DEF Calm, During, Eligible
<1>4. \A v \in OpWorkers : v # w => opRun[v].pc = "idle"
  BY <1>1 DEF Calm, OpRunOK
<1> QED
  BY <1>1, <1>2, <1>3, <1>4 DEF OpRunOK, OpHeld, Operation

\* A run that goes on, having promoted one of its releases or nothing.
LEMMA OpMoves ==
    ASSUME Calm, NEW w \in OpWorkers, NEW pc \in OpPcs,
           opRun[w].pc # "idle", OpGoto(w, pc),
           UNCHANGED <<queue, effective, content, passed, run, retries>>,
           faults' \in 0..MaxFaults,
           \/ UNCHANGED current
           \/ op.status = "promoting" /\ current' = op.target
           \/ op.status = "restoring" /\ current' = op.prior,
           pc = "promote" => op.status = "promoting",
           pc = "complete" => op.status = "post_promotion_probing",
           pc \in {"restore", "confirm"} => op.status = "restoring",
           pc = "commit" =>
              /\ op.status # "post_promotion_probing"
              /\ op.status = "verifying_readback" => current' = op.target
              /\ op.status = "restoring" => current' = op.prior
    PROVE  Calm'
<1>1. /\ op.status \notin Closed /\ op \in Operation /\ opRun[w] \in OpRun
      /\ op.owner = w /\ opRun[w].row = op
      /\ \A v \in OpWorkers : v # w => opRun[v].pc = "idle"
      /\ op.prior \in Publications /\ op.target \in Publications
  BY OpAtWork DEF OpHeld
<1>2. /\ opRun'[w].pc = pc /\ opRun'[w].row = op /\ UNCHANGED <<op, pub>>
      /\ \A v \in OpWorkers : v # w => opRun'[v] = opRun[v]
      /\ opRun' \in [OpWorkers -> OpRun]
  BY <1>1 DEF OpGoto, Calm, OpTyped, OpRun, queue
<1>3. QueueInv'
  <2>1. current' \in Revisions
    BY <1>1 DEF Calm, QueueInv, TypeOK, Revisions
  <2> QED
    BY <1>1, <2>1, OpenQuiet, QueueKept DEF Calm
<1>4. OpTyped'
  BY <1>1, <1>2 DEF OpTyped
<1>5. Between'
  BY <1>1, <1>2 DEF Between
<1>6. During'
  BY <1>1, <1>2 DEF Calm, During, NoneInFlight, InFlight, Eligible
<1>7. (\A v \in OpWorkers : OpRunOK(v))'
  BY <1>1, <1>2 DEF OpRunOK
<1> QED
  BY <1>3, <1>4, <1>5, <1>6, <1>7 DEF Calm

\* A run that ends with a write: a rollback ends only where APIM serves what
\* is effective.
LEMMA OpWrites ==
    ASSUME Calm, NEW w \in OpWorkers, NEW status \in OpStatuses \ {"none", "succeeded"},
           opRun[w].pc # "idle", OpTransition(w, status), UNCHANGED vars,
           status \in {"queued", "validating_dependencies", "preflight_probing", "failed",
                       "restored"} => current = op.prior,
           status = "post_promotion_probing" => current = op.target
    PROVE  Calm'
<1>1. /\ op.status \notin Closed /\ op \in Operation /\ opRun[w] \in OpRun
      /\ op.owner = w /\ opRun[w].row = op
      /\ \A v \in OpWorkers : v # w => opRun[v].pc = "idle"
  BY OpAtWork DEF OpHeld
<1>2. op' = [op EXCEPT !.status = status, !.owner = "nobody"]
  BY <1>1 DEF OpTransition, OpHeld
<1>3. /\ op' \in Operation /\ op'.status = status /\ op'.owner = "nobody"
      /\ op'.prior = op.prior /\ op'.target = op.target
  BY <1>1, <1>2 DEF Operation
<1>4. \A v \in OpWorkers : opRun'[v].pc = "idle"
  BY <1>1 DEF OpTransition, Calm, OpTyped
<1>5. opRun' \in [OpWorkers -> OpRun]
  BY <1>1 DEF OpTransition, Calm, OpTyped, OpRun, OpPcs
<1>6. UNCHANGED <<pub, outbox, secret, effective, current, content, passed, run, retries, faults>>
  BY DEF vars
<1>7. QueueInv'
  BY <1>6, QueueKept DEF Calm, QueueInv, TypeOK, queue
<1>8. Between'
  BY <1>1, <1>3, <1>4, <1>6 DEF Calm, During, Between, Closed, ServedOrPromoting
<1>9. During'
  BY <1>1, <1>3, <1>6 DEF Calm, During, NoneInFlight, InFlight, Eligible, Closed
<1> QED
  BY <1>3, <1>4, <1>5, <1>7, <1>8, <1>9 DEF Calm, OpTyped, OpRunOK

\* The successful end: the target becomes the effective release that APIM
\* serves already, and the release it replaces is rolled back.
LEMMA CompletePreserves ==
    ASSUME Calm, NEW w \in OpWorkers, Complete(w) PROVE Calm'
<1> DEFINE t == op.target
           q == op.prior
<1>1. /\ opRun[w].pc = "complete"
      /\ UNCHANGED <<outbox, secret, current, content, passed, run, retries, faults>>
  BY DEF Complete, apim
<1>2. /\ op.status \notin Closed /\ op \in Operation /\ opRun[w] \in OpRun
      /\ OpHeld(w) /\ op.owner = w /\ opRun[w].row = op
      /\ \A v \in OpWorkers : v # w => opRun[v].pc = "idle"
      /\ q \in Publications /\ t \in Publications /\ q # t
  BY <1>1, OpAtWork DEF OpHeld
<1>3. CASE OpGoto(w, "fail") /\ UNCHANGED <<pub, effective>>
  <2>1. /\ UNCHANGED <<queue, effective, content, passed, run, retries>>
        /\ UNCHANGED current /\ faults' \in 0..MaxFaults
    BY <1>1, <1>3 DEF queue, Calm, QueueInv, TypeOK
  <2> QED
    BY <1>1, <1>3, <2>1, OpMoves DEF OpPcs
<1>4. CASE /\ pub' = [pub EXCEPT ![q].status = "rolled_back", ![t].status = "active"]
           /\ effective' = t /\ OpTransition(w, "succeeded") /\ op.status = "post_promotion_probing"
  <2>1. /\ pub \in [Publications -> Row] /\ outbox \in [Publications -> Outbox]
        /\ run \in [Workers -> Run]
    BY DEF Calm, QueueInv, TypeOK
  <2>2. /\ effective = q /\ current = t /\ pub[t].status \in {"active", "superseded"}
        /\ \A p \in Publications : ~ InFlight(p)
    BY <1>2, <1>4 DEF Calm, During, Eligible, NoneInFlight
  <2>3. /\ pub[q].status = "active" /\ pub[t].revised
        /\ \A p \in Publications : pub[p].status = "active" <=> p = q
    BY <1>2, <2>2 DEF Calm, QueueInv, EffectiveIsActive, TypeOK
  <2>4. /\ pub'[t] = [pub[t] EXCEPT !.status = "active"]
        /\ pub'[q] = [pub[q] EXCEPT !.status = "rolled_back"]
        /\ \A p \in Publications : p # t /\ p # q => pub'[p] = pub[p]
    BY <1>2, <1>4, <2>1
  <2>5. /\ pub'[t] \in Row /\ pub'[t].status = "active" /\ pub'[t].revised
        /\ pub'[q] \in Row /\ pub'[q].status = "rolled_back"
    BY <1>2, <2>1, <2>3, <2>4 DEF Row, Statuses
  <2>6. pub' \in [Publications -> Row]
    BY <1>2, <1>4, <2>1, <2>5
  <2>7. op' = [op EXCEPT !.status = "succeeded", !.owner = "nobody"]
    BY <1>2, <1>4 DEF OpTransition
  <2>8. op' \in Operation /\ op'.status = "succeeded" /\ op'.owner = "nobody"
    BY <1>2, <2>7 DEF Operation, OpStatuses
  <2>9. opRun' \in [OpWorkers -> OpRun] /\ \A v \in OpWorkers : opRun'[v].pc = "idle"
    BY <1>2, <1>4 DEF OpTransition, Calm, OpTyped, OpRun, OpPcs
  <2>10. \A v \in Workers : ~ Held(v)'
    BY <1>1, <1>2, OpenQuiet DEF Held
  <2> HIDE DEF t, q
  <2>11. TypeOK'
    <3>1. effective' \in Revisions
      BY <1>2, <1>4 DEF Revisions
    <3>2. \A p \in Publications :
             pub'[p].status \in {"building_revision", "verifying", "awaiting_authorization",
                                 "promoting", "active", "superseded"} => pub'[p].revised
      BY <2>4, <2>5 DEF Calm, QueueInv, TypeOK
    <3> QED
      BY <1>1, <2>6, <3>1, <3>2 DEF Calm, QueueInv, TypeOK
  <2>12. OneInFlight'
    BY <2>4, <2>5 DEF Calm, QueueInv, OneInFlight
  <2>13. NeverStranded'
    BY <1>1, <1>2, <2>2, <2>3, <2>4, <2>5 DEF Calm, QueueInv, NeverStranded
  <2>14. EffectiveIsActive'
    BY <1>2, <1>4, <2>3, <2>4, <2>5 DEF EffectiveIsActive
  <2>15. CredentialErased'
    BY <1>1, <2>2, <2>3, <2>4 DEF Calm, QueueInv, CredentialErased, TypeOK
  <2>16. RunsOK' /\ HeldRow' /\ SeenServed'
    BY <1>1, <2>10 DEF Calm, QueueInv, RunsOK, HeldRow, SeenServed
  <2>17. Between' /\ During' /\ (\A v \in OpWorkers : OpRunOK(v))'
    BY <1>1, <1>4, <2>2, <2>8, <2>9 DEF Between, During, OpRunOK, ServedOrPromoting, Closed
  <2> QED
    BY <2>8, <2>9, <2>11, <2>12, <2>13, <2>14, <2>15, <2>16, <2>17 DEF Calm, QueueInv, OpTyped
<1> QED
  BY <1>2, <1>3, <1>4 DEF Complete, StillPrior

\* The other steps of a run.
LEMMA OpStepPreserves == ASSUME Calm, NEW w \in OpWorkers, OpStep(w) PROVE Calm'
<1>1. CASE Complete(w)
  BY <1>1, CompletePreserves
<1>2. CASE ~ Complete(w)
  <2>1. opRun[w].pc # "idle"
    BY <1>2 DEF OpStep, OpBegin, OpStart, ValidateDependencies, Preflight, CheckCurrent,
                OpPromote, OpReadback, PostProbe, Restore, ConfirmRestored, OpCommit, OpRetry,
                OpFail, OpAt
  <2>2. /\ op.status \notin Closed /\ op \in Operation /\ opRun[w].row = op
    BY <2>1, OpAtWork
  <2>3. faults \in 0..MaxFaults
    BY DEF Calm, QueueInv, TypeOK
  <2>4. ASSUME NEW pc \in OpPcs \ {"promote", "complete", "restore", "confirm", "commit"},
               OpGoto(w, pc), UNCHANGED vars
        PROVE  Calm'
    BY <2>1, <2>3, <2>4, OpMoves DEF vars, queue
  <2>5. ASSUME OpGoto(w, "commit"), UNCHANGED vars, op.status # "post_promotion_probing",
               op.status = "verifying_readback" => current = op.target,
               op.status = "restoring" => current = op.prior
        PROVE  Calm'
    BY <2>1, <2>3, <2>5, OpMoves DEF vars, queue, OpPcs
  <2>6. ASSUME NEW status \in OpStatuses \ {"none", "succeeded"},
               OpTransition(w, status), UNCHANGED vars,
               \/ status = op.status
               \/ status = AfterError(op.status)
        PROVE  Calm'
    <3>1. status \in {"queued", "validating_dependencies", "preflight_probing", "failed",
                      "restored"} => current = op.prior
      BY <2>2, <2>6 DEF AfterError, Calm, During, Closed, Operation, OpStatuses
    <3>2. status = "post_promotion_probing" => current = op.target
      BY <2>2, <2>6 DEF AfterError, Calm, During
    <3> QED
      BY <2>1, <2>6, <3>1, <3>2, OpWrites
  <2>7. /\ op.status \in OpStatuses \ {"none", "succeeded"}
        /\ AfterError(op.status) \in OpStatuses \ {"none", "succeeded"}
    BY <2>2 DEF AfterError, Operation, OpStatuses, Closed
  <2>8. CASE OpBegin(w)
    BY <2>2, <2>4, <2>6, <2>7, <2>8 DEF OpBegin, OpPcs
  <2>9. CASE OpRetry(w) \/ OpFail(w)
    BY <2>2, <2>6, <2>7, <2>9 DEF OpRetry, OpFail
  <2>10. CASE OpStart(w) \/ ValidateDependencies(w) \/ Preflight(w)
    BY <2>2, <2>4, <2>5, <2>10 DEF OpStart, ValidateDependencies, Preflight, OpAt, OpPcs
  <2>11. CASE CheckCurrent(w)
    <3>1. op.status = "promoting" /\ UNCHANGED vars /\ \E pc \in {"promote", "fail"} : OpGoto(w, pc)
      BY <2>2, <2>11 DEF CheckCurrent, OpAt
    <3> QED
      BY <2>1, <2>3, <3>1, OpMoves DEF vars, queue, OpPcs
  <2>12. CASE OpPromote(w)
    <3>1. /\ UNCHANGED <<queue, effective, content, passed, run, retries, faults>>
          /\ opRun[w].pc = "promote" \/ opRun[w].pc = "restore"
      BY <2>12 DEF OpPromote
    <3>2. CASE opRun[w].pc = "promote"
      <4>1. op.status = "promoting" /\ current' = op.target /\ OpGoto(w, "commit")
        BY <2>2, <2>12, <3>2 DEF OpPromote, Calm, OpRunOK
      <4> QED
        BY <2>1, <2>3, <3>1, <4>1, OpMoves DEF OpPcs
    <3>3. CASE opRun[w].pc = "restore"
      <4>1. op.status = "restoring" /\ current' = op.prior /\ OpGoto(w, "confirm")
        BY <2>2, <2>12, <3>3 DEF OpPromote, Calm, OpRunOK
      <4> QED
        BY <2>1, <2>3, <3>1, <4>1, OpMoves DEF OpPcs
    <3> QED
      BY <3>1, <3>2, <3>3
  <2>13. CASE OpReadback(w)
    BY <2>2, <2>4, <2>5, <2>13 DEF OpReadback, OpAt, OpPcs
  <2>14. CASE PostProbe(w)
    <3>1. /\ op.status = "post_promotion_probing" /\ UNCHANGED vars
          /\ \E pc \in {"complete", "fail"} : OpGoto(w, pc)
      BY <2>2, <2>14 DEF PostProbe, OpAt
    <3> QED
      BY <2>1, <2>3, <3>1, OpMoves DEF vars, queue, OpPcs
  <2>15. CASE Restore(w)
    <3>1. /\ op.status = "restoring" /\ UNCHANGED vars
          /\ \E pc \in {"restore", "confirm", "fail"} : OpGoto(w, pc)
      BY <2>2, <2>15 DEF Restore, OpAt
    <3> QED
      BY <2>1, <2>3, <3>1, OpMoves DEF vars, queue, OpPcs
  <2>16. CASE ConfirmRestored(w)
    <3>1. op.status = "restoring"
      BY <2>16 DEF ConfirmRestored, Calm, OpRunOK
    <3> QED
      BY <2>2, <2>4, <2>5, <2>16, <3>1 DEF ConfirmRestored, OpPcs
  <2>17. CASE OpCommit(w)
    <3> DEFINE status == OpNextStatus(op.status)
    <3>1. /\ OpTransition(w, status) /\ UNCHANGED vars
          /\ op.status # "post_promotion_probing"
          /\ op.status = "verifying_readback" => current = op.target
          /\ op.status = "restoring" => current = op.prior
      BY <2>2, <2>17 DEF OpCommit, Calm, OpRunOK
    <3>2. /\ status \in OpStatuses \ {"none", "succeeded"}
          /\ status \in {"validating_dependencies", "preflight_probing"} =>
                 op.status \in {"queued", "validating_dependencies"}
          /\ status = "post_promotion_probing" => op.status = "verifying_readback"
          /\ status = "restored" => op.status = "restoring"
          /\ status \notin {"queued", "failed"}
      BY <2>2, <3>1 DEF OpNextStatus, Operation, OpStatuses, Closed
    <3> HIDE DEF status
    <3>3. status \in {"queued", "validating_dependencies", "preflight_probing", "failed",
                      "restored"} => current = op.prior
      BY <2>2, <3>1, <3>2 DEF Calm, During
    <3> QED
      BY <2>1, <3>1, <3>2, <3>3, OpWrites
  <2> QED
    BY <1>2, <2>8, <2>9, <2>10, <2>11, <2>12, <2>13, <2>14, <2>15, <2>16, <2>17 DEF OpStep
<1> QED
  BY <1>1, <1>2

\* A rollback that is requested when no publication is in progress finds APIM
\* serving the effective release.
LEMMA RequestRollbackPreserves ==
    ASSUME Calm, NEW t \in Publications, RequestRollback(t), NoneInFlight PROVE Calm'
<1>1. /\ op.status \in Closed /\ effective \in Publications /\ Eligible(t)
      /\ op' = [status |-> "queued", target |-> t, prior |-> effective,
                attempts |-> 0, owner |-> "nobody"]
      /\ UNCHANGED <<vars, opRun>>
  BY DEF RequestRollback
<1>2. UNCHANGED <<pub, outbox, secret, effective, current, content, passed, run, retries, faults>>
  BY <1>1 DEF vars
<1>3. op' \in Operation
  BY <1>1, PublicationAssumption DEF Operation, OpStatuses
<1>4. current = effective
  BY DEF Calm, Between, ServedOrPromoting, NoneInFlight, InFlight, InFlightStatuses, RequestRollback
<1>5. \A w \in OpWorkers : opRun[w].pc = "idle"
  BY <1>1 DEF Calm, Between
<1>6. QueueInv'
  BY <1>2, QueueKept DEF Calm, QueueInv, TypeOK, queue
<1>7. op'.status = "queued" /\ op'.target = t /\ op'.prior = effective
  BY <1>1
<1>8. During'
  BY <1>1, <1>2, <1>4, <1>7 DEF During, NoneInFlight, InFlight, Eligible
<1> QED
  BY <1>1, <1>3, <1>5, <1>6, <1>7, <1>8 DEF Calm, OpTyped, Between, OpRunOK, Closed

\* A claim reads the rollback; a lease that ends after its run leaves it.
LEMMA OpLeasePreserves ==
    ASSUME Calm, NEW w \in OpWorkers, ClaimOperation(w) \/ OpLapse(w) PROVE Calm'
<1>1. /\ UNCHANGED <<pub, outbox, secret, effective, current, content, passed, run, retries, faults>>
      /\ op \in Operation /\ opRun \in [OpWorkers -> OpRun] /\ opRun[w].pc = "idle"
  BY DEF ClaimOperation, OpLapse, vars, Calm, OpTyped
<1>2. QueueInv'
  BY <1>1, QueueKept DEF Calm, QueueInv, TypeOK, queue
<1>3. CASE ClaimOperation(w)
  <2>1. /\ op.status \notin Closed /\ op.owner = "nobody"
        /\ op' = [op EXCEPT !.owner = w, !.attempts = IF @ > MaxAttempts THEN @ ELSE @ + 1]
        /\ opRun' = [opRun EXCEPT ![w] = [pc |-> "begin", row |-> op']]
    BY <1>3 DEF ClaimOperation
  <2>2. (IF op.attempts > MaxAttempts THEN op.attempts ELSE op.attempts + 1) \in 0..MaxAttempts + 1
    BY <1>1, PublicationAssumption DEF Operation
  <2>3. /\ op' \in Operation /\ op'.status = op.status /\ op'.owner = w
        /\ op'.target = op.target /\ op'.prior = op.prior
    BY <1>1, <2>1, <2>2 DEF Operation
  <2>4. /\ opRun' \in [OpWorkers -> OpRun]
        /\ opRun'[w].pc = "begin" /\ opRun'[w].row = op'
        /\ \A v \in OpWorkers : v # w => opRun'[v] = opRun[v]
    BY <1>1, <2>1, <2>3 DEF OpRun, OpPcs
  <2>5. \A v \in OpWorkers : opRun[v].pc = "idle"
    BY <2>1, RollbackAssumption DEF Calm, OpRunOK
  <2>6. Between' /\ During'
    BY <1>1, <2>1, <2>3 DEF Calm, Between, During, NoneInFlight, InFlight, Eligible
  <2>7. (\A v \in OpWorkers : OpRunOK(v))'
    BY <2>3, <2>4, <2>5 DEF OpRunOK
  <2> QED
    BY <1>2, <2>3, <2>4, <2>6, <2>7 DEF Calm, OpTyped
<1>4. CASE OpLapse(w)
  <2>1. op.owner = w /\ op' = [op EXCEPT !.owner = "nobody"] /\ UNCHANGED opRun
    BY <1>4 DEF OpLapse, OpHeld
  <2>2. /\ op' \in Operation /\ op'.status = op.status /\ op'.owner = "nobody"
        /\ op'.target = op.target /\ op'.prior = op.prior
    BY <1>1, <2>1 DEF Operation
  <2>3. \A v \in OpWorkers : opRun[v].pc = "idle"
    BY <1>1, <2>1 DEF Calm, OpRunOK
  <2>4. Between' /\ During'
    BY <1>1, <2>1, <2>2, <2>3 DEF Calm, Between, During, NoneInFlight, InFlight, Eligible,
                                  ServedOrPromoting
  <2> QED
    BY <1>1, <1>2, <2>1, <2>2, <2>3, <2>4 DEF Calm, OpTyped, OpRunOK
<1> QED
  BY <1>3, <1>4

\* Errors, crashes and lost answers change the run, and what APIM serves.
LEMMA OpFaultPreserves ==
    ASSUME Calm, NEW w \in OpWorkers, OpCrash(w) \/ OpPromoteUnanswered(w) \/ OpFault(w)
    PROVE  Calm'
<1>1. /\ opRun[w].pc # "idle" /\ faults < MaxFaults /\ faults' = faults + 1
      /\ UNCHANGED <<queue, effective, content, passed, run, retries>>
  BY DEF OpCrash, OpPromoteUnanswered, OpFault, apim
<1>2. faults' \in 0..MaxFaults
  BY <1>1, PublicationAssumption DEF Calm, QueueInv, TypeOK
<1>3. CASE OpCrash(w) \/ OpFault(w)
  <2>1. UNCHANGED current /\ \E pc \in {"idle", "retry", "fail"} : OpGoto(w, pc)
    BY <1>3 DEF OpCrash, OpFault, OpGoto, apim
  <2> QED
    BY <1>1, <1>2, <2>1, OpMoves DEF OpPcs
<1>4. CASE OpPromoteUnanswered(w)
  <2>1. /\ opRun[w].pc \in {"promote", "restore"} /\ OpGoto(w, "retry")
        /\ opRun[w].pc = "promote" => op.status = "promoting" /\ opRun[w].row = op
        /\ opRun[w].pc = "restore" => op.status = "restoring" /\ opRun[w].row = op
    BY <1>4 DEF OpPromoteUnanswered, Calm, OpRunOK
  <2>2. \/ UNCHANGED current
        \/ op.status = "promoting" /\ current' = op.target
        \/ op.status = "restoring" /\ current' = op.prior
    BY <1>4, <2>1 DEF OpPromoteUnanswered
  <2> QED
    BY <1>1, <1>2, <2>1, <2>2, OpMoves DEF OpPcs
<1> QED
  BY <1>3, <1>4

\* A publication's step between rollbacks is one of the publications alone.
LEMMA PublicationStepPreserves ==
    ASSUME Calm, op.status \in Closed, PublicationStep PROVE Calm'
<1>1. UNCHANGED <<op, opRun>> /\ Next
  BY DEF PublicationStep
<1>2. IInv
  BY DEF Calm, QueueInv, Between, IInv
<1>3. IInv'
  BY <1>1, <1>2, NextPreserves
<1> QED
  BY <1>1, <1>3 DEF Calm, QueueInv, OpTyped, Between, During, OpRunOK, IInv

\* Every step of the composition keeps the invariant.
LEMMA NextAlone == Alone /\ [ComposedNext]_allVars => Alone'
<1> SUFFICES ASSUME Alone, [ComposedNext]_allVars PROVE Alone'
  OBVIOUS
<1>1. CASE UNCHANGED allVars
  BY <1>1, QueueKept DEF allVars, vars, opVars, Alone, Calm, QueueInv, TypeOK, OpTyped, Between, During,
                         OpRunOK, ServedOrPromoting, NoneInFlight, InFlight, Eligible, queue
<1>2. CASE overtaken /\ ComposedNext
  <2>1. overtaken'
    BY <1>2 DEF ComposedNext, RollbackNext, PublicationStep, RequestRollback, ClaimOperation,
                OpStep, OpLapse, OpLoseLease, OpCrash, OpPromoteUnanswered, OpFault, OpGoto,
                OpTransition, OpBegin, OpStart, ValidateDependencies, Preflight, CheckCurrent,
                OpPromote, OpReadback, PostProbe, Complete, Restore, ConfirmRestored, OpCommit,
                OpRetry, OpFail
  <2> QED
    BY <2>1 DEF Alone
<1>3. CASE ~ overtaken /\ ComposedNext
  <2>1. Calm
    BY <1>3 DEF Alone
  <2>2. ASSUME NEW t \in Publications, RequestRollback(t) PROVE Alone'
    BY <2>1, <2>2, RequestRollbackPreserves DEF RequestRollback, Alone
  <2>3. ASSUME NEW w \in OpWorkers,
               \/ ClaimOperation(w) \/ OpStep(w) \/ OpLapse(w)
               \/ OpLoseLease(w) \/ OpCrash(w) \/ OpPromoteUnanswered(w) \/ OpFault(w)
        PROVE  Alone'
    <3>1. CASE OpLoseLease(w)
      BY <3>1 DEF OpLoseLease, Alone
    <3> QED
      BY <2>1, <2>3, <3>1, OpLeasePreserves, OpStepPreserves, OpFaultPreserves DEF Alone
  <2>4. CASE PublicationStep
    BY <2>1, <2>4, PublicationStepPreserves DEF PublicationStep, Alone
  <2> QED
    BY <1>3, <2>2, <2>3, <2>4 DEF ComposedNext, RollbackNext
<1> QED
  BY <1>1, <1>2, <1>3

\* When no rollback and no publication is in progress APIM serves the
\* effective release, however rollbacks crash, are retried, abandoned and
\* restored, as long as no publication and no second worker meets one.
THEOREM RollbackServesEffective == ComposedSpec => []SettledServesEffective
<1>1. RollbackInit => Alone
  BY InitAlone
<1>2. Alone /\ [ComposedNext]_allVars => Alone'
  BY NextAlone
<1>3. Alone => SettledServesEffective
  BY DEF Alone, Calm, Between, SettledServesEffective, ServesEffective, ServedOrPromoting,
         NoneInFlight, InFlight, InFlightStatuses
<1> QED
  BY <1>1, <1>2, <1>3, PTL DEF ComposedSpec

--------------------------------------------------------------------------
(* Whatever meets a rollback, the rows agree with each other: what APIM     *)
(* serves, and what a worker believes without its lease, have no part in it.*)

HasColumns(r) == DOMAIN r = {"status", "spec", "base", "revised", "attempts"}

Over == {"none", "active", "failed", "superseded", "rolled_back"}

Shaped ==
    /\ DOMAIN pub = Publications /\ outbox \in [Publications -> Outbox]
    /\ \A p \in Publications : HasColumns(pub[p]) /\ pub[p].status \in Statuses

\* A run is about a publication that was in progress when it was claimed.
RunShaped(r) ==
    /\ DOMAIN r = {"pc", "pub", "row"} /\ r.pub \in Publications /\ HasColumns(r.row)
    /\ r.pc # "idle" => r.row.status \in Busy
    /\ r.pc \in {"operations", "commit"} => r.row.status # "promoting"

RunsShaped == DOMAIN run = Workers /\ \A w \in Workers : RunShaped(run[w])

RowsAgree == Shaped /\ RunsShaped /\ OneInFlight /\ NeverStranded /\ EffectiveIsActive

\* An open rollback leads from one release to another.
RollbackShaped ==
    /\ DOMAIN op = {"status", "target", "prior", "attempts", "owner"}
    /\ op.status \notin Closed =>
          /\ op.prior \in Publications /\ op.target \in Publications /\ op.prior # op.target
          /\ pub[op.target].status \in {"active", "superseded"}

\* Who holds its lease works on this rollback, not on an earlier one.
OwnerKnows ==
    /\ DOMAIN opRun = OpWorkers
    /\ \A w \in OpWorkers :
          /\ DOMAIN opRun[w] = {"pc", "row"}
          /\ opRun[w].pc # "idle" =>
                /\ opRun[w].row.status \notin Closed
                /\ OpHeld(w) => opRun[w].row.target = op.target /\ opRun[w].row.prior = op.prior

ComposedInv == RowsAgree /\ RollbackShaped /\ OwnerKnows

\* A release stays one.
StaysReleased ==
    \A p \in Publications : pub[p].status \in {"active", "superseded"} =>
                            pub'[p].status \in {"active", "superseded"}

\* A run goes on or ends, and nothing is written.
LEMMA RunGoesOn ==
    ASSUME RowsAgree, NEW w \in Workers, NEW r, RunShaped(r), run' = [run EXCEPT ![w] = r],
           UNCHANGED <<pub, outbox, effective>>
    PROVE  RowsAgree' /\ StaysReleased
<1>1. RunsShaped'
  BY DEF RowsAgree, RunsShaped
<1> QED
  BY <1>1 DEF RowsAgree, Shaped, OneInFlight, NeverStranded, EffectiveIsActive, StaysReleased

LEMMA RunGoesTo ==
    ASSUME RowsAgree, NEW w \in Workers, NEW pc, Goto(w, pc),
           pc # "idle" => run[w].row.status \in Busy,
           pc \in {"operations", "commit"} => run[w].row.status # "promoting",
           UNCHANGED <<pub, outbox, effective>>
    PROVE  RowsAgree' /\ StaysReleased
<1> DEFINE r == [run[w] EXCEPT !.pc = pc]
<1>1. RunShaped(run[w])
  BY DEF RowsAgree, RunsShaped
<1>2. RunShaped(r)
  BY <1>1 DEF RunShaped
<1>3. run' = [run EXCEPT ![w] = r]
  BY DEF Goto
<1> HIDE DEF r
<1> QED
  BY <1>2, <1>3, RunGoesOn

\* A row that is no release is written, with its outbox entry.
LEMMA RowWritten ==
    ASSUME RowsAgree, RunsShaped', UNCHANGED effective,
           NEW p \in Publications, NEW row, HasColumns(row), NEW o \in Outbox,
           pub' = [pub EXCEPT ![p] = row], outbox' = [outbox EXCEPT ![p] = o],
           pub[p].status \notin {"active", "superseded"},
           row.status \in Statuses \ {"active"},
           row.status \in Busy <=> o.status \in {"queued", "leased"},
           row.status \in Over \/ pub[p].status \notin Over \/ NoneInFlight
    PROVE  RowsAgree' /\ StaysReleased
<1>1. /\ pub'[p] = row /\ \A q \in Publications : q # p => pub'[q] = pub[q]
      /\ outbox'[p] = o /\ \A q \in Publications : q # p => outbox'[q] = outbox[q]
  BY DEF RowsAgree, Shaped
<1>2. Shaped'
  BY <1>1 DEF RowsAgree, Shaped
<1>3. OneInFlight'
  <2>1. NoneInFlight => \A q \in Publications : pub[q].status \in Over
    BY DEF RowsAgree, Shaped, NoneInFlight, InFlight, InFlightStatuses, Statuses, Over
  <2> QED
    BY <1>1, <2>1 DEF RowsAgree, OneInFlight, Over
<1>4. NeverStranded'
  BY <1>1 DEF RowsAgree, NeverStranded, Busy
<1>5. EffectiveIsActive'
  BY <1>1 DEF RowsAgree, EffectiveIsActive
<1>6. StaysReleased
  BY <1>1 DEF StaysReleased
<1> QED
  BY <1>2, <1>3, <1>4, <1>5, <1>6 DEF RowsAgree

\* A run ends with a write, or without one when its lease is lost.
LEMMA RunWrites ==
    ASSUME RowsAgree, NEW w \in Workers, run[w].pc # "idle",
           NEW row, Transition(w, row), HasColumns(row),
           row.status \in Busy \union {"failed", "awaiting_authorization"}, UNCHANGED effective
    PROVE  RowsAgree' /\ StaysReleased
<1> DEFINE p == run[w].pub
           o == IF LeavesOutbox(row.status) THEN Completed ELSE Waiting
<1>1. RunShaped(run[w]) /\ p \in Publications /\ run[w].row.status \in Busy
  BY DEF RowsAgree, RunsShaped, RunShaped
<1>2. Goto(w, "idle")
  BY DEF Transition
<1>3. CASE UNCHANGED queue
  BY <1>2, <1>3, RunGoesTo DEF queue
<1>4. CASE /\ pub' = [pub EXCEPT ![p] = row] /\ outbox' = [outbox EXCEPT ![p] = o]
           /\ pub[p].status = run[w].row.status
  <2>1. RunsShaped'
    BY <1>1, <1>2 DEF Goto, RowsAgree, RunsShaped, RunShaped
  <2>2. o \in Outbox /\ (row.status \in Busy <=> o.status \in {"queued", "leased"})
    BY DEF Outbox, LeavesOutbox, Terminal, Completed, Waiting, Busy
  <2>3. row.status \in Statuses \ {"active"}
    BY DEF Busy, Statuses
  <2>4. pub[p].status \notin {"active", "superseded"} /\ pub[p].status \notin Over
    BY <1>1, <1>4 DEF Busy, Over
  <2> HIDE DEF p, o
  <2> QED
    BY <1>1, <1>4, <2>1, <2>2, <2>3, <2>4, RowWritten
<1> QED
  BY <1>3, <1>4 DEF Transition

\* The row a run writes has the columns of the row as it is.
LEMMA ToColumns ==
    ASSUME RowsAgree, NEW w \in Workers, NEW status
    PROVE  HasColumns(To(w, status)) /\ To(w, status).status = status
BY DEF RowsAgree, Shaped, RunsShaped, RunShaped, HasColumns, To

\* Every step of a run.
LEMMA RunSteps ==
    ASSUME RowsAgree, NEW w \in Workers, RunStep(w), ~ Activate(w)
    PROVE  RowsAgree' /\ StaysReleased
<1>1. /\ RunShaped(run[w]) /\ run[w].pc # "idle" /\ run[w].row.status \in Busy
      /\ UNCHANGED effective
  BY DEF RowsAgree, RunsShaped, RunShaped, RunStep, Begin, RecordBase, Validate, Provision,
         PutParent, PutOperations, Probe, CheckPromoted, Promote, Readback, Commit, Retry, Fail, At
<1>2. ASSUME NEW pc, Continue(w, pc),
             pc \in {"operations", "commit"} => run[w].row.status # "promoting"
      PROVE  RowsAgree' /\ StaysReleased
  BY <1>1, <1>2, RunGoesTo DEF Continue, queue
<1>3. ASSUME NEW status \in Busy \union {"failed", "awaiting_authorization"},
             Transition(w, To(w, status))
      PROVE  RowsAgree' /\ StaysReleased
  BY <1>1, <1>3, ToColumns, RunWrites
<1>4. CASE Begin(w) \/ Probe(w)
  BY <1>1, <1>2, <1>3, <1>4 DEF Begin, Probe, At, Busy
<1>5. CASE Validate(w) \/ CheckPromoted(w) \/ Promote(w) \/ Readback(w)
  BY <1>1, <1>2, <1>3, <1>5 DEF Validate, CheckPromoted, Promote, Readback, At
<1>6. CASE Retry(w) \/ Fail(w)
  BY <1>1, <1>3, <1>6 DEF Retry, Fail, Busy
<1>7. CASE PutParent(w) \/ PutOperations(w)
  <2>1. UNCHANGED <<pub, outbox>> /\ \E pc \in {"operations", "fail", "commit"} : Goto(w, pc)
    BY <1>7 DEF PutParent, PutOperations
  <2>2. run[w].row.status # "promoting"
    BY <1>1, <1>7 DEF PutParent, PutOperations, At, RunShaped
  <2> QED
    BY <1>1, <2>1, <2>2, RunGoesTo
<1>8. CASE RecordBase(w) \/ Provision(w)
  <2>1. UNCHANGED <<pub, outbox>> /\ run[w].row.status \in {"queued", "provisioning"}
    BY <1>8 DEF RecordBase, Provision, At
  <2>2. PICK b, v : \/ run' = [run EXCEPT ![w].pc = "commit", ![w].row.base = b]
                    \/ run' = [run EXCEPT ![w].pc = "commit", ![w].row.revised = v]
    BY <1>8 DEF RecordBase, Provision
  <2> DEFINE r1 == [run[w] EXCEPT !.pc = "commit", !.row.base = b]
             r2 == [run[w] EXCEPT !.pc = "commit", !.row.revised = v]
  <2>3. run' = [run EXCEPT ![w] = r1] \/ run' = [run EXCEPT ![w] = r2]
    BY <2>2 DEF RowsAgree, RunsShaped
  <2>4. RunShaped(r1) /\ RunShaped(r2)
    BY <1>1, <2>1 DEF RunShaped, HasColumns
  <2> HIDE DEF r1, r2
  <2> QED
    BY <1>1, <2>1, <2>3, <2>4, RunGoesOn
<1>9. CASE Commit(w)
  <2> DEFINE next == NextStatus[run[w].row.status]
             row == [To(w, next) EXCEPT !.base = run[w].row.base, !.revised = run[w].row.revised]
  <2>1. Transition(w, row) /\ run[w].row.status \in Busy \ {"promoting"}
    BY <1>1, <1>9 DEF Commit, RunShaped
  <2>2. next \in Busy
    BY <2>1 DEF NextStatus, Busy
  <2>3. HasColumns(row) /\ row.status = next
    BY ToColumns DEF HasColumns
  <2> HIDE DEF next, row
  <2> QED
    BY <1>1, <2>1, <2>2, <2>3, RunWrites
<1> QED
  BY <1>4, <1>5, <1>6, <1>7, <1>8, <1>9 DEF RunStep

\* Activation replaces the effective release.
LEMMA ActivateAgrees ==
    ASSUME RowsAgree, NEW w \in Workers, Activate(w)
    PROVE  RowsAgree' /\ StaysReleased
<1> DEFINE p == run[w].pub
<1>1. RunShaped(run[w]) /\ run[w].pc = "activate" /\ Goto(w, "idle") /\ p \in Publications
  BY DEF RowsAgree, RunsShaped, RunShaped, Activate
<1>2. CASE UNCHANGED <<pub, effective, outbox>>
  BY <1>1, <1>2, RunGoesTo
<1>3. CASE /\ pub[p].status = "promoting"
           /\ pub' = [q \in Publications |->
                         IF q = p THEN [pub[p] EXCEPT !.status = "active"]
                         ELSE IF q = effective THEN Superseded(q) ELSE pub[q]]
           /\ effective' = p /\ outbox' = [outbox EXCEPT ![p] = Completed]
  <2>1. RunsShaped'
    BY <1>1 DEF Goto, RowsAgree, RunsShaped, RunShaped
  <2>2. HasColumns(pub'[p]) /\ pub'[p].status = "active"
    BY <1>1, <1>3 DEF RowsAgree, Shaped, HasColumns
  <2>3. \A q \in Publications : q # p =>
           /\ HasColumns(pub'[q])
           /\ pub'[q].status = IF q = effective THEN "superseded" ELSE pub[q].status
           /\ q = effective => pub[q].status = "active"
    <3> SUFFICES ASSUME NEW q \in Publications, q # p
                 PROVE  /\ HasColumns(pub'[q])
                        /\ pub'[q].status = IF q = effective THEN "superseded" ELSE pub[q].status
                        /\ q = effective => pub[q].status = "active"
      OBVIOUS
    <3>1. HasColumns(pub[q]) /\ (q = effective => pub[q].status = "active")
      BY DEF RowsAgree, Shaped, EffectiveIsActive
    <3>2. pub'[q] = IF q = effective THEN [pub[q] EXCEPT !.status = "superseded"] ELSE pub[q]
      BY <1>3, <3>1 DEF Superseded
    <3> QED
      BY <3>1, <3>2 DEF HasColumns
  <2>4. /\ outbox'[p] = Completed /\ Completed \in Outbox /\ Completed.status = "completed"
        /\ \A q \in Publications : q # p => outbox'[q] = outbox[q]
        /\ outbox' \in [Publications -> Outbox] /\ DOMAIN pub' = Publications
    BY <1>1, <1>3 DEF RowsAgree, Shaped, Completed, Outbox
  <2> HIDE DEF p
  <2>5. Shaped'
    BY <2>2, <2>3, <2>4 DEF RowsAgree, Shaped, Statuses
  <2>6. OneInFlight'
    BY <2>2, <2>3 DEF RowsAgree, OneInFlight
  <2>7. NeverStranded'
    BY <2>2, <2>3, <2>4 DEF RowsAgree, NeverStranded
  <2>8. EffectiveIsActive'
    BY <1>1, <1>3, <2>2, <2>3 DEF RowsAgree, EffectiveIsActive
  <2>9. StaysReleased
    BY <2>2, <2>3 DEF StaysReleased
  <2> QED
    BY <2>1, <2>5, <2>6, <2>7, <2>8, <2>9 DEF RowsAgree
<1> QED
  BY <1>1, <1>2, <1>3 DEF Activate

\* Claims, ends of leases, faults and what the owner asks for.
LEMMA ClaimAgrees ==
    ASSUME RowsAgree, NEW w \in Workers, Claim(w)
    PROVE  RowsAgree' /\ StaysReleased
<1>1. PICK p \in Publications :
        /\ Claimable(p)
        /\ outbox' = [outbox EXCEPT ![p] = [status |-> "leased", owner |-> w]]
        /\ pub' = [pub EXCEPT ![p].attempts = IF @ > MaxAttempts THEN @ ELSE @ + 1]
        /\ run' = [run EXCEPT ![w] = [pc |-> "begin", pub |-> p, row |-> pub'[p]]]
        /\ UNCHANGED effective
  BY DEF Claim
<1>2. pub[p].status \in Busy
  BY <1>1 DEF Claimable, RowsAgree, NeverStranded, Busy
<1> DEFINE n == IF pub[p].attempts > MaxAttempts THEN pub[p].attempts ELSE pub[p].attempts + 1
           row == [pub[p] EXCEPT !.attempts = n]
           o == [status |-> "leased", owner |-> w]
<1>3. pub' = [pub EXCEPT ![p] = row] /\ outbox' = [outbox EXCEPT ![p] = o] /\ pub'[p] = row
  BY <1>1 DEF RowsAgree, Shaped
<1>4. HasColumns(row) /\ row.status = pub[p].status
  BY DEF RowsAgree, Shaped, HasColumns
<1>5. o \in Outbox /\ o.status = "leased"
  BY DEF Outbox
<1> HIDE DEF n, row, o
<1>6. RunsShaped'
  <2> DEFINE r == [pc |-> "begin", pub |-> p, row |-> row]
  <2>1. RunShaped(r)
    BY <1>2, <1>4 DEF RunShaped
  <2>2. run' = [run EXCEPT ![w] = r]
    BY <1>1, <1>3
  <2> HIDE DEF r
  <2> QED
    BY <2>1, <2>2 DEF RowsAgree, RunsShaped
<1>7. row.status \in Statuses \ {"active"} /\ pub[p].status \notin Over
      /\ pub[p].status \notin {"active", "superseded"}
  BY <1>2, <1>4 DEF Busy, Statuses, Over
<1>8. row.status \in Busy <=> o.status \in {"queued", "leased"}
  BY <1>2, <1>4, <1>5
<1>9. UNCHANGED effective /\ HasColumns(row) /\ o \in Outbox
  BY <1>1, <1>4, <1>5
<1>10. pub' = [pub EXCEPT ![p] = row] /\ outbox' = [outbox EXCEPT ![p] = o]
  BY <1>3
<1> QED
  BY <1>6, <1>7, <1>8, <1>9, <1>10, RowWritten

LEMMA LeaseAgrees ==
    ASSUME RowsAgree, NEW w \in Workers, Lapse(w) \/ LoseLease(w)
    PROVE  RowsAgree' /\ StaysReleased
<1>1. PICK p \in Publications : /\ outbox[p].status = "leased"
                                /\ outbox' = [outbox EXCEPT ![p].owner = "nobody"]
  BY DEF Lapse, LoseLease, Held, RowsAgree, RunsShaped, RunShaped
<1>2. UNCHANGED <<pub, run, effective>>
  BY DEF Lapse, LoseLease
<1>3. outbox' \in [Publications -> Outbox]
      /\ \A q \in Publications : outbox'[q].status = outbox[q].status
  BY <1>1 DEF RowsAgree, Shaped, Outbox
<1> QED
  BY <1>2, <1>3 DEF RowsAgree, Shaped, RunsShaped, OneInFlight, NeverStranded, EffectiveIsActive,
                    StaysReleased

LEMMA FaultAgrees ==
    ASSUME RowsAgree, NEW w \in Workers, Crash(w) \/ PromoteUnanswered(w) \/ Fault(w)
    PROVE  RowsAgree' /\ StaysReleased
<1>1. UNCHANGED <<pub, outbox, effective>> /\ \E pc \in {"idle", "retry", "fail"} : Goto(w, pc)
  BY DEF Crash, PromoteUnanswered, Fault, Goto, Continue, queue
<1>2. run[w].row.status \in Busy
  BY DEF RowsAgree, RunsShaped, RunShaped, Crash, PromoteUnanswered, Fault
<1> QED
  BY <1>1, <1>2, RunGoesTo

LEMMA OwnerAgrees ==
    ASSUME RowsAgree, OwnerNext
    PROVE  RowsAgree' /\ StaysReleased
<1>1. UNCHANGED <<run, effective>> /\ RunsShaped'
  BY DEF OwnerNext, Create, Requeue, Resume, Cancel, RowsAgree, RunsShaped
<1>2. /\ Waiting \in Outbox /\ Waiting.status = "queued"
      /\ Completed \in Outbox /\ Completed.status = "completed"
  BY RequestRows
<1>3. PICK p \in Publications :
         \/ \E spec, credential : Create(p, spec, credential) \/ Requeue(p, spec, credential)
         \/ Resume(p) \/ Cancel(p)
  BY DEF OwnerNext
<1>4. CASE \E spec, credential : Create(p, spec, credential) \/ Requeue(p, spec, credential)
  <2>1. PICK spec : /\ pub[p].status \in {"none", "failed"} /\ NoneInFlight
                    /\ pub' = [pub EXCEPT ![p] = NewRow(spec)]
                    /\ outbox' = [outbox EXCEPT ![p] = Waiting]
    BY <1>4 DEF Create, Requeue
  <2> DEFINE row == NewRow(spec)
  <2>2. HasColumns(row) /\ row.status = "queued"
    BY DEF NewRow, HasColumns
  <2>3. pub' = [pub EXCEPT ![p] = row] /\ row.status \in Statuses \ {"active"} /\ row.status \in Busy
    BY <2>1, <2>2 DEF Statuses, Busy
  <2> HIDE DEF row
  <2> QED
    BY <1>1, <1>2, <2>1, <2>2, <2>3, RowWritten
<1>5. CASE Resume(p)
  <2> DEFINE row == [pub[p] EXCEPT !.status = "verifying"]
  <2>1. /\ pub[p].status = "awaiting_authorization"
        /\ pub' = [pub EXCEPT ![p] = row] /\ outbox' = [outbox EXCEPT ![p] = Waiting]
    BY <1>5 DEF Resume, RowsAgree, Shaped
  <2>2. HasColumns(row) /\ row.status = "verifying"
    BY DEF RowsAgree, Shaped, HasColumns
  <2>3. row.status \in Statuses \ {"active"} /\ row.status \in Busy /\ pub[p].status \notin Over
    BY <2>1, <2>2 DEF Statuses, Busy, Over
  <2> HIDE DEF row
  <2> QED
    BY <1>1, <1>2, <2>1, <2>2, <2>3, RowWritten
<1>6. CASE Cancel(p)
  <2> DEFINE row == [pub[p] EXCEPT !.status = "rolled_back"]
  <2>1. /\ pub[p].status \in {"queued", "awaiting_authorization"}
        /\ pub' = [pub EXCEPT ![p] = row] /\ outbox' = [outbox EXCEPT ![p] = Completed]
    BY <1>6 DEF Cancel, RowsAgree, Shaped
  <2>2. HasColumns(row) /\ row.status = "rolled_back"
    BY DEF RowsAgree, Shaped, HasColumns
  <2>3. row.status \in Statuses \ {"active"} /\ row.status \notin Busy /\ row.status \in Over
    BY <2>2 DEF Statuses, Busy, Over
  <2> HIDE DEF row
  <2> QED
    BY <1>1, <1>2, <2>1, <2>2, <2>3, RowWritten
<1> QED
  BY <1>3, <1>4, <1>5, <1>6

\* Every step of the publications.
LEMMA PublicationsAgree ==
    ASSUME RowsAgree, Next
    PROVE  RowsAgree' /\ StaysReleased
BY OwnerAgrees, ClaimAgrees, LeaseAgrees, FaultAgrees, RunSteps, ActivateAgrees
DEF Next, WorkerNext

\* A step of the publications leaves the rollback and who owns it.
LEMMA PublicationStepAgrees ==
    ASSUME ComposedInv, PublicationStep
    PROVE  ComposedInv'
<1>1. UNCHANGED <<op, opRun>> /\ RowsAgree' /\ StaysReleased
  BY PublicationsAgree DEF PublicationStep, ComposedInv
<1>2. RollbackShaped'
  BY <1>1 DEF ComposedInv, RollbackShaped, StaysReleased
<1>3. OwnerKnows'
  BY <1>1 DEF ComposedInv, OwnerKnows, OpHeld
<1> QED
  BY <1>1, <1>2, <1>3 DEF ComposedInv

\* A step of a rollback's run: the rows it may have written, then the run.
LEMMA RunFollows ==
    ASSUME ComposedInv, RowsAgree', RollbackShaped', NEW w \in OpWorkers, NEW pc,
           opRun' = [opRun EXCEPT ![w].pc = pc],
           pc # "idle" => opRun[w].pc # "idle",
           op'.owner \in {op.owner, "nobody"},
           op'.target = op.target, op'.prior = op.prior
    PROVE  ComposedInv'
<1>1. /\ DOMAIN opRun' = OpWorkers
      /\ \A v \in OpWorkers : /\ DOMAIN opRun'[v] = {"pc", "row"}
                              /\ opRun'[v].row = opRun[v].row
                              /\ opRun'[v].pc # "idle" => opRun[v].pc # "idle"
  BY DEF ComposedInv, OwnerKnows
<1>2. \A v \in OpWorkers : OpHeld(v)' => OpHeld(v)
  BY RollbackAssumption DEF OpHeld
<1>3. OwnerKnows'
  BY <1>1, <1>2 DEF ComposedInv, OwnerKnows
<1> QED
  BY <1>3 DEF ComposedInv

\* What a rollback leaves of the rows agrees as before.
LEMMA RowsStay ==
    ASSUME RowsAgree, UNCHANGED <<pub, outbox, run, effective>>
    PROVE  RowsAgree'
BY DEF RowsAgree, Shaped, RunsShaped, OneInFlight, NeverStranded, EffectiveIsActive

LEMMA OpGoesTo ==
    ASSUME ComposedInv, NEW w \in OpWorkers, NEW pc, OpGoto(w, pc), opRun[w].pc # "idle",
           UNCHANGED <<pub, outbox, run, effective>>
    PROVE  ComposedInv'
<1>1. RowsAgree'
  BY RowsStay DEF ComposedInv
<1>2. UNCHANGED op /\ opRun' = [opRun EXCEPT ![w].pc = pc]
  BY DEF OpGoto
<1>3. RollbackShaped'
  BY <1>2 DEF ComposedInv, RollbackShaped
<1> QED
  BY <1>1, <1>2, <1>3, RunFollows

\* The rollback's row is written, or the lease is lost.
LEMMA OpRowWritten ==
    ASSUME ComposedInv, NEW w \in OpWorkers, NEW status, OpTransition(w, status),
           opRun[w].pc # "idle", UNCHANGED <<pub, outbox, run, effective>>
    PROVE  ComposedInv'
<1>1. RowsAgree'
  BY RowsStay DEF ComposedInv
<1>2. opRun' = [opRun EXCEPT ![w].pc = "idle"] /\ opRun[w].row.status \notin Closed
  BY DEF OpTransition, ComposedInv, OwnerKnows
<1>3. /\ op'.target = op.target /\ op'.prior = op.prior /\ op'.owner \in {op.owner, "nobody"}
      /\ DOMAIN op' = DOMAIN op
      /\ op'.status = op.status \/ op.status = opRun[w].row.status
  <2>1. op' = op \/ /\ op.status = opRun[w].row.status
                    /\ op' = [op EXCEPT !.status = status, !.owner = "nobody"]
    BY DEF OpTransition
  <2>2. DOMAIN op = {"status", "target", "prior", "attempts", "owner"}
    BY DEF ComposedInv, RollbackShaped
  <2> QED
    BY <2>1, <2>2
<1>4. RollbackShaped'
  BY <1>2, <1>3 DEF ComposedInv, RollbackShaped
<1> QED
  BY <1>1, <1>2, <1>3, <1>4, RunFollows

\* A rollback begins: from the effective release, which is active.
LEMMA RequestRollbackAgrees ==
    ASSUME ComposedInv, NEW t \in Publications, RequestRollback(t) PROVE ComposedInv'
<1>1. /\ op' = [status |-> "queued", target |-> t, prior |-> effective,
                attempts |-> 0, owner |-> "nobody"]
      /\ effective \in Publications /\ Eligible(t)
      /\ UNCHANGED <<pub, outbox, run, effective, opRun>>
  BY DEF RequestRollback, vars, queue
<1>2. RowsAgree'
  BY <1>1, RowsStay DEF ComposedInv
<1>3. RollbackShaped'
  BY <1>1 DEF RollbackShaped, Eligible
<1>4. OwnerKnows'
  BY <1>1, RollbackAssumption DEF ComposedInv, OwnerKnows, OpHeld
<1> QED
  BY <1>2, <1>3, <1>4 DEF ComposedInv

\* A claim reads the rollback as it is; a lease ends.
LEMMA OpLeaseAgrees ==
    ASSUME ComposedInv, NEW w \in OpWorkers, ClaimOperation(w) \/ OpLapse(w) \/ OpLoseLease(w)
    PROVE  ComposedInv'
<1>1. UNCHANGED <<pub, outbox, run, effective>> /\ RowsAgree'
  BY RowsStay DEF ClaimOperation, OpLapse, OpLoseLease, vars, queue, ComposedInv
<1>2. DOMAIN op = {"status", "target", "prior", "attempts", "owner"}
  BY DEF ComposedInv, RollbackShaped
<1>3. PICK v, n : op' = [op EXCEPT !.owner = v, !.attempts = n]
  <2>1. CASE ClaimOperation(w)
    BY <2>1 DEF ClaimOperation
  <2>2. CASE OpLapse(w) \/ OpLoseLease(w)
    <3>1. op' = [op EXCEPT !.owner = "nobody"]
      BY <2>2 DEF OpLapse, OpLoseLease
    <3>2. op' = [op EXCEPT !.owner = "nobody", !.attempts = op.attempts]
      BY <1>2, <3>1
    <3> QED
      BY <3>2
  <2> QED
    BY <2>1, <2>2
<1>4. /\ op'.status = op.status /\ op'.target = op.target /\ op'.prior = op.prior
      /\ op'.owner = v /\ DOMAIN op' = DOMAIN op
  BY <1>2, <1>3
<1>5. RollbackShaped'
  BY <1>1, <1>4 DEF ComposedInv, RollbackShaped
<1>6. CASE ClaimOperation(w)
  <2>1. op.status \notin Closed /\ opRun' = [opRun EXCEPT ![w] = [pc |-> "begin", row |-> op']]
    BY <1>6 DEF ClaimOperation
  <2>2. op'.owner = w
    BY <1>2, <1>6 DEF ClaimOperation
  <2>3. /\ DOMAIN opRun' = OpWorkers /\ opRun'[w] = [pc |-> "begin", row |-> op']
        /\ \A u \in OpWorkers : u # w => opRun'[u] = opRun[u]
    BY <2>1 DEF ComposedInv, OwnerKnows
  <2>4. OwnerKnows'
    BY <1>4, <2>1, <2>2, <2>3 DEF ComposedInv, OwnerKnows, OpHeld
  <2> QED
    BY <1>1, <1>5, <2>4 DEF ComposedInv
<1>7. CASE OpLapse(w) \/ OpLoseLease(w)
  <2>1. op'.owner = "nobody" /\ UNCHANGED opRun
    BY <1>2, <1>7 DEF OpLapse, OpLoseLease
  <2>2. OwnerKnows'
    BY <2>1, RollbackAssumption DEF ComposedInv, OwnerKnows, OpHeld
  <2> QED
    BY <1>1, <1>5, <2>2 DEF ComposedInv
<1> QED
  BY <1>6, <1>7

\* Completion swaps the two releases, and the effective one with them.
LEMMA CompleteAgrees ==
    ASSUME ComposedInv, NEW w \in OpWorkers, Complete(w) PROVE ComposedInv'
<1> DEFINE row == opRun[w].row
<1>1. opRun[w].pc = "complete" /\ UNCHANGED <<outbox, run>> /\ row.status \notin Closed
  BY DEF Complete, ComposedInv, OwnerKnows
<1>2. CASE OpGoto(w, "fail") /\ UNCHANGED <<pub, effective>>
  BY <1>1, <1>2, OpGoesTo
<1>3. CASE /\ OpHeld(w) /\ op.status = "post_promotion_probing" /\ effective = row.prior
           /\ pub' = [pub EXCEPT ![row.prior].status = "rolled_back",
                                 ![row.target].status = "active"]
           /\ effective' = row.target /\ OpTransition(w, "succeeded")
  <2>1. row.target = op.target /\ row.prior = op.prior
    BY <1>1, <1>3 DEF ComposedInv, OwnerKnows
  <2> DEFINE a == op.prior
             b == op.target
             x == [pub[a] EXCEPT !.status = "rolled_back"]
             y == [pub[b] EXCEPT !.status = "active"]
  <2>2. /\ a \in Publications /\ b \in Publications /\ a # b
        /\ pub[b].status \in {"active", "superseded"} /\ effective = a
        /\ DOMAIN op = {"status", "target", "prior", "attempts", "owner"}
    BY <1>3, <2>1 DEF ComposedInv, RollbackShaped, Closed
  <2>3. /\ DOMAIN pub = Publications /\ pub[a].status = "active"
        /\ HasColumns(pub[a]) /\ HasColumns(pub[b])
        /\ outbox \in [Publications -> Outbox]
    BY <2>2 DEF ComposedInv, RowsAgree, Shaped, EffectiveIsActive
  <2>4. /\ pub'[a] = x /\ pub'[b] = y /\ DOMAIN pub' = Publications
        /\ \A q \in Publications : q # a /\ q # b => pub'[q] = pub[q]
    BY <1>3, <2>1, <2>2, <2>3
  <2>5. HasColumns(x) /\ x.status = "rolled_back" /\ HasColumns(y) /\ y.status = "active"
    BY <2>3 DEF HasColumns
  <2> HIDE DEF a, b, x, y
  <2>6. Shaped'
    BY <1>1, <2>3, <2>4, <2>5 DEF ComposedInv, RowsAgree, Shaped, Statuses
  <2>7. RunsShaped'
    BY <1>1 DEF ComposedInv, RowsAgree, RunsShaped
  <2>8. OneInFlight'
    BY <2>2, <2>3, <2>4, <2>5 DEF ComposedInv, RowsAgree, OneInFlight
  <2>9. NeverStranded'
    BY <1>1, <2>2, <2>3, <2>4, <2>5 DEF ComposedInv, RowsAgree, NeverStranded
  <2>10. EffectiveIsActive'
    BY <1>3, <2>1, <2>2, <2>4, <2>5 DEF ComposedInv, RowsAgree, EffectiveIsActive, a, b
  <2>11. op' = [op EXCEPT !.status = "succeeded", !.owner = "nobody"] \/ op' = op
    BY <1>3 DEF OpTransition
  <2>12. /\ op'.target = op.target /\ op'.prior = op.prior
         /\ op'.owner \in {op.owner, "nobody"}
         /\ DOMAIN op' = DOMAIN op
    BY <2>2, <2>11
  <2>13. RollbackShaped'
    BY <2>2, <2>4, <2>5, <2>12 DEF RollbackShaped, a, b
  <2>14. opRun' = [opRun EXCEPT ![w].pc = "idle"]
    BY <1>3 DEF OpTransition
  <2>15. RowsAgree'
    BY <2>6, <2>7, <2>8, <2>9, <2>10 DEF RowsAgree
  <2> QED
    BY <2>12, <2>13, <2>14, <2>15, RunFollows
<1> QED
  BY <1>2, <1>3 DEF Complete, StillPrior

\* Every other step of a rollback's worker moves its run or writes its row.
LEMMA OpStepAgrees ==
    ASSUME ComposedInv, NEW w \in OpWorkers, OpStep(w) PROVE ComposedInv'
<1>1. CASE Complete(w)
  BY <1>1, CompleteAgrees
<1>2. CASE OpStart(w) \/ ValidateDependencies(w) \/ Preflight(w) \/ CheckCurrent(w)
           \/ OpReadback(w) \/ PostProbe(w) \/ Restore(w) \/ ConfirmRestored(w) \/ OpPromote(w)
  <2>1. opRun[w].pc # "idle" /\ UNCHANGED <<pub, outbox, run, effective>>
    BY <1>2 DEF OpStart, ValidateDependencies, Preflight, CheckCurrent, OpReadback, PostProbe,
                Restore, ConfirmRestored, OpPromote, OpAt, vars, queue
  <2>2. \E pc : OpGoto(w, pc)
    BY <1>2 DEF OpStart, ValidateDependencies, Preflight, CheckCurrent, OpReadback, PostProbe,
                Restore, ConfirmRestored, OpPromote
  <2> QED
    BY <2>1, <2>2, OpGoesTo
<1>3. CASE OpBegin(w) \/ OpCommit(w) \/ OpRetry(w) \/ OpFail(w)
  <2>1. opRun[w].pc # "idle" /\ UNCHANGED <<pub, outbox, run, effective>>
    BY <1>3 DEF OpBegin, OpCommit, OpRetry, OpFail, vars, queue
  <2>2. (\E pc : OpGoto(w, pc)) \/ (\E status : OpTransition(w, status))
    BY <1>3 DEF OpBegin, OpCommit, OpRetry, OpFail
  <2> QED
    BY <2>1, <2>2, OpGoesTo, OpRowWritten
<1> QED
  BY <1>1, <1>2, <1>3 DEF OpStep

LEMMA OpFaultAgrees ==
    ASSUME ComposedInv, NEW w \in OpWorkers, OpCrash(w) \/ OpPromoteUnanswered(w) \/ OpFault(w)
    PROVE  ComposedInv'
<1>1. opRun[w].pc # "idle" /\ UNCHANGED <<pub, outbox, run, effective>>
  BY DEF OpCrash, OpPromoteUnanswered, OpFault, queue
<1>2. \E pc : OpGoto(w, pc)
  BY DEF OpCrash, OpPromoteUnanswered, OpFault, OpGoto
<1> QED
  BY <1>1, <1>2, OpGoesTo

LEMMA InitComposed == RollbackInit => ComposedInv
<1> SUFFICES ASSUME RollbackInit PROVE ComposedInv
  OBVIOUS
<1>1. IInv /\ TypeOK /\ pub \in [Publications -> Row]
  BY InitOK DEF RollbackInit, IInv, TypeOK
<1>2. Shaped
  BY <1>1 DEF TypeOK, Row, Shaped, HasColumns
<1>3. RunsShaped
  BY <1>1 DEF RollbackInit, Init, RunsShaped, RunShaped, TypeOK, Run, Row, HasColumns
<1>4. OneInFlight /\ NeverStranded /\ EffectiveIsActive
  BY <1>1 DEF IInv
<1>5. RollbackShaped
  BY DEF RollbackInit, NoOperation, RollbackShaped, Closed
<1>6. OwnerKnows
  BY DEF RollbackInit, OwnerKnows
<1> QED
  BY <1>2, <1>3, <1>4, <1>5, <1>6 DEF ComposedInv, RowsAgree

LEMMA NextComposed == ComposedInv /\ [ComposedNext]_allVars => ComposedInv'
<1> SUFFICES ASSUME ComposedInv, [ComposedNext]_allVars PROVE ComposedInv'
  OBVIOUS
<1>1. CASE UNCHANGED allVars
  <2>1. UNCHANGED <<pub, outbox, run, effective, op, opRun>>
    BY <1>1 DEF allVars, vars, queue, opVars
  <2> QED
    BY <2>1, RowsStay DEF ComposedInv, RollbackShaped, OwnerKnows, OpHeld
<1>2. CASE \E p \in Publications : RequestRollback(p)
  BY <1>2, RequestRollbackAgrees
<1>3. ASSUME NEW w \in OpWorkers,
             \/ ClaimOperation(w) \/ OpStep(w) \/ OpLapse(w)
             \/ OpLoseLease(w) \/ OpCrash(w) \/ OpPromoteUnanswered(w) \/ OpFault(w)
      PROVE  ComposedInv'
  BY <1>3, OpLeaseAgrees, OpStepAgrees, OpFaultAgrees
<1>4. CASE PublicationStep
  BY <1>4, PublicationStepAgrees
<1> QED
  BY <1>1, <1>2, <1>3, <1>4 DEF ComposedNext, RollbackNext

\* The effective release is always a release with the status active, and the
\* only one, whatever publications and rollbacks meet, with or without their
\* leases: activate_release and complete_gateway_release_rollback change the
\* rows and effective_gateway_release in one transaction.
THEOREM RollbackKeepsActive == ComposedSpec => []EffectiveIsActive
<1>1. ComposedInv => EffectiveIsActive
  BY DEF ComposedInv, RowsAgree
<1> QED
  BY <1>1, InitComposed, NextComposed, PTL DEF ComposedSpec

\* Rollbacks leave at most one publication in progress and strand none: the
\* statuses they write are of releases, which have left the outbox.
THEOREM RollbackLeavesQueue == ComposedSpec => [](OneInFlight /\ NeverStranded)
<1>1. ComposedInv => OneInFlight /\ NeverStranded
  BY DEF ComposedInv, RowsAgree
<1> QED
  BY <1>1, InitComposed, NextComposed, PTL DEF ComposedSpec
=============================================================================
