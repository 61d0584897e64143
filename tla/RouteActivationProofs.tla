----------------------- MODULE RouteActivationProofs -----------------------
(***************************************************************************)
(* Theorems about RouteActivation, for any publications, workers and       *)
(* bounds.                                                                 *)
(*                                                                         *)
(* The partition never returns to an etag it had: an applied batch leaves  *)
(* its own operation behind, which no batch begun before names.  Hence one *)
(* applied batch refuses every other that is known, and a batch that is    *)
(* inapplicable once stays so (ArriveApplied).  A batch that is applicable *)
(* therefore meets the rows it was computed from (BatchOK), so that it     *)
(* keeps the writer row and the active head in step.                       *)
(*                                                                         *)
(* Runs that lost the lease go on sending what they have in memory.  Only  *)
(* the holder of the lease writes the journals: HeldOK says what such a    *)
(* run has established at each program counter, and EntryOK what an        *)
(* outcome it records says of batches that may still arrive.               *)
(***************************************************************************)
EXTENDS RouteActivation, TLAPS

\* Etags the rows have or had.
Past == {Absent, Initial} \union receipts

\* The batch may still be sent or arrive.
Possible(b) ==
    \/ b \in flight
    \/ \E w \in Workers : run[w].pc = "send" /\ run[w].intent = b

Journalled(b) ==
    \E p \in Publications :
        \/ row[p].activation.outcome # "none" /\ row[p].activation.batch = b
        \/ row[p].journal.outcome # "none" /\ row[p].journal.batch = b

Known(b) == Possible(b) \/ Journalled(b)

TableOK ==
    /\ receipts \subseteq 2..ops \union Publications
    /\ writer.etag \in Past /\ active.etag \in Past
    /\ writer.etag = Absent => writer = NoWriter
    /\ active.head \in Publications => active.head \in receipts
    /\ WriterTracksActive

\* A known batch names etags of the past and leaves its operation; if it is
\* applicable it was computed from the rows as they are.
BatchOK(b) ==
    /\ b \in Batch /\ b.op \in 2..ops \union Publications
    /\ b.wif \in Past /\ b.after.etag = b.op
    /\ Activates(b) =>
          /\ b.aif \in Past /\ b.after.pending = Absent
          /\ row[b.op].activation.outcome # "none" /\ row[b.op].activation.batch = b
    /\ Applicable(b) =>
          IF Activates(b)
          THEN /\ b.after.gen = active.gen + 1 /\ b.after.head = b.op
               /\ row[b.op].base = active.head
          ELSE b.after.gen = active.gen /\ b.after.head = active.head

BatchesOK ==
    /\ \A b \in Batch : Known(b) => BatchOK(b)
    /\ \A b, c \in Batch : Known(b) /\ Known(c) /\ b.op = c.op => b = c

\* A batch that would announce a publication once more: only the last writer
\* operation of its run, still unresolved.
ThreatOK ==
    \A b \in Batch, p \in Publications :
        Possible(b) /\ Applicable(b) /\ b.after.pending = p =>
            \/ writer.pending = p
            \/ b = row[p].journal.batch /\ ~ Resolved(row[p].journal)

EntryOK(e) ==
    /\ e.outcome = "confirmed" => e.batch.op \in receipts
    /\ e.outcome = "fenced" => e.batch.op \notin receipts /\ ~ Applicable(e.batch)
    /\ e.outcome = "expired" => e.batch.op \notin receipts /\ ~ Possible(e.batch)

RowOK(p) ==
    /\ EntryOK(row[p].activation) /\ EntryOK(row[p].journal)
    /\ row[p].activation.outcome # "none" => row[p].activation.batch.op = p
    /\ row[p].journal.outcome # "none" => row[p].journal.batch.op \notin Publications
    /\ row[p].status = "none" => row[p].activation.outcome = "none" /\ row[p].journal.outcome = "none"
    /\ row[p].status = "failed" =>
          /\ row[p].activation.outcome \in {"none", "fenced"}
          /\ Resolved(row[p].journal) /\ writer.pending # p
    /\ row[p].status = "active" =>
          /\ p \in receipts
          /\ active.head # p => \E q \in Publications \cap receipts : row[q].base = p
    /\ p \in receipts => row[p].activation.outcome # "none"

RowsOK ==
    /\ \A p \in Publications : RowOK(p)
    /\ \A p, q \in Publications :
          row[p].status = "promoting" /\ row[q].status = "promoting" => p = q

\* What a run knows, holding the lease or not.
RunOK(w) ==
    /\ run[w].seen.etag \in Past /\ run[w].etag \in Past
    /\ run[w].seen.etag = writer.etag => run[w].seen = writer
    /\ run[w].pc = "applied" => run[w].intent.op \in receipts
    /\ run[w].pc = "send" => run[w].intent \notin flight /\ run[w].intent.op \notin receipts

RunsOK ==
    /\ \A w \in Workers : RunOK(w)
    /\ \A v, w \in Workers :
          run[v].pc = "send" /\ run[w].pc = "send" /\ run[v].intent = run[w].intent => v = w

Reading == {"receipt", "etags", "again"}
Dispatching == {"send", "wait", "applied", "refused"}

\* Where the run is, or goes after the writer operation it is about.
Goal(w) ==
    IF run[w].pc \in Reading \union Dispatching
    THEN IF run[w].target = "journal" THEN run[w].then ELSE "idle"
    ELSE run[w].pc

Based(w) == run[w].etag = active.etag => active.head = row[Pub(w)].base

\* What the run has established of its activation.
GoalOK(w) ==
    LET outcome == row[Pub(w)].activation.outcome
    IN  /\ Goal(w) \in {"begin", "claim", "prepare", "activate"} => outcome = "none"
        /\ Goal(w) \in {"claim", "prepare", "activate"} => Based(w)
        /\ Goal(w) \in {"fence", "recover"} => outcome # "none"
        /\ Goal(w) = "abort" => outcome = "fenced"
        /\ Goal(w) \in {"withdraw", "fail"} => outcome \in {"none", "fenced"}

\* What the run has established of the batch it recovers or dispatches.
IntentOK(w) ==
    LET e == row[Pub(w)][run[w].target]
    IN  /\ run[w].pc \in Reading \union Dispatching =>
              run[w].intent = e.batch /\ e.outcome # "none"
        /\ run[w].pc \in Dispatching => e.outcome = "started"
        /\ run[w].pc = "again" => ~ Applicable(run[w].intent)
        /\ run[w].pc \in Reading =>
              IF run[w].target = "activation" THEN run[w].then \in {"fence", "idle"}
              ELSE run[w].then \in {"begin", "fence", "abort"}
        /\ run[w].pc \in Dispatching /\ run[w].target = "journal" =>
              /\ run[w].then \in {"recover", "prepare", "activate", "withdraw", "fail"}
              /\ run[w].then = "fail" => run[w].intent.after.pending = Absent

\* What the run has established of its publication.
StageOK(w) ==
    LET p == Pub(w)
    IN  /\ row[p].status = "promoting"
        /\ run[w].pc \in {"begin", "fail"} => Resolved(row[p].journal)
        /\ run[w].pc = "fail" => writer.pending # p
        /\ run[w].pc \in {"confirm", "commit"} => p \in receipts
        /\ run[w].pc = "commit" => active.head = p

HeldOK(w) == GoalOK(w) /\ IntentOK(w) /\ StageOK(w)

HeldsOK == \A w \in Workers : Held(w) /\ Working(w) => HeldOK(w)

GlobalOK == TypeOK /\ TableOK /\ BatchesOK /\ ThreatOK /\ RowsOK /\ RunsOK

IInv == GlobalOK /\ HeldsOK

--------------------------------------------------------------------------
(* Types, and what the actions leave alone. *)

\* The components the proofs refer to most.
LEMMA Facts ==
    ASSUME IInv, NEW w \in Workers
    PROVE  /\ run \in [Workers -> Run] /\ run[w] \in Run
           /\ Pub(w) \in Publications /\ run[w].intent \in Batch
           /\ run[w].seen \in WriterRow /\ run[w].etag \in Operations
           /\ row \in [Publications -> Row] /\ row[Pub(w)] \in Row
           /\ lease \in [Publications -> Workers \union {Nobody}]
           /\ RunOK(w)
           /\ (Held(w) /\ Working(w) => HeldOK(w))
<1>1. TypeOK /\ RunsOK /\ HeldsOK
  BY DEF IInv, GlobalOK
<1>2. run[w] \in Run
  BY <1>1 DEF TypeOK
<1>3. /\ run[w].pub \in Publications /\ run[w].intent \in Batch
      /\ run[w].seen \in WriterRow /\ run[w].etag \in Operations
  BY <1>2 DEF Run
<1> QED
  BY <1>1, <1>2, <1>3 DEF TypeOK, RunsOK, HeldsOK, Pub

\* A publication's row and its two journals.
LEMMA RowFacts ==
    ASSUME IInv, NEW p \in Publications
    PROVE  /\ row[p] \in Row /\ RowOK(p)
           /\ row[p].status \in {"none", "promoting", "active", "failed"} /\ row[p].base \in Heads
           /\ row[p].activation \in Entry /\ row[p].journal \in Entry
           /\ row[p].activation.batch \in Batch /\ row[p].activation.outcome \in Outcomes
           /\ row[p].journal.batch \in Batch /\ row[p].journal.outcome \in Outcomes
<1>1. TypeOK /\ RowsOK
  BY DEF IInv, GlobalOK
<1>2. row[p] \in Row
  BY <1>1 DEF TypeOK
<1>3. /\ row[p].activation \in Entry /\ row[p].journal \in Entry
      /\ row[p].status \in {"none", "promoting", "active", "failed"} /\ row[p].base \in Heads
  BY <1>2 DEF Row
<1>4. /\ row[p].activation.batch \in Batch /\ row[p].activation.outcome \in Outcomes
      /\ row[p].journal.batch \in Batch /\ row[p].journal.outcome \in Outcomes
  BY <1>3 DEF Entry
<1> QED
  BY <1>1, <1>2, <1>3, <1>4 DEF RowsOK

\* No new batch may be sent or arrive.
NoneSent ==
    /\ flight' \subseteq flight
    /\ \A w \in Workers : run'[w].pc = "send" => run[w].pc = "send" /\ run'[w].intent = run[w].intent

\* The journals keep their batches; a publication in progress its base.
RowFrame ==
    \A p \in Publications :
        /\ row'[p].activation.batch = row[p].activation.batch
        /\ row'[p].journal.batch = row[p].journal.batch
        /\ row'[p].activation.outcome # "none" <=> row[p].activation.outcome # "none"
        /\ row'[p].journal.outcome # "none" <=> row[p].journal.outcome # "none"
        /\ row[p].status # "none" => row'[p].base = row[p].base

\* Activations on record stay, and a publication in progress keeps its base.
ActivationFrame ==
    \A p \in Publications :
        /\ row[p].activation.outcome # "none" =>
              row'[p].activation.outcome # "none" /\ row'[p].activation.batch = row[p].activation.batch
        /\ row[p].status # "none" => row'[p].base = row[p].base

LEMMA RowFrameActivations == ASSUME RowFrame PROVE ActivationFrame
BY DEF RowFrame, ActivationFrame

\* A batch that is possible, known or inapplicable was so before.
LEMMA PossibleFrame ==
    ASSUME NoneSent, NEW b PROVE Possible(b)' => Possible(b)
BY DEF NoneSent, Possible

NoneNew == \A b : Possible(b)' => Possible(b)

LEMMA KnownFrame ==
    ASSUME NoneNew, RowFrame, NEW b PROVE Known(b)' => Known(b)
<1>1. Journalled(b)' => Journalled(b)
  BY DEF RowFrame, Journalled
<1> QED
  BY <1>1 DEF Known, NoneNew

LEMMA ApplicableFrame ==
    ASSUME UNCHANGED table, NEW b PROVE Applicable(b)' <=> Applicable(b)
BY DEF table, Applicable, Activates

LEMMA TableFrame ==
    ASSUME IInv, UNCHANGED table, ops' \in Nat, ops <= ops' PROVE TableOK'
<1>1. ops \in Nat
  BY RouteAssumption DEF IInv, GlobalOK, TypeOK
<1>2. TableOK
  BY DEF IInv, GlobalOK
<1>3. 2..ops \subseteq 2..ops'
  BY <1>1
<1>4. /\ receipts' \subseteq 2..ops' \union Publications
  BY <1>2, <1>3 DEF TableOK, table
<1> QED
  BY <1>2, <1>4 DEF TableOK, table, Past, WriterTracksActive

\* A known batch is still what it was.
LEMMA BatchFrame ==
    ASSUME IInv, UNCHANGED table, ActivationFrame, ops' \in Nat, ops <= ops', NEW b \in Batch, BatchOK(b)
    PROVE  BatchOK(b)'
<1>1. ops \in Nat
  BY RouteAssumption DEF IInv, GlobalOK, TypeOK
<1>2. 2..ops \subseteq 2..ops'
  BY <1>1
<1>3. /\ b.op \in 2..ops' \union Publications /\ b.wif \in Past /\ b.after.etag = b.op
      /\ Past' = Past
  BY <1>2 DEF BatchOK, Past, table
<1>4. Activates(b) => /\ b.aif \in Past /\ b.after.pending = Absent
                      /\ row'[b.op].activation.outcome # "none"
                      /\ row'[b.op].activation.batch = b
                      /\ row'[b.op].base = row[b.op].base
  <2> HAVE Activates(b)
  <2>1. b.op \in Publications
    BY DEF Activates
  <2>2. row[b.op].activation.outcome # "none" /\ row[b.op].activation.batch = b
    BY DEF BatchOK
  <2>3. row[b.op].status # "none"
    BY <2>1, <2>2, RowFacts DEF RowOK
  <2> QED
    BY <2>1, <2>2, <2>3 DEF ActivationFrame, BatchOK
<1>5. Applicable(b)' <=> Applicable(b)
  BY ApplicableFrame
<1> QED
  BY <1>3, <1>4, <1>5 DEF BatchOK, Activates, table

LEMMA BatchesFrame ==
    ASSUME IInv, UNCHANGED <<table, ops>>, NoneNew, RowFrame
    PROVE  BatchesOK'
<1>1. BatchesOK /\ ops' \in Nat /\ ops <= ops'
  BY RouteAssumption DEF IInv, GlobalOK, TypeOK
<1>2. ASSUME NEW b \in Batch, Known(b)' PROVE BatchOK(b)'
  BY <1>1, <1>2, KnownFrame, BatchFrame, RowFrameActivations DEF BatchesOK
<1>3. ASSUME NEW b \in Batch, NEW c \in Batch, Known(b)', Known(c)', b.op = c.op PROVE b = c
  BY <1>1, <1>3, KnownFrame DEF BatchesOK
<1> QED
  BY <1>2, <1>3 DEF BatchesOK

LEMMA EntryFrame ==
    ASSUME UNCHANGED table, NEW e, EntryOK(e), Possible(e.batch)' => Possible(e.batch)
    PROVE  EntryOK(e)'
BY ApplicableFrame DEF EntryOK, table

\* Another run that holds its lease is not disturbed.
LEMMA HeldFrame ==
    ASSUME IInv, UNCHANGED table, NEW w \in Workers, run'[w] = run[w],
           row'[Pub(w)] = row[Pub(w)], HeldOK(w)
    PROVE  HeldOK(w)'
<1>1. Pub(w)' = Pub(w) /\ Goal(w)' = Goal(w) /\ Based(w)' = Based(w)
  BY DEF Pub, Goal, Based, table
<1>2. GoalOK(w)'
  BY <1>1 DEF GoalOK, HeldOK
<1>3. Applicable(run[w].intent)' <=> Applicable(run[w].intent)
  BY ApplicableFrame
<1>4. IntentOK(w)'
  BY <1>1, <1>3 DEF IntentOK, HeldOK, Applicable, Activates, table
<1>5. StageOK(w)'
  BY <1>1 DEF StageOK, HeldOK, Resolved, table
<1> QED
  BY <1>2, <1>4, <1>5 DEF HeldOK

--------------------------------------------------------------------------
(* A step of a run that sends nothing: it may write what it recovered or    *)
(* the end of its publication, and release its lease.                       *)

\* The row of w's publication, if it is written, is written by its holder.
RowStep(w) ==
    /\ row' \in [Publications -> Row]
    /\ \A p \in Publications \ {Pub(w)} : row'[p] = row[p]
    /\ row' # row => Held(w) /\ Working(w)
    /\ \A p \in Publications : p = Pub(w) =>
          /\ row'[p].base = row[p].base
          /\ row'[p].status # row[p].status => row'[p].status \in {"active", "failed"}
          /\ RowOK(p)'

\* Nobody takes the lease of a publication but w.
LeaseStep(w) ==
    /\ lease' \in [Publications -> Workers \union {Nobody}]
    /\ \A p \in Publications : lease'[p] \in {lease[p], w, Nobody}

ClockStep ==
    /\ lapsed' \in 1..MaxOps /\ closed' \subseteq Publications /\ faults' \in 0..MaxFaults

\* What w goes on with.
RunTo(w, r) ==
    /\ r \in Run /\ run' = [run EXCEPT ![w] = r]
    /\ r.seen \in {run[w].seen, NoWriter, writer}
    /\ r.etag \in {run[w].etag, Absent, active.etag}

LEMMA SeenOK ==
    ASSUME IInv, UNCHANGED table, NEW w \in Workers, NEW r, RunTo(w, r)
    PROVE  /\ run'[w].seen.etag \in Past' /\ run'[w].etag \in Past'
           /\ run'[w].seen.etag = writer'.etag => run'[w].seen = writer'
<1>1. run'[w] = r
  BY Facts DEF RunTo
<1>2. /\ run[w].seen.etag \in Past /\ run[w].etag \in Past
      /\ run[w].seen.etag = writer.etag => run[w].seen = writer
  BY Facts DEF RunOK
<1>3. /\ writer.etag \in Past /\ active.etag \in Past
      /\ writer.etag = Absent => writer = NoWriter
  BY DEF IInv, GlobalOK, TableOK
<1>4. Past' = Past /\ writer' = writer /\ NoWriter.etag = Absent /\ Absent \in Past
  BY DEF Past, table, NoWriter
<1>5. CASE r.seen = run[w].seen
  BY <1>1, <1>2, <1>3, <1>4, <1>5 DEF RunTo
<1>6. CASE r.seen = NoWriter
  BY <1>1, <1>2, <1>3, <1>4, <1>6 DEF RunTo
<1>7. CASE r.seen = writer
  BY <1>1, <1>2, <1>3, <1>4, <1>7 DEF RunTo
<1> QED
  BY <1>5, <1>6, <1>7 DEF RunTo

\* The other runs that hold their lease.
LEMMA OtherHelds ==
    ASSUME IInv, UNCHANGED table, NEW w \in Workers, NEW r, RunTo(w, r), LeaseStep(w),
           row' = row \/ (Held(w) /\ \A p \in Publications \ {Pub(w)} : row'[p] = row[p]),
           NEW v \in Workers, v # w, Held(v)', Working(v)'
    PROVE  HeldOK(v)'
<1>1. run'[v] = run[v]
  BY Facts DEF RunTo
<1>2. Pub(v)' = Pub(v) /\ Working(v) /\ Pub(v) \in Publications /\ v # Nobody
  BY <1>1, Facts, RouteAssumption DEF Pub, Working, Nobody
<1>3. Held(v)
  BY <1>2 DEF Held, LeaseStep
<1>4. row'[Pub(v)] = row[Pub(v)]
  BY <1>2, <1>3 DEF Held
<1> QED
  BY <1>1, <1>2, <1>3, <1>4, Facts, HeldFrame

LEMMA RunMoves ==
    ASSUME IInv, NEW w \in Workers, NEW r, RunTo(w, r), r.pc \notin {"send", "applied"},
           UNCHANGED <<table, flight, ops>>, ClockStep, LeaseStep(w), RowStep(w),
           row' = row \/ RowFrame,
           Held(w)' /\ Working(w)' => HeldOK(w)'
    PROVE  IInv'
<1> USE RouteAssumption
<1>1. TypeOK /\ TableOK /\ BatchesOK /\ ThreatOK /\ RowsOK /\ RunsOK /\ HeldsOK
  BY DEF IInv, GlobalOK
<1>2. run \in [Workers -> Run] /\ run'[w] = r /\ \A v \in Workers \ {w} : run'[v] = run[v]
  BY Facts DEF RunTo
<1>3. NoneSent
  BY <1>2 DEF NoneSent
<1>4. RowFrame
  BY DEF RowFrame
<1>5. TypeOK'
  <2>1. run' \in [Workers -> Run]
    BY <1>2 DEF RunTo
  <2> QED
    BY <1>1, <2>1 DEF TypeOK, table, ClockStep, LeaseStep, RowStep
<1>6. TableOK'
  BY <1>1, TableFrame DEF TypeOK
<1>7. BatchesOK'
  BY <1>3, <1>4, PossibleFrame, BatchesFrame DEF NoneNew
<1>8. RowsOK'
  <2>1. ASSUME NEW p \in Publications PROVE RowOK(p)'
    <3>1. CASE p = Pub(w)
      BY <3>1 DEF RowStep
    <3>2. CASE p # Pub(w)
      <4>1. row'[p] = row[p] /\ RowOK(p)
        BY <3>2, RowFacts DEF RowStep
      <4>2. EntryOK(row[p].activation)' /\ EntryOK(row[p].journal)'
        <5>1. EntryOK(row[p].activation) /\ EntryOK(row[p].journal)
          BY <4>1 DEF RowOK
        <5>2. \A b : Possible(b)' => Possible(b)
          BY <1>3, PossibleFrame
        <5> QED
          BY <4>1, <5>1, <5>2, ApplicableFrame DEF EntryOK, table
      <4>3. \A q \in Publications \cap receipts : row'[q].base = row[q].base
        BY DEF RowStep
      <4> QED
        BY <4>1, <4>2, <4>3 DEF RowOK, Resolved, table
    <3> QED
      BY <3>1, <3>2
  <2>2. \A p \in Publications : row'[p].status = "promoting" => row[p].status = "promoting"
    BY DEF RowStep
  <2> QED
    BY <1>1, <2>1, <2>2 DEF RowsOK
<1>9. ThreatOK'
  <2> SUFFICES ASSUME NEW b \in Batch, NEW p \in Publications,
                      Possible(b)', Applicable(b)', b.after.pending = p
               PROVE  \/ writer.pending = p
                      \/ b = row'[p].journal.batch /\ ~ Resolved(row'[p].journal)
    BY DEF ThreatOK, table
  <2>1. Possible(b) /\ Applicable(b)
    BY <1>3, PossibleFrame, ApplicableFrame
  <2>2. \/ writer.pending = p
        \/ b = row[p].journal.batch /\ ~ Resolved(row[p].journal)
    BY <1>1, <2>1 DEF ThreatOK
  <2>3. CASE b = row[p].journal.batch /\ ~ Resolved(row[p].journal)
    <3>1. b = row'[p].journal.batch /\ row'[p].journal.outcome # "none"
      BY <1>4, <2>3 DEF RowFrame, Resolved
    <3>2. EntryOK(row[p].journal)'
      BY <1>8 DEF RowsOK, RowOK
    <3>3. ~ Resolved(row'[p].journal)
      BY <3>1, <3>2 DEF EntryOK, Resolved, Applicable
    <3> QED
      BY <3>1, <3>3
  <2> QED
    BY <2>2, <2>3
<1>10. RunsOK'
  <2>1. ASSUME NEW v \in Workers, v # w PROVE RunOK(v)'
    BY <1>1, <1>2, <2>1 DEF RunsOK, RunOK, Past, table
  <2>2. RunOK(w)'
    BY <1>2, SeenOK DEF RunOK
  <2> QED
    BY <1>1, <1>2, <2>1, <2>2 DEF RunsOK
<1>11. HeldsOK'
  BY OtherHelds DEF HeldsOK, RowStep
<1> QED
  BY <1>5, <1>6, <1>7, <1>8, <1>9, <1>10, <1>11 DEF IInv, GlobalOK

--------------------------------------------------------------------------
(* What the holder of the lease writes, and how runs end.                   *)

\* The row after an outcome is recorded.
LEMMA RecordedFields ==
    ASSUME IInv, NEW w \in Workers, NEW o \in Outcomes
    PROVE  \A new, p, t : new = Recorded(w, o) /\ p = Pub(w) /\ t = run[w].target =>
               /\ new \in [Publications -> Row]
               /\ \A q \in Publications \ {p} : new[q] = row[q]
               /\ new[p].status = row[p].status /\ new[p].base = row[p].base
               /\ new[p].activation.batch = row[p].activation.batch
               /\ new[p].journal.batch = row[p].journal.batch
               /\ t = "journal" => /\ new[p].journal.outcome = o
                                   /\ new[p].activation = row[p].activation
               /\ t = "activation" => /\ new[p].activation.outcome = o
                                      /\ new[p].journal = row[p].journal
<1> DEFINE p == Pub(w)
           P == row[p]
           new == Recorded(w, o)
<1>1. /\ row \in [Publications -> Row] /\ p \in Publications /\ P \in Row
      /\ P.activation \in Entry /\ P.journal \in Entry
  BY Facts, RowFacts
<1>2. run[w].target \in {"activation", "journal"}
  BY Facts DEF Run
<1>3. CASE run[w].target = "activation"
  <2>1. new = [row EXCEPT ![p] = [P EXCEPT !.activation = [P.activation EXCEPT !.outcome = o]]]
    BY <1>1, <1>3 DEF Recorded
  <2>2. [P.activation EXCEPT !.outcome = o] \in Entry
    BY <1>1 DEF Entry
  <2>3. [P EXCEPT !.activation = [P.activation EXCEPT !.outcome = o]] \in Row
    BY <1>1, <2>2 DEF Row
  <2>4. /\ new \in [Publications -> Row]
        /\ \A q \in Publications \ {p} : new[q] = row[q]
        /\ new[p] = [P EXCEPT !.activation = [P.activation EXCEPT !.outcome = o]]
    BY <1>1, <2>1, <2>3
  <2> HIDE DEF new, P
  <2>5. /\ new[p].status = P.status /\ new[p].base = P.base /\ new[p].journal = P.journal
        /\ new[p].activation = [P.activation EXCEPT !.outcome = o]
    BY <1>1, <2>4 DEF Row
  <2>6. new[p].activation.batch = P.activation.batch /\ new[p].activation.outcome = o
    BY <1>1, <2>5 DEF Entry
  <2> QED
    BY <1>3, <2>4, <2>5, <2>6 DEF new, P
<1>4. CASE run[w].target = "journal"
  <2>1. new = [row EXCEPT ![p] = [P EXCEPT !.journal = [P.journal EXCEPT !.outcome = o]]]
    BY <1>1, <1>4 DEF Recorded
  <2>2. [P.journal EXCEPT !.outcome = o] \in Entry
    BY <1>1 DEF Entry
  <2>3. [P EXCEPT !.journal = [P.journal EXCEPT !.outcome = o]] \in Row
    BY <1>1, <2>2 DEF Row
  <2>4. /\ new \in [Publications -> Row]
        /\ \A q \in Publications \ {p} : new[q] = row[q]
        /\ new[p] = [P EXCEPT !.journal = [P.journal EXCEPT !.outcome = o]]
    BY <1>1, <2>1, <2>3
  <2> HIDE DEF new, P
  <2>5. /\ new[p].status = P.status /\ new[p].base = P.base /\ new[p].activation = P.activation
        /\ new[p].journal = [P.journal EXCEPT !.outcome = o]
    BY <1>1, <2>4 DEF Row
  <2>6. new[p].journal.batch = P.journal.batch /\ new[p].journal.outcome = o
    BY <1>1, <2>5 DEF Entry
  <2> QED
    BY <1>4, <2>4, <2>5, <2>6 DEF new, P
<1> QED
  BY <1>2, <1>3, <1>4

\* What justifies recording an outcome of the batch the run has in memory.
Justified(w, o) ==
    /\ o \in Outcomes \ {"none"}
    /\ o = "confirmed" => run[w].intent.op \in receipts
    /\ o = "fenced" => run[w].intent.op \notin receipts /\ ~ Applicable(run[w].intent)
    /\ o = "expired" =>
          /\ run[w].intent.op \notin receipts /\ run[w].pc = "send"
          /\ run[w].intent \notin flight

\* A justified outcome keeps the row true.
LEMMA RecordedOK ==
    ASSUME IInv, UNCHANGED <<table, flight>>, NEW w \in Workers, Held(w), Working(w),
           run[w].pc \in Reading \union Dispatching,
           NEW o, Justified(w, o), row' = Recorded(w, o),
           NEW r, RunTo(w, r), r.pc # "send"
    PROVE  RowStep(w) /\ RowFrame
<1> DEFINE p == Pub(w)
           t == run[w].target
<1>1. /\ o \in Outcomes \ {"none"} /\ p \in Publications /\ HeldOK(w)
      /\ t \in {"activation", "journal"}
  BY Facts DEF Justified, Run
<1>2. /\ row' \in [Publications -> Row]
      /\ \A q \in Publications \ {p} : row'[q] = row[q]
      /\ row'[p].status = row[p].status /\ row'[p].base = row[p].base
      /\ row'[p].activation.batch = row[p].activation.batch
      /\ row'[p].journal.batch = row[p].journal.batch
      /\ t = "journal" => /\ row'[p].journal.outcome = o
                          /\ row'[p].activation = row[p].activation
      /\ t = "activation" => /\ row'[p].activation.outcome = o
                             /\ row'[p].journal = row[p].journal
  BY <1>1, RecordedFields
<1>3. /\ run[w].intent = row[p][t].batch /\ row[p][t].outcome # "none"
      /\ row[p].status = "promoting"
  BY <1>1 DEF HeldOK, IntentOK, StageOK
<1>4. RowFrame
  BY <1>1, <1>2, <1>3 DEF RowFrame
<1>5. run' = [run EXCEPT ![w] = r] /\ run \in [Workers -> Run]
  BY Facts DEF RunTo
<1>6. NoneSent
  BY <1>5 DEF NoneSent
<1>7. o = "expired" => \A b : b = run[w].intent => ~ Possible(b)'
  <2> HAVE o = "expired"
  <2>1. run[w].pc = "send" /\ run[w].intent \notin flight
    BY DEF Justified
  <2>2. \A v \in Workers : run[v].pc = "send" /\ run[v].intent = run[w].intent => v = w
    BY <2>1 DEF IInv, GlobalOK, RunsOK
  <2>3. ASSUME NEW v \in Workers, run'[v].pc = "send" PROVE run'[v].intent # run[w].intent
    BY <1>5, <2>2, <2>3
  <2> QED
    BY <2>1, <2>3 DEF Possible
<1>8. EntryOK(row[p].activation) /\ EntryOK(row[p].journal) /\ RowOK(p)
  BY <1>1, RowFacts DEF RowOK
<1>9. PICK b : b = run[w].intent
  OBVIOUS
<1>10. /\ o = "confirmed" => b.op \in receipts
       /\ o = "fenced" => b.op \notin receipts /\ ~ Applicable(b)'
       /\ o = "expired" => b.op \notin receipts /\ ~ Possible(b)'
  BY <1>7, <1>9, ApplicableFrame DEF Justified
<1>11. PICK q \in Publications : q = Pub(w)
  BY <1>1
<1>12. EntryOK(row[q].activation)' /\ EntryOK(row[q].journal)'
  <2>1. \A c : Possible(c)' => Possible(c)
    BY <1>6, PossibleFrame
  <2>2. CASE t = "activation"
    <3>1. row'[q].activation.batch = b /\ row'[q].activation.outcome = o
      BY <1>2, <1>3, <1>9, <1>11, <2>2
    <3>2. EntryOK(row[q].activation)'
      BY <1>10, <3>1 DEF EntryOK, table
    <3> QED
      BY <1>2, <1>8, <1>11, <2>1, <2>2, <3>2, ApplicableFrame DEF EntryOK, table
  <2>3. CASE t = "journal"
    <3>1. row'[q].journal.batch = b /\ row'[q].journal.outcome = o
      BY <1>2, <1>3, <1>9, <1>11, <2>3
    <3>2. EntryOK(row[q].journal)'
      BY <1>10, <3>1 DEF EntryOK, table
    <3> QED
      BY <1>2, <1>8, <1>11, <2>1, <2>3, <3>2, ApplicableFrame DEF EntryOK, table
  <2> QED
    BY <1>1, <2>2, <2>3
<1>13. RowOK(q)'
  BY <1>2, <1>3, <1>4, <1>8, <1>11, <1>12 DEF RowOK, RowFrame, table
<1> QED
  BY <1>1, <1>2, <1>4, <1>11, <1>13 DEF RowStep

\* A row that is left alone.
LEMMA RowUnchanged ==
    ASSUME IInv, UNCHANGED <<table, flight, row>>, NEW w \in Workers, NEW r, RunTo(w, r),
           r.pc # "send"
    PROVE  RowStep(w)
<1>1. run' = [run EXCEPT ![w] = r] /\ run \in [Workers -> Run] /\ row \in [Publications -> Row]
  BY Facts DEF RunTo
<1>2. NoneSent
  BY <1>1 DEF NoneSent
<1>3. \A c : Possible(c)' => Possible(c)
  BY <1>2, PossibleFrame
<1>4. ASSUME NEW p \in Publications PROVE RowOK(p)'
  <2>1. RowOK(p)
    BY RowFacts
  <2>2. EntryOK(row[p].activation)' /\ EntryOK(row[p].journal)'
    BY <1>3, <2>1, ApplicableFrame DEF RowOK, EntryOK, table
  <2> QED
    BY <2>1, <2>2 DEF RowOK, Resolved, table
<1> QED
  BY <1>1, <1>4 DEF RowStep

LEMMA InitRunTyped == InitRun \in Run /\ InitRun.pc = "idle" /\ InitRun.seen = NoWriter
                      /\ InitRun.etag = Absent
<1> USE RouteAssumption
<1>1. (CHOOSE p \in Publications : TRUE) \in Publications
  OBVIOUS
<1>2. NoWriter \in WriterRow
  BY DEF NoWriter, WriterRow, Operations, Heads, Absent, Initial
<1>3. NoBatch \in Batch
  BY <1>2 DEF NoBatch, Batch, Operations, Absent
<1>4. Absent \in Operations
  BY DEF Operations, Absent
<1> QED
  BY <1>1, <1>2, <1>3, <1>4 DEF InitRun, Run, Pcs

\* A run that ends.
LEMMA LeaveMoves ==
    ASSUME IInv, NEW w \in Workers, Leave(w), UNCHANGED <<table, flight, ops>>, ClockStep,
           row' = row \/ RowStep(w), row' = row \/ RowFrame
    PROVE  IInv'
<1>1. RunTo(w, InitRun)
  BY InitRunTyped DEF RunTo, Leave
<1>2. run'[w] = InitRun
  BY Facts DEF Leave
<1>3. ~ Working(w)'
  BY <1>2, InitRunTyped DEF Working
<1>4. LeaseStep(w)
  BY Facts DEF Leave, LeaseStep
<1>5. InitRun.pc \notin {"send", "applied"}
  BY InitRunTyped
<1>6. RowStep(w)
  BY <1>1, <1>5, RowUnchanged
<1> QED
  BY <1>1, <1>3, <1>4, <1>5, <1>6, RunMoves

\* A run that goes on, with the row left alone.
LEMMA GotoMoves ==
    ASSUME IInv, NEW w \in Workers, NEW r, RunTo(w, r), r.pc \notin {"send", "applied"},
           UNCHANGED <<table, flight, row, lease, ops>>, ClockStep,
           r.pub = run[w].pub, Working(w), Held(w) => HeldOK(w)'
    PROVE  IInv'
<1>1. RowStep(w)
  BY RowUnchanged
<1>2. LeaseStep(w)
  BY Facts DEF LeaseStep
<1>3. run'[w] = r
  BY Facts DEF RunTo
<1>4. Held(w)' => Held(w)
  BY <1>3 DEF Held, Pub
<1> QED
  BY <1>1, <1>2, <1>4, RunMoves

\* A run that ends after writing an outcome.
LEMMA StopMoves ==
    ASSUME IInv, NEW w \in Workers, NEW o, Working(w),
           Held(w) => run[w].pc \in Reading \union Dispatching /\ Justified(w, o),
           Leave(w), row' = IF Held(w) THEN Recorded(w, o) ELSE row,
           UNCHANGED <<table, flight, ops>>, ClockStep
    PROVE  IInv'
<1>1. CASE Held(w)
  <2>1. RunTo(w, InitRun) /\ InitRun.pc # "send"
    BY InitRunTyped DEF RunTo, Leave
  <2>2. RowStep(w) /\ RowFrame
    BY <1>1, <2>1, RecordedOK
  <2> QED
    BY <2>2, LeaveMoves
<1>2. CASE ~ Held(w)
  BY <1>2, LeaveMoves
<1> QED
  BY <1>1, <1>2

\* A run that goes on after writing an outcome.
LEMMA RecordMoves ==
    ASSUME IInv, NEW w \in Workers, NEW o, Held(w), Working(w),
           run[w].pc \in Reading \union Dispatching, Justified(w, o), row' = Recorded(w, o),
           NEW r, RunTo(w, r), r.pc \notin {"send", "applied"},
           UNCHANGED <<table, flight, ops, lease>>, ClockStep, HeldOK(w)'
    PROVE  IInv'
<1>1. RowStep(w) /\ RowFrame
  BY RecordedOK
<1>2. LeaseStep(w)
  BY Facts DEF LeaseStep
<1> QED
  BY <1>1, <1>2, RunMoves

\* The clocks of a step that leaves them alone.
LEMMA ClockKept ==
    ASSUME IInv, UNCHANGED <<time, faults>> PROVE ClockStep
BY DEF IInv, GlobalOK, TypeOK, ClockStep, time

--------------------------------------------------------------------------
(* The actions of runs that send nothing. *)

LEMMA ReadReceiptsMoves ==
    ASSUME IInv, NEW w \in Workers, Working(w), NEW t \in {"activation", "journal"},
           NEW then \in Pcs, ReadReceipts(w, t, then), UNCHANGED <<outside, row, lease, ops>>,
           Held(w) =>
              /\ row[Pub(w)][t].outcome # "none"
              /\ \/ t = "activation" /\ then \in {"fence", "idle"}
                 \/ t = "journal" /\ then = "begin" /\ row[Pub(w)].activation.outcome = "none"
                 \/ t = "journal" /\ then = "fence" /\ row[Pub(w)].activation.outcome # "none"
                 \/ t = "journal" /\ then = "abort" /\ row[Pub(w)].activation.outcome = "fenced"
    PROVE  IInv'
<1> DEFINE b == row[Pub(w)][t].batch
           r == [run[w] EXCEPT !.pc = "receipt", !.target = t, !.then = then, !.intent = b]
<1>1. /\ run \in [Workers -> Run] /\ run[w] \in Run /\ Pub(w) \in Publications
      /\ (Held(w) => HeldOK(w))
  BY Facts
<1>2. b \in Batch
  BY <1>1, RowFacts
<1>3. run' = [run EXCEPT ![w] = r]
  BY <1>1 DEF ReadReceipts, Run
<1>4. /\ r \in Run /\ r.pc = "receipt" /\ r.target = t /\ r.then = then /\ r.intent = b
      /\ r.pub = run[w].pub /\ r.seen = run[w].seen /\ r.etag = run[w].etag
  BY <1>1, <1>2 DEF Run, Pcs
<1> HIDE DEF r
<1>5. run'[w] = r
  BY <1>1, <1>3
<1>6. ClockStep
  BY ClockKept DEF outside
<1>7. RunTo(w, r)
  BY <1>3, <1>4 DEF RunTo
<1>8. Held(w) => HeldOK(w)'
  <2> HAVE Held(w)
  <2>1. Pub(w)' = Pub(w) /\ row' = row /\ Goal(w)' = IF t = "journal" THEN then ELSE "idle"
    BY <1>4, <1>5 DEF Pub, Goal, Reading, Dispatching
  <2>2. GoalOK(w)'
    BY <2>1 DEF GoalOK
  <2>3. IntentOK(w)'
    BY <1>4, <1>5, <2>1 DEF IntentOK, Reading, Dispatching
  <2>4. StageOK(w)'
    BY <1>1, <1>4, <1>5, <2>1 DEF StageOK, HeldOK
  <2> QED
    BY <2>2, <2>3, <2>4 DEF HeldOK
<1> QED
  BY <1>4, <1>6, <1>7, <1>8, GotoMoves DEF outside

\* Going on with nothing but another program counter.
LEMMA PcMoves ==
    ASSUME IInv, NEW w \in Workers, Working(w), NEW pc \in Pcs \ {"send", "applied"},
           Goto(w, pc), UNCHANGED <<table, flight, row, lease, ops>>, ClockStep,
           Held(w) => HeldOK(w)'
    PROVE  IInv'
<1> DEFINE r == [run[w] EXCEPT !.pc = pc]
<1>1. run \in [Workers -> Run] /\ run[w] \in Run
  BY Facts
<1>2. run' = [run EXCEPT ![w] = r] /\ r \in Run /\ r.pc = pc /\ r.pub = run[w].pub
      /\ r.seen = run[w].seen /\ r.etag = run[w].etag
  BY <1>1 DEF Goto, Run
<1>3. RunTo(w, r)
  BY <1>2 DEF RunTo
<1> QED
  BY <1>2, <1>3, GotoMoves

\* What a step that only moves the program counter keeps of a run.
LEMMA PcFields ==
    ASSUME IInv, NEW w \in Workers, NEW pc \in Pcs, Goto(w, pc)
    PROVE  /\ run'[w].pc = pc /\ run'[w].pub = run[w].pub /\ run'[w].target = run[w].target
           /\ run'[w].then = run[w].then /\ run'[w].intent = run[w].intent
           /\ run'[w].seen = run[w].seen /\ run'[w].etag = run[w].etag
           /\ Pub(w)' = Pub(w)
<1>1. run \in [Workers -> Run] /\ run[w] \in Run
  BY Facts
<1> QED
  BY <1>1 DEF Goto, Run, Pub

LEMMA StartPreserves == ASSUME IInv, NEW w \in Workers, Start(w) PROVE IInv'
<1>1. run[w].pc = "start" /\ Working(w) /\ (Held(w) => HeldOK(w)) /\ Pub(w) \in Publications
  BY Facts DEF Start, At, Working
<1>2. ClockStep /\ UNCHANGED <<outside, row, lease, ops>>
  BY ClockKept DEF Start, outside
<1> DEFINE p == row[Pub(w)]
<1>3. CASE p.activation.outcome # "none" /\ ReadReceipts(w, "activation", "fence")
  BY <1>1, <1>2, <1>3, ReadReceiptsMoves DEF Pcs
<1>4. CASE p.activation.outcome = "none" /\ Resolved(p.journal) /\ Goto(w, "begin")
  <2>1. /\ run'[w].pc = "begin" /\ Pub(w)' = Pub(w) /\ row' = row
    BY <1>2, <1>4, PcFields DEF Pcs
  <2>2. Held(w) => HeldOK(w)'
    BY <1>1, <1>4, <2>1
    DEF HeldOK, GoalOK, IntentOK, StageOK, Goal, Reading, Dispatching, Resolved
  <2> QED
    BY <1>1, <1>2, <1>4, <2>2, PcMoves DEF Pcs, outside
<1>5. CASE /\ p.activation.outcome = "none" /\ ~ Resolved(p.journal)
           /\ ReadReceipts(w, "journal", "begin")
  <2>1. p.journal.outcome # "none"
    BY <1>5 DEF Resolved
  <2> QED
    BY <1>1, <1>2, <1>5, <2>1, ReadReceiptsMoves DEF Pcs
<1> QED
  BY <1>3, <1>4, <1>5 DEF Start

\* A holder has read what decides its batch: it records the outcome, unless
\* it may not, and goes on or ends.
LEMMA ConcludeMoves ==
    ASSUME IInv, NEW w \in Workers, run[w].pc \in Reading, NEW o \in {"confirmed", "fenced", "unknown"},
           Conclude(w, o), UNCHANGED <<outside, ops>>, Held(w) => Justified(w, o)
    PROVE  IInv'
<1> DEFINE old == row[Pub(w)][run[w].target].outcome
           kept == run[w].target = "activation" /\ old = "expired" /\ o = "unknown"
           next == Onward(w, o)
<1>1. /\ Working(w) /\ run[w] \in Run /\ Pub(w) \in Publications /\ (Held(w) => HeldOK(w))
      /\ run[w].target \in {"activation", "journal"} /\ run[w].then \in Pcs
  BY Facts DEF Working, Reading, Run
<1>2. ClockStep /\ UNCHANGED <<table, flight, ops>>
  BY ClockKept DEF outside
<1>3. CASE End(w)
  BY <1>2, <1>3, LeaveMoves DEF End
<1>4. CASE Held(w) /\ kept /\ row' = row /\ next = "idle" /\ Leave(w)
  BY <1>2, <1>4, LeaveMoves
<1>5. CASE Held(w) /\ row' = Recorded(w, o) /\ next = "idle" /\ Leave(w)
  BY <1>1, <1>2, <1>5, StopMoves
<1>6. CASE Held(w) /\ kept /\ row' = row /\ next # "idle" /\ Goto(w, next) /\ UNCHANGED lease
  <2>1. next = "fence" /\ row[Pub(w)].activation.outcome # "none"
    BY <1>1, <1>6 DEF Onward, HeldOK, IntentOK
  <2>2. run'[w].pc = "fence" /\ Pub(w)' = Pub(w)
    BY <1>6, <2>1, PcFields DEF Pcs
  <2>3. HeldOK(w)'
    BY <1>1, <1>6, <2>1, <2>2 DEF HeldOK, GoalOK, IntentOK, StageOK, Goal, Reading, Dispatching
  <2> QED
    BY <1>1, <1>2, <1>6, <2>1, <2>3, PcMoves DEF Pcs
<1>7. CASE Held(w) /\ row' = Recorded(w, o) /\ next # "idle" /\ Goto(w, next) /\ UNCHANGED lease
  <2>1. /\ run[w].intent = row[Pub(w)][run[w].target].batch
        /\ row[Pub(w)][run[w].target].outcome # "none"
        /\ IF run[w].target = "activation" THEN run[w].then \in {"fence", "idle"}
           ELSE run[w].then \in {"begin", "fence", "abort"}
        /\ row[Pub(w)].status = "promoting"
    BY <1>1, <1>7 DEF HeldOK, IntentOK, StageOK
  <2>2. next \in {"confirm", "abort", "fence", "begin"}
    BY <1>1, <1>7, <2>1 DEF Onward
  <2>3. o \in Outcomes
    BY DEF Outcomes
  <2>4. /\ row'[Pub(w)].status = row[Pub(w)].status
        /\ run[w].target = "journal" => /\ row'[Pub(w)].journal.outcome = o
                                        /\ row'[Pub(w)].activation = row[Pub(w)].activation
        /\ run[w].target = "activation" => row'[Pub(w)].activation.outcome = o
    BY <1>7, <2>3, RecordedFields
  <2>5. run'[w].pc = next /\ Pub(w)' = Pub(w)
    BY <1>7, <2>2, PcFields DEF Pcs
  <2>6. ASSUME run[w].target = "activation" PROVE HeldOK(w)'
    <3>1. o = "confirmed" => Pub(w) \in receipts
      <4>1. row[Pub(w)].activation.batch.op = Pub(w)
        BY <1>1, <2>1, <2>6, RowFacts DEF RowOK
      <4> QED
        BY <1>7, <2>1, <2>6, <4>1 DEF Justified
    <3>2. \/ o = "confirmed" /\ next = "confirm"
          \/ o = "fenced" /\ next = "abort"
          \/ o = "unknown" /\ next = "fence"
      BY <1>7, <2>1, <2>2, <2>6 DEF Onward
    <3>3. GoalOK(w)' /\ IntentOK(w)'
      BY <2>4, <2>5, <2>6, <3>2 DEF GoalOK, IntentOK, Goal, Reading, Dispatching
    <3>4. StageOK(w)'
      BY <1>2, <2>1, <2>4, <2>5, <3>1, <3>2 DEF StageOK, table
    <3> QED
      BY <3>3, <3>4 DEF HeldOK
  <2>7. ASSUME run[w].target = "journal" PROVE HeldOK(w)'
    <3>1. next = run[w].then /\ o \in {"confirmed", "fenced"} /\ next \in {"begin", "fence", "abort"}
      BY <1>7, <2>1, <2>7 DEF Onward
    <3>2. Goal(w) = next
      BY <2>7, <3>1 DEF Goal
    <3>3. GoalOK(w)' /\ IntentOK(w)'
      BY <1>1, <1>7, <2>4, <2>5, <2>7, <3>1, <3>2
      DEF HeldOK, GoalOK, IntentOK, Goal, Reading, Dispatching
    <3>4. StageOK(w)'
      BY <2>1, <2>4, <2>5, <2>7, <3>1 DEF StageOK, Resolved
    <3> QED
      BY <3>3, <3>4 DEF HeldOK
  <2>8. HeldOK(w)'
    BY <1>1, <2>6, <2>7
  <2> DEFINE r == [run[w] EXCEPT !.pc = next]
  <2>9. r \in Run /\ r.pc = next /\ r.seen = run[w].seen /\ r.etag = run[w].etag
    BY <1>1, <2>2 DEF Run, Pcs
  <2>10. run' = [run EXCEPT ![w] = r]
    BY <1>7, Facts DEF Goto
  <2> HIDE DEF r
  <2>11. RunTo(w, r)
    BY <2>9, <2>10 DEF RunTo
  <2> QED
    BY <1>1, <1>2, <1>7, <2>2, <2>8, <2>9, <2>11, RecordMoves
<1> QED
  BY <1>3, <1>4, <1>5, <1>6, <1>7 DEF Conclude

LEMMA ReadReceiptPreserves == ASSUME IInv, NEW w \in Workers, ReadReceipt(w) PROVE IInv'
<1>1. /\ run[w].pc = "receipt" /\ Working(w) /\ (Held(w) => HeldOK(w)) /\ Pub(w) \in Publications
      /\ run[w].pc \in Reading
  BY Facts DEF ReadReceipt, At, Working, Reading
<1>2. ClockStep /\ UNCHANGED <<outside, ops>>
  BY ClockKept DEF ReadReceipt, outside
<1>3. CASE Intent(w).op \in receipts
  <2>1. Justified(w, "confirmed")
    BY <1>3 DEF Justified, Intent, Outcomes
  <2> QED
    BY <1>1, <1>2, <1>3, <2>1, ConcludeMoves DEF ReadReceipt
<1>4. CASE Intent(w).op \notin receipts
  <2>1. Goto(w, "etags") /\ UNCHANGED <<row, lease>>
    BY <1>4 DEF ReadReceipt
  <2>2. /\ run'[w].pc = "etags" /\ run'[w].target = run[w].target /\ run'[w].then = run[w].then
        /\ run'[w].intent = run[w].intent /\ Pub(w)' = Pub(w)
    BY <2>1, PcFields DEF Pcs
  <2>3. Held(w) => HeldOK(w)'
    BY <1>1, <2>1, <2>2 DEF HeldOK, GoalOK, IntentOK, StageOK, Goal, Reading, Dispatching
  <2> QED
    BY <1>1, <1>2, <2>1, <2>3, PcMoves DEF Pcs, outside
<1> QED
  BY <1>3, <1>4

\* The batch names an etag that its row no longer has.
LEMMA MovedIsRefused == ASSUME NEW b, Moved(b) PROVE ~ Applicable(b)
BY DEF Moved, Applicable

LEMMA ReadEtagsPreserves == ASSUME IInv, NEW w \in Workers, ReadEtags(w) PROVE IInv'
<1>1. /\ run[w].pc = "etags" /\ Working(w) /\ (Held(w) => HeldOK(w)) /\ Pub(w) \in Publications
      /\ run[w].pc \in Reading
  BY Facts DEF ReadEtags, At, Working, Reading
<1>2. ClockStep /\ UNCHANGED <<outside, ops>>
  BY ClockKept DEF ReadEtags, outside
<1>3. CASE Moved(Intent(w))
  <2>1. Goto(w, "again") /\ UNCHANGED <<row, lease>>
    BY <1>3 DEF ReadEtags
  <2>2. /\ run'[w].pc = "again" /\ run'[w].target = run[w].target /\ run'[w].then = run[w].then
        /\ run'[w].intent = run[w].intent /\ Pub(w)' = Pub(w)
    BY <2>1, PcFields DEF Pcs
  <2>3. ~ Applicable(run[w].intent)
    BY <1>3, MovedIsRefused DEF Intent
  <2>4. PICK b : b = run[w].intent
    OBVIOUS
  <2>5. ~ Applicable(b)'
    BY <1>2, <2>3, <2>4, ApplicableFrame DEF outside
  <2>6. ~ Applicable(run[w].intent)'
    BY <2>2, <2>4, <2>5 DEF Applicable, Activates
  <2>7. Held(w) => HeldOK(w)'
    BY <1>1, <2>1, <2>2, <2>6 DEF HeldOK, GoalOK, IntentOK, StageOK, Goal, Reading, Dispatching
  <2> QED
    BY <1>1, <1>2, <2>1, <2>7, PcMoves DEF Pcs, outside
<1>4. CASE ~ Moved(Intent(w))
  <2>1. Justified(w, "unknown")
    BY DEF Justified, Outcomes
  <2> QED
    BY <1>1, <1>2, <1>4, <2>1, ConcludeMoves DEF ReadEtags
<1> QED
  BY <1>3, <1>4

LEMMA ReadAgainPreserves == ASSUME IInv, NEW w \in Workers, ReadAgain(w) PROVE IInv'
<1>1. run[w].pc = "again" /\ run[w].pc \in Reading /\ (Held(w) => HeldOK(w))
  BY Facts DEF ReadAgain, At, Reading, Working
<1>2. Conclude(w, SecondReading(w)) /\ UNCHANGED <<outside, ops>>
  BY DEF ReadAgain
<1>3. Held(w) => Justified(w, SecondReading(w))
  BY <1>1 DEF HeldOK, IntentOK, Justified, SecondReading, Intent, Outcomes
<1>4. SecondReading(w) \in {"confirmed", "fenced"}
  BY DEF SecondReading
<1> QED
  BY <1>1, <1>2, <1>3, <1>4, ConcludeMoves

LEMMA RefusedPreserves == ASSUME IInv, NEW w \in Workers, Refused(w) PROVE IInv'
<1>1. run[w].pc = "refused" /\ Working(w) /\ run[w].pc \in Dispatching
  BY DEF Refused, At, Working, Dispatching
<1>2. ClockStep /\ UNCHANGED <<table, flight, ops>>
  BY ClockKept DEF Refused, outside
<1>3. Justified(w, "conflict")
  BY DEF Justified, Outcomes
<1> QED
  BY <1>1, <1>2, <1>3, StopMoves DEF Refused, Stop

LEMMA TimeOutPreserves == ASSUME IInv, NEW w \in Workers, TimeOut(w) PROVE IInv'
<1>1. run[w].pc = "wait" /\ Working(w) /\ run[w].pc \in Dispatching
  BY DEF TimeOut, At, Working, Dispatching
<1>2. ClockStep /\ UNCHANGED <<table, flight, ops>>
  <2>1. TypeOK /\ MaxFaults \in Nat
    BY RouteAssumption DEF IInv, GlobalOK
  <2>2. faults' \in 0..MaxFaults
    BY <2>1 DEF TypeOK, TimeOut
  <2> QED
    BY <2>1, <2>2 DEF TypeOK, TimeOut, ClockStep, time
<1>3. Justified(w, "unknown")
  BY DEF Justified, Outcomes
<1> QED
  BY <1>1, <1>2, <1>3, StopMoves DEF TimeOut, Stop

LEMMA AppliedPreserves == ASSUME IInv, NEW w \in Workers, Applied(w) PROVE IInv'
<1>1. /\ run[w].pc = "applied" /\ Working(w) /\ run[w].pc \in Dispatching
      /\ run \in [Workers -> Run] /\ run[w] \in Run /\ Pub(w) \in Publications
      /\ (Held(w) => HeldOK(w)) /\ run[w].intent.op \in receipts
      /\ run[w].target \in {"activation", "journal"} /\ run[w].then \in Pcs
  BY Facts DEF Applied, At, Working, Dispatching, RunOK, Run
<1>2. ClockStep /\ UNCHANGED <<outside, table, flight, ops>>
  BY ClockKept DEF Applied, outside
<1>3. Justified(w, "confirmed")
  BY <1>1 DEF Justified, Outcomes
<1>4. CASE ~ Held(w)
  BY <1>2, <1>4, LeaveMoves DEF Applied, End
<1>5. CASE Held(w) /\ Leave(w) /\ row' = Recorded(w, "confirmed")
  BY <1>1, <1>2, <1>3, <1>5, StopMoves
<1>6. ASSUME Held(w), row' = Recorded(w, "confirmed")
      PROVE  /\ row'[Pub(w)].status = "promoting"
             /\ run[w].target = "journal" => /\ row'[Pub(w)].journal.outcome = "confirmed"
                                             /\ row'[Pub(w)].activation = row[Pub(w)].activation
             /\ run[w].target = "activation" => row'[Pub(w)].activation.outcome = "confirmed"
             /\ run[w].intent = row[Pub(w)][run[w].target].batch
             /\ row[Pub(w)][run[w].target].outcome # "none"
  <2>1. "confirmed" \in Outcomes
    BY DEF Outcomes
  <2> QED
    BY <1>1, <1>6, <2>1, RecordedFields DEF HeldOK, IntentOK, StageOK
<1>7. CASE /\ Held(w) /\ row' = Recorded(w, "confirmed")
           /\ run[w].target = "activation" /\ Goto(w, "confirm") /\ UNCHANGED lease
  <2>1. row[Pub(w)].activation.batch.op = Pub(w)
    BY <1>1, <1>6, <1>7, RowFacts DEF RowOK
  <2>2. Pub(w) \in receipts
    BY <1>1, <1>6, <1>7, <2>1
  <2>3. run'[w].pc = "confirm" /\ Pub(w)' = Pub(w)
    BY <1>7, PcFields DEF Pcs
  <2>4. GoalOK(w)' /\ IntentOK(w)'
    BY <2>3 DEF GoalOK, IntentOK, Goal, Reading, Dispatching
  <2>5. StageOK(w)'
    BY <1>2, <1>6, <1>7, <2>2, <2>3 DEF StageOK, table
  <2>6. HeldOK(w)'
    BY <2>4, <2>5 DEF HeldOK
  <2> DEFINE r == [run[w] EXCEPT !.pc = "confirm"]
  <2>7. r \in Run /\ r.pc = "confirm" /\ r.seen = run[w].seen /\ r.etag = run[w].etag
    BY <1>1 DEF Run, Pcs
  <2>8. run' = [run EXCEPT ![w] = r]
    BY <1>1, <1>7 DEF Goto
  <2> HIDE DEF r
  <2>9. RunTo(w, r)
    BY <2>7, <2>8 DEF RunTo
  <2> QED
    BY <1>1, <1>2, <1>3, <1>7, <2>6, <2>7, <2>9, RecordMoves
<1> DEFINE pc == IF run[w].then = "recover" THEN "receipt" ELSE run[w].then
           t == IF run[w].then = "recover" THEN "activation" ELSE run[w].target
           b == IF run[w].then = "recover" THEN row[Pub(w)].activation.batch ELSE run[w].intent
           r == [run[w] EXCEPT !.seen = writer, !.pc = pc, !.target = t, !.intent = b,
                               !.then = "idle"]
<1>8. CASE /\ Held(w) /\ row' = Recorded(w, "confirmed") /\ run[w].target = "journal"
           /\ writer = Intent(w).after /\ run' = [run EXCEPT ![w] = r] /\ UNCHANGED lease
  <2>1. /\ run[w].then \in {"recover", "prepare", "activate", "withdraw", "fail"}
        /\ run[w].then = "fail" => writer.pending = Absent
        /\ GoalOK(w) /\ Goal(w) = run[w].then
    BY <1>1, <1>8 DEF HeldOK, IntentOK, Intent, Goal
  <2>2. row[Pub(w)].activation.batch \in Batch
    BY <1>1, RowFacts
  <2>3. /\ r \in Run /\ r.pc = pc /\ r.target = t /\ r.intent = b /\ r.then = "idle"
        /\ r.seen = writer /\ r.etag = run[w].etag /\ r.pub = run[w].pub
    <3>1. writer \in WriterRow
      BY DEF IInv, GlobalOK, TypeOK
    <3>2. pc \in Pcs /\ t \in {"activation", "journal"} /\ b \in Batch /\ "idle" \in Pcs
      BY <1>1, <2>2, Facts DEF Pcs
    <3> HIDE DEF pc, t, b
    <3> QED
      BY <1>1, <3>1, <3>2 DEF Run
  <2> HIDE DEF r
  <2>4. run'[w] = r /\ Pub(w)' = Pub(w)
    BY <1>1, <1>8, <2>3 DEF Pub
  <2>5. CASE run[w].then = "recover"
    <3>1. run'[w].pc = "receipt" /\ run'[w].target = "activation" /\ run'[w].then = "idle"
          /\ run'[w].intent = row[Pub(w)].activation.batch
      BY <2>3, <2>4, <2>5
    <3>2. row'[Pub(w)].activation = row[Pub(w)].activation
          /\ row[Pub(w)].activation.outcome # "none"
      BY <1>6, <1>8, <2>1, <2>5 DEF GoalOK
    <3>3. GoalOK(w)'
      BY <3>1 DEF GoalOK, Goal, Reading, Dispatching
    <3>4. IntentOK(w)'
      BY <2>4, <3>1, <3>2 DEF IntentOK, Reading, Dispatching
    <3>5. StageOK(w)'
      BY <1>6, <1>8, <2>4, <3>1 DEF StageOK
    <3>6. HeldOK(w)'
      BY <3>3, <3>4, <3>5 DEF HeldOK
    <3>7. r.pc \notin {"send", "applied"} /\ RunTo(w, r)
      BY <1>8, <2>3, <2>5 DEF RunTo
    <3> QED
      BY <1>1, <1>2, <1>3, <1>8, <3>6, <3>7, RecordMoves
  <2>6. CASE run[w].then # "recover"
    <3>1. run'[w].pc = run[w].then /\ run'[w].then = "idle" /\ run'[w].etag = run[w].etag
      BY <2>3, <2>4, <2>6
    <3>2. row'[Pub(w)].activation = row[Pub(w)].activation
          /\ row'[Pub(w)].base = row[Pub(w)].base
      <4>1. "confirmed" \in Outcomes
        BY DEF Outcomes
      <4> QED
        BY <1>6, <1>8, <4>1, RecordedFields
    <3>3. Goal(w)' = Goal(w) /\ (Based(w) => Based(w)')
      BY <1>2, <2>1, <2>4, <2>6, <3>1, <3>2 DEF Goal, Based, Reading, Dispatching, table
    <3>4. GoalOK(w)'
      BY <2>1, <2>4, <3>2, <3>3 DEF GoalOK
    <3>5. IntentOK(w)'
      BY <2>1, <2>6, <3>1 DEF IntentOK, Reading, Dispatching
    <3>6. writer' = writer /\ (run[w].then = "fail" => writer.pending # Pub(w))
      BY <1>1, <1>2, <2>1, RouteAssumption DEF table, Absent
    <3>7. StageOK(w)'
      BY <1>6, <1>8, <2>1, <2>4, <2>6, <3>1, <3>6 DEF StageOK, Resolved
    <3>8. HeldOK(w)'
      BY <3>4, <3>5, <3>7 DEF HeldOK
    <3>9. r.pc \notin {"send", "applied"} /\ RunTo(w, r)
      BY <1>8, <2>1, <2>3, <2>6 DEF RunTo
    <3> QED
      BY <1>1, <1>2, <1>3, <1>8, <3>8, <3>9, RecordMoves
  <2> QED
    BY <2>5, <2>6
<1>9. CASE /\ Held(w) /\ row' = Recorded(w, "confirmed") /\ run[w].target = "journal"
           /\ writer = Intent(w).after /\ UNCHANGED lease
           /\ run' = [run EXCEPT
                         ![w].seen = writer,
                         ![w].pc = IF run[w].then = "recover" THEN "receipt"
                                   ELSE run[w].then,
                         ![w].target = IF run[w].then = "recover" THEN "activation"
                                       ELSE @,
                         ![w].intent = IF run[w].then = "recover"
                                       THEN row[Pub(w)].activation.batch ELSE @,
                         ![w].then = "idle"]
  <2>1. run' = [run EXCEPT ![w] = r]
    BY <1>1, <1>9 DEF Run
  <2> QED
    BY <1>8, <1>9, <2>1
<1> QED
  BY <1>4, <1>5, <1>7, <1>9 DEF Applied

\* The end of a publication is written by a run that has established it.
LEMMA StatusMoves ==
    ASSUME IInv, NEW w \in Workers, Working(w), Held(w), NEW s \in {"active", "failed"},
           row' = [row EXCEPT ![Pub(w)].status = s], Leave(w), UNCHANGED <<outside, ops>>,
           s = "active" => Pub(w) \in receipts /\ active.head = Pub(w),
           s = "failed" => /\ row[Pub(w)].activation.outcome \in {"none", "fenced"}
                           /\ Resolved(row[Pub(w)].journal) /\ writer.pending # Pub(w)
    PROVE  IInv'
<1>1. PICK p \in Publications : p = Pub(w)
  BY Facts
<1>2. /\ row \in [Publications -> Row] /\ row[p] \in Row /\ RowOK(p)
      /\ row[p].status = "promoting"
  BY <1>1, Facts, RowFacts DEF HeldOK, StageOK
<1>3. row' = [row EXCEPT ![p] = [row[p] EXCEPT !.status = s]]
  BY <1>1, <1>2
<1>4. [row[p] EXCEPT !.status = s] \in Row
  BY <1>2 DEF Row
<1>5. /\ row' \in [Publications -> Row]
      /\ \A q \in Publications \ {p} : row'[q] = row[q]
      /\ row'[p] = [row[p] EXCEPT !.status = s]
  BY <1>2, <1>3, <1>4
<1>6. /\ row'[p].status = s /\ row'[p].base = row[p].base
      /\ row'[p].activation = row[p].activation /\ row'[p].journal = row[p].journal
  BY <1>2, <1>5 DEF Row
<1>7. RowFrame
  BY <1>5, <1>6 DEF RowFrame
<1>8. RunTo(w, InitRun) /\ run \in [Workers -> Run] /\ InitRun.pc # "send"
  BY InitRunTyped, Facts DEF RunTo, Leave
<1>9. NoneSent
  BY <1>8 DEF NoneSent, RunTo, outside
<1>10. \A c : Possible(c)' => Possible(c)
  BY <1>9, PossibleFrame
<1>11. UNCHANGED table
  BY DEF outside
<1>12. EntryOK(row[p].activation)' /\ EntryOK(row[p].journal)'
  BY <1>2, <1>6, <1>10, <1>11, ApplicableFrame DEF RowOK, EntryOK, table
<1>13. RowOK(p)'
  BY <1>1, <1>2, <1>6, <1>11, <1>12 DEF RowOK, Resolved, table
<1>14. RowStep(w)
  BY <1>1, <1>5, <1>6, <1>13 DEF RowStep
<1> QED
  BY <1>7, <1>14, ClockKept, LeaveMoves DEF outside

LEMMA CommitPreserves == ASSUME IInv, NEW w \in Workers, Commit(w) PROVE IInv'
<1>1. run[w].pc = "commit" /\ Working(w) /\ Leave(w) /\ UNCHANGED <<outside, ops>>
  BY DEF Commit, At, Working
<1>2. CASE Held(w)
  <2>1. row' = [row EXCEPT ![Pub(w)].status = "active"]
    BY <1>2 DEF Commit
  <2>2. Pub(w) \in receipts /\ active.head = Pub(w)
    BY <1>1, <1>2, Facts DEF HeldOK, StageOK
  <2> QED
    BY <1>1, <1>2, <2>1, <2>2, StatusMoves
<1>3. CASE ~ Held(w)
  BY <1>1, <1>3, ClockKept, LeaveMoves DEF Commit, outside
<1> QED
  BY <1>2, <1>3

LEMMA FailPreserves == ASSUME IInv, NEW w \in Workers, Fail(w) PROVE IInv'
<1>1. run[w].pc = "fail" /\ Working(w) /\ Leave(w) /\ UNCHANGED <<outside, ops>>
  BY DEF Fail, At, Working
<1>2. CASE Held(w)
  <2>1. row' = [row EXCEPT ![Pub(w)].status = "failed"]
    BY <1>2 DEF Fail
  <2>2. HeldOK(w) /\ Goal(w) = "fail"
    BY <1>1, <1>2, Facts DEF Goal, Reading, Dispatching
  <2>3. /\ row[Pub(w)].activation.outcome \in {"none", "fenced"}
        /\ Resolved(row[Pub(w)].journal) /\ writer.pending # Pub(w)
    BY <1>1, <2>2 DEF HeldOK, GoalOK, StageOK
  <2> QED
    BY <1>1, <1>2, <2>1, <2>3, StatusMoves
<1>3. CASE ~ Held(w)
  BY <1>1, <1>3, ClockKept, LeaveMoves DEF Fail, outside
<1> QED
  BY <1>2, <1>3

LEMMA ConfirmPreserves == ASSUME IInv, NEW w \in Workers, Confirm(w) PROVE IInv'
<1>1. run[w].pc = "confirm" /\ Working(w) /\ (Held(w) => HeldOK(w)) /\ Pub(w) \in Publications
  BY Facts DEF Confirm, At, Working
<1>2. ClockStep /\ UNCHANGED <<table, flight, ops>>
  <2>1. TypeOK /\ MaxFaults \in Nat
    BY RouteAssumption DEF IInv, GlobalOK
  <2>2. faults' \in 0..MaxFaults
    BY <2>1 DEF TypeOK, Confirm
  <2> QED
    BY <2>1, <2>2 DEF TypeOK, Confirm, ClockStep, time
<1>3. CASE active.head = Pub(w) /\ Goto(w, "commit") /\ UNCHANGED <<row, lease>>
  <2>1. run'[w].pc = "commit" /\ Pub(w)' = Pub(w)
    BY <1>3, PcFields DEF Pcs
  <2>2. Held(w) => HeldOK(w)'
    BY <1>1, <1>2, <1>3, <2>1
    DEF HeldOK, GoalOK, IntentOK, StageOK, Goal, Reading, Dispatching, table
  <2> QED
    BY <1>1, <1>2, <1>3, <2>2, PcMoves DEF Pcs
<1>4. CASE End(w)
  BY <1>2, <1>4, LeaveMoves DEF End
<1> QED
  BY <1>3, <1>4 DEF Confirm

--------------------------------------------------------------------------
(* A writer operation is journalled and about to be sent. *)

\* What a known batch cannot be: one of an operation that is yet to come.
LEMMA FreshOperation ==
    ASSUME IInv, NEW c \in Batch, Known(c) PROVE c.op # ops + 1
<1>1. c.op \in 2..ops \union Publications /\ ops \in Nat /\ Publications \cap Int = {}
  BY RouteAssumption DEF IInv, GlobalOK, TypeOK, BatchesOK, BatchOK
<1> QED
  BY <1>1

\* The batches on the wire, in memory and on record are batches.
LEMMA KnownTyped ==
    ASSUME IInv, NEW c, Known(c) PROVE c \in Batch
<1>1. CASE Possible(c)
  BY <1>1, Facts DEF Possible, IInv, GlobalOK, TypeOK
<1>2. CASE Journalled(c)
  BY <1>2, RowFacts DEF Journalled
<1> QED
  BY <1>1, <1>2 DEF Known

\* The goals of writer operations.
Goals == {"recover", "prepare", "activate", "withdraw", "fail"}

\* What a run must have established to begin a writer operation.
MayBegin(w, before, after, then) ==
    /\ after \in WriterRow /\ then \in Goals /\ before.etag \in Past
    /\ before.etag \in Operations
    /\ before.etag = writer.etag =>
          /\ after.gen = active.gen /\ after.head = active.head
          /\ after.pending \in {Absent, writer.pending, Pub(w)}
    /\ Held(w) =>
          /\ then = "recover" => row[Pub(w)].activation.outcome # "none"
          /\ then \in {"prepare", "activate"} =>
                row[Pub(w)].activation.outcome = "none" /\ Based(w)
          /\ then \in {"withdraw", "fail"} => row[Pub(w)].activation.outcome \in {"none", "fenced"}
          /\ then = "fail" => after.pending = Absent

\* A batch is journalled by the holder of the lease, who is about to send it.
LEMMA NewBatchMoves ==
    ASSUME IInv, NEW w \in Workers, Held(w), ops' \in 1..MaxOps, ops <= ops',
           UNCHANGED <<table, flight, lease, time, faults>>,
           NEW b \in Batch, NEW r, RunTo(w, r), r.pc = "send", r.intent = b,
           NEW p \in Publications, p = Pub(w), row' \in [Publications -> Row],
           \A q \in Publications \ {p} : row'[q] = row[q],
           row'[p].status = row[p].status, row'[p].base = row[p].base,
           ActivationFrame, RowOK(p)', BatchOK(b)', b.op \notin receipts,
           \A c \in Batch : Known(c) => c.op # b.op,
           \A c : Journalled(c)' => Journalled(c) \/ c = b,
           Resolved(row[p].journal) \/ row'[p].journal = row[p].journal,
           Applicable(b) => \/ b.after.pending \in {Absent, writer.pending}
                            \/ b.after.pending = p /\ b = row'[p].journal.batch
                               /\ ~ Resolved(row'[p].journal),
           HeldOK(w)'
    PROVE  IInv'
<1> USE RouteAssumption
<1>1. TypeOK /\ TableOK /\ BatchesOK /\ ThreatOK /\ RowsOK /\ RunsOK /\ HeldsOK
  BY DEF IInv, GlobalOK
<1>2. UNCHANGED <<lapsed, closed>> /\ ops' \in Nat
  BY DEF time
<1>3. /\ run \in [Workers -> Run] /\ r \in Run /\ run' = [run EXCEPT ![w] = r]
  BY Facts DEF RunTo
<1>4. run'[w] = r /\ (\A v \in Workers \ {w} : run'[v] = run[v]) /\ run' \in [Workers -> Run]
  BY <1>3
<1>5. \A c : Known(c) => c # b
  BY KnownTyped
<1>6. \A c : Possible(c)' => Possible(c) \/ c = b
  BY <1>4 DEF Possible
<1>7. TypeOK'
  BY <1>1, <1>2, <1>4 DEF TypeOK, table
<1>8. TableOK'
  BY <1>2, TableFrame
<1>9. BatchesOK'
  <2>1. ASSUME NEW c \in Batch, Known(c)' PROVE BatchOK(c)'
    <3>1. CASE c = b
      BY <3>1
    <3>2. CASE c # b
      <4>1. BatchOK(c)
        BY <1>1, <1>6, <2>1, <3>2 DEF Known, BatchesOK
      <4> QED
        BY <1>2, <4>1, BatchFrame
    <3> QED
      BY <3>1, <3>2
  <2>2. ASSUME NEW c \in Batch, NEW d \in Batch, Known(c)', Known(d)', c.op = d.op PROVE c = d
    <3>1. (Known(c) \/ c = b) /\ (Known(d) \/ d = b)
      BY <1>6, <2>2 DEF Known
    <3> QED
      BY <1>1, <2>2, <3>1 DEF BatchesOK
  <2> QED
    BY <2>1, <2>2 DEF BatchesOK
<1>10. RowsOK'
  <2>1. ASSUME NEW q \in Publications, q # p PROVE RowOK(q)'
    <3>1. RowOK(q) /\ row'[q] = row[q]
      BY <2>1, RowFacts
    <3>2. /\ row[q].journal.outcome # "none" => row[q].journal.batch # b
          /\ row[q].activation.outcome # "none" => row[q].activation.batch # b
      BY <1>5 DEF Known, Journalled
    <3>3. EntryOK(row[q].journal)'
      BY <1>6, <3>1, <3>2, ApplicableFrame DEF RowOK, EntryOK, table
    <3>4. EntryOK(row[q].activation)'
      BY <1>6, <3>1, <3>2, ApplicableFrame DEF RowOK, EntryOK, table
    <3>5. row'[q].status = "active" =>
             /\ q \in receipts
             /\ active.head # q => \E x \in Publications \cap receipts : row'[x].base = q
      BY <3>1 DEF RowOK
    <3> QED
      BY <3>1, <3>3, <3>4, <3>5 DEF RowOK, Resolved, table
  <2>2. \A q \in Publications : row'[q].status = row[q].status
    OBVIOUS
  <2> QED
    BY <1>1, <2>1, <2>2 DEF RowsOK
<1>11. ThreatOK'
  <2> SUFFICES ASSUME NEW c \in Batch, NEW q \in Publications,
                      Possible(c)', Applicable(c)', c.after.pending = q
               PROVE  \/ writer.pending = q
                      \/ c = row'[q].journal.batch /\ ~ Resolved(row'[q].journal)
    BY DEF ThreatOK, table
  <2>1. Applicable(c)
    BY ApplicableFrame
  <2>2. CASE c = b
    BY <2>1, <2>2 DEF Absent
  <2>3. CASE c # b
    <3>1. \/ writer.pending = q
          \/ c = row[q].journal.batch /\ ~ Resolved(row[q].journal)
      BY <1>1, <1>6, <2>1, <2>3 DEF ThreatOK
    <3> QED
      BY <3>1
  <2> QED
    BY <2>2, <2>3
<1>12. RunsOK'
  <2>1. ASSUME NEW v \in Workers, v # w PROVE RunOK(v)'
    BY <1>1, <1>4, <2>1 DEF RunsOK, RunOK, Past, table
  <2>2. RunOK(w)'
    <3>1. b \notin flight
      BY <1>5 DEF Known, Possible
    <3> QED
      BY <1>4, <3>1, SeenOK DEF RunOK, table
  <2>3. \A v \in Workers : run[v].pc = "send" => run[v].intent # b
    BY <1>5 DEF Known, Possible
  <2> QED
    BY <1>1, <1>4, <2>1, <2>2, <2>3 DEF RunsOK
<1>13. HeldsOK'
  <2>1. LeaseStep(w)
    BY Facts DEF LeaseStep
  <2> QED
    BY <2>1, OtherHelds DEF HeldsOK
<1> QED
  BY <1>7, <1>8, <1>9, <1>10, <1>11, <1>12, <1>13 DEF IInv, GlobalOK

LEMMA BeginMoves ==
    ASSUME IInv, NEW w \in Workers, Working(w), NEW before, NEW after, NEW then,
           MayBegin(w, before, after, then), Held(w), Resolved(row[Pub(w)].journal),
           ops < MaxOps, ops' = ops + 1, UNCHANGED <<outside, lease>>,
           NEW b, b = [op |-> ops + 1, wif |-> before.etag, aif |-> Absent,
                       after |-> [after EXCEPT !.etag = ops + 1]],
           row' = [row EXCEPT ![Pub(w)].journal = [batch |-> b, outcome |-> "started"]],
           NEW r, RunTo(w, r), r.pc = "send", r.target = "journal", r.then = then, r.intent = b,
           r.pub = run[w].pub, r.seen = run[w].seen, r.etag = run[w].etag
    PROVE  IInv'
<1> USE RouteAssumption
<1>1. TypeOK /\ TableOK
  BY DEF IInv, GlobalOK
<1>2. /\ ops \in 1..MaxOps /\ MaxOps \in Nat /\ ops + 1 \in 2..MaxOps /\ ops + 1 \in 2..ops'
      /\ ops' \in 1..MaxOps /\ ops' \in Nat /\ ops <= ops' /\ ops + 1 \notin Publications
      /\ ops + 1 \in Operations
  BY <1>1 DEF TypeOK, Operations
<1>3. UNCHANGED <<table, flight, lease, time, faults>>
  BY DEF outside
<1>4. PICK p \in Publications : p = Pub(w)
  BY Facts
<1>5. /\ row \in [Publications -> Row] /\ row[p] \in Row /\ RowOK(p) /\ HeldOK(w)
      /\ row[p].status = "promoting" /\ run'[w] = r /\ Pub(w)' = p
  BY <1>4, Facts, RowFacts DEF HeldOK, StageOK, RunTo, Pub
<1>6. /\ b.op = ops + 1 /\ b.wif = before.etag /\ b.after.pending = after.pending
      /\ b.after.gen = after.gen /\ b.after.head = after.head /\ b.after.etag = ops + 1
      /\ b \in Batch
  <2>1. [after EXCEPT !.etag = ops + 1] \in WriterRow /\ Absent \in Operations
    BY <1>2 DEF MayBegin, WriterRow, Operations, Absent
  <2> QED
    BY <1>2, <2>1 DEF MayBegin, Batch, WriterRow
<1> DEFINE e == [batch |-> b, outcome |-> "started"]
<1>7. e \in Entry /\ e.batch = b /\ e.outcome = "started"
  BY <1>6 DEF Entry, Outcomes
<1> HIDE DEF e
<1>8. /\ row' \in [Publications -> Row]
      /\ \A q \in Publications \ {p} : row'[q] = row[q]
      /\ row'[p].journal = e /\ row'[p].activation = row[p].activation
      /\ row'[p].status = row[p].status /\ row'[p].base = row[p].base
  <2>1. row' = [row EXCEPT ![p] = [row[p] EXCEPT !.journal = e]]
    BY <1>4, <1>5 DEF e
  <2>2. [row[p] EXCEPT !.journal = e] \in Row
    BY <1>5, <1>7 DEF Row
  <2>3. /\ row' \in [Publications -> Row]
        /\ \A q \in Publications \ {p} : row'[q] = row[q]
        /\ row'[p] = [row[p] EXCEPT !.journal = e]
    BY <1>5, <2>1, <2>2
  <2>4. [row[p] EXCEPT !.journal = e].journal = e
    BY <1>5 DEF Row
  <2>5. /\ [row[p] EXCEPT !.journal = e].activation = row[p].activation
        /\ [row[p] EXCEPT !.journal = e].status = row[p].status
        /\ [row[p] EXCEPT !.journal = e].base = row[p].base
    BY <1>5 DEF Row
  <2> QED
    BY <2>3, <2>4, <2>5
<1>9. ActivationFrame /\ \A c : Journalled(c)' => Journalled(c) \/ c = b
  BY <1>7, <1>8 DEF ActivationFrame, Journalled
<1>10. \A c \in Batch : Known(c) => c.op # b.op
  BY <1>6, FreshOperation
<1>11. BatchOK(b)'
  <2>1. ~ Activates(b)
    BY <1>2, <1>6 DEF Activates
  <2>2. Applicable(b) => b.after.gen = active.gen /\ b.after.head = active.head
    BY <1>6 DEF Applicable, MayBegin
  <2>3. Applicable(b)' <=> Applicable(b)
    BY <1>3, ApplicableFrame
  <2>4. b.wif \in Past' /\ b.op \in 2..ops'
    BY <1>2, <1>3, <1>6 DEF MayBegin, Past, table
  <2> QED
    BY <1>3, <1>6, <2>1, <2>2, <2>3, <2>4 DEF BatchOK, Activates, table
<1>12. RowOK(p)'
  <2>1. row[p].activation.outcome # "none" => row[p].activation.batch # b
    BY <1>2, <1>5, <1>6 DEF RowOK
  <2>2. \A c : Possible(c)' => Possible(c) \/ c = b
    BY <1>3, Facts DEF Possible, RunTo
  <2>3. EntryOK(row[p].activation)'
    BY <1>3, <1>5, <1>8, <2>1, <2>2, ApplicableFrame DEF RowOK, EntryOK, table
  <2>4. EntryOK(row[p].journal)'
    BY <1>7, <1>8 DEF EntryOK
  <2> QED
    BY <1>2, <1>3, <1>5, <1>6, <1>7, <1>8, <2>3, <2>4 DEF RowOK, Resolved, table
<1>13. Applicable(b) => \/ b.after.pending \in {Absent, writer.pending}
                        \/ b.after.pending = p /\ b = row'[p].journal.batch
                           /\ ~ Resolved(row'[p].journal)
  BY <1>4, <1>6, <1>7, <1>8 DEF Applicable, MayBegin, Resolved
<1>14. HeldOK(w)'
  <2>1. Goal(w)' = then /\ (Based(w) => Based(w)')
    BY <1>3, <1>4, <1>5, <1>8 DEF Goal, Based, Reading, Dispatching, table
  <2>2. GoalOK(w)'
    BY <1>4, <1>5, <1>8, <2>1 DEF GoalOK, MayBegin, Goals
  <2>3. IntentOK(w)'
    <3>1. row'[p]["journal"] = e
      BY <1>8
    <3>2. then \in Goals /\ (then = "fail" => b.after.pending = Absent)
      BY <1>6 DEF MayBegin
    <3> QED
      BY <1>5, <1>7, <3>1, <3>2 DEF IntentOK, Reading, Dispatching, Goals
  <2>4. StageOK(w)'
    BY <1>5, <1>8 DEF StageOK
  <2> QED
    BY <2>2, <2>3, <2>4 DEF HeldOK
<1>15. b.op \notin receipts
  BY <1>1, <1>2, <1>6 DEF TableOK
<1> QED
  BY <1>2, <1>3, <1>4, <1>6, <1>8, <1>9, <1>10, <1>11, <1>12, <1>13, <1>14, <1>15, NewBatchMoves

\* The operation a writer operation of w would be, and its batch.
NewBatch(before, after) ==
    [op |-> ops + 1, wif |-> before.etag, aif |-> Absent, after |-> [after EXCEPT !.etag = ops + 1]]

LEMMA BeginPreserves ==
    ASSUME IInv, NEW w \in Workers, Working(w), NEW before, NEW after, NEW then,
           Begin(w, before, after, then), UNCHANGED outside,
           Held(w) /\ Resolved(row[Pub(w)].journal) /\ ops < MaxOps =>
              MayBegin(w, before, after, then)
    PROVE  IInv'
<1>1. CASE Held(w) /\ Resolved(row[Pub(w)].journal)
  <2>1. PICK b : b = NewBatch(before, after)
    OBVIOUS
  <2>2. /\ ops < MaxOps /\ ops' = ops + 1 /\ UNCHANGED lease
        /\ row' = [row EXCEPT ![Pub(w)].journal = [batch |-> b, outcome |-> "started"]]
    BY <1>1, <2>1 DEF Begin, NewBatch
  <2>3. run' = [run EXCEPT ![w].pc = "send", ![w].target = "journal", ![w].then = then,
                           ![w].intent = b]
    BY <1>1, <2>1 DEF Begin, NewBatch
  <2>4. run \in [Workers -> Run] /\ run[w] \in Run /\ ops \in Nat /\ ops < MaxOps
    BY <2>2, Facts, RouteAssumption DEF IInv, GlobalOK, TypeOK
  <2> MayBegin(w, before, after, then)
    BY <1>1, <2>2
  <2>5. b \in Batch
    <3>1. ops + 1 \in Operations /\ Absent \in Operations
      BY <2>4, RouteAssumption DEF Operations, Absent
    <3> QED
      BY <1>1, <2>1, <3>1 DEF MayBegin, NewBatch, Batch, WriterRow
  <2>6. PICK r : r = [run[w] EXCEPT !.pc = "send", !.target = "journal", !.then = then,
                                    !.intent = b]
    OBVIOUS
  <2>7. then \in Pcs
    BY <1>1 DEF MayBegin, Goals, Pcs
  <2>8. /\ r \in Run /\ r.pc = "send" /\ r.target = "journal" /\ r.then = then /\ r.intent = b
        /\ r.pub = run[w].pub /\ r.seen = run[w].seen /\ r.etag = run[w].etag
    BY <2>4, <2>5, <2>6, <2>7 DEF Run, Pcs
  <2>9. run' = [run EXCEPT ![w] = r]
    BY <2>3, <2>4, <2>6 DEF Run
  <2>10. RunTo(w, r)
    BY <2>8, <2>9 DEF RunTo
  <2> QED
    BY <1>1, <2>1, <2>2, <2>8, <2>10, BeginMoves DEF NewBatch
<1>2. CASE ~ (Held(w) /\ Resolved(row[Pub(w)].journal))
  <2>1. End(w) /\ UNCHANGED ops
    BY <1>2 DEF Begin
  <2> QED
    BY <2>1, ClockKept, LeaveMoves DEF End, outside
<1> QED
  BY <1>1, <1>2

\* A live lease is that of a writer row.
LEMMA LiveWriter ==
    ASSUME IInv, Live(writer.owner) PROVE writer.etag # Absent
<1>1. writer.etag = Absent => writer = NoWriter
  BY DEF IInv, GlobalOK, TableOK
<1>2. lapsed \in 1..MaxOps
  BY DEF IInv, GlobalOK, TypeOK
<1> QED
  BY <1>1, <1>2, RouteAssumption DEF Live, NoWriter, Absent

LEMMA TakeoverPreserves ==
    ASSUME IInv, NEW w \in Workers, Working(w), NEW then \in Goals \ {"fail"}, Takeover(w, then),
           UNCHANGED outside, writer.etag # Absent,
           Held(w) =>
              /\ then = "recover" => row[Pub(w)].activation.outcome # "none"
              /\ then \in {"prepare", "activate"} =>
                    row[Pub(w)].activation.outcome = "none" /\ Based(w)
              /\ then = "withdraw" => row[Pub(w)].activation.outcome \in {"none", "fenced"}
    PROVE  IInv'
<1>1. PICK after : after = [writer EXCEPT !.owner = ops + 1, !.pub = Pub(w)]
  OBVIOUS
<1>2. Begin(w, writer, after, then)
  BY <1>1 DEF Takeover
<1>3. writer \in WriterRow /\ Pub(w) \in Publications /\ writer.etag \in Past /\ WriterTracksActive
  BY Facts DEF IInv, GlobalOK, TypeOK, TableOK
<1>4. ASSUME ops < MaxOps
      PROVE  /\ after \in WriterRow /\ after.pending = writer.pending
             /\ after.gen = writer.gen /\ after.head = writer.head
             /\ writer.etag \in Operations
  <2>1. ops + 1 \in 0..MaxOps
    BY <1>4, RouteAssumption DEF IInv, GlobalOK, TypeOK
  <2> QED
    BY <1>1, <1>3, <2>1 DEF WriterRow
<1>5. Held(w) /\ ops < MaxOps => MayBegin(w, writer, after, then)
  BY <1>3, <1>4 DEF MayBegin, WriterTracksActive
<1> QED
  BY <1>2, <1>5, BeginPreserves

LEMMA AbortWriterPreserves ==
    ASSUME IInv, NEW w \in Workers, Working(w), NEW current, current \in {writer, run[w].seen},
           AbortWriter(w, current), UNCHANGED outside,
           Held(w) => row[Pub(w)].activation.outcome \in {"none", "fenced"}
    PROVE  IInv'
<1>1. /\ current \in WriterRow /\ Pub(w) \in Publications /\ current.etag \in Past
      /\ current.etag = writer.etag => current = writer
      /\ WriterTracksActive
  BY Facts DEF IInv, GlobalOK, TypeOK, TableOK, RunOK
<1>2. CASE Live(current.owner) /\ Begin(w, current, Withdrawn(current), "fail")
  <2>1. PICK after : after = Withdrawn(current)
    OBVIOUS
  <2>2. /\ after \in WriterRow /\ after.pending = Absent /\ after.gen = current.gen
        /\ after.head = current.head /\ current.etag \in Operations
    BY <1>1, <2>1 DEF Withdrawn, WriterRow, Absent
  <2>3. current.etag = writer.etag => writer.gen = active.gen /\ writer.head = active.head
    BY <1>1, <1>2, LiveWriter DEF WriterTracksActive
  <2>4. Held(w) => MayBegin(w, current, after, "fail")
    BY <1>1, <2>2, <2>3 DEF MayBegin, Goals
  <2> QED
    BY <1>2, <2>1, <2>4, BeginPreserves
<1>3. CASE End(w) /\ UNCHANGED ops
  BY <1>3, ClockKept, LeaveMoves DEF End, outside
<1> QED
  BY <1>2, <1>3 DEF AbortWriter

\* A run that ends and leaves everything as it is.
LEMMA EndPreserves ==
    ASSUME IInv, NEW w \in Workers, End(w), UNCHANGED <<outside, ops>> PROVE IInv'
BY ClockKept, LeaveMoves DEF End, outside

LEMMA FencePreserves == ASSUME IInv, NEW w \in Workers, Fence(w) PROVE IInv'
<1>1. /\ run[w].pc = "fence" /\ Working(w) /\ (Held(w) => HeldOK(w)) /\ Pub(w) \in Publications
      /\ Goal(w) = "fence"
  BY Facts DEF Fence, At, Working, Goal, Reading, Dispatching
<1>2. Held(w) => row[Pub(w)].activation.outcome # "none"
  BY <1>1 DEF HeldOK, GoalOK
<1>3. UNCHANGED outside
  BY DEF Fence
<1> DEFINE journal == row[Pub(w)].journal
<1>4. CASE ~ Resolved(journal) /\ ReadReceipts(w, "journal", "fence") /\ UNCHANGED <<row, lease, ops>>
  <2>1. journal.outcome # "none"
    BY <1>4 DEF Resolved
  <2> QED
    BY <1>1, <1>2, <1>3, <1>4, <2>1, ReadReceiptsMoves DEF Pcs
<1>5. CASE End(w) /\ UNCHANGED ops
  BY <1>3, <1>5, EndPreserves
<1>6. CASE Free /\ Takeover(w, "recover")
  <2>1. writer.etag # Absent /\ "recover" \in Goals \ {"fail"}
    BY <1>6 DEF Free, Goals
  <2> QED
    BY <1>1, <1>2, <1>3, <1>6, <2>1, TakeoverPreserves
<1> QED
  BY <1>4, <1>5, <1>6 DEF Fence

LEMMA WithdrawPreserves == ASSUME IInv, NEW w \in Workers, Withdraw(w) PROVE IInv'
<1>1. /\ run[w].pc = "withdraw" /\ Working(w) /\ (Held(w) => HeldOK(w)) /\ Goal(w) = "withdraw"
  BY Facts DEF Withdraw, At, Working, Goal, Reading, Dispatching
<1>2. Held(w) => row[Pub(w)].activation.outcome \in {"none", "fenced"}
  BY <1>1 DEF HeldOK, GoalOK
<1> QED
  BY <1>1, <1>2, AbortWriterPreserves DEF Withdraw

\* Nothing announces the publication and its journal is resolved: it may fail.
LEMMA FailReached ==
    ASSUME IInv, NEW w \in Workers, Working(w), Goto(w, "fail"), UNCHANGED <<outside, row, lease, ops>>,
           Unannounced(w),
           Held(w) => /\ Resolved(row[Pub(w)].journal)
                      /\ row[Pub(w)].activation.outcome \in {"none", "fenced"}
    PROVE  IInv'
<1>1. Pub(w) \in Publications /\ (Held(w) => HeldOK(w)) /\ writer' = writer
  BY Facts DEF outside, table
<1>2. run'[w].pc = "fail" /\ Pub(w)' = Pub(w)
  BY PcFields DEF Pcs
<1>3. writer.pending # Pub(w)
  BY <1>1, RouteAssumption DEF Unannounced, Absent
<1>4. Held(w) => HeldOK(w)'
  BY <1>1, <1>2, <1>3
  DEF HeldOK, GoalOK, IntentOK, StageOK, Goal, Reading, Dispatching, Resolved
<1> QED
  BY <1>4, ClockKept, PcMoves DEF Pcs, outside

LEMMA AbortPreserves == ASSUME IInv, NEW w \in Workers, Abort(w) PROVE IInv'
<1>1. /\ run[w].pc = "abort" /\ Working(w) /\ (Held(w) => HeldOK(w)) /\ Pub(w) \in Publications
      /\ Goal(w) = "abort"
  BY Facts DEF Abort, At, Working, Goal, Reading, Dispatching
<1>2. Held(w) => row[Pub(w)].activation.outcome = "fenced"
  BY <1>1 DEF HeldOK, GoalOK
<1>3. UNCHANGED outside
  BY DEF Abort
<1> DEFINE journal == row[Pub(w)].journal
<1>4. CASE ~ Resolved(journal) /\ ReadReceipts(w, "journal", "abort") /\ UNCHANGED <<row, lease, ops>>
  <2>1. journal.outcome # "none"
    BY <1>4 DEF Resolved
  <2> QED
    BY <1>1, <1>2, <1>3, <1>4, <2>1, ReadReceiptsMoves DEF Pcs
<1>5. CASE End(w) /\ UNCHANGED ops
  BY <1>3, <1>5, EndPreserves
<1>6. CASE Resolved(journal) /\ Unannounced(w) /\ Goto(w, "fail") /\ UNCHANGED <<row, lease, ops>>
  BY <1>1, <1>2, <1>3, <1>6, FailReached
<1>7. CASE writer.pending = Pub(w) /\ AbortWriter(w, writer)
  BY <1>1, <1>2, <1>3, <1>7, AbortWriterPreserves
<1>8. CASE writer.pending = Pub(w) /\ Takeover(w, "withdraw")
  <2>1. writer # NoWriter
    BY <1>1, <1>8, RouteAssumption DEF NoWriter, Absent
  <2>2. writer.etag # Absent
    BY <2>1 DEF IInv, GlobalOK, TableOK
  <2> QED
    BY <1>1, <1>2, <1>3, <1>8, <2>2, TakeoverPreserves DEF Goals
<1> QED
  BY <1>4, <1>5, <1>6, <1>7, <1>8 DEF Abort

LEMMA OpenPreserves == ASSUME IInv, NEW w \in Workers, Open(w) PROVE IInv'
<1>1. /\ run[w].pc = "begin" /\ Working(w) /\ (Held(w) => HeldOK(w)) /\ Pub(w) \in Publications
      /\ Goal(w) = "begin" /\ run \in [Workers -> Run] /\ run[w] \in Run
  BY Facts DEF Open, At, Working, Goal, Reading, Dispatching
<1>2. Held(w) => row[Pub(w)].activation.outcome = "none" /\ Resolved(row[Pub(w)].journal)
  BY <1>1 DEF HeldOK, GoalOK, StageOK
<1>3. UNCHANGED outside
  BY DEF Open
<1>4. CASE Unannounced(w) /\ Goto(w, "fail") /\ UNCHANGED <<row, lease, ops>>
  BY <1>1, <1>2, <1>3, <1>4, FailReached
<1>5. CASE End(w) /\ UNCHANGED ops
  BY <1>3, <1>5, EndPreserves
<1>6. CASE writer.pending = Pub(w) /\ Takeover(w, "withdraw")
  <2>1. writer # NoWriter
    BY <1>1, <1>6, RouteAssumption DEF NoWriter, Absent
  <2>2. writer.etag # Absent
    BY <2>1 DEF IInv, GlobalOK, TableOK
  <2> QED
    BY <1>1, <1>2, <1>3, <1>6, <2>2, TakeoverPreserves DEF Goals
<1>7. CASE /\ active.head = row[Pub(w)].base /\ UNCHANGED <<row, lease, ops>>
           /\ run' = [run EXCEPT ![w].pc = "claim", ![w].etag = active.etag]
  <2> DEFINE r == [run[w] EXCEPT !.pc = "claim", !.etag = active.etag]
  <2>1. active.etag \in Operations
    BY RouteAssumption DEF IInv, GlobalOK, TypeOK, ActiveRow, Operations, Absent, Initial
  <2>2. /\ r \in Run /\ r.pc = "claim" /\ r.etag = active.etag /\ r.pub = run[w].pub
        /\ r.seen = run[w].seen
    BY <1>1, <2>1 DEF Run, Pcs
  <2>3. run' = [run EXCEPT ![w] = r]
    BY <1>1, <1>7 DEF Run
  <2> HIDE DEF r
  <2>4. run'[w] = r /\ Pub(w)' = Pub(w)
    BY <1>1, <2>2, <2>3 DEF Pub
  <2>5. Held(w) => HeldOK(w)'
    BY <1>1, <1>2, <1>3, <1>7, <2>2, <2>4
    DEF HeldOK, GoalOK, IntentOK, StageOK, Goal, Reading, Dispatching, Based, outside, table
  <2>6. RunTo(w, r)
    BY <2>2, <2>3 DEF RunTo
  <2>7. UNCHANGED <<table, flight>>
    BY <1>3 DEF outside
  <2> QED
    BY <1>1, <1>3, <1>7, <2>2, <2>5, <2>6, <2>7, ClockKept, GotoMoves DEF outside
<1> QED
  BY <1>4, <1>5, <1>6, <1>7 DEF Open

LEMMA AcquirePreserves == ASSUME IInv, NEW w \in Workers, Acquire(w) PROVE IInv'
<1>1. /\ run[w].pc = "claim" /\ Working(w) /\ (Held(w) => HeldOK(w)) /\ Pub(w) \in Publications
      /\ Goal(w) = "claim"
  BY Facts DEF Acquire, At, Working, Goal, Reading, Dispatching
<1>2. Held(w) => row[Pub(w)].activation.outcome = "none" /\ Based(w)
  BY <1>1 DEF HeldOK, GoalOK
<1>3. UNCHANGED outside
  BY DEF Acquire
<1>4. CASE writer.etag = Absent /\ ClaimWriter(w, "prepare")
  <2>1. PICK after : after = [NoWriter EXCEPT !.owner = ops + 1, !.pub = Pub(w),
                                              !.gen = active.gen, !.head = active.head]
    OBVIOUS
  <2>2. Begin(w, NoWriter, after, "prepare")
    BY <1>4, <2>1 DEF ClaimWriter
  <2>3. active \in ActiveRow /\ Absent \in Operations /\ NoWriter.etag = Absent
    BY RouteAssumption DEF IInv, GlobalOK, TypeOK, Operations, Absent, NoWriter
  <2>4. ASSUME ops < MaxOps
        PROVE  /\ after \in WriterRow /\ after.pending = Absent
               /\ after.gen = active.gen /\ after.head = active.head
    <3>1. ops + 1 \in 0..MaxOps
      BY <2>4, RouteAssumption DEF IInv, GlobalOK, TypeOK
    <3>2. active.gen \in Nat /\ active.head \in Heads
      BY <2>3 DEF ActiveRow
    <3>3. after = [etag |-> Absent, owner |-> ops + 1, pub |-> Pub(w), pending |-> Absent,
                   gen |-> active.gen, head |-> active.head]
      BY <2>1 DEF NoWriter
    <3> QED
      BY <1>1, <2>3, <3>1, <3>2, <3>3 DEF WriterRow
  <2>5. Held(w) /\ ops < MaxOps => MayBegin(w, NoWriter, after, "prepare")
    BY <1>2, <2>3, <2>4 DEF MayBegin, Goals, Past
  <2> QED
    BY <1>1, <1>3, <2>2, <2>5, BeginPreserves
<1>5. CASE End(w) /\ UNCHANGED ops
  BY <1>3, <1>5, EndPreserves
<1>6. CASE writer.etag # Absent /\ Takeover(w, "prepare")
  BY <1>1, <1>2, <1>3, <1>6, TakeoverPreserves DEF Goals
<1> QED
  BY <1>4, <1>5, <1>6 DEF Acquire

LEMMA PreparePreserves == ASSUME IInv, NEW w \in Workers, Prepare(w) PROVE IInv'
<1>1. /\ run[w].pc = "prepare" /\ Working(w) /\ (Held(w) => HeldOK(w)) /\ Pub(w) \in Publications
      /\ Goal(w) = "prepare"
  BY Facts DEF Prepare, At, Working, Goal, Reading, Dispatching
<1>2. Held(w) => row[Pub(w)].activation.outcome = "none" /\ Based(w)
  BY <1>1 DEF HeldOK, GoalOK
<1>3. UNCHANGED outside
  BY DEF Prepare
<1>4. CASE Live(run[w].seen.owner) /\ PrepareWriter(w)
  <2>1. PICK before, after : /\ before = run[w].seen
                             /\ after = [run[w].seen EXCEPT !.pending = Pub(w)]
    OBVIOUS
  <2>2. Begin(w, before, after, "activate")
    BY <1>4, <2>1 DEF PrepareWriter
  <2>3. /\ before \in WriterRow /\ before.etag \in Past
        /\ before.etag = writer.etag => before = writer
    BY <2>1, Facts DEF RunOK
  <2>4. /\ after \in WriterRow /\ after.gen = before.gen /\ after.head = before.head
        /\ after.pending = Pub(w) /\ before.etag \in Operations
    BY <1>1, <2>1, <2>3 DEF WriterRow
  <2>5. before.etag = writer.etag => writer.gen = active.gen /\ writer.head = active.head
    BY <1>4, <2>1, <2>3, LiveWriter DEF IInv, GlobalOK, TableOK, WriterTracksActive
  <2>6. Held(w) => MayBegin(w, before, after, "activate")
    BY <1>2, <2>3, <2>4, <2>5 DEF MayBegin, Goals
  <2> QED
    BY <1>1, <1>3, <2>2, <2>6, BeginPreserves
<1>5. CASE End(w) /\ UNCHANGED ops
  BY <1>3, <1>5, EndPreserves
<1>6. CASE Goto(w, "activate") /\ UNCHANGED <<row, lease, ops>>
  <2>1. run'[w].pc = "activate" /\ Pub(w)' = Pub(w) /\ run'[w].etag = run[w].etag
    BY <1>6, PcFields DEF Pcs
  <2>2. Based(w) => Based(w)'
    BY <1>3, <1>6, <2>1 DEF Based, outside, table
  <2>3. Held(w) => HeldOK(w)'
    BY <1>1, <1>2, <1>6, <2>1, <2>2
    DEF HeldOK, GoalOK, IntentOK, StageOK, Goal, Reading, Dispatching
  <2> QED
    BY <1>1, <1>3, <1>6, <2>3, ClockKept, PcMoves DEF Pcs, outside
<1>7. CASE ~ Live(run[w].seen.owner) /\ PrepareWriter(w)
  BY <1>3, <1>7, EndPreserves DEF PrepareWriter
<1> QED
  BY <1>4, <1>5, <1>6, <1>7 DEF Prepare

\* The activation is journalled by the only run that ever does, on the head
\* the publication is based on.
LEMMA ActivatePreserves == ASSUME IInv, NEW w \in Workers, Activate(w) PROVE IInv'
<1> USE RouteAssumption
<1>1. /\ run[w].pc = "activate" /\ Working(w) /\ (Held(w) => HeldOK(w)) /\ Goal(w) = "activate"
      /\ run \in [Workers -> Run] /\ run[w] \in Run
  BY Facts DEF Activate, At, Working, Goal, Reading, Dispatching
<1>2. UNCHANGED <<outside, ops>>
  BY DEF Activate
<1>3. CASE ~ (Ready(w) /\ Held(w) /\ Unbegun(w))
  BY <1>2, <1>3, EndPreserves DEF Activate
<1>4. CASE Ready(w) /\ Held(w) /\ Unbegun(w)
  <2>1. PICK p \in Publications : p = Pub(w)
    BY Facts
  <2>2. PICK b : b = [op |-> p, wif |-> writer.etag, aif |-> active.etag, after |-> Advanced(p)]
    OBVIOUS
  <2>3. PICK e : e = [batch |-> b, outcome |-> "started"]
    OBVIOUS
  <2>4. row' = [row EXCEPT ![p].activation = e] /\ UNCHANGED lease
    BY <1>4, <2>1, <2>2, <2>3 DEF Activate
  <2>5. run' = [run EXCEPT ![w].pc = "send", ![w].target = "activation", ![w].intent = b]
    BY <1>4, <2>1, <2>2 DEF Activate
  <2>6. /\ writer \in WriterRow /\ active.etag \in Operations /\ active.gen \in Nat
        /\ writer.etag \in Past /\ active.etag \in Past /\ receipts \subseteq 2..ops \union Publications
        /\ ops \in Nat /\ ops \in 1..MaxOps
    BY DEF IInv, GlobalOK, TypeOK, TableOK, ActiveRow, Operations, Absent, Initial
  <2>7. /\ writer.gen = active.gen /\ p \notin receipts
        /\ row[p].activation.outcome = "none" /\ active.head = row[p].base
        /\ row[p].status = "promoting"
    BY <1>1, <1>4, <2>1 DEF Ready, Unbegun, HeldOK, GoalOK, Based, StageOK
  <2>8. /\ Advanced(p) \in WriterRow /\ Advanced(p).etag = p /\ Advanced(p).pending = Absent
        /\ Advanced(p).gen = active.gen + 1 /\ Advanced(p).head = p
    <3>1. writer.gen + 1 \in Nat
      BY <2>6, <2>7
    <3> QED
      BY <2>6, <2>7, <3>1 DEF Advanced, WriterRow, Operations, Heads
  <2>9. /\ b \in Batch /\ b.op = p /\ b.wif = writer.etag /\ b.aif = active.etag
        /\ b.after.etag = p /\ b.after.pending = Absent
        /\ b.after.gen = active.gen + 1 /\ b.after.head = p
    <3>1. p \in Operations /\ writer.etag \in Operations
      BY <2>6 DEF Operations, WriterRow
    <3> QED
      BY <2>2, <2>6, <2>8, <3>1 DEF Batch
  <2>10. e \in Entry /\ e.batch = b /\ e.outcome = "started"
    BY <2>3, <2>9 DEF Entry, Outcomes
  <2>11. row \in [Publications -> Row] /\ row[p] \in Row /\ RowOK(p)
    BY RowFacts, Facts
  <2>12. /\ row' \in [Publications -> Row]
         /\ \A q \in Publications \ {p} : row'[q] = row[q]
         /\ row'[p].activation = e /\ row'[p].journal = row[p].journal
         /\ row'[p].status = row[p].status /\ row'[p].base = row[p].base
    <3>1. row' = [row EXCEPT ![p] = [row[p] EXCEPT !.activation = e]]
      BY <2>4, <2>11
    <3>2. [row[p] EXCEPT !.activation = e] \in Row
      BY <2>10, <2>11 DEF Row
    <3>3. /\ row' \in [Publications -> Row]
          /\ \A q \in Publications \ {p} : row'[q] = row[q]
          /\ row'[p] = [row[p] EXCEPT !.activation = e]
      BY <2>11, <3>1, <3>2
    <3>4. [row[p] EXCEPT !.activation = e].activation = e
      BY <2>11 DEF Row
    <3>5. /\ [row[p] EXCEPT !.activation = e].journal = row[p].journal
          /\ [row[p] EXCEPT !.activation = e].status = row[p].status
          /\ [row[p] EXCEPT !.activation = e].base = row[p].base
      BY <2>11 DEF Row
    <3> QED
      BY <3>3, <3>4, <3>5
  <2>13. PICK r : r = [run[w] EXCEPT !.pc = "send", !.target = "activation", !.intent = b]
    OBVIOUS
  <2>14. /\ r \in Run /\ r.pc = "send" /\ r.target = "activation" /\ r.intent = b
         /\ r.pub = run[w].pub /\ r.seen = run[w].seen /\ r.etag = run[w].etag
    BY <1>1, <2>9, <2>13 DEF Run, Pcs
  <2>15. run' = [run EXCEPT ![w] = r]
    BY <1>1, <2>5, <2>13 DEF Run
  <2>16. RunTo(w, r)
    BY <2>14, <2>15 DEF RunTo
  <2>17. run'[w] = r /\ Pub(w)' = p
    BY <1>1, <2>1, <2>14, <2>15 DEF Pub
  <2>18. UNCHANGED <<table, flight, lease, time, faults>>
    BY <1>2, <2>4 DEF outside
  <2>19. ActivationFrame /\ \A c : Journalled(c)' => Journalled(c) \/ c = b
    BY <2>7, <2>10, <2>12 DEF ActivationFrame, Journalled
  <2>20. \A c \in Batch : Known(c) => c.op # b.op
    BY <2>7, <2>9 DEF IInv, GlobalOK, BatchesOK, BatchOK, Activates
  <2>21. BatchOK(b)'
    <3>1. b.wif \in Past' /\ b.aif \in Past' /\ active' = active
      BY <2>6, <2>9, <2>18 DEF Past, table
    <3>2. row'[b.op].activation.outcome # "none" /\ row'[b.op].activation.batch = b
          /\ row'[b.op].base = active.head
      BY <2>7, <2>9, <2>10, <2>12
    <3> QED
      BY <2>9, <3>1, <3>2 DEF BatchOK, Activates
  <2>22. RowOK(p)'
    <3>1. row[p].journal.outcome # "none" => row[p].journal.batch # b
      BY <2>9, <2>11 DEF RowOK
    <3>2. \A c : Possible(c)' => Possible(c) \/ c = b
      BY <1>1, <2>14, <2>15, <2>18 DEF Possible
    <3>3. EntryOK(row[p].journal)'
      BY <2>11, <2>12, <2>18, <3>1, <3>2, ApplicableFrame DEF RowOK, EntryOK, table
    <3>4. EntryOK(row[p].activation)'
      BY <2>10, <2>12 DEF EntryOK
    <3> QED
      BY <2>7, <2>9, <2>10, <2>11, <2>12, <2>18, <3>3, <3>4 DEF RowOK, Resolved, table
  <2>23. HeldOK(w)'
    <3>1. row'[p]["activation"] = e
      BY <2>12
    <3>2. GoalOK(w)'
      BY <2>14, <2>17 DEF GoalOK, Goal, Reading, Dispatching
    <3>3. IntentOK(w)'
      BY <2>10, <2>14, <2>17, <3>1 DEF IntentOK, Reading, Dispatching
    <3>4. StageOK(w)'
      BY <2>7, <2>12, <2>14, <2>17 DEF StageOK
    <3> QED
      BY <3>2, <3>3, <3>4 DEF HeldOK
  <2>24. ops' \in 1..MaxOps /\ ops <= ops' /\ b.op \notin receipts
    BY <1>2, <2>6, <2>7, <2>9
  <2> QED
    BY <1>4, <2>1, <2>9, <2>12, <2>14, <2>16, <2>18, <2>19, <2>20, <2>21, <2>22, <2>23, <2>24,
       NewBatchMoves
<1> QED
  BY <1>3, <1>4

--------------------------------------------------------------------------
(* The dispatch. *)

\* What stays true when no row is written and no batch becomes possible.
LEMMA QuietFrame ==
    ASSUME IInv, UNCHANGED <<table, row, ops>>, NoneNew
    PROVE  TableOK' /\ BatchesOK' /\ ThreatOK' /\ RowsOK'
<1>1. TableOK /\ BatchesOK /\ ThreatOK /\ RowsOK /\ ops \in Nat
  BY RouteAssumption DEF IInv, GlobalOK, TypeOK
<1>2. TableOK'
  BY <1>1, TableFrame
<1>3. BatchesOK'
  BY BatchesFrame DEF RowFrame
<1>4. ThreatOK'
  BY <1>1, ApplicableFrame DEF ThreatOK, NoneNew, Resolved, table
<1>5. ASSUME NEW p \in Publications PROVE RowOK(p)'
  <2>1. RowOK(p)
    BY RowFacts
  <2>2. EntryOK(row[p].activation)' /\ EntryOK(row[p].journal)'
    BY <2>1, ApplicableFrame DEF RowOK, EntryOK, NoneNew, table
  <2> QED
    BY <2>1, <2>2 DEF RowOK, Resolved, table
<1> QED
  BY <1>1, <1>2, <1>3, <1>4, <1>5 DEF RowsOK

LEMMA SendPreserves == ASSUME IInv, NEW w \in Workers, Send(w) PROVE IInv'
<1>1. /\ run[w].pc = "send" /\ Working(w) /\ run[w].pc \in Dispatching
      /\ run \in [Workers -> Run] /\ run[w] \in Run /\ run[w].intent \in Batch /\ RunOK(w)
      /\ (Held(w) => HeldOK(w))
  BY Facts DEF Send, At, Working, Dispatching
<1>2. UNCHANGED <<table, ops, time, faults>>
  BY DEF Send
<1>3. CASE Stop(w, "expired") /\ UNCHANGED flight
  <2>1. Justified(w, "expired")
    BY <1>1 DEF Justified, RunOK, Outcomes
  <2> QED
    BY <1>1, <1>2, <1>3, <2>1, ClockKept, StopMoves DEF Stop
<1>4. CASE flight' = flight \union {Intent(w)} /\ Goto(w, "wait") /\ UNCHANGED <<row, lease>>
  <2>1. PICK b \in Batch : b = run[w].intent
    BY <1>1
  <2>2. flight' = flight \union {b}
    BY <1>4, <2>1 DEF Intent
  <2> DEFINE r == [run[w] EXCEPT !.pc = "wait"]
  <2>3. r \in Run /\ r.pc = "wait" /\ r.seen = run[w].seen /\ r.etag = run[w].etag
    BY <1>1 DEF Run, Pcs
  <2>4. run' = [run EXCEPT ![w] = r]
    BY <1>1, <1>4 DEF Goto
  <2> HIDE DEF r
  <2>5. run'[w] = r /\ (\A v \in Workers \ {w} : run'[v] = run[v]) /\ run' \in [Workers -> Run]
    <3>1. r \in Run
      BY <2>3
    <3> QED
      BY <1>1, <2>4, <3>1
  <2>6. NoneNew
    BY <1>1, <2>1, <2>2, <2>3, <2>5 DEF NoneNew, Possible
  <2>7. TypeOK'
    BY <1>2, <1>4, <2>2, <2>5 DEF IInv, GlobalOK, TypeOK, table, time
  <2>8. TableOK' /\ BatchesOK' /\ ThreatOK' /\ RowsOK'
    BY <1>2, <1>4, <2>6, QuietFrame
  <2>9. RunTo(w, r) /\ LeaseStep(w)
    BY <1>4, <2>3, <2>4, Facts DEF RunTo, LeaseStep
  <2>10. RunsOK'
    <3>1. RunsOK
      BY DEF IInv, GlobalOK
    <3>2. ASSUME NEW v \in Workers, v # w PROVE RunOK(v)'
      <4>1. run[v].pc = "send" => run[v].intent # b
        BY <1>1, <2>1, <3>1, <3>2 DEF RunsOK
      <4> QED
        BY <1>2, <2>2, <2>5, <3>1, <3>2, <4>1 DEF RunsOK, RunOK, Past, table
    <3>3. RunOK(w)'
      BY <1>2, <2>3, <2>5, <2>9, SeenOK DEF RunOK
    <3> QED
      BY <2>3, <2>5, <3>1, <3>2, <3>3 DEF RunsOK
  <2>11. HeldsOK'
    <3>1. /\ run'[w].pc = "wait" /\ run'[w].target = run[w].target /\ run'[w].then = run[w].then
          /\ run'[w].intent = run[w].intent /\ run'[w].etag = run[w].etag
          /\ Pub(w)' = Pub(w)
      BY <1>4, PcFields DEF Pcs
    <3>2. Held(w)' => HeldOK(w)'
      <4> HAVE Held(w)'
      <4>1. HeldOK(w)
        BY <1>1, <1>4, <3>1 DEF Held
      <4>2. Goal(w)' = Goal(w) /\ Based(w)' = Based(w)
        BY <1>1, <1>2, <1>4, <3>1 DEF Goal, Based, Reading, Dispatching, table
      <4>3. GoalOK(w)'
        BY <1>4, <3>1, <4>1, <4>2 DEF HeldOK, GoalOK
      <4>4. IntentOK(w)'
        BY <1>1, <1>4, <3>1, <4>1 DEF HeldOK, IntentOK, Reading, Dispatching
      <4>5. StageOK(w)'
        BY <1>1, <1>4, <3>1, <4>1 DEF HeldOK, StageOK
      <4> QED
        BY <4>3, <4>4, <4>5 DEF HeldOK
    <3> QED
      BY <1>2, <1>4, <2>9, <3>2, OtherHelds DEF HeldsOK
  <2> QED
    BY <2>7, <2>8, <2>10, <2>11 DEF IInv, GlobalOK
<1> QED
  BY <1>3, <1>4 DEF Send

--------------------------------------------------------------------------
(* A batch arrives. *)

\* What the runs are after an arrival: one that waits may have its answer.
LEMMA AnswerFields ==
    ASSUME IInv, NEW b \in Batch, NEW pc \in {"applied", "refused"},
           run' = [w \in Workers |-> IF Awaits(w, b) THEN [run[w] EXCEPT !.pc = pc] ELSE run[w]]
    PROVE  /\ run' \in [Workers -> Run]
           /\ \A w \in Workers :
                 /\ run'[w].pub = run[w].pub /\ run'[w].target = run[w].target
                 /\ run'[w].then = run[w].then /\ run'[w].intent = run[w].intent
                 /\ run'[w].seen = run[w].seen /\ run'[w].etag = run[w].etag
                 /\ Pub(w)' = Pub(w) /\ Goal(w)' = Goal(w) /\ Working(w)' = Working(w)
                 /\ \/ run'[w].pc = run[w].pc
                    \/ run[w].pc = "wait" /\ run'[w].pc = pc /\ run[w].intent = b
<1>1. \A w \in Workers : run[w] \in Run
  BY Facts
<1>2. ASSUME NEW w \in Workers
      PROVE  /\ run'[w] \in Run
             /\ run'[w].pub = run[w].pub /\ run'[w].target = run[w].target
             /\ run'[w].then = run[w].then /\ run'[w].intent = run[w].intent
             /\ run'[w].seen = run[w].seen /\ run'[w].etag = run[w].etag
             /\ \/ run'[w].pc = run[w].pc
                \/ run[w].pc = "wait" /\ run'[w].pc = pc /\ run[w].intent = b
  <2>1. CASE Awaits(w, b)
    <3>1. run'[w] = [run[w] EXCEPT !.pc = pc]
      BY <2>1
    <3> QED
      BY <1>1, <2>1, <3>1 DEF Awaits, Run, Pcs
  <2>2. CASE ~ Awaits(w, b)
    <3>1. run'[w] = run[w]
      BY <2>2
    <3> QED
      BY <1>1, <3>1
  <2> QED
    BY <2>1, <2>2
<1>3. ASSUME NEW w \in Workers
      PROVE  Pub(w)' = Pub(w) /\ Goal(w)' = Goal(w) /\ Working(w)' = Working(w)
  BY <1>2 DEF Pub, Goal, Working, Reading, Dispatching
<1>4. run' \in [Workers -> Run]
  <2>1. \A w \in Workers : run'[w] \in Run
    BY <1>2
  <2> QED
    BY <2>1
<1> QED
  BY <1>2, <1>3, <1>4

LEMMA ArriveRefusedPreserves ==
    ASSUME IInv, NEW b \in flight, Arrive(b), ~ Applicable(b) PROVE IInv'
<1>1. /\ flight' = flight \ {b} /\ UNCHANGED <<table, row, lease, ops, time, faults>>
      /\ run' = [w \in Workers |->
                    IF Awaits(w, b) THEN [run[w] EXCEPT !.pc = "refused"] ELSE run[w]]
  BY DEF Arrive
<1>2. b \in Batch
  BY DEF IInv, GlobalOK, TypeOK
<1>3. /\ run' \in [Workers -> Run]
      /\ \A w \in Workers :
            /\ run'[w].pub = run[w].pub /\ run'[w].target = run[w].target
            /\ run'[w].then = run[w].then /\ run'[w].intent = run[w].intent
            /\ run'[w].seen = run[w].seen /\ run'[w].etag = run[w].etag
            /\ Pub(w)' = Pub(w) /\ Goal(w)' = Goal(w) /\ Working(w)' = Working(w)
            /\ \/ run'[w].pc = run[w].pc
               \/ run[w].pc = "wait" /\ run'[w].pc = "refused" /\ run[w].intent = b
  BY <1>1, <1>2, AnswerFields
<1>4. NoneSent
  BY <1>1, <1>3 DEF NoneSent
<1>5. TypeOK'
  BY <1>1, <1>3 DEF IInv, GlobalOK, TypeOK, table, time
<1>6. TableOK' /\ BatchesOK' /\ ThreatOK' /\ RowsOK'
  BY <1>1, <1>4, PossibleFrame, QuietFrame DEF NoneNew
<1>7. RunsOK'
  <2>1. RunsOK
    BY DEF IInv, GlobalOK
  <2>2. ASSUME NEW v \in Workers PROVE RunOK(v)'
    BY <1>1, <1>3, <2>1 DEF RunsOK, RunOK, Past, table
  <2>3. \A v \in Workers : run'[v].pc = "send" => run[v].pc = "send"
    BY <1>3
  <2> QED
    BY <1>3, <2>1, <2>2, <2>3 DEF RunsOK
<1>8. ASSUME NEW v \in Workers, Held(v)', Working(v)' PROVE HeldOK(v)'
  <2>1. HeldOK(v)
    BY <1>1, <1>3, <1>8, Facts DEF Held
  <2>2. Based(v)' = Based(v)
    BY <1>1, <1>3 DEF Based, table
  <2>3. GoalOK(v)'
    BY <1>1, <1>3, <2>1, <2>2 DEF HeldOK, GoalOK
  <2>4. \A c : Applicable(c)' <=> Applicable(c)
    BY <1>1, ApplicableFrame
  <2>5. run[v].pc = "again" => ~ Applicable(run[v].intent)'
    <3> HAVE run[v].pc = "again"
    <3>1. PICK c : c = run[v].intent
      OBVIOUS
    <3>2. ~ Applicable(c)' /\ run'[v].intent = c
      BY <1>3, <2>1, <2>4, <3>1 DEF HeldOK, IntentOK
    <3> QED
      BY <3>2 DEF Applicable, Activates
  <2>6. IntentOK(v)'
    BY <1>1, <1>3, <2>1, <2>5 DEF HeldOK, IntentOK, Reading, Dispatching
  <2>7. StageOK(v)'
    BY <1>1, <1>3, <2>1 DEF HeldOK, StageOK, Resolved, table
  <2> QED
    BY <2>3, <2>6, <2>7 DEF HeldOK
<1> QED
  BY <1>5, <1>6, <1>7, <1>8 DEF IInv, GlobalOK, HeldsOK

\* The activation of a publication can apply only while it is in progress.
LEMMA Ongoing ==
    ASSUME IInv, NEW b \in Batch, Known(b), Applicable(b), Activates(b)
    PROVE  row[b.op].status = "promoting"
<1>1. BatchOK(b) /\ b.op \in Publications /\ b.op \notin receipts
  BY DEF IInv, GlobalOK, BatchesOK, Activates, Applicable
<1>2. row[b.op].activation.batch = b /\ row[b.op].activation.outcome # "none"
  BY <1>1 DEF BatchOK
<1>3. RowOK(b.op) /\ row[b.op].status \in {"none", "promoting", "active", "failed"}
  BY <1>1, RowFacts
<1> QED
  BY <1>1, <1>2, <1>3 DEF RowOK, EntryOK

\* The partition after a batch is applied.
AppliedTable(b) ==
    /\ writer' = b.after
    /\ active' = IF Activates(b) THEN [etag |-> b.op, head |-> b.op, gen |-> b.after.gen]
                 ELSE active
    /\ receipts' = receipts \union {b.op}

\* An applied batch refuses every other that is known: its etag is new.
LEMMA ArriveApplied ==
    ASSUME IInv, NEW b \in Batch, Known(b), Applicable(b), AppliedTable(b)
    PROVE  /\ b.op \notin Past /\ writer'.etag = b.op /\ Past' = Past \union {b.op}
           /\ \A c \in Batch : Known(c) => ~ Applicable(c)'
<1>1. BatchOK(b) /\ \A c \in Batch : Known(c) => c.wif \in Past
  BY DEF IInv, GlobalOK, BatchesOK, BatchOK
<1>2. b.op \in 2..ops \union Publications /\ b.op \notin receipts /\ writer'.etag = b.op
  BY <1>1 DEF BatchOK, AppliedTable, Applicable
<1>3. b.op \notin Past
  BY <1>2, RouteAssumption DEF Past, Absent, Initial
<1>4. Past' = Past \union {b.op}
  BY DEF Past, AppliedTable
<1>5. ASSUME NEW c \in Batch, Known(c) PROVE ~ Applicable(c)'
  BY <1>1, <1>2, <1>3, <1>5 DEF Applicable
<1> QED
  BY <1>2, <1>3, <1>4, <1>5

LEMMA ArriveAppliedPreserves ==
    ASSUME IInv, NEW b \in flight, Arrive(b), Applicable(b) PROVE IInv'
<1> USE RouteAssumption
<1>1. /\ flight' = flight \ {b} /\ UNCHANGED <<row, lease, ops, time, faults>> /\ AppliedTable(b)
      /\ run' = [w \in Workers |->
                    IF Awaits(w, b) THEN [run[w] EXCEPT !.pc = "applied"] ELSE run[w]]
  BY DEF Arrive, AppliedTable
<1>2. b \in Batch /\ Possible(b) /\ Known(b)
  BY DEF IInv, GlobalOK, TypeOK, Possible, Known
<1>3. /\ run' \in [Workers -> Run]
      /\ \A w \in Workers :
            /\ run'[w].pub = run[w].pub /\ run'[w].target = run[w].target
            /\ run'[w].then = run[w].then /\ run'[w].intent = run[w].intent
            /\ run'[w].seen = run[w].seen /\ run'[w].etag = run[w].etag
            /\ Pub(w)' = Pub(w) /\ Goal(w)' = Goal(w) /\ Working(w)' = Working(w)
            /\ \/ run'[w].pc = run[w].pc
               \/ run[w].pc = "wait" /\ run'[w].pc = "applied" /\ run[w].intent = b
  BY <1>1, <1>2, AnswerFields
<1>4. TypeOK /\ TableOK /\ BatchesOK /\ ThreatOK /\ RowsOK /\ RunsOK
  BY DEF IInv, GlobalOK
<1>5. /\ b.op \notin Past /\ writer'.etag = b.op /\ Past' = Past \union {b.op}
      /\ \A c \in Batch : Known(c) => ~ Applicable(c)'
  BY <1>1, <1>2, ArriveApplied
<1>6. /\ b.op \in 2..ops \union Publications /\ b.op \notin receipts
      /\ b.after \in WriterRow /\ BatchOK(b)
  BY <1>2, <1>4 DEF BatchesOK, BatchOK, Batch, Applicable
<1>7. IF Activates(b)
      THEN /\ b.after.gen = active.gen + 1 /\ b.after.head = b.op
           /\ row[b.op].base = active.head /\ b.after.pending = Absent
           /\ row[b.op].status = "promoting" /\ row[b.op].activation.outcome # "none"
           /\ b.op \in Publications
           /\ active' = [etag |-> b.op, head |-> b.op, gen |-> b.after.gen]
      ELSE b.after.gen = active.gen /\ b.after.head = active.head /\ active' = active
  BY <1>1, <1>2, <1>6, Ongoing DEF BatchOK, AppliedTable, Activates
<1>8. writer' = b.after /\ receipts' = receipts \union {b.op} /\ row' = row
  BY <1>1 DEF AppliedTable
<1>9. NoneSent /\ NoneNew
  <2>1. NoneSent
    BY <1>1, <1>3 DEF NoneSent
  <2> QED
    BY <2>1, PossibleFrame DEF NoneNew
<1>10. \A c : Known(c)' => Known(c)
  BY <1>1, <1>9 DEF NoneNew, Known, Journalled
<1>11. \A c \in Batch : Known(c) /\ c.op = b.op => c = b
  BY <1>2, <1>4 DEF BatchesOK
<1>12. TypeOK'
  <2>1. active' \in ActiveRow
    <3>1. CASE Activates(b)
      BY <1>6, <1>7, <3>1 DEF ActiveRow, WriterRow, Heads
    <3>2. CASE ~ Activates(b)
      BY <1>4, <1>7, <3>2 DEF TypeOK
    <3> QED
      BY <3>1, <3>2
  <2>2. receipts' \subseteq Operations
    BY <1>2, <1>4, <1>8 DEF TypeOK, Batch
  <2>3. flight' \subseteq Batch /\ writer' \in WriterRow
    BY <1>1, <1>4, <1>6, <1>8 DEF TypeOK
  <2> QED
    BY <1>1, <1>3, <1>4, <2>1, <2>2, <2>3 DEF TypeOK, time
<1>13. TableOK'
  <2>1. receipts' \subseteq 2..ops' \union Publications
    BY <1>1, <1>4, <1>6, <1>8 DEF TableOK
  <2>2. writer'.etag \in Past' /\ active'.etag \in Past'
    BY <1>4, <1>5, <1>7 DEF TableOK
  <2>3. writer'.etag # Absent
    BY <1>5 DEF Past
  <2>4. active'.head \in Publications => active'.head \in receipts'
    BY <1>4, <1>7, <1>8 DEF TableOK
  <2>5. writer'.gen = active'.gen /\ writer'.head = active'.head
    BY <1>7, <1>8
  <2> QED
    BY <2>1, <2>2, <2>3, <2>4, <2>5 DEF TableOK, WriterTracksActive
<1>14. BatchesOK'
  <2>1. ASSUME NEW c \in Batch, Known(c)' PROVE BatchOK(c)'
    <3>1. BatchOK(c) /\ ~ Applicable(c)'
      BY <1>4, <1>5, <1>10, <2>1 DEF BatchesOK
    <3> QED
      BY <1>1, <1>5, <3>1 DEF BatchOK, Activates
  <2>2. ASSUME NEW c \in Batch, NEW d \in Batch, Known(c)', Known(d)', c.op = d.op PROVE c = d
    BY <1>4, <1>10, <2>2 DEF BatchesOK
  <2> QED
    BY <2>1, <2>2 DEF BatchesOK
<1>15. ThreatOK'
  BY <1>5, <1>10 DEF ThreatOK, Known
<1>16. ASSUME NEW e, e.batch \in Batch, EntryOK(e), e.outcome # "none" => Known(e.batch)
       PROVE  EntryOK(e)'
  <2>1. PICK c \in Batch : c = e.batch
    BY <1>16
  <2>2. CASE e.outcome = "confirmed"
    BY <1>8, <1>16, <2>2 DEF EntryOK
  <2>3. CASE e.outcome = "fenced"
    <3>1. ~ Applicable(c) /\ c.op \notin receipts /\ Known(c)
      BY <1>16, <2>1, <2>3 DEF EntryOK
    <3>2. c.op # b.op
      BY <1>11, <3>1
    <3>3. c.op \notin receipts' /\ ~ Applicable(c)'
      BY <1>5, <1>8, <3>1, <3>2
    <3> QED
      BY <2>1, <2>3, <3>3 DEF EntryOK
  <2>4. CASE e.outcome = "expired"
    <3>1. ~ Possible(c) /\ c.op \notin receipts /\ Known(c)
      BY <1>16, <2>1, <2>4 DEF EntryOK
    <3>2. c.op # b.op
      BY <1>2, <1>11, <3>1
    <3>3. c.op \notin receipts' /\ ~ Possible(c)'
      BY <1>8, <1>9, <3>1, <3>2 DEF NoneNew
    <3> QED
      BY <2>1, <2>4, <3>3 DEF EntryOK
  <2> QED
    BY <2>2, <2>3, <2>4 DEF EntryOK
<1>17. RowsOK'
  <2>1. ASSUME NEW p \in Publications PROVE RowOK(p)'
    <3>1. /\ RowOK(p) /\ row[p].activation.batch \in Batch /\ row[p].journal.batch \in Batch
          /\ row[p].activation.outcome # "none" => Known(row[p].activation.batch)
          /\ row[p].journal.outcome # "none" => Known(row[p].journal.batch)
      BY RowFacts DEF Known, Journalled
    <3>2. PICK e, f : e = row[p].activation /\ f = row[p].journal
      OBVIOUS
    <3>3. EntryOK(e)' /\ EntryOK(f)'
      BY <1>16, <3>1, <3>2 DEF RowOK
    <3>4. EntryOK(row[p].activation)' /\ EntryOK(row[p].journal)'
      BY <1>8, <3>2, <3>3 DEF EntryOK, Applicable, Activates, Possible
    <3>5. row[p].status = "failed" => b.after.pending # p
      BY <1>2, <1>4, <3>1 DEF ThreatOK, RowOK
    <3>6. row[p].status = "active" =>
             /\ p \in receipts'
             /\ active'.head # p => \E q \in Publications \cap receipts' : row[q].base = p
      BY <1>7, <1>8, <3>1 DEF RowOK
    <3>7. p \in receipts' => row[p].activation.outcome # "none"
      BY <1>7, <1>8, <3>1 DEF RowOK, Activates
    <3> QED
      BY <1>8, <3>1, <3>4, <3>5, <3>6, <3>7 DEF RowOK, Resolved
  <2> QED
    BY <1>4, <1>8, <2>1 DEF RowsOK
<1>18. RunsOK'
  <2>1. ASSUME NEW v \in Workers PROVE RunOK(v)'
    <3>1. RunOK(v) /\ run[v].intent \in Batch
      BY Facts
    <3>2. run'[v].seen.etag \in Past' /\ run'[v].etag \in Past' /\ run'[v].seen.etag # writer'.etag
      BY <1>3, <1>5, <3>1 DEF RunOK
    <3>3. run'[v].pc = "applied" => run'[v].intent.op \in receipts'
      BY <1>3, <1>8, <3>1 DEF RunOK
    <3>4. run'[v].pc = "send" => run'[v].intent \notin flight' /\ run'[v].intent.op \notin receipts'
      <4> HAVE run'[v].pc = "send"
      <4>1. run[v].pc = "send" /\ run'[v].intent = run[v].intent
        BY <1>3
      <4>2. Known(run[v].intent) /\ run[v].intent \notin flight /\ run[v].intent.op \notin receipts
        BY <3>1, <4>1 DEF Known, Possible, RunOK
      <4>3. run[v].intent.op # b.op
        BY <1>11, <3>1, <4>2
      <4> QED
        BY <1>1, <1>8, <4>1, <4>2, <4>3
    <3> QED
      BY <3>2, <3>3, <3>4 DEF RunOK
  <2>2. \A v \in Workers : run'[v].pc = "send" => run[v].pc = "send"
    BY <1>3
  <2> QED
    BY <1>3, <1>4, <2>1, <2>2 DEF RunsOK
<1>19. ASSUME NEW v \in Workers, Held(v)', Working(v)' PROVE HeldOK(v)'
  <2>1. HeldOK(v) /\ Pub(v) \in Publications /\ RunOK(v)
    BY <1>1, <1>3, <1>19, Facts DEF Held
  <2>2. Based(v) => Based(v)'
    BY <1>3, <1>5, <1>7, <1>8, <2>1 DEF Based, RunOK
  <2>3. GoalOK(v)'
    BY <1>3, <1>8, <2>1, <2>2 DEF HeldOK, GoalOK
  <2>4. run[v].pc = "again" => ~ Applicable(run[v].intent)'
    <3> HAVE run[v].pc = "again"
    <3>1. PICK c \in Batch : c = run[v].intent
      BY Facts
    <3>2. /\ run[v].intent = row[Pub(v)][run[v].target].batch
          /\ row[Pub(v)][run[v].target].outcome # "none"
          /\ run[v].target \in {"activation", "journal"}
      BY <2>1, Facts DEF HeldOK, IntentOK, Reading, Run
    <3>3. Known(c)
      BY <2>1, <3>1, <3>2 DEF Known, Journalled
    <3>4. ~ Applicable(c)' /\ run'[v].intent = c
      BY <1>3, <1>5, <3>1, <3>3
    <3> QED
      BY <3>4 DEF Applicable, Activates
  <2>5. IntentOK(v)'
    BY <1>3, <1>8, <2>1, <2>4 DEF HeldOK, IntentOK, Reading, Dispatching
  <2>6. run[v].pc = "fail" => b.after.pending # Pub(v)
    BY <1>2, <1>4, <2>1 DEF HeldOK, StageOK, ThreatOK
  <2>7. run[v].pc = "commit" => active'.head = Pub(v)
    <3> HAVE run[v].pc = "commit"
    <3>1. row[Pub(v)].status = "promoting" /\ Pub(v) \in receipts /\ active.head = Pub(v)
      BY <2>1 DEF HeldOK, StageOK
    <3>2. ~ Activates(b)
      BY <1>4, <1>6, <1>7, <2>1, <3>1 DEF RowsOK
    <3> QED
      BY <1>7, <3>1, <3>2
  <2>8. StageOK(v)'
    BY <1>3, <1>8, <2>1, <2>6, <2>7 DEF HeldOK, StageOK, Resolved
  <2> QED
    BY <2>3, <2>5, <2>8 DEF HeldOK
<1> QED
  BY <1>12, <1>13, <1>14, <1>15, <1>17, <1>18, <1>19 DEF IInv, GlobalOK, HeldsOK

--------------------------------------------------------------------------
(* Time, the queue and the wire. *)

\* A step that leaves the rows and the runs alone.
LEMMA OutsideMoves ==
    ASSUME IInv, UNCHANGED <<table, row, run, ops>>, flight' \subseteq flight, ClockStep,
           lease' \in [Publications -> Workers \union {Nobody}],
           \A p \in Publications : lease'[p] \in {lease[p], Nobody}
    PROVE  IInv'
<1>1. NoneSent
  BY DEF NoneSent
<1>2. TypeOK'
  BY DEF IInv, GlobalOK, TypeOK, table, ClockStep
<1>3. TableOK' /\ BatchesOK' /\ ThreatOK' /\ RowsOK'
  BY <1>1, PossibleFrame, QuietFrame DEF NoneNew
<1>4. RunsOK'
  BY DEF IInv, GlobalOK, RunsOK, RunOK, Past, table
<1>5. ASSUME NEW v \in Workers, Held(v)', Working(v)' PROVE HeldOK(v)'
  <2>1. Pub(v)' = Pub(v) /\ Pub(v) \in Publications /\ Working(v) /\ v # Nobody
    BY <1>5, Facts, RouteAssumption DEF Pub, Working, Nobody
  <2>2. Held(v)
    BY <1>5, <2>1 DEF Held
  <2> QED
    BY <2>1, <2>2, Facts, HeldFrame
<1> QED
  BY <1>2, <1>3, <1>4, <1>5 DEF IInv, GlobalOK, HeldsOK

LEMMA LosePreserves == ASSUME IInv, NEW b \in flight, Lose(b) PROVE IInv'
<1>1. ClockStep
  BY RouteAssumption DEF Lose, ClockStep, IInv, GlobalOK, TypeOK, time
<1> QED
  BY <1>1, OutsideMoves DEF Lose, IInv, GlobalOK, TypeOK

LEMMA LeaseExpiresPreserves == ASSUME IInv, LeaseExpires PROVE IInv'
<1>1. ClockStep
  BY RouteAssumption DEF LeaseExpires, ClockStep, IInv, GlobalOK, TypeOK
<1> QED
  BY <1>1, OutsideMoves DEF LeaseExpires, IInv, GlobalOK, TypeOK

LEMMA WindowClosesPreserves ==
    ASSUME IInv, NEW p \in Publications, WindowCloses(p) PROVE IInv'
<1>1. ClockStep
  BY RouteAssumption DEF WindowCloses, ClockStep, IInv, GlobalOK, TypeOK
<1> QED
  BY <1>1, OutsideMoves DEF WindowCloses, IInv, GlobalOK, TypeOK

LEMMA LapsePreserves ==
    ASSUME IInv, NEW w \in Workers, NEW p \in Publications, Lapse(w, p) PROVE IInv'
<1>1. ClockStep
  BY ClockKept DEF Lapse
<1>2. lease \in [Publications -> Workers \union {Nobody}] /\ lease' = [lease EXCEPT ![p] = Nobody]
  BY Facts DEF Lapse
<1> QED
  BY <1>1, <1>2, OutsideMoves DEF Lapse

LEMMA LoseLeasePreserves == ASSUME IInv, NEW w \in Workers, LoseLease(w) PROVE IInv'
<1>1. ClockStep
  BY RouteAssumption DEF LoseLease, ClockStep, IInv, GlobalOK, TypeOK, time
<1>2. /\ lease \in [Publications -> Workers \union {Nobody}] /\ Pub(w) \in Publications
      /\ lease' = [lease EXCEPT ![Pub(w)] = Nobody]
  BY Facts DEF LoseLease
<1> QED
  BY <1>1, <1>2, OutsideMoves DEF LoseLease

LEMMA CrashPreserves == ASSUME IInv, NEW w \in Workers, Crash(w) PROVE IInv'
<1>1. ClockStep
  BY RouteAssumption DEF Crash, ClockStep, IInv, GlobalOK, TypeOK, time
<1>2. RunTo(w, InitRun) /\ run'[w] = InitRun /\ InitRun.pc = "idle"
  BY InitRunTyped, Facts DEF RunTo, Crash
<1>3. UNCHANGED <<table, flight, row, lease, ops>>
  BY DEF Crash
<1>4. ~ Working(w)' /\ LeaseStep(w)
  BY <1>2, <1>3, Facts DEF Working, LeaseStep
<1>5. RowStep(w)
  BY <1>2, <1>3, RowUnchanged
<1> QED
  BY <1>1, <1>2, <1>3, <1>4, <1>5, RunMoves

LEMMA ClaimPreserves ==
    ASSUME IInv, NEW w \in Workers, NEW p \in Publications, Claim(w, p) PROVE IInv'
<1>1. UNCHANGED <<table, flight, row, ops>> /\ ClockStep /\ row[p].status = "promoting"
  BY ClockKept DEF Claim
<1>2. PICK r : r = [InitRun EXCEPT !.pc = "start", !.pub = p]
  OBVIOUS
<1>3. /\ r \in Run /\ r.pc = "start" /\ r.pub = p /\ r.seen = NoWriter /\ r.etag = Absent
  BY <1>2, InitRunTyped DEF Run, Pcs
<1>4. run' = [run EXCEPT ![w] = r]
  BY <1>2 DEF Claim
<1>5. run'[w] = r /\ Pub(w)' = p
  BY <1>3, <1>4, Facts DEF Pub
<1>6. RunTo(w, r)
  BY <1>3, <1>4 DEF RunTo
<1>7. LeaseStep(w)
  BY Facts DEF LeaseStep, Claim
<1>8. RowStep(w)
  BY <1>1, <1>3, <1>6, RowUnchanged
<1>9. HeldOK(w)'
  BY <1>1, <1>3, <1>5
  DEF HeldOK, GoalOK, IntentOK, StageOK, Goal, Reading, Dispatching
<1> QED
  BY <1>1, <1>3, <1>6, <1>7, <1>8, <1>9, RunMoves

LEMMA VerifiedPreserves == ASSUME IInv, NEW p \in Publications, Verified(p) PROVE IInv'
<1>1. /\ UNCHANGED <<table, flight, lease, run, ops, time, faults>>
      /\ row[p].status = "none" /\ \A q \in Publications : row[q].status # "promoting"
      /\ row' = [row EXCEPT ![p].status = "promoting", ![p].base = active.head]
  BY DEF Verified
<1>2. /\ TypeOK /\ RowsOK /\ ThreatOK /\ RunsOK
      /\ row \in [Publications -> Row] /\ row[p] \in Row /\ RowOK(p)
  BY RowFacts DEF IInv, GlobalOK, TypeOK
<1>3. PICK new : new = [row[p] EXCEPT !.status = "promoting", !.base = active.head]
  OBVIOUS
<1>4. active.head \in Heads
  BY <1>2 DEF TypeOK, ActiveRow, Heads
<1>5. new \in Row /\ new.status = "promoting" /\ new.base = active.head
      /\ new.activation = row[p].activation /\ new.journal = row[p].journal
  BY <1>2, <1>3, <1>4 DEF Row
<1>6. row' = [row EXCEPT ![p] = new]
  BY <1>1, <1>2, <1>3
<1>7. /\ row' \in [Publications -> Row] /\ row'[p] = new
      /\ \A q \in Publications \ {p} : row'[q] = row[q]
  BY <1>2, <1>5, <1>6
<1>8. /\ row[p].activation.outcome = "none" /\ row[p].journal.outcome = "none"
      /\ p \notin receipts
  BY <1>1, <1>2 DEF RowOK
<1>9. NoneNew /\ RowFrame
  BY <1>1, <1>5, <1>7, <1>8 DEF NoneNew, Possible, RowFrame
<1>10. TypeOK'
  BY <1>1, <1>2, <1>7 DEF TypeOK, table, time
<1>11. TableOK' /\ BatchesOK'
  <2>1. ops' \in Nat /\ ops <= ops'
    BY <1>1, <1>2, RouteAssumption DEF TypeOK
  <2> QED
    BY <1>1, <1>9, <2>1, TableFrame, BatchesFrame
<1>12. ThreatOK'
  <2>1. \A q \in Publications : row'[q].journal = row[q].journal
    BY <1>5, <1>7
  <2> QED
    BY <1>1, <1>2, <1>9, <2>1, ApplicableFrame DEF ThreatOK, NoneNew, Resolved, table
<1>13. RowsOK'
  <2>1. ASSUME NEW q \in Publications, q # p PROVE RowOK(q)'
    <3>1. RowOK(q) /\ row'[q] = row[q]
      BY <1>7, <2>1, RowFacts
    <3>2. EntryOK(row[q].activation)' /\ EntryOK(row[q].journal)'
      BY <1>1, <1>9, <3>1, ApplicableFrame DEF RowOK, EntryOK, NoneNew, table
    <3>3. row'[q].status = "active" =>
             /\ q \in receipts
             /\ active.head # q => \E x \in Publications \cap receipts : row'[x].base = q
      BY <1>7, <1>8, <3>1 DEF RowOK
    <3> QED
      BY <1>1, <3>1, <3>2, <3>3 DEF RowOK, Resolved, table
  <2>2. RowOK(p)'
    BY <1>1, <1>5, <1>7, <1>8 DEF RowOK, EntryOK, table
  <2> QED
    BY <1>1, <1>7, <2>1, <2>2 DEF RowsOK
<1>14. RunsOK'
  BY <1>1, <1>2 DEF RunsOK, RunOK, Past, table
<1>15. ASSUME NEW v \in Workers, Held(v)', Working(v)' PROVE HeldOK(v)'
  <2>1. Held(v) /\ Working(v) /\ Pub(v)' = Pub(v)
    BY <1>1, <1>15 DEF Held, Working, Pub
  <2>2. HeldOK(v) /\ Pub(v) # p /\ Pub(v) \in Publications
    BY <1>1, <2>1, Facts DEF HeldOK, StageOK
  <2>3. row'[Pub(v)] = row[Pub(v)]
    BY <1>7, <2>2
  <2> QED
    BY <1>1, <2>2, <2>3, HeldFrame
<1> QED
  BY <1>10, <1>11, <1>12, <1>13, <1>14, <1>15 DEF IInv, GlobalOK, HeldsOK

--------------------------------------------------------------------------
(* The invariant and what it implies. *)

LEMMA InitOK == Init => IInv
<1> SUFFICES ASSUME Init PROVE IInv
  OBVIOUS
<1> USE RouteAssumption
<1>1. /\ receipts = {} /\ flight = {} /\ ops = Initial /\ lapsed = Initial /\ closed = {} /\ faults = 0
      /\ row = [p \in Publications |-> [status |-> "none", base |-> Absent,
                                        activation |-> NoEntry, journal |-> NoEntry]]
      /\ lease = [p \in Publications |-> Nobody]
      /\ run = [w \in Workers |-> InitRun]
  BY DEF Init
<1>2. /\ writer \in WriterRow /\ active \in ActiveRow
      /\ writer.etag \in Past /\ active.etag \in Past /\ active.head \notin Publications
      /\ writer.etag = Absent => writer = NoWriter
      /\ WriterTracksActive
  <2>1. PICK v : v = [NoWriter EXCEPT !.etag = Initial, !.owner = Initial, !.gen = 1, !.head = Initial]
    OBVIOUS
  <2>2. /\ v.etag = Initial /\ v.gen = 1 /\ v.head = Initial /\ v \in WriterRow
        /\ NoWriter \in WriterRow /\ NoWriter.etag = Absent
    <3>1. /\ NoWriter = [etag |-> 0, owner |-> 0, pub |-> 1, pending |-> 0, gen |-> 0, head |-> 0]
          /\ v = [etag |-> 1, owner |-> 1, pub |-> 1, pending |-> 0, gen |-> 1, head |-> 1]
      BY <2>1 DEF NoWriter, Absent, Initial
    <3>2. 0 \in 0..MaxOps /\ 1 \in 0..MaxOps
      OBVIOUS
    <3>3. NoWriter \in WriterRow
      BY <3>1, <3>2 DEF WriterRow, Operations, Heads, Absent, Initial
    <3>4. v \in WriterRow
      BY <3>1, <3>2 DEF WriterRow, Operations, Heads, Absent, Initial
    <3> QED
      BY <3>1, <3>3, <3>4 DEF Absent, Initial
  <2>3. \/ active = [etag |-> Absent, head |-> Absent, gen |-> 0] /\ writer = NoWriter
        \/ active = [etag |-> Initial, head |-> Initial, gen |-> 1] /\ writer \in {NoWriter, v}
    BY <2>1 DEF Init
  <2>4. CASE active = [etag |-> Absent, head |-> Absent, gen |-> 0] /\ writer = NoWriter
    BY <2>2, <2>4 DEF ActiveRow, Past, Heads, Absent, Initial, WriterTracksActive
  <2>5. CASE active = [etag |-> Initial, head |-> Initial, gen |-> 1] /\ writer \in {NoWriter, v}
    BY <2>2, <2>5 DEF ActiveRow, Past, Heads, Absent, Initial, WriterTracksActive
  <2> QED
    BY <2>3, <2>4, <2>5
<1>3. NoEntry \in Entry /\ NoEntry.outcome = "none"
  <2>1. NoWriter \in WriterRow
    BY DEF NoWriter, WriterRow, Operations, Heads, Absent, Initial
  <2>2. NoBatch \in Batch
    BY <2>1 DEF NoBatch, Batch, Operations, Absent
  <2> QED
    BY <2>2 DEF NoEntry, Entry, Outcomes
<1>4. \A p \in Publications : /\ row[p].status = "none" /\ row[p].activation = NoEntry
                              /\ row[p].journal = NoEntry
  BY <1>1
<1>5. \A w \in Workers : run[w] = InitRun
  BY <1>1
<1>6. TypeOK
  <2>1. row \in [Publications -> Row]
    BY <1>1, <1>3 DEF Row, Heads
  <2>2. run \in [Workers -> Run]
    BY <1>1, InitRunTyped
  <2> QED
    BY <1>1, <1>2, <2>1, <2>2 DEF TypeOK, Initial
<1>7. TableOK
  BY <1>1, <1>2 DEF TableOK
<1>8. \A b : ~ Known(b)
  BY <1>1, <1>3, <1>4, <1>5, InitRunTyped DEF Known, Possible, Journalled
<1>9. BatchesOK /\ ThreatOK
  BY <1>8 DEF BatchesOK, ThreatOK, Known
<1>10. RowsOK
  <2>1. ASSUME NEW p \in Publications PROVE RowOK(p)
    BY <1>1, <1>3, <1>4 DEF RowOK, EntryOK
  <2> QED
    BY <1>4, <2>1 DEF RowsOK
<1>11. RunsOK
  <2>1. NoWriter.etag = Absent
    BY DEF NoWriter
  <2>2. ASSUME NEW w \in Workers PROVE RunOK(w)
    BY <1>2, <1>5, <2>1, InitRunTyped DEF RunOK, Past
  <2> QED
    BY <1>5, <2>2, InitRunTyped DEF RunsOK
<1>12. HeldsOK
  BY <1>5, InitRunTyped DEF HeldsOK, Working
<1> QED
  BY <1>6, <1>7, <1>9, <1>10, <1>11, <1>12 DEF IInv, GlobalOK

\* Every step keeps the invariant.
LEMMA NextOK == IInv /\ [Next]_vars => IInv'
<1> SUFFICES ASSUME IInv, [Next]_vars PROVE IInv'
  OBVIOUS
<1>1. ASSUME NEW w \in Workers, RunStep(w) PROVE IInv'
  BY <1>1, StartPreserves, ReadReceiptPreserves, ReadEtagsPreserves, ReadAgainPreserves,
     FencePreserves, AbortPreserves, WithdrawPreserves, OpenPreserves, AcquirePreserves,
     PreparePreserves, ActivatePreserves, SendPreserves, RefusedPreserves, TimeOutPreserves,
     AppliedPreserves, ConfirmPreserves, CommitPreserves, FailPreserves DEF RunStep
<1>2. ASSUME NEW b \in flight, Arrive(b) PROVE IInv'
  BY <1>2, ArriveAppliedPreserves, ArriveRefusedPreserves
<1>3. CASE Next
  BY <1>1, <1>2, <1>3, LosePreserves, LeaseExpiresPreserves, WindowClosesPreserves,
     VerifiedPreserves, ClaimPreserves, LapsePreserves, LoseLeasePreserves, CrashPreserves DEF Next
<1>4. CASE UNCHANGED vars
  <2>1. UNCHANGED <<table, flight, row, lease, run, ops, time, faults>>
    BY <1>4 DEF vars
  <2>2. ClockStep /\ lease \in [Publications -> Workers \union {Nobody}]
    BY <2>1, ClockKept DEF IInv, GlobalOK, TypeOK
  <2> QED
    BY <2>1, <2>2, OutsideMoves
<1> QED
  BY <1>3, <1>4

\* The invariant holds of every behaviour.
THEOREM ActivationInvariant == Spec => []IInv
BY InitOK, NextOK, PTL DEF Spec

\* The partition, the wire, the journals and the runs stay well formed.
THEOREM ActivationTyped == Spec => []TypeOK
<1>1. IInv => TypeOK
  BY DEF IInv, GlobalOK
<1> QED
  BY <1>1, ActivationInvariant, PTL

\* The writer row describes the active head it guards, whatever batches arrive late.
THEOREM WriterTracks == Spec => []WriterTracksActive
<1>1. IInv => WriterTracksActive
  BY DEF IInv, GlobalOK, TableOK
<1> QED
  BY <1>1, ActivationInvariant, PTL

\* What the journals have on record as applied was applied, and what they have as
\* fenced or never sent can never be.
THEOREM JournalTells == Spec => []JournalIsTrue
<1>1. IInv => JournalIsTrue
  <2> SUFFICES ASSUME IInv, NEW p \in Publications, NEW target \in {"activation", "journal"}
               PROVE  LET entry == row[p][target]
                      IN  /\ entry.outcome = "confirmed" => entry.batch.op \in receipts
                          /\ entry.outcome \in {"fenced", "expired"} =>
                                /\ entry.batch.op \notin receipts
                                /\ entry.batch \in flight => ~ Applicable(entry.batch)
    BY DEF JournalIsTrue
  <2>1. EntryOK(row[p][target])
    BY RowFacts DEF RowOK
  <2> QED
    BY <2>1 DEF EntryOK, Possible
<1> QED
  BY <1>1, ActivationInvariant, PTL

\* A failed publication was not applied and never will be, and nothing announces it.
THEOREM FailedFenced == Spec => []FailedIsFenced
<1>1. IInv => FailedIsFenced
  <2> SUFFICES ASSUME IInv, NEW p \in Publications, row[p].status = "failed"
               PROVE  /\ p \notin receipts /\ active.head # p
                      /\ writer.pending # p
                      /\ \A b \in flight : b.op = p => ~ Applicable(b)
    BY DEF FailedIsFenced
  <2>1. RowOK(p) /\ TableOK
    BY RowFacts DEF IInv, GlobalOK
  <2>2. p \notin receipts
    BY <2>1 DEF RowOK, EntryOK
  <2>3. active.head # p /\ writer.pending # p
    BY <2>1, <2>2 DEF RowOK, TableOK
  <2>4. ASSUME NEW b \in flight, b.op = p, Applicable(b) PROVE FALSE
    <3>1. b \in Batch /\ Known(b) /\ Activates(b)
      BY <2>4 DEF IInv, GlobalOK, TypeOK, Known, Possible, Activates
    <3> QED
      BY <2>4, <3>1, Ongoing
  <2> QED
    BY <2>2, <2>3, <2>4
<1> QED
  BY <1>1, ActivationInvariant, PTL

\* An active publication was applied and is served until one based on it is; what is
\* served is in progress or active.
THEOREM ActiveServed == Spec => []ActiveIsServed
<1>1. IInv => ActiveIsServed
  <2> SUFFICES ASSUME IInv PROVE ActiveIsServed
    OBVIOUS
  <2>1. ASSUME active.head \in Publications
        PROVE  row[active.head].status \in {"promoting", "active"}
    <3>1. active.head \in receipts
      BY <2>1 DEF IInv, GlobalOK, TableOK
    <3> QED
      BY <2>1, <3>1, RowFacts DEF RowOK, EntryOK
  <2>2. \A p \in Publications : RowOK(p)
    BY RowFacts
  <2> QED
    BY <2>1, <2>2 DEF ActiveIsServed, RowOK
<1> QED
  BY <1>1, ActivationInvariant, PTL

\* The head changes by whole activations only, one generation at a time, each of a
\* publication in progress and based on the head it replaces.
THEOREM HeadsAdvance == Spec => HeadAdvances
<1>1. ASSUME IInv, [Next]_vars, active' # active
      PROVE  /\ active'.gen = active.gen + 1
             /\ row[active'.head].status = "promoting"
             /\ row[active'.head].activation.outcome # "none"
             /\ row[active'.head].base = active.head
  <2>1. PICK b \in flight : Arrive(b) /\ Applicable(b) /\ Activates(b)
    <3>1. ASSUME NEW w \in Workers, RunStep(w) PROVE UNCHANGED active
      BY <3>1 DEF RunStep, table, outside, Start, ReadReceipt, ReadEtags, ReadAgain, Fence, Abort,
                  Withdraw, Open, Acquire, Prepare, Activate, Send, Refused, TimeOut, Applied,
                  Confirm, Commit, Fail
    <3>2. PICK b \in flight : Arrive(b)
      BY <1>1, <3>1 DEF Next, vars, table, outside, Lose, LeaseExpires, WindowCloses, Verified,
                        Claim, Lapse, LoseLease, Crash
    <3> QED
      BY <1>1, <3>2 DEF Arrive, table
  <2>2. b \in Batch
    BY <1>1 DEF IInv, GlobalOK, TypeOK
  <2>3. Known(b)
    BY DEF Known, Possible
  <2>4. active' = [etag |-> b.op, head |-> b.op, gen |-> b.after.gen]
    BY <2>1 DEF Arrive
  <2>5. BatchesOK
    BY <1>1 DEF IInv, GlobalOK
  <2>6. BatchOK(b)
    BY <2>2, <2>3, <2>5 DEF BatchesOK
  <2>7. row[b.op].status = "promoting"
    BY <1>1, <2>1, <2>2, <2>3, Ongoing
  <2> QED
    BY <2>1, <2>4, <2>6, <2>7 DEF BatchOK
<1>2. IInv /\ [Next]_vars => [active' # active =>
        /\ active'.gen = active.gen + 1
        /\ row[active'.head].status = "promoting"
        /\ row[active'.head].activation.outcome # "none"
        /\ row[active'.head].base = active.head]_vars
  BY <1>1
<1> QED
  BY <1>2, ActivationInvariant, PTL DEF Spec, HeadAdvances
=============================================================================
