------------------------- MODULE LegacyLedgerProofs -------------------------
(***************************************************************************)
(* Theorems about LegacyLedger, for any set of requests and any number of  *)
(* crashes.                                                                *)
(*                                                                         *)
(* The argument: evidence is never withdrawn, and the month that owes a    *)
(* request to its C row changes at most once, from the month of admission  *)
(* to that of a late event, and only for a request that was recovered from *)
(* the log.  So what was settled before a total was read is counted in     *)
(* that total, and stays counted in whatever a later run writes.           *)
(***************************************************************************)
EXTENDS LegacyLedger, TLAPS

\* The rows that the sync has removed.
Gone == {x \in Requests : row[x] = "gone"}

\* Evidence stands for every request of S, under a registered admission.
Firm(S) == \A x \in S : x \in Requests /\ x \in registered /\ Settled(x)

\* C of month p has to count x: where the database counts it, but for a recovered
\* request that a late event has moved to month 1.
Owed(x, p) == x \in Confirmed(p) /\ (p = 1 => fin[x] # "exact")

\* The total C counts all that month p owes among S.
Kept(S, p, C) == \A x \in S : x \in spent /\ Owed(x, p) => x \in C

\* What a run of the timer function keeps.
Run == [at: Steps, month: Months, rows: SUBSET Requests, marked: SUBSET Requests,
        stale: SUBSET Requests, due: SUBSET Requests, unresolved: SUBSET Requests,
        items: SUBSET Requests, unobserved: SUBSET Requests,
        finals: SUBSET Requests, uppers: SUBSET Requests, settled: SUBSET Requests,
        first: SUBSET Requests, next: SUBSET Requests]

\* TypeOK with the types of what no step changes and of the run.
Typed ==
    /\ TypeOK /\ sync \in Run
    /\ spent \subseteq Requests /\ strict \subseteq Requests /\ listed \subseteq Charged

\* Usage and finalizations agree with what the model did.
Truthful == \A x \in Requests :
    /\ usage[x] = "failed" => x \notin spent
    /\ fin[x] = "zero" => x \notin spent
    /\ fin[x] = "exact" => x \in spent

\* The finalizations a run is about to save replace none that settles.
Saving == sync.at = "save" =>
    \A x \in sync.uppers : fin[x] # "exact" /\ (fin[x] = "zero" => x \in strict)

\* Between the look at the settled rows and their removal.
Projecting == {"readFirst", "readNext", "writeNext", "writeFirst", "mark", "delete"}

\* What a run has listed it has registered, and what it took for settled is.
Listed ==
    /\ sync.at \notin {"idle", "register"} => sync.rows \subseteq registered
    /\ sync.at \in Projecting => Firm(sync.settled)

\* The totals a run has read count what it will remove and what is removed already.
Reading ==
    /\ sync.at \in {"readNext", "writeNext", "writeFirst"} =>
          Kept(Gone \union sync.settled, 0, sync.first)
    /\ sync.at = "writeNext" => Kept(Gone \union sync.settled, 1, sync.next)
    /\ sync.at \in {"writeFirst", "mark", "delete"} => Kept(sync.settled, 1, conf[1])
    /\ sync.at \in {"mark", "delete"} => Kept(sync.settled, 0, conf[0])
    /\ sync.at = "writeCurrent" =>
          sync.month \in Charged /\ Kept(Gone, sync.month, sync.first)
    /\ sync.at = "writePrevious" =>
          sync.month - 1 \in Charged /\ Kept(Gone, sync.month - 1, sync.first)

\* What is removed is settled, and the C rows count it.
Counted == Firm(Gone) /\ Kept(Gone, 0, conf[0]) /\ Kept(Gone, 1, conf[1])

IInv == Typed /\ Truthful /\ Saving /\ Listed /\ Reading /\ Counted

--------------------------------------------------------------------------
\* Init establishes the invariant.
LEMMA InitOK == Init => IInv
<1> SUFFICES ASSUME Init PROVE IInv
  OBVIOUS
<1> USE RequestsAssumption, FaultsAssumption
<1>1. sync.at = "idle" /\ Gone = {}
  BY DEF Init, Idle, Gone
<1>2. Typed
  BY DEF Init, Typed, TypeOK, Run, Idle, Rows, Ages, Usages, Finalizations, Months, Charged, Steps
<1>3. Truthful
  BY DEF Init, Truthful
<1>4. Saving /\ Listed /\ Reading /\ Counted
  BY <1>1 DEF Saving, Listed, Projecting, Reading, Counted, Firm, Kept
<1> QED
  BY <1>2, <1>3, <1>4 DEF IInv

--------------------------------------------------------------------------
(* Evidence. *)

\* A step that withdraws no evidence and moves no debt into month 0, or, but for a
\* recovered request, into month 1.
Stable ==
    /\ spent' = spent /\ strict' = strict /\ registered \subseteq registered'
    /\ \A x \in Requests : Settled(x) => Settled(x)'
    /\ \A x \in Requests, p \in Charged :
          Settled(x) /\ x \in registered /\ x \in spent /\ Owed(x, p)' => Owed(x, p)

\* Stable says what it should: sets of settled requests stay settled and a total that
\* counted them keeps counting them.
LEMMA StableKeeps ==
    ASSUME Stable, NEW S, Firm(S)
    PROVE  /\ \A x \in S : x \in Requests /\ x \in registered' /\ Settled(x)'
           /\ \A p \in Charged : \A C : Kept(S, p, C) =>
                 \A x \in S : x \in spent' /\ Owed(x, p)' => x \in C
BY DEF Stable, Firm, Kept

\* A settled request that spent tokens is counted in one of the two months.
LEMMA SettledIsConfirmed ==
    ASSUME Typed, Truthful, NEW x \in spent, Settled(x)
    PROVE  x \in Confirmed(0) \/ x \in Confirmed(1)
<1>1. x \in Requests /\ ts[x] \in {0, 1}
  BY DEF Typed, TypeOK, Charged
<1>2. Measured(x) \/ fin[x] = "exact"
  BY <1>1 DEF Settled, Truthful
<1> QED
  BY <1>1, <1>2 DEF Confirmed, UsageMonth

\* A step that leaves the evidence alone.
LEMMA SameEvidence ==
    ASSUME UNCHANGED <<usage, ts, fin, registered, spent, strict>>
    PROVE  Stable
BY DEF Stable, Settled, Measured, Owed, Confirmed, UsageMonth

\* A step that changes the evidence of some requests: a measured usage stays measured at
\* its time, an exact finalization stays, and a failure is only replaced by a measurement.
LEMMA NewEvidence ==
    ASSUME Typed, Truthful, UNCHANGED <<spent, strict>>, registered \subseteq registered',
           \A x \in Requests :
               /\ Measured(x) => Measured(x)' /\ ts'[x] = ts[x]
               /\ fin[x] = "exact" => fin'[x] = "exact"
               /\ usage[x] = "failed" => usage'[x] = "failed" \/ Measured(x)'
               /\ fin[x] = "zero" /\ x \notin strict => fin'[x] \in {"zero", "exact"}
    PROVE  Stable
<1>1. \A x \in Requests : Settled(x) => Settled(x)'
  BY DEF Settled
<1>2. ASSUME NEW x \in Requests, NEW p \in Charged,
             Settled(x), x \in registered, x \in spent, Owed(x, p)'
      PROVE  Owed(x, p)
  <2>1. Measured(x) \/ fin[x] = "exact"
    BY <1>2 DEF Settled, Truthful
  <2>2. CASE Measured(x)
    <3>1. UsageMonth(x)' = UsageMonth(x) /\ Measured(x)'
      BY <1>2, <2>2 DEF UsageMonth
    <3> QED
      BY <1>2, <2>2, <3>1 DEF Owed, Confirmed
  <2>3. CASE ~ Measured(x) /\ fin[x] = "exact"
    <3>1. fin'[x] = "exact" /\ p = 0
      BY <1>2, <2>3 DEF Owed, Charged
    <3> QED
      BY <1>2, <2>3, <3>1 DEF Owed, Confirmed
  <2> QED
    BY <2>1, <2>2, <2>3
<1> QED
  BY <1>1, <1>2 DEF Stable

--------------------------------------------------------------------------
\* What happens around the sync: nothing is removed, no total is written and the run
\* goes on from what it has read.
LEMMA OutsidePreserves ==
    ASSUME IInv, Stable, Typed', Truthful', UNCHANGED <<conf, fin, sync>>, Gone' = Gone
    PROVE  IInv'
<1>1. Firm(Gone) /\ (sync.at \in Projecting => Firm(sync.settled))
  BY DEF IInv, Counted, Listed
<1>2. Firm(Gone) => Firm(Gone)'
  BY StableKeeps DEF Firm
<1>3. sync.at \in Projecting => Firm(sync.settled)'
  BY <1>1, StableKeeps DEF Firm
<1>4. ASSUME NEW S, NEW p \in Charged, NEW C, Firm(S), Kept(S, p, C)
      PROVE  \A x \in S : x \in spent' /\ Owed(x, p)' => x \in C
  BY <1>4, StableKeeps
<1>5. Firm(Gone \union sync.settled) \/ sync.at \notin Projecting
  BY <1>1 DEF Firm
<1>6. Counted'
  <2>1. 0 \in Charged /\ 1 \in Charged
    BY DEF Charged
  <2> QED
    BY <1>1, <1>2, <1>4, <2>1 DEF IInv, Counted, Kept
<1>7. Listed'
  BY <1>3 DEF IInv, Listed, Stable
<1>8. Saving'
  BY DEF IInv, Saving, Stable
<1>9. Reading'
  <2>1. 0 \in Charged /\ 1 \in Charged
    BY DEF Charged
  <2>2. sync.at \in {"readNext", "writeNext", "writeFirst"} =>
           Kept(Gone \union sync.settled, 0, sync.first)'
    BY <1>4, <1>5, <2>1 DEF IInv, Reading, Kept, Projecting
  <2>3. sync.at = "writeNext" => Kept(Gone \union sync.settled, 1, sync.next)'
    BY <1>4, <1>5, <2>1 DEF IInv, Reading, Kept, Projecting
  <2>4. sync.at \in {"writeFirst", "mark", "delete"} => Kept(sync.settled, 1, conf[1])'
    BY <1>1, <1>4, <2>1 DEF IInv, Reading, Kept, Projecting
  <2>5. sync.at \in {"mark", "delete"} => Kept(sync.settled, 0, conf[0])'
    BY <1>1, <1>4, <2>1 DEF IInv, Reading, Kept, Projecting
  <2>6. sync.at = "writeCurrent" =>
           sync.month \in Charged /\ Kept(Gone, sync.month, sync.first)'
    BY <1>1, <1>4 DEF IInv, Reading, Kept
  <2>7. sync.at = "writePrevious" =>
           sync.month - 1 \in Charged /\ Kept(Gone, sync.month - 1, sync.first)'
    BY <1>1, <1>4 DEF IInv, Reading, Kept
  <2> QED
    BY <2>2, <2>3, <2>4, <2>5, <2>6, <2>7 DEF Reading
<1> QED
  BY <1>6, <1>7, <1>8, <1>9 DEF IInv

\* The types of what the environment decides carry over.
LEMMA TypedNext ==
    ASSUME Typed, UNCHANGED outside, sync' \in Run,
           row' \in [Requests -> Rows], conf' \in [Charged -> SUBSET Requests],
           usage' \in [Requests -> Usages], ts' \in [Requests -> Charged],
           fin' \in [Requests -> Finalizations], registered' \subseteq Requests,
           faults' \in 0..MaxFaults
    PROVE  Typed'
BY DEF Typed, TypeOK, outside, Run

\* The gateway admits a request.
LEMMA AdmitPreserves == ASSUME IInv, NEW x \in Requests, Admit(x) PROVE IInv'
<1>1. Typed /\ Truthful
  BY DEF IInv
<1>2. row' \in [Requests -> Rows] /\ Gone' = Gone
  BY <1>1 DEF Admit, Gone, Typed, TypeOK, Rows
<1>3. Typed'
  BY <1>1, <1>2, TypedNext DEF Admit, Typed, TypeOK
<1>4. Stable /\ Truthful'
  BY <1>1, SameEvidence DEF Admit, outside, Truthful
<1> QED
  BY <1>2, <1>3, <1>4, OutsidePreserves DEF Admit

\* Telemetry reports usage.
LEMMA IngestPreserves ==
    ASSUME IInv, NEW x \in Requests, NEW value \in Usages, Ingest(x, value)
    PROVE  IInv'
<1>1. /\ Typed /\ Truthful /\ UNCHANGED outside
      /\ UNCHANGED <<row, conf, fin, registered, sync, faults>>
      /\ UNCHANGED <<spent, strict>>
      /\ usage \in [Requests -> Usages] /\ ts \in [Requests -> Charged]
  BY DEF IInv, Ingest, Typed, TypeOK, outside
<1>2. /\ usage' = [usage EXCEPT ![x] = value] /\ usage' \in [Requests -> Usages]
      /\ ts' \in [Requests -> Charged] /\ value \in Reported(x)
  BY <1>1 DEF Ingest
<1>3. \A y \in Requests :
         /\ y # x => usage'[y] = usage[y] /\ ts'[y] = ts[y]
         /\ usage'[x] = value
         /\ usage[x] # "none" => ts'[y] = ts[y] /\ value = "exact"
  BY <1>1 DEF Ingest
<1>4. Typed'
  BY <1>1, <1>2, TypedNext DEF Typed, TypeOK
<1>5. Truthful'
  BY <1>1, <1>2, <1>3 DEF Truthful, Reported
<1>6. Stable
  <2>1. \A y \in Requests :
               /\ Measured(y) => Measured(y)' /\ ts'[y] = ts[y]
               /\ usage[y] = "failed" => usage'[y] = "failed" \/ Measured(y)'
    BY <1>3 DEF Measured
  <2> QED
    BY <1>1, <2>1, NewEvidence
<1> QED
  BY <1>1, <1>4, <1>5, <1>6, OutsidePreserves DEF Gone

\* The log, the lags and the calendar.
LEMMA TimePreserves ==
    ASSUME IInv, NewMonth \/ \E x \in Requests : LogArrives(x) \/ GrowOlder(x) PROVE IInv'
<1>1. /\ Typed /\ Truthful /\ UNCHANGED <<row, conf, usage, ts, fin, registered, spent>>
      /\ UNCHANGED <<strict, listed, sync, faults>>
  BY DEF IInv, NewMonth, LogArrives, GrowOlder
<1>2. now' \in Months /\ age' \in [Requests -> Ages] /\ log' \subseteq Requests
  BY <1>1 DEF NewMonth, LogArrives, GrowOlder, Typed, TypeOK, Months, Ages
<1>3. Typed' /\ Truthful' /\ Gone' = Gone
  BY <1>1, <1>2 DEF Typed, TypeOK, Run, Truthful, Gone
<1>4. Stable
  BY <1>1, SameEvidence
<1> QED
  BY <1>1, <1>3, <1>4, OutsidePreserves

--------------------------------------------------------------------------
(* The run. *)

\* The steps with no total in hand.
Plain == {"idle", "register", "before", "fetch", "reconcile", "judge", "save", "settled",
          "readCurrent", "readPrevious"}

\* A run that reaches one of them, with new evidence perhaps.
LEMMA PlainPreserves ==
    ASSUME IInv, Stable, Typed', Truthful', UNCHANGED <<row, conf>>,
           sync'.at \in Plain, Saving',
           sync'.at \notin {"idle", "register"} => sync'.rows \subseteq registered'
    PROVE  IInv'
<1>1. Gone' = Gone /\ Firm(Gone)
  BY DEF Gone, IInv, Counted
<1>2. Firm(Gone)'
  BY <1>1, StableKeeps DEF Firm
<1>3. Kept(Gone, 0, conf[0])' /\ Kept(Gone, 1, conf[1])'
  <2>1. 0 \in Charged /\ 1 \in Charged
    BY DEF Charged
  <2> QED
    BY <1>1, <2>1, StableKeeps DEF IInv, Counted, Kept
<1>4. Counted'
  BY <1>2, <1>3 DEF Counted
<1>5. Listed' /\ Reading'
  BY DEF Listed, Reading, Plain, Projecting
<1> QED
  BY <1>4, <1>5 DEF IInv

\* A run that changes nothing but its own notes, and what fits in them.
LEMMA NotesPreserve ==
    ASSUME IInv, UNCHANGED <<row, conf, usage, ts, fin, registered, outside>>,
           faults' \in 0..MaxFaults, sync' \in Run, sync'.at \in Plain, Saving',
           sync'.at \notin {"idle", "register"} => sync'.rows \subseteq registered
    PROVE  IInv'
<1>1. Typed /\ Truthful
  BY DEF IInv
<1>2. Typed' /\ Truthful'
  BY <1>1, TypedNext DEF Typed, TypeOK, Truthful, outside
<1>3. Stable
  BY SameEvidence DEF outside
<1> QED
  BY <1>2, <1>3, PlainPreserves

LEMMA IdleIsRun == Idle \in Run
BY DEF Idle, Run, Steps, Months

\* A run at another step.
LEMMA RunAt ==
    ASSUME NEW r \in Run, NEW at \in Steps
    PROVE  \A s : s = [r EXCEPT !.at = at] => s \in Run /\ s.at = at /\ s.rows = r.rows
BY DEF Run

LEMMA ListPreserves == ASSUME IInv, List PROVE IInv'
<1>1. Typed
  BY DEF IInv
<1> DEFINE pending == {x \in Requests : row[x] \in {"open", "upper"}}
<1>2. sync' = [Idle EXCEPT
                 !.at = IF pending = {} THEN "readCurrent" ELSE "register",
                 !.month = now, !.rows = pending,
                 !.marked = {x \in pending : row[x] = "upper"},
                 !.stale = {x \in pending : age[x] # "new"},
                 !.due = {x \in pending : age[x] = "due"}]
  BY DEF List
<1>3. sync' \in Run /\ sync'.rows = pending /\ (pending # {} => sync'.at = "register")
      /\ sync'.at \in {"readCurrent", "register"}
  <2> DEFINE marked == {x \in pending : row[x] = "upper"}
             stale == {x \in pending : age[x] # "new"}
             due == {x \in pending : age[x] = "due"}
  <2>1. /\ pending \in SUBSET Requests /\ marked \in SUBSET Requests
        /\ stale \in SUBSET Requests /\ due \in SUBSET Requests
    OBVIOUS
  <2>2. now \in Months
    BY <1>1 DEF Typed, TypeOK
  <2>3. sync' = [Idle EXCEPT !.at = IF pending = {} THEN "readCurrent" ELSE "register",
                             !.month = now, !.rows = pending, !.marked = marked,
                             !.stale = stale, !.due = due]
    BY <1>2
  <2> HIDE DEF pending, marked, stale, due
  <2> QED
    BY <2>1, <2>2, <2>3 DEF Idle, Run, Steps
<1>4. Saving'
  BY <1>3 DEF Saving
<1> QED
  BY <1>1, <1>3, <1>4, NotesPreserve DEF List, Plain, Typed, TypeOK

LEMMA RegisterPreserves == ASSUME IInv, Register PROVE IInv'
<1>1. /\ Typed /\ Truthful /\ sync \in Run
      /\ UNCHANGED <<row, conf, usage, ts, fin, faults, outside>>
      /\ UNCHANGED <<spent, strict>>
  BY DEF IInv, Register, Typed, outside
<1>2. sync' \in Run /\ sync'.at = "before" /\ sync'.rows = sync.rows
  BY <1>1 DEF Register, Goto, Run, Steps
<1>3. registered' = registered \cup sync.rows /\ registered' \subseteq Requests
  BY <1>1 DEF Register, Run, Typed, TypeOK
<1>4. Typed' /\ Truthful'
  BY <1>1, <1>2, <1>3, TypedNext DEF Typed, TypeOK, Truthful
<1>5. Stable
  BY <1>1, <1>3, NewEvidence DEF Measured
<1>6. Saving'
  BY <1>2 DEF Saving
<1> QED
  BY <1>1, <1>2, <1>3, <1>4, <1>5, <1>6, PlainPreserves DEF Plain

\* The look for evidence keeps what was listed.
LEMMA LookPreserves == ASSUME IInv, Before \/ Fetch \/ Judge PROVE IInv'
<1>1. /\ Typed /\ sync \in Run /\ sync.at \in {"before", "fetch", "judge"}
      /\ UNCHANGED <<row, conf, usage, ts, fin, registered, outside>>
      /\ faults' \in 0..MaxFaults /\ sync.rows \subseteq registered
  BY FaultsAssumption DEF IInv, Before, Fetch, Judge, Typed, TypeOK, Listed
<1>2. /\ sync' \in Run /\ sync'.rows = sync.rows
      /\ sync'.at \in {"settled", "fetch", "reconcile", "save"}
  <2>1. CASE Before
    BY <1>1, <2>1 DEF Before, Run, Steps
  <2>2. CASE Fetch
    <3>1. sync.unresolved \cap log \in SUBSET Requests
          /\ {x \in sync.unresolved : Unobserved(x)} \in SUBSET Requests
      BY <1>1 DEF Run
    <3> DEFINE items == sync.unresolved \cap log
               unobserved == {x \in sync.unresolved : Unobserved(x)}
    <3>2. \/ sync' = [sync EXCEPT !.items = items, !.unobserved = unobserved, !.at = "reconcile"]
          \/ sync' = [sync EXCEPT !.items = items, !.at = "reconcile"]
          \/ sync' = [sync EXCEPT !.at = "reconcile"]
      BY <2>2 DEF Fetch, Goto
    <3>3. items \in SUBSET Requests /\ unobserved \in SUBSET Requests
      BY <3>1
    <3> HIDE DEF items, unobserved
    <3> DEFINE s1 == [sync EXCEPT !.items = items]
               s2 == [s1 EXCEPT !.unobserved = unobserved]
    <3>4. s1 \in Run /\ s1.rows = sync.rows
      BY <1>1, <3>3 DEF Run
    <3>5. s2 \in Run /\ s2.rows = sync.rows
      BY <3>3, <3>4 DEF Run
    <3>6. \/ sync' = [s2 EXCEPT !.at = "reconcile"]
          \/ sync' = [s1 EXCEPT !.at = "reconcile"]
          \/ sync' = [sync EXCEPT !.at = "reconcile"]
      BY <1>1, <3>2 DEF Run
    <3> HIDE DEF s1, s2
    <3>7. "reconcile" \in Steps /\ sync \in Run
      BY <1>1 DEF Steps
    <3> QED
      BY <3>4, <3>5, <3>6, <3>7, RunAt
  <2>3. CASE Judge
    BY <1>1, <2>3 DEF Judge, Run, Steps
  <2> QED
    BY <2>1, <2>2, <2>3
<1>3. Saving'
  <2>1. CASE Judge
    <3>1. sync'.uppers \subseteq {x \in Requests : ~ Settled(x)}
      BY <1>1, <2>1 DEF Judge, Run
    <3>2. UNCHANGED strict
      BY <1>1 DEF outside
    <3> QED
      BY <1>1, <3>1, <3>2 DEF Saving, Settled
  <2>2. CASE Before \/ Fetch
    <3>1. sync'.at # "save"
      BY <1>1, <2>2 DEF Before, Fetch, Goto, Run
    <3> QED
      BY <3>1 DEF Saving
  <2> QED
    BY <2>1, <2>2
<1> QED
  BY <1>1, <1>2, <1>3, NotesPreserve DEF Plain

LEMMA ReconcilePreserves == ASSUME IInv, Reconcile PROVE IInv'
<1>1. /\ Typed /\ Truthful /\ sync \in Run /\ sync.at = "reconcile"
      /\ UNCHANGED <<row, conf, ts, fin, registered, faults, outside>>
      /\ UNCHANGED <<spent, strict>> /\ sync.rows \subseteq registered
      /\ usage \in [Requests -> Usages]
  BY DEF IInv, Reconcile, Typed, TypeOK, outside, Listed
<1>2. sync' \in Run /\ sync'.at = "judge" /\ sync'.rows = sync.rows
  BY <1>1 DEF Reconcile, Goto, Run, Steps
<1>3. /\ usage' \in [Requests -> Usages]
      /\ \A x \in Requests : usage'[x] = usage[x]
                             \/ (usage[x] = "estimated" /\ usage'[x] = "reconciled")
  BY <1>1 DEF Reconcile, Usages
<1>4. Typed' /\ Truthful'
  BY <1>1, <1>2, <1>3, TypedNext DEF Typed, TypeOK, Truthful
<1>5. Stable
  <2>1. \A x \in Requests : /\ Measured(x) => Measured(x)'
                            /\ usage[x] = "failed" => usage'[x] = "failed"
    BY <1>3 DEF Measured
  <2> QED
    BY <1>1, <2>1, NewEvidence
<1>6. Saving'
  BY <1>2 DEF Saving
<1> QED
  BY <1>1, <1>2, <1>4, <1>5, <1>6, PlainPreserves DEF Plain

LEMMA SavePreserves == ASSUME IInv, Save PROVE IInv'
<1>1. /\ Typed /\ Truthful /\ sync \in Run /\ sync.at = "save"
      /\ UNCHANGED <<row, conf, usage, ts, registered, faults, outside>>
      /\ UNCHANGED <<spent, strict>> /\ sync.rows \subseteq registered
      /\ fin \in [Requests -> Finalizations] /\ Saving
  BY DEF IInv, Save, Typed, TypeOK, outside, Listed
<1>2. sync' \in Run /\ sync'.at = "settled" /\ sync'.rows = sync.rows
  BY <1>1 DEF Save, Goto, Run, Steps
<1>3. /\ fin' \in [Requests -> Finalizations]
      /\ \A x \in Requests :
            \/ fin'[x] = fin[x]
            \/ fin'[x] = "exact" /\ x \in spent
            \/ fin'[x] = "zero" /\ x \notin spent
            \/ fin'[x] = "upper" /\ x \in sync.uppers
  BY <1>1 DEF Save, Finalizations
<1>4. Typed' /\ Truthful'
  BY <1>1, <1>2, <1>3, TypedNext DEF Typed, TypeOK, Truthful
<1>5. Stable
  <2>1. \A x \in Requests :
               /\ fin[x] = "exact" => fin'[x] = "exact"
               /\ fin[x] = "zero" /\ x \notin strict => fin'[x] \in {"zero", "exact"}
    BY <1>1, <1>3 DEF Truthful, Saving
  <2>2. \A x \in Requests : Measured(x)' = Measured(x) /\ usage'[x] = usage[x] /\ ts'[x] = ts[x]
    BY <1>1 DEF Measured
  <2> QED
    BY <1>1, <2>1, <2>2, NewEvidence
<1>6. Saving'
  BY <1>2 DEF Saving
<1> QED
  BY <1>1, <1>2, <1>4, <1>5, <1>6, PlainPreserves DEF Plain

LEMMA CrashPreserves == ASSUME IInv, Crash PROVE IInv'
<1>1. faults' \in 0..MaxFaults /\ sync' = Idle /\ Idle.at = "idle"
  BY FaultsAssumption DEF IInv, Crash, Typed, TypeOK, Idle
<1>2. Saving'
  BY <1>1 DEF Saving
<1> QED
  BY <1>1, <1>2, IdleIsRun, NotesPreserve DEF Crash, Plain

--------------------------------------------------------------------------
(* The totals. *)

\* A run that reads or writes totals without new evidence.
LEMMA TotalsPreserve ==
    ASSUME IInv, UNCHANGED <<usage, ts, fin, registered, faults, outside>>,
           sync' \in Run, conf' \in [Charged -> SUBSET Requests],
           row' \in [Requests -> Rows],
           sync'.at # "save", Listed', Reading', Counted'
    PROVE  IInv'
<1>1. Typed /\ Truthful
  BY DEF IInv
<1>2. Typed'
  BY <1>1, TypedNext DEF Typed, TypeOK
<1>3. Truthful' /\ Saving'
  BY <1>1 DEF Truthful, Saving, outside
<1> QED
  BY <1>2, <1>3 DEF IInv

\* Nothing changes in what the totals should count.
LEMMA SameDebts ==
    ASSUME UNCHANGED <<usage, ts, fin, registered, outside>>
    PROVE  /\ \A x, p : Owed(x, p)' = Owed(x, p)
           /\ \A x : Settled(x)' = Settled(x)
           /\ \A p : Confirmed(p)' = Confirmed(p)
           /\ spent' = spent /\ registered' = registered
BY DEF Owed, Settled, Confirmed, Measured, UsageMonth, outside

\* A total that has just been read counts everything.
LEMMA FreshTotal ==
    ASSUME NEW S, NEW p PROVE Kept(S, p, Confirmed(p))
BY DEF Kept, Owed

\* What the steps on totals start from.
LEMMA TotalsStart ==
    ASSUME IInv
    PROVE  /\ Typed /\ sync \in Run /\ faults \in 0..MaxFaults
           /\ conf \in [Charged -> SUBSET Requests] /\ row \in [Requests -> Rows]
           /\ \A p : Confirmed(p) \subseteq Requests
           /\ 0 \in Charged /\ 1 \in Charged /\ 0 # 1
BY DEF IInv, Typed, TypeOK, Confirmed, Charged

LEMMA LookSettledPreserves == ASSUME IInv, LookSettled PROVE IInv'
<1>1. /\ UNCHANGED <<row, conf, usage, ts, fin, registered, faults, outside>>
      /\ sync.at = "settled" /\ sync.rows \subseteq registered
      /\ sync' = [sync EXCEPT !.settled = {x \in sync.rows : Settled(x)}, !.at = "readFirst"]
  BY DEF LookSettled, IInv, Listed
<1>2. /\ sync' \in Run /\ sync'.at = "readFirst" /\ sync'.rows = sync.rows
      /\ sync'.settled = {x \in sync.rows : Settled(x)}
  BY <1>1, TotalsStart DEF Run, Steps
<1>3. sync.rows \subseteq Requests
  BY TotalsStart DEF Run
<1>4. Listed'
  BY <1>1, <1>2, <1>3, SameDebts DEF Listed, Firm
<1>5. Reading'
  BY <1>2 DEF Reading
<1>6. Counted'
  BY <1>1, SameDebts DEF IInv, Counted, Gone, Firm, Kept
<1> QED
  BY <1>1, <1>2, <1>4, <1>5, <1>6, TotalsStart, TotalsPreserve

LEMMA ReadTotalsPreserve == ASSUME IInv, ReadFirst \/ ReadNext PROVE IInv'
<1>1. /\ UNCHANGED <<row, conf, usage, ts, fin, registered, faults, outside>>
      /\ sync.at \in {"readFirst", "readNext"}
  BY DEF ReadFirst, ReadNext
<1>2. Gone' = Gone /\ conf' = conf
  BY <1>1 DEF Gone
<1>3. Counted'
  BY <1>1, <1>2, SameDebts DEF IInv, Counted, Firm, Kept
<1>4. CASE ReadFirst
  <2>1. /\ sync' \in Run /\ sync'.at = "readNext" /\ sync'.rows = sync.rows
        /\ sync'.settled = sync.settled /\ sync'.first = Confirmed(0)
    BY <1>4, TotalsStart DEF ReadFirst, Run, Steps
  <2>2. Listed'
    BY <1>1, <2>1, SameDebts DEF IInv, Listed, Firm, Projecting
  <2>3. Reading'
    BY <1>1, <1>2, <2>1, SameDebts DEF Reading, Kept, Owed
  <2> QED
    BY <1>1, <1>3, <2>1, <2>2, <2>3, TotalsStart, TotalsPreserve
<1>5. CASE ReadNext
  <2>1. /\ sync' \in Run /\ sync'.at = "writeNext" /\ sync'.rows = sync.rows
        /\ sync'.settled = sync.settled /\ sync'.next = Confirmed(1)
        /\ sync'.first = sync.first /\ sync.at = "readNext"
    BY <1>5, TotalsStart DEF ReadNext, Run, Steps
  <2>2. Listed'
    BY <1>1, <2>1, SameDebts DEF IInv, Listed, Firm, Projecting
  <2>3. Kept(Gone \union sync.settled, 0, sync.first)
    BY <2>1 DEF IInv, Reading
  <2>4. Kept(Gone \union sync.settled, 0, sync.first)'
    BY <1>1, <1>2, <2>1, <2>3, SameDebts DEF Kept
  <2>5. Kept(Gone \union sync.settled, 1, sync.next)'
    BY <1>1, <1>2, <2>1, SameDebts DEF Kept, Owed
  <2>6. Reading'
    BY <2>1, <2>4, <2>5 DEF Reading
  <2> QED
    BY <1>1, <1>3, <2>1, <2>2, <2>6, TotalsStart, TotalsPreserve
<1> QED
  BY <1>4, <1>5

\* The next month's total: when it is left unwritten the month owes nothing.
LEMMA WriteNextPreserves == ASSUME IInv, WriteNext PROVE IInv'
<1>1. /\ UNCHANGED <<row, usage, ts, fin, registered, faults, outside>>
      /\ sync.at = "writeNext"
      /\ conf' = IF sync.next # {} THEN [conf EXCEPT ![1] = sync.next] ELSE conf
  BY DEF WriteNext, WritesNext
<1>2. /\ sync' \in Run /\ sync'.at = "writeFirst" /\ sync'.rows = sync.rows
      /\ sync'.settled = sync.settled /\ sync'.first = sync.first
      /\ sync.next \in SUBSET Requests
  BY TotalsStart DEF WriteNext, Goto, Run, Steps
<1>3. Gone' = Gone /\ Kept(Gone \union sync.settled, 0, sync.first)
      /\ Kept(Gone \union sync.settled, 1, sync.next)
  BY <1>1 DEF Gone, IInv, Reading
<1>4. /\ conf' \in [Charged -> SUBSET Requests] /\ conf'[0] = conf[0]
      /\ conf'[1] = sync.next \/ (sync.next = {} /\ conf' = conf)
  BY <1>1, <1>2, TotalsStart
<1>5. Kept(Gone, 1, conf[1])' /\ Kept(sync.settled, 1, conf[1])'
  BY <1>1, <1>2, <1>3, <1>4, SameDebts DEF Kept
<1>6. Kept(Gone, 0, conf[0])' /\ Firm(Gone)'
  BY <1>1, <1>3, <1>4, SameDebts DEF Kept, IInv, Counted, Firm
<1>7. Kept(Gone \union sync.settled, 0, sync.first)'
  BY <1>1, <1>2, <1>3, SameDebts DEF Kept
<1>8. Listed'
  BY <1>1, <1>2, SameDebts DEF IInv, Listed, Firm, Projecting
<1>9. Reading' /\ Counted'
  BY <1>2, <1>5, <1>6, <1>7 DEF Reading, Counted
<1> QED
  BY <1>1, <1>2, <1>4, <1>8, <1>9, TotalsStart, TotalsPreserve

LEMMA WriteFirstPreserves == ASSUME IInv, WriteFirst PROVE IInv'
<1>1. /\ UNCHANGED <<row, usage, ts, fin, registered, faults, outside>>
      /\ sync.at = "writeFirst" /\ conf' = [conf EXCEPT ![0] = sync.first]
  BY DEF WriteFirst
<1>2. /\ sync' \in Run /\ sync'.at = "mark" /\ sync'.rows = sync.rows
      /\ sync'.settled = sync.settled /\ sync.first \in SUBSET Requests
  BY TotalsStart DEF WriteFirst, Goto, Run, Steps
<1>3. /\ Gone' = Gone /\ Kept(Gone \union sync.settled, 0, sync.first)
      /\ Kept(sync.settled, 1, conf[1])
  BY <1>1 DEF Gone, IInv, Reading
<1>4. conf' \in [Charged -> SUBSET Requests] /\ conf'[0] = sync.first /\ conf'[1] = conf[1]
  BY <1>1, <1>2, TotalsStart
<1>5. Kept(Gone, 0, conf[0])' /\ Kept(sync.settled, 0, conf[0])'
  BY <1>1, <1>2, <1>3, <1>4, SameDebts DEF Kept
<1>6. Kept(Gone, 1, conf[1])' /\ Kept(sync.settled, 1, conf[1])' /\ Firm(Gone)'
  BY <1>1, <1>2, <1>3, <1>4, SameDebts DEF Kept, IInv, Counted, Firm
<1>7. Listed'
  BY <1>1, <1>2, SameDebts DEF IInv, Listed, Firm, Projecting
<1>8. Reading' /\ Counted'
  BY <1>2, <1>5, <1>6 DEF Reading, Counted
<1> QED
  BY <1>1, <1>2, <1>4, <1>7, <1>8, TotalsStart, TotalsPreserve

\* Marking a row as an upper bound removes nothing.
LEMMA MarkPreserves ==
    ASSUME IInv, EndMark \/ \E x \in Requests : Mark(x) PROVE IInv'
<1>1. /\ UNCHANGED <<conf, usage, ts, fin, registered, faults, outside>>
      /\ sync.at = "mark"
  BY DEF EndMark, Mark
<1>2. row' \in [Requests -> Rows] /\ Gone' = Gone
  BY TotalsStart DEF EndMark, Mark, ToMark, Gone, Rows
<1>3. /\ sync' \in Run /\ sync'.at \in {"mark", "delete"} /\ sync'.rows = sync.rows
      /\ sync'.settled = sync.settled
  BY <1>1, TotalsStart DEF EndMark, Mark, Goto, Run, Steps
<1>4. Kept(sync.settled, 0, conf[0]) /\ Kept(sync.settled, 1, conf[1])
  BY <1>1 DEF IInv, Reading
<1>5. Kept(sync.settled, 0, conf[0])' /\ Kept(sync.settled, 1, conf[1])'
  BY <1>1, <1>3, <1>4, SameDebts DEF Kept
<1>6. Counted'
  BY <1>1, <1>2, SameDebts DEF IInv, Counted, Firm, Kept
<1>7. Listed'
  BY <1>1, <1>3, SameDebts DEF IInv, Listed, Firm, Projecting
<1>8. Reading'
  BY <1>3, <1>5 DEF Reading
<1> QED
  BY <1>1, <1>2, <1>3, <1>6, <1>7, <1>8, TotalsStart, TotalsPreserve

\* What a run removes was settled before the totals were read, and they count it.
LEMMA DeletePreserves == ASSUME IInv, Delete PROVE IInv'
<1>1. /\ UNCHANGED <<conf, usage, ts, fin, registered, faults, outside>>
      /\ sync.at = "delete"
      /\ row' = [x \in Requests |-> IF x \in sync.settled THEN "gone" ELSE row[x]]
  BY DEF Delete, ToDelete
<1>2. sync' \in Run /\ sync'.at = "readCurrent" /\ sync'.rows = sync.rows
  BY TotalsStart DEF Delete, Goto, Run, Steps
<1>3. row' \in [Requests -> Rows] /\ Gone' \subseteq Gone \union sync.settled
  BY <1>1, TotalsStart DEF Gone, Rows
<1>4. /\ Kept(sync.settled, 0, conf[0]) /\ Kept(sync.settled, 1, conf[1])
      /\ Kept(Gone, 0, conf[0]) /\ Kept(Gone, 1, conf[1])
      /\ Firm(Gone) /\ Firm(sync.settled)
  BY <1>1 DEF IInv, Reading, Counted, Listed, Projecting
<1>5. Counted'
  BY <1>1, <1>3, <1>4, SameDebts DEF Counted, Kept, Firm
<1>6. Listed' /\ Reading'
  BY <1>1, <1>2 DEF IInv, Listed, Reading, Projecting
<1> QED
  BY <1>1, <1>2, <1>3, <1>5, <1>6, TotalsStart, TotalsPreserve

\* The last loop.
LEMMA ReadLastPreserves == ASSUME IInv, ReadCurrent \/ ReadPrevious PROVE IInv'
<1>1. /\ UNCHANGED <<row, conf, usage, ts, fin, registered, faults, outside>>
      /\ sync.at \in {"readCurrent", "readPrevious"} /\ sync.rows \subseteq registered
  BY DEF ReadCurrent, ReadPrevious, IInv, Listed
<1>2. Gone' = Gone /\ Counted'
  BY <1>1, SameDebts DEF IInv, Counted, Gone, Firm, Kept
<1>3. sync \in Run /\ sync.month \in Months /\ listed \subseteq Charged
  BY TotalsStart DEF Typed, Run
<1>4. ASSUME NEW m \in Charged,
             \/ /\ m = sync.month
                /\ sync' = [sync EXCEPT !.first = Confirmed(m), !.at = "writeCurrent"]
             \/ /\ m = sync.month - 1
                /\ sync' = [sync EXCEPT !.first = Confirmed(m), !.at = "writePrevious"]
      PROVE  IInv'
  <2>1. /\ sync' \in Run /\ sync'.rows = sync.rows /\ sync'.first = Confirmed(m)
        /\ sync'.at \in {"writeCurrent", "writePrevious"} /\ sync'.month = sync.month
        /\ sync'.at = "writeCurrent" => m = sync'.month
        /\ sync'.at = "writePrevious" => m = sync'.month - 1
    <3>1. Confirmed(m) \in SUBSET Requests
      BY TotalsStart
    <3>2. PICK at \in {"writeCurrent", "writePrevious"} :
             /\ sync' = [sync EXCEPT !.first = Confirmed(m), !.at = at]
             /\ at = "writeCurrent" => m = sync.month
             /\ at = "writePrevious" => m = sync.month - 1
      BY <1>4
    <3> QED
      BY <1>3, <3>1, <3>2 DEF Run, Steps
  <2>2. \A x \in Gone' : x \in spent' /\ Owed(x, m)' => x \in sync'.first
    BY <1>1, <2>1, SameDebts DEF Owed
  <2>3. Reading'
    BY <2>1, <2>2 DEF Reading, Kept
  <2>4. Listed'
    BY <1>1, <2>1 DEF Listed, Projecting
  <2> QED
    BY <1>1, <1>2, <2>1, <2>3, <2>4, TotalsStart, TotalsPreserve
<1>5. CASE sync' = [sync EXCEPT !.at = "readPrevious"]
  <2>1. sync' \in Run /\ sync'.at = "readPrevious" /\ sync'.rows = sync.rows
    BY <1>3, <1>5 DEF Run, Steps
  <2>2. Listed' /\ Reading'
    BY <1>1, <2>1 DEF Listed, Reading, Projecting
  <2> QED
    BY <1>1, <1>2, <2>1, <2>2, TotalsStart, TotalsPreserve
<1>6. CASE sync' = Idle
  <2>1. sync'.at = "idle"
    BY <1>6 DEF Idle
  <2>2. Listed' /\ Reading'
    BY <2>1 DEF Listed, Reading, Projecting
  <2> QED
    BY <1>1, <1>2, <1>6, <2>1, <2>2, IdleIsRun, TotalsStart, TotalsPreserve
<1> QED
  BY <1>3, <1>4, <1>5, <1>6 DEF ReadCurrent, ReadPrevious, Projects

LEMMA WriteLastPreserves == ASSUME IInv, WriteCurrent \/ WritePrevious PROVE IInv'
<1>1. /\ UNCHANGED <<row, usage, ts, fin, registered, faults, outside>>
      /\ sync.at \in {"writeCurrent", "writePrevious"} /\ sync.rows \subseteq registered
  BY DEF WriteCurrent, WritePrevious, IInv, Listed
<1>2. PICK m \in Charged : /\ conf' = [conf EXCEPT ![m] = sync.first]
                           /\ Kept(Gone, m, sync.first)
  BY DEF WriteCurrent, WritePrevious, IInv, Reading
<1>3. /\ sync' \in Run /\ sync'.at \in {"idle", "readPrevious"}
      /\ sync'.at # "idle" => sync'.rows = sync.rows
  <2>1. CASE WriteCurrent
    BY <2>1, TotalsStart DEF WriteCurrent, Goto, Run, Steps
  <2>2. CASE WritePrevious
    BY <2>2, IdleIsRun DEF WritePrevious, Idle
  <2> QED
    BY <2>1, <2>2
<1>4. /\ Gone' = Gone /\ conf' \in [Charged -> SUBSET Requests]
      /\ conf'[m] = sync.first /\ \A p \in Charged : p # m => conf'[p] = conf[p]
  BY <1>1, <1>2, TotalsStart DEF Gone, Run
<1>5. \A p \in Charged : Kept(Gone, p, conf[p])
  BY DEF IInv, Counted, Charged
<1>6. Counted'
  <2>1. Kept(Gone, 0, conf[0])' /\ Kept(Gone, 1, conf[1])'
    BY <1>1, <1>2, <1>4, <1>5, TotalsStart, SameDebts DEF Kept
  <2> QED
    BY <1>1, <1>4, <2>1, SameDebts DEF IInv, Counted, Firm
<1>7. Listed' /\ Reading'
  BY <1>1, <1>3 DEF Listed, Reading, Projecting
<1> QED
  BY <1>1, <1>3, <1>4, <1>6, <1>7, TotalsStart, TotalsPreserve

--------------------------------------------------------------------------
\* Every step keeps the invariant.
LEMMA NextOK == IInv /\ [Next]_vars => IInv'
<1> SUFFICES ASSUME IInv, [Next]_vars PROVE IInv'
  OBVIOUS
<1>1. CASE SyncStep
  BY <1>1, ListPreserves, RegisterPreserves, LookPreserves, ReconcilePreserves, SavePreserves,
     LookSettledPreserves, ReadTotalsPreserve, WriteNextPreserves, WriteFirstPreserves,
     MarkPreserves, DeletePreserves, ReadLastPreserves, WriteLastPreserves DEF SyncStep
<1>2. CASE Crash \/ NewMonth \/ \E x \in Requests : LogArrives(x) \/ GrowOlder(x)
  BY <1>2, CrashPreserves, TimePreserves
<1>3. CASE \E x \in Requests : Admit(x) \/ \E value \in Usages : Ingest(x, value)
  BY <1>3, AdmitPreserves, IngestPreserves
<1>4. CASE UNCHANGED vars
  <2>1. Stable
    BY <1>4, SameEvidence DEF vars
  <2>2. Typed' /\ Truthful' /\ Gone' = Gone
    BY <1>4 DEF vars, IInv, Typed, TypeOK, Run, Truthful, Gone
  <2> QED
    BY <1>4, <2>1, <2>2, OutsidePreserves DEF vars
<1> QED
  BY <1>1, <1>2, <1>3, <1>4 DEF Next

\* The invariant holds of every behaviour.
THEOREM LegacyInvariant == Spec => []IInv
BY InitOK, NextOK, PTL DEF Spec

\* The table, the database and the run of the sync stay well formed.
THEOREM LegacyTyped == Spec => []TypeOK
<1>1. IInv => TypeOK
  BY DEF IInv, Typed
<1> QED
  BY <1>1, LegacyInvariant, PTL

\* An R row is removed only on evidence, never on an upper bound.
THEOREM EvidenceFrees == Spec => []OnlyEvidenceFrees
<1>1. IInv => OnlyEvidenceFrees
  BY DEF IInv, Counted, Gone, Firm, OnlyEvidenceFrees
<1> QED
  BY <1>1, LegacyInvariant, PTL

\* Usage never disappears: a request that spent tokens is charged by its R row or by a
\* C row, but for one that a late event has moved to the next month.
THEOREM UsageNeverDisappears == Spec => []NeverDisappears
<1>1. IInv => NeverDisappears
  <2> SUFFICES ASSUME IInv, NEW x \in spent, ~ IsCharged(x) PROVE MovesMonth(x)
    BY DEF NeverDisappears
  <2>1. /\ Typed /\ Truthful /\ Counted /\ x \in Requests /\ row[x] \in Rows
        /\ ts[x] \in {0, 1}
    BY DEF IInv, Typed, TypeOK, Charged
  <2>2. x \in Gone /\ x \notin conf[0] /\ x \notin conf[1]
    BY <2>1 DEF IsCharged, Gone, Rows, Charged
  <2>3. Settled(x) /\ x \in registered
    BY <2>1, <2>2 DEF Counted, Firm
  <2>4. ~ Owed(x, 0) /\ ~ Owed(x, 1)
    BY <2>1, <2>2 DEF Counted, Kept
  <2>5. x \notin Confirmed(0)
    BY <2>4 DEF Owed
  <2>6. x \in Confirmed(1) /\ fin[x] = "exact"
    BY <2>1, <2>3, <2>4, <2>5, SettledIsConfirmed DEF Owed
  <2>7. Measured(x) /\ UsageMonth(x) = 1
    BY <2>6 DEF Confirmed
  <2> QED
    BY <2>2, <2>3, <2>6, <2>7 DEF MovesMonth, UsageMonth
<1> QED
  BY <1>1, LegacyInvariant, PTL
=============================================================================
