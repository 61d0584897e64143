---------------------------- MODULE LegacyLedger ----------------------------
(* The legacy projection of usage into the gateway's budget table               *)
(* (integrations/ledger.py).  The gateway charges a scope                        *)
(*                                                                              *)
(*     C.ConfirmedUsed of the month + the Reserved of every R row of the month    *)
(*                                                                              *)
(* so a request that spent tokens is charged while its R row stands or while      *)
(* some C row written by the sync counted it.  LedgerSyncService.run lists the     *)
(* R rows, registers their admissions, looks for evidence of the stale ones in     *)
(* the gateway's log, writes the confirmed totals, and only then marks and         *)
(* deletes rows; at the end it rewrites C of the current and of the previous       *)
(* month.  Every database or table call is a step of its own: telemetry, the       *)
(* calendar and a crash of the function may come between any two.                  *)
(*                                                                              *)
(* One scope is modelled.  Its requests are admitted in month 0; their usage       *)
(* carries a timestamp of month 0 or, when it was answered after midnight, of      *)
(* month 1.  A C row is the set of requests whose spending it counts.              *)
EXTENDS FiniteSets, Naturals

CONSTANTS
    Requests,   \* requests admitted through the legacy table
    MaxFaults   \* bound on crashes of the function and failed log queries

ASSUME RequestsAssumption == IsFiniteSet(Requests)
ASSUME FaultsAssumption == MaxFaults \in Nat

\* The month of admission, the month after it, and one beyond.
Months == 0 .. 2
Charged == 0 .. 1

Rows == {"none", "open", "upper", "gone"}
Ages == {"new", "stale", "due"}
Usages == {"none", "estimated", "failed", "exact", "reconciled"}
Finalizations == {"none", "upper", "zero", "exact"}

Steps ==
    {"idle", "register", "before", "fetch", "reconcile", "judge", "save",
     "settled", "readFirst", "readNext", "writeNext", "writeFirst", "mark",
     "delete", "readCurrent", "writeCurrent", "readPrevious", "writePrevious"}

VARIABLES
    row,        \* the R row of each request in the table
    conf,       \* C of each month: the spending requests it counts
    now,        \* the calendar month
    age,        \* the recovery and the finalization lag behind each admission
    usage,      \* token_usage in PostgreSQL
    ts,         \* the month of the usage timestamp
    fin,        \* budget_reservation_finalization_effective
    registered, \* budget_reservation_admission
    log,        \* requests of which the gateway's log tells the outcome
    spent,      \* requests the model answered; the others failed for free
    strict,     \* requests admitted after the evidence cutover
    listed,     \* months in which the scope has a budget row to project
    sync,       \* the run of the timer function: where it is and what it read
    faults

vars == <<row, conf, now, age, usage, ts, fin, registered, log, spent, strict,
          listed, sync, faults>>

outside == <<now, age, log, spent, strict, listed>>

Idle ==
    [at |-> "idle", month |-> 0, rows |-> {}, marked |-> {}, stale |-> {},
     due |-> {}, unresolved |-> {}, items |-> {}, unobserved |-> {},
     finals |-> {}, uppers |-> {}, settled |-> {}, first |-> {}, next |-> {}]

Init ==
    /\ row = [x \in Requests |-> "none"]
    /\ conf = [p \in Charged |-> {}]
    /\ now = 0
    /\ age = [x \in Requests |-> "new"]
    /\ usage = [x \in Requests |-> "none"]
    /\ ts = [x \in Requests |-> 0]
    /\ fin = [x \in Requests |-> "none"]
    /\ registered = {}
    /\ log = {}
    /\ spent \in SUBSET Requests
    /\ strict \in SUBSET Requests
    /\ listed \in SUBSET Charged
    /\ sync = Idle
    /\ faults = 0

-----------------------------------------------------------------------------
(* What PostgreSQL answers. *)

\* A usage row that the evidence views accept (evidence_rank IS NOT NULL).
Measured(x) == usage[x] \in {"exact", "reconciled"}

\* settled_budget_reservations: a row of the table may be replaced by usage.
Settled(x) ==
    IF x \in strict
    THEN Measured(x) \/ fin[x] = "exact"
    ELSE Measured(x) \/ usage[x] = "failed" \/ fin[x] \in {"zero", "exact"}

\* The month in which budget_scope_confirmed_tokens counts a measured usage:
\* under the strict rules that of the admission once it is registered, else
\* that of the usage.
UsageMonth(x) == IF x \in strict /\ x \in registered THEN 0 ELSE ts[x]

\* budget_scope_confirmed_tokens of month p.  Estimated rows carry no tokens; a
\* finalization counts in the month of the reservation until usage is measured.
Confirmed(p) ==
    {x \in spent : IF Measured(x) THEN UsageMonth(x) = p
                                  ELSE fin[x] = "exact" /\ p = 0}

-----------------------------------------------------------------------------
(* Around the sync: the gateway, telemetry ingestion, the log and the clock. *)

\* The admission policy writes the R row before it forwards the request.
Admit(x) ==
    /\ now = 0 /\ row[x] = "none"
    /\ row' = [row EXCEPT ![x] = "open"]
    /\ UNCHANGED <<conf, usage, ts, fin, registered, sync, faults, outside>>

\* What the usage events of a request may say: a streamed answer is first only
\* estimated, a failure may be known only by its status.
Reported(x) == IF x \in spent THEN {"estimated", "exact"} ELSE {"failed", "exact"}

\* The first usage event inserts the row with the time of the answer; a measured
\* event that comes later replaces what was only estimated and keeps that time.
Ingest(x, value) ==
    /\ row[x] # "none" /\ value \in Reported(x)
    /\ \/ /\ usage[x] = "none"
          /\ \E p \in Charged : p <= now /\ ts' = [ts EXCEPT ![x] = p]
       \/ /\ usage[x] \in {"estimated", "failed", "reconciled"} /\ value = "exact"
          /\ UNCHANGED ts
    /\ usage' = [usage EXCEPT ![x] = value]
    /\ UNCHANGED <<row, conf, fin, registered, sync, faults, outside>>

\* The gateway's diagnostic log becomes able to tell the outcome.
LogArrives(x) ==
    /\ row[x] # "none" /\ x \notin log
    /\ log' = log \cup {x}
    /\ UNCHANGED <<row, conf, now, age, usage, ts, fin, registered, spent,
                   strict, listed, sync, faults>>

\* First the recovery lag passes, then the finalization lag.
GrowOlder(x) ==
    /\ row[x] # "none" /\ age[x] # "due"
    /\ age' = [age EXCEPT ![x] = IF @ = "new" THEN "stale" ELSE "due"]
    /\ UNCHANGED <<row, conf, now, usage, ts, fin, registered, log, spent,
                   strict, listed, sync, faults>>

\* A whole month is longer than both lags.
NewMonth ==
    /\ now < 2
    /\ now = 1 => \A x \in Requests : row[x] # "none" => age[x] = "due"
    /\ now' = now + 1
    /\ UNCHANGED <<row, conf, age, usage, ts, fin, registered, log, spent,
                   strict, listed, sync, faults>>

-----------------------------------------------------------------------------
(* LedgerSyncService.run, the only one at a time: the timer is a singleton. *)

Goto(step) == sync' = [sync EXCEPT !.at = step]

\* list_pending_partitions and list_reservations.  The moment of the run, and
\* with it the two months and the lags, is fixed here.
List ==
    /\ sync.at = "idle"
    /\ LET pending == {x \in Requests : row[x] \in {"open", "upper"}} IN
         sync' = [Idle EXCEPT
                    !.at = IF pending = {} THEN "readCurrent" ELSE "register",
                    !.month = now,
                    !.rows = pending,
                    !.marked = {x \in pending : row[x] = "upper"},
                    !.stale = {x \in pending : age[x] # "new"},
                    !.due = {x \in pending : age[x] = "due"}]
    /\ UNCHANGED <<row, conf, usage, ts, fin, registered, faults, outside>>

\* register_budget_reservations.
Register ==
    /\ sync.at = "register"
    /\ registered' = registered \cup sync.rows
    /\ Goto("before")
    /\ UNCHANGED <<row, conf, usage, ts, fin, faults, outside>>

\* _recover_reservations: the stale rows no evidence has settled yet.
Before ==
    /\ sync.at = "before"
    /\ LET open == {x \in sync.stale : ~Settled(x)} IN
         sync' = [sync EXCEPT !.unresolved = open,
                              !.at = IF open = {} THEN "settled" ELSE "fetch"]
    /\ UNCHANGED <<row, conf, usage, ts, fin, registered, faults, outside>>

\* The log can turn this outcome into a finalization: exact usage, or under the
\* old rules a terminal failure without tokens.
Finalizes(x) == x \in log /\ (x \in spent \/ x \notin strict)

\* Mutant: a row the log tells about without settling it is never given its bound.
MutUnobserved(x) == x \in sync.due \ sync.marked /\ x \notin log

\* A row past the finalization lag that the second query says nothing about.
Unobserved(x) == x \in sync.due \ sync.marked /\ ~Finalizes(x)

\* fetch_correlations, and again up to now for the rows that are due; when only
\* the second fails its rows are not taken for unobserved.
Fetch ==
    /\ sync.at = "fetch"
    /\ \/ /\ sync' = [sync EXCEPT
                        !.items = sync.unresolved \cap log,
                        !.unobserved = {x \in sync.unresolved : Unobserved(x)},
                        !.at = "reconcile"]
          /\ UNCHANGED faults
       \/ /\ faults < MaxFaults /\ faults' = faults + 1
          /\ \/ sync' = [sync EXCEPT !.items = sync.unresolved \cap log,
                                     !.at = "reconcile"]
             \/ Goto("reconcile")
    /\ UNCHANGED <<row, conf, usage, ts, fin, registered, outside>>

\* apply_reconciled_usage: fills the rows that are still unmeasured.
Reconcile ==
    /\ sync.at = "reconcile"
    /\ usage' = [x \in Requests |->
                   IF x \in sync.items /\ usage[x] = "estimated" THEN "reconciled"
                   ELSE usage[x]]
    /\ Goto("judge")
    /\ UNCHANGED <<row, conf, ts, fin, registered, faults, outside>>

\* Settled and stored usage are read again, and each row that is still open is
\* given a finalization from its evidence or, once unobserved past the lag, its
\* upper bound, unless it has one already.
Judge ==
    /\ sync.at = "judge"
    /\ LET open == {x \in sync.unresolved : ~Settled(x)}
           told == {x \in open \cap sync.items :
                      /\ x \in spent \/ x \notin strict
                      /\ usage[x] = "none" \/ x \in strict}
       IN  sync' = [sync EXCEPT
                      !.finals = told,
                      !.uppers = {x \in (open \cap sync.unobserved) \ told :
                                    fin[x] # "upper"},
                      !.at = "save"]
    /\ UNCHANGED <<row, conf, usage, ts, fin, registered, faults, outside>>

\* The condition of the INSERT: under the old rules a finalization is not stored
\* beside a usage row.
Storable(x) == x \in strict \/ usage[x] = "none"

\* save_budget_reservation_finalizations.
Save ==
    /\ sync.at = "save"
    /\ fin' = [x \in Requests |->
                 IF x \in sync.finals /\ Storable(x)
                 THEN IF x \in spent THEN "exact" ELSE "zero"
                 ELSE IF x \in sync.uppers THEN "upper" ELSE fin[x]]
    /\ Goto("settled")
    /\ UNCHANGED <<row, conf, usage, ts, registered, faults, outside>>

\* settled_before_projection, for every listed row.
LookSettled ==
    /\ sync.at = "settled"
    /\ sync' = [sync EXCEPT !.settled = {x \in sync.rows : Settled(x)},
                            !.at = "readFirst"]
    /\ UNCHANGED <<row, conf, usage, ts, fin, registered, faults, outside>>

ReadFirst ==
    /\ sync.at = "readFirst"
    /\ sync' = [sync EXCEPT !.first = Confirmed(0), !.at = "readNext"]
    /\ UNCHANGED <<row, conf, usage, ts, fin, registered, faults, outside>>

ReadNext ==
    /\ sync.at = "readNext"
    /\ sync' = [sync EXCEPT !.next = Confirmed(1), !.at = "writeNext"]
    /\ UNCHANGED <<row, conf, usage, ts, fin, registered, faults, outside>>

\* Mutant: usage answered after midnight is left to the month's own projection.
MutWritesNext == FALSE

\* Usage answered after midnight is projected into the next month.
WritesNext == sync.next # {}

WriteNext ==
    /\ sync.at = "writeNext"
    /\ conf' = IF WritesNext THEN [conf EXCEPT ![1] = sync.next] ELSE conf
    /\ Goto("writeFirst")
    /\ UNCHANGED <<row, usage, ts, fin, registered, faults, outside>>

WriteFirst ==
    /\ sync.at = "writeFirst"
    /\ conf' = [conf EXCEPT ![0] = sync.first]
    /\ Goto("mark")
    /\ UNCHANGED <<row, usage, ts, fin, registered, faults, outside>>

\* The listed rows without a mark whose effective finalization is the upper bound.
ToMark == {x \in sync.rows \ sync.marked : row[x] = "open" /\ fin[x] = "upper"}

\* mark_upper_bounds, one MERGE per row.
Mark(x) ==
    /\ sync.at = "mark" /\ x \in ToMark
    /\ row' = [row EXCEPT ![x] = "upper"]
    /\ UNCHANGED <<conf, usage, ts, fin, registered, sync, faults, outside>>

EndMark ==
    /\ sync.at = "mark" /\ ToMark = {}
    /\ Goto("delete")
    /\ UNCHANGED <<row, conf, usage, ts, fin, registered, faults, outside>>

\* Mutant: an upper bound is taken for evidence.
MutToDelete == sync.settled \cup {x \in sync.rows : fin[x] = "upper"}

\* Only what was settled before the totals were read.
ToDelete == sync.settled

\* delete_reservations: one batch, with fewer than a hundred rows.
Delete ==
    /\ sync.at = "delete"
    /\ row' = [x \in Requests |-> IF x \in ToDelete THEN "gone" ELSE row[x]]
    /\ Goto("readCurrent")
    /\ UNCHANGED <<conf, usage, ts, fin, registered, faults, outside>>

\* The last loop: C of the month of the run, then of the month before it, where
\* the scope has a budget row.
Projects(month) == month \in listed

ReadCurrent ==
    /\ sync.at = "readCurrent"
    /\ sync' = IF Projects(sync.month)
               THEN [sync EXCEPT !.first = Confirmed(sync.month), !.at = "writeCurrent"]
               ELSE [sync EXCEPT !.at = "readPrevious"]
    /\ UNCHANGED <<row, conf, usage, ts, fin, registered, faults, outside>>

WriteCurrent ==
    /\ sync.at = "writeCurrent"
    /\ conf' = [conf EXCEPT ![sync.month] = sync.first]
    /\ Goto("readPrevious")
    /\ UNCHANGED <<row, usage, ts, fin, registered, faults, outside>>

ReadPrevious ==
    /\ sync.at = "readPrevious"
    /\ sync' = IF sync.month > 0 /\ Projects(sync.month - 1)
               THEN [sync EXCEPT !.first = Confirmed(sync.month - 1),
                                 !.at = "writePrevious"]
               ELSE Idle
    /\ UNCHANGED <<row, conf, usage, ts, fin, registered, faults, outside>>

WritePrevious ==
    /\ sync.at = "writePrevious"
    /\ conf' = [conf EXCEPT ![sync.month - 1] = sync.first]
    /\ sync' = Idle
    /\ UNCHANGED <<row, usage, ts, fin, registered, faults, outside>>

\* The function is killed, or a call raises; the next timer starts afresh.
Crash ==
    /\ sync.at # "idle" /\ faults < MaxFaults
    /\ faults' = faults + 1
    /\ sync' = Idle
    /\ UNCHANGED <<row, conf, usage, ts, fin, registered, outside>>

SyncStep ==
    \/ List \/ Register \/ Before \/ Fetch \/ Reconcile \/ Judge \/ Save
    \/ LookSettled \/ ReadFirst \/ ReadNext \/ WriteNext \/ WriteFirst
    \/ (\E x \in Requests : Mark(x)) \/ EndMark \/ Delete
    \/ ReadCurrent \/ WriteCurrent \/ ReadPrevious \/ WritePrevious

Next ==
    \/ SyncStep \/ Crash \/ NewMonth
    \/ \E x \in Requests : \/ Admit(x) \/ LogArrives(x) \/ GrowOlder(x)
                           \/ \E value \in Usages : Ingest(x, value)

Spec == Init /\ [][Next]_vars

\* The timer keeps running the sync and time passes; telemetry and the log owe
\* nothing.
FairSpec ==
    /\ Spec
    /\ WF_vars(SyncStep)
    /\ WF_vars(\E x \in Requests : GrowOlder(x))

-----------------------------------------------------------------------------
(* What the projection promises. *)

\* The variables stay within their types.
TypeOK ==
    /\ row \in [Requests -> Rows]
    /\ conf \in [Charged -> SUBSET Requests]
    /\ now \in Months
    /\ age \in [Requests -> Ages]
    /\ usage \in [Requests -> Usages]
    /\ ts \in [Requests -> Charged]
    /\ fin \in [Requests -> Finalizations]
    /\ registered \subseteq Requests
    /\ log \subseteq Requests
    /\ faults \in 0 .. MaxFaults
    /\ sync.at \in Steps /\ sync.month \in Months

\* The spending of an admitted request is charged: its R row stands, or a C row
\* of one of the two months counts it.
IsCharged(x) == row[x] \in {"none", "open", "upper"} \/ \E p \in Charged : x \in conf[p]

\* A recovered request whose own usage arrived afterwards with a timestamp of the
\* next month, and whose new month has not been projected since.
MovesMonth(x) ==
    /\ x \notin strict /\ fin[x] = "exact"
    /\ Measured(x) /\ ts[x] = 1 /\ x \notin conf[1]

\* integrations/ledger.py: "A partial failure can double-count usage but can never
\* make usage disappear", for every order of the run's reads and writes, telemetry
\* and crashes; but for a request that a late event moves to the next month.
NeverDisappears == \A x \in spent : IsCharged(x) \/ MovesMonth(x)

\* An upper bound is never taken for evidence: an R row is removed only when the
\* database holds a measured usage, a failure or a finalization from the log.
OnlyEvidenceFrees ==
    \A x \in Requests : row[x] = "gone" => Settled(x)

\* Every admitted R row is in the end removed or marked as an upper bound,
\* whatever telemetry and the log leave out.
RowsEnd == \A x \in Requests : row[x] = "open" ~> row[x] \in {"upper", "gone"}
=============================================================================
